------------------------------ MODULE Scheduler ------------------------------
(***************************************************************************)
(* scheduler.py's CircadianScheduler: the beat loop, its poke, start and   *)
(* stop, as they interleave on the event loop when requests to             *)
(* /api/scheduler/start, /api/scheduler/stop and /api/chat are in flight   *)
(* at once.  One action is what runs between two awaits.                   *)
(*                                                                         *)
(* What asyncio.wait_for does with a cancellation that arrives when its    *)
(* inner future is already done depends on the interpreter: Python 3.11    *)
(* returns the result and the cancellation is gone, 3.12 raises it.  The   *)
(* project admits both (requires-python >= 3.11), so it is a choice here.  *)
(***************************************************************************)
EXTENDS Naturals, FiniteSets

CONSTANTS
    Loops,      \* bound: loop tasks alive at once; an ended one is used again
    Callers,    \* bound: requests inside stop() at once
    NoLoop

ASSUME SchedulerAssumption == NoLoop \notin Loops

VARIABLES
    lp,         \* each loop task: "new" (not yet run), "waiting" (in wait_for),
                \* "woken" (its wait is over), "yielding" (in tick's sleep(0)), "done"
    cancelled,  \* task.cancel() was called and has not been delivered
    task,       \* scheduler._task
    stopping,   \* scheduler._stopping
    poke,       \* scheduler._poke is set
    inFlight,   \* scheduler._in_flight
    awaits,     \* the loop each caller of stop() waits for
    deferred,   \* a _set that call_soon_threadsafe has queued
    unseen,     \* a user message is in the store that no beat has looked at
    overlapped  \* history: a start came while a stop was waiting

vars == <<lp, cancelled, task, stopping, poke, inFlight, awaits, deferred,
          unseen, overlapped>>
requestVars == <<task, stopping, awaits, deferred, overlapped>>

Alive(i) == lp[i] # "done"
running == task # NoLoop /\ Alive(task)

(***************************************************************************)
(* The loop.                                                               *)
(***************************************************************************)
\* Mutant: an exit that `running' does not know.
ContinueOdd(i, poked) ==
    lp' = [lp EXCEPT ![i] = IF stopping THEN "stopped"
                            ELSE IF poked THEN "woken" ELSE "waiting"]

\* Loop i is back at the head of `while not self._stopping'.
Continue(i, poked) ==
    lp' = [lp EXCEPT ![i] = IF stopping THEN "done"
                            ELSE IF poked THEN "woken" ELSE "waiting"]

\* Loop i ends with CancelledError.
Dies(i) ==
    /\ cancelled[i]
    /\ lp' = [lp EXCEPT ![i] = "done"]
    /\ cancelled' = [cancelled EXCEPT ![i] = FALSE]

FirstStep(i) ==
    /\ lp[i] = "new"
    /\ \/ Dies(i)
       \/ ~cancelled[i] /\ Continue(i, poke) /\ UNCHANGED cancelled
    /\ UNCHANGED <<poke, inFlight, unseen, requestVars>>

\* Mutant: no guard.
TickUnguarded(i) ==
    /\ inFlight' = TRUE
    /\ lp' = [lp EXCEPT ![i] = "yielding"]

\* tick: skip if a beat is in flight, else claim it and yield once.
Tick(i) ==
    \/ /\ ~inFlight
       /\ inFlight' = TRUE
       /\ lp' = [lp EXCEPT ![i] = "yielding"]
    \/ /\ inFlight
       /\ Continue(i, FALSE) /\ UNCHANGED inFlight

\* The wait returned, or a cancellation was swallowed by it.
Wakes(i) ==
    /\ lp[i] = "woken"
    /\ poke' = FALSE
    /\ Tick(i)
    /\ cancelled' = [cancelled EXCEPT ![i] = FALSE]
    /\ UNCHANGED <<unseen, requestVars>>

\* The wait raised CancelledError: return or raise, the task is over.
WaitCancelled(i) ==
    /\ lp[i] = "woken" /\ Dies(i)
    /\ UNCHANGED <<poke, inFlight, unseen, requestVars>>

\* Mutant: tick without try/finally; a beat that raises leaves the flag set.
BeatNoFinally(i) == \E ok \in BOOLEAN :
    /\ lp[i] = "yielding" /\ ~cancelled[i]
    /\ inFlight' = ~ok /\ unseen' = (unseen /\ ~ok)
    /\ Continue(i, poke)
    /\ UNCHANGED <<cancelled, poke, requestVars>>

\* The beat reads the store, whether or not it then raises; tick's finally and
\* the loop's except make both ends the same.
Beat(i) ==
    /\ lp[i] = "yielding" /\ ~cancelled[i]
    /\ inFlight' = FALSE /\ unseen' = FALSE
    /\ Continue(i, poke)
    /\ UNCHANGED <<cancelled, poke, requestVars>>

\* CancelledError is thrown into tick's sleep(0); no except Exception stops it.
BeatCancelled(i) ==
    /\ lp[i] = "yielding" /\ Dies(i)
    /\ inFlight' = FALSE
    /\ UNCHANGED <<poke, unseen, requestVars>>

Timeout(i) ==
    /\ lp[i] = "waiting"
    /\ lp' = [lp EXCEPT ![i] = "woken"]
    /\ UNCHANGED <<cancelled, poke, inFlight, unseen, requestVars>>

LoopStep(i) ==
    FirstStep(i) \/ Wakes(i) \/ WaitCancelled(i) \/ Beat(i) \/ BeatCancelled(i)

(***************************************************************************)
(* The requests.                                                           *)
(***************************************************************************)
\* asyncio.Event.set resolves every waiter.
SetPoke ==
    /\ poke' = TRUE
    /\ lp' = [i \in Loops |-> IF lp[i] = "waiting" THEN "woken" ELSE lp[i]]

\* chat, which runs without an await: the message is stored; a poke is queued
\* for the loop if one is running.
Chat ==
    /\ unseen' = TRUE
    /\ deferred' = (deferred \/ running)
    /\ UNCHANGED <<lp, cancelled, task, stopping, poke, inFlight, awaits, overlapped>>

Poke ==
    /\ deferred /\ deferred' = FALSE
    /\ SetPoke
    /\ UNCHANGED <<cancelled, task, stopping, inFlight, awaits, unseen, overlapped>>

start == \E i \in Loops :
    /\ ~running
    /\ ~Alive(i) /\ \A c \in Callers : awaits[c] # i
    /\ task' = i /\ stopping' = FALSE
    /\ lp' = [lp EXCEPT ![i] = "new"]
    /\ overlapped' = (overlapped \/ \E c \in Callers : awaits[c] # NoLoop)
    /\ UNCHANGED <<cancelled, poke, inFlight, awaits, deferred, unseen>>

\* Mutant: stop sets the flag and the poke and does not wait for the task.
stopNoWait(c) ==
    /\ awaits[c] = NoLoop /\ task # NoLoop
    /\ stopping' = TRUE
    /\ SetPoke
    /\ task' = NoLoop
    /\ UNCHANGED <<cancelled, awaits, inFlight, deferred, unseen, overlapped>>

\* Mutant: stop cancels the task but sets neither the flag nor the poke.
stopQuiet(c) ==
    /\ awaits[c] = NoLoop /\ task # NoLoop
    /\ lp' = [i \in Loops |-> IF i = task /\ lp[i] = "waiting" THEN "woken" ELSE lp[i]]
    /\ cancelled' = [cancelled EXCEPT ![task] = Alive(task)]
    /\ awaits' = [awaits EXCEPT ![c] = task]
    /\ task' = NoLoop
    /\ UNCHANGED <<stopping, poke, inFlight, deferred, unseen, overlapped>>

stop(c) ==
    /\ awaits[c] = NoLoop /\ task # NoLoop
    /\ stopping' = TRUE
    /\ SetPoke
    /\ cancelled' = [cancelled EXCEPT ![task] = Alive(task)]
    /\ awaits' = [awaits EXCEPT ![c] = task]
    /\ task' = NoLoop
    /\ UNCHANGED <<inFlight, deferred, unseen, overlapped>>

stopReturns(c) ==
    /\ awaits[c] # NoLoop /\ ~Alive(awaits[c])
    /\ awaits' = [awaits EXCEPT ![c] = NoLoop]
    /\ poke' = FALSE
    /\ UNCHANGED <<lp, cancelled, task, stopping, inFlight, deferred, unseen, overlapped>>

Init ==
    /\ lp = [i \in Loops |-> "done"] /\ cancelled = [i \in Loops |-> FALSE]
    /\ task = NoLoop /\ stopping = FALSE
    /\ poke = FALSE /\ deferred = FALSE /\ inFlight = FALSE
    /\ awaits = [c \in Callers |-> NoLoop]
    /\ unseen = FALSE /\ overlapped = FALSE

Next ==
    \/ \E i \in Loops : LoopStep(i) \/ Timeout(i)
    \/ Chat \/ Poke \/ start
    \/ \E c \in Callers : stop(c) \/ stopReturns(c)

Spec == Init /\ [][Next]_vars

\* The event loop runs what is ready.  No timer has to fire and no request to come.
FairSpec ==
    /\ Spec
    /\ \A i \in Loops : WF_vars(LoopStep(i))
    /\ WF_vars(Poke)
    /\ \A c \in Callers : WF_vars(stopReturns(c))

(***************************************************************************)
(* Properties.                                                             *)
(***************************************************************************)
TypeOK ==
    /\ lp \in [Loops -> {"new", "waiting", "woken", "yielding", "done"}]
    /\ cancelled \in [Loops -> BOOLEAN]
    /\ task \in Loops \cup {NoLoop}
    /\ awaits \in [Callers -> Loops \cup {NoLoop}]
    /\ stopping \in BOOLEAN /\ poke \in BOOLEAN /\ inFlight \in BOOLEAN
    /\ deferred \in BOOLEAN /\ unseen \in BOOLEAN /\ overlapped \in BOOLEAN

\* The in-flight flag of tick is the claim of exactly one loop, also while an old
\* loop that a stop still waits for and a new one live side by side; when that
\* loop ends, by whatever error or cancellation, the flag goes with it.
OneBeat ==
    /\ inFlight <=> \E i \in Loops : lp[i] = "yielding"
    /\ \A i, j \in Loops : lp[i] = "yielding" /\ lp[j] = "yielding" => i = j

\* A loop task that is alive is the scheduler's own or one that a stop() still
\* waits for: once every stop has returned and none was restarted, nothing beats.
LoopOwned == \A i \in Loops :
    Alive(i) => i = task \/ \E c \in Callers : awaits[c] = i

\* A poke queued for a user message is followed by a beat that reads the store, or
\* by a stop, without the help of any timer: neither the clear after the wait nor a
\* skipped tick nor a beat that raises can lose it, as long as no start overlapped
\* a stop (whose last act is to clear the poke).
MessageSeen == deferred ~> (~unseen \/ task = NoLoop \/ overlapped)

\* A stop() that no start overlaps returns, though the cancellation it sends may be
\* swallowed by the wait.
StopsUnlessRestarted ==
    \A c \in Callers : awaits[c] # NoLoop ~> awaits[c] = NoLoop \/ overlapped
==============================================================================
