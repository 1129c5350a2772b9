--------------------------- MODULE SchedulerProofs ---------------------------
(***************************************************************************)
(* Theorems about Scheduler, for any number of loop tasks alive at once    *)
(* and of concurrent stop() calls.                                         *)
(***************************************************************************)
EXTENDS Scheduler, TLAPS

\* A step in which no loop starts or leaves a beat keeps OneBeat; nor does it
\* matter to LoopOwned which of the living states a loop is in.
LEMMA PokeKeeps ==
    ASSUME TypeOK, SetPoke
    PROVE  /\ lp' \in [Loops -> {"new", "waiting", "woken", "yielding", "done"}]
           /\ poke' \in BOOLEAN
           /\ \A i \in Loops : /\ lp'[i] = "yielding" <=> lp[i] = "yielding"
                               /\ lp'[i] = "done" <=> lp[i] = "done"
  BY DEF TypeOK, SetPoke

\* The variables keep the shape the code gives them.
THEOREM TypeCorrect == Spec => []TypeOK
<1>1. Init => TypeOK
  BY DEF Init, TypeOK
<1>2. TypeOK /\ [Next]_vars => TypeOK'
  <2> SUFFICES ASSUME TypeOK, [Next]_vars PROVE TypeOK'
    OBVIOUS
  <2>1. ASSUME NEW i \in Loops, LoopStep(i) \/ Timeout(i) PROVE TypeOK'
    BY <2>1 DEF TypeOK, LoopStep, FirstStep, Wakes, WaitCancelled, Beat, BeatCancelled,
                Timeout, Continue, Dies, Tick, requestVars
  <2>2. CASE Chat
    BY <2>2 DEF TypeOK, Chat, running, Alive
  <2>3. CASE Poke
    BY <2>3, PokeKeeps DEF TypeOK, Poke
  <2>4. CASE start
    BY <2>4 DEF TypeOK, start
  <2>5. ASSUME NEW c \in Callers, stop(c) PROVE TypeOK'
    <3>1. SetPoke /\ task \in Loops
      BY <2>5 DEF stop, TypeOK
    <3> QED
      BY <2>5, <3>1, PokeKeeps DEF TypeOK, stop, Alive
  <2>6. ASSUME NEW c \in Callers, stopReturns(c) PROVE TypeOK'
    BY <2>6 DEF TypeOK, stopReturns
  <2>7. CASE UNCHANGED vars
    BY <2>7 DEF TypeOK, vars
  <2> QED
    BY <2>1, <2>2, <2>3, <2>4, <2>5, <2>6, <2>7 DEF Next
<1> QED
  BY <1>1, <1>2, PTL DEF Spec

\* The in-flight flag is at all times the claim of exactly the one loop that is in a
\* beat, however many loops are alive.
THEOREM OneBeatAlways == Spec => []OneBeat
<1>1. Init => OneBeat
  BY DEF Init, OneBeat
<1>2. TypeOK /\ OneBeat /\ [Next]_vars => OneBeat'
  <2> SUFFICES ASSUME TypeOK, OneBeat, [Next]_vars PROVE OneBeat'
    OBVIOUS
  <2>1. ASSUME NEW i \in Loops, LoopStep(i) \/ Timeout(i) PROVE OneBeat'
    <3>1. CASE FirstStep(i) \/ WaitCancelled(i) \/ Timeout(i)
      BY <3>1 DEF TypeOK, OneBeat, FirstStep, WaitCancelled, Timeout, Continue, Dies
    <3>2. CASE Wakes(i)
      BY <3>2 DEF TypeOK, OneBeat, Wakes, Tick, Continue
    <3>3. CASE Beat(i) \/ BeatCancelled(i)
      BY <3>3 DEF TypeOK, OneBeat, Beat, BeatCancelled, Continue, Dies
    <3> QED
      BY <2>1, <3>1, <3>2, <3>3 DEF LoopStep
  <2>2. CASE Chat
    BY <2>2 DEF OneBeat, Chat
  <2>3. CASE Poke
    BY <2>3, PokeKeeps DEF OneBeat, Poke
  <2>4. CASE start
    BY <2>4 DEF TypeOK, OneBeat, start, Alive
  <2>5. ASSUME NEW c \in Callers, stop(c) PROVE OneBeat'
    BY <2>5, PokeKeeps DEF OneBeat, stop
  <2>6. ASSUME NEW c \in Callers, stopReturns(c) PROVE OneBeat'
    BY <2>6 DEF OneBeat, stopReturns
  <2>7. CASE UNCHANGED vars
    BY <2>7 DEF OneBeat, vars
  <2> QED
    BY <2>1, <2>2, <2>3, <2>4, <2>5, <2>6, <2>7 DEF Next
<1> QED
  BY <1>1, <1>2, TypeCorrect, PTL DEF Spec

\* Every living loop is the scheduler's own or one that a stop() waits for.
THEOREM LoopOwnedAlways == Spec => []LoopOwned
<1>1. Init => LoopOwned
  BY DEF Init, LoopOwned, Alive
<1>2. TypeOK /\ LoopOwned /\ [Next]_vars => LoopOwned'
  <2> SUFFICES ASSUME TypeOK, LoopOwned, [Next]_vars PROVE LoopOwned'
    OBVIOUS
  <2>1. ASSUME NEW i \in Loops, LoopStep(i) \/ Timeout(i) PROVE LoopOwned'
    <3>1. /\ UNCHANGED <<task, awaits>>
          /\ \A j \in Loops : lp'[j] # "done" => lp[j] # "done"
      BY <2>1 DEF TypeOK, LoopStep, FirstStep, Wakes, WaitCancelled, Beat, BeatCancelled,
                  Timeout, Continue, Dies, Tick, requestVars
    <3> QED
      BY <3>1 DEF LoopOwned, Alive
  <2>2. CASE Chat
    BY <2>2 DEF LoopOwned, Chat, Alive
  <2>3. CASE Poke
    BY <2>3, PokeKeeps DEF LoopOwned, Poke, Alive
  <2>4. CASE start
    BY <2>4, SchedulerAssumption DEF TypeOK, LoopOwned, start, running, Alive
  <2>5. ASSUME NEW c \in Callers, stop(c) PROVE LoopOwned'
    BY <2>5, PokeKeeps, SchedulerAssumption DEF TypeOK, LoopOwned, stop, Alive
  <2>6. ASSUME NEW c \in Callers, stopReturns(c) PROVE LoopOwned'
    BY <2>6 DEF TypeOK, LoopOwned, stopReturns, Alive
  <2>7. CASE UNCHANGED vars
    BY <2>7 DEF LoopOwned, vars, Alive
  <2> QED
    BY <2>1, <2>2, <2>3, <2>4, <2>5, <2>6, <2>7 DEF Next
<1> QED
  BY <1>1, <1>2, TypeCorrect, PTL DEF Spec

(***************************************************************************)
(* What no timer is needed for: the safety half of MessageSeen and of      *)
(* StopsUnlessRestarted.                                                   *)
(***************************************************************************)
\* A stop() that no start overlapped has raised the flag and waits for a loop that
\* does not sleep: no cadence timer stands between it and its return.
StopAwake == ~overlapped => \A c \in Callers :
    awaits[c] # NoLoop => stopping /\ lp[awaits[c]] # "waiting"

\* Until a start overlaps a stop the scheduler's task is alive, was not told to stop
\* and lives alone; a cancellation is only ever under way to a loop that is alive.
Undisturbed ==
    /\ \A i \in Loops : cancelled[i] => Alive(i)
    /\ ~overlapped /\ task # NoLoop =>
         /\ Alive(task) /\ ~stopping /\ ~cancelled[task]
         /\ \A c \in Callers : awaits[c] = NoLoop

\* Something the event loop runs by itself leads the scheduler's task to a beat: a
\* queued poke, a wait that is over, a beat that is due, or, for a task that has not
\* run yet, the flag it will find set.
OnItsWay ==
    /\ task # NoLoop
    /\ deferred \/ lp[task] \in {"woken", "yielding"} \/ (poke /\ lp[task] = "new")

LoopInv == TypeOK /\ OneBeat /\ LoopOwned /\ Undisturbed /\ StopAwake

LEMMA LoopSteps ==
    ASSUME TypeOK, NEW i \in Loops, LoopStep(i) \/ Timeout(i)
    PROVE  /\ UNCHANGED <<task, stopping, awaits, deferred, overlapped>>
           /\ \A j \in Loops : j # i => lp'[j] = lp[j] /\ cancelled'[j] = cancelled[j]
           /\ lp[i] # "done"
           /\ cancelled'[i] => cancelled[i] /\ lp[i] = "waiting" /\ lp'[i] = "woken"
           /\ lp'[i] = "done" => stopping \/ cancelled[i]
           /\ lp'[i] = "waiting" => ~stopping
<1>1. CASE FirstStep(i)
  BY <1>1 DEF FirstStep, Dies, Continue, TypeOK, requestVars
<1>2. CASE Wakes(i)
  BY <1>2 DEF Wakes, Tick, Continue, TypeOK, requestVars
<1>3. CASE WaitCancelled(i)
  BY <1>3 DEF WaitCancelled, Dies, TypeOK, requestVars
<1>4. CASE Beat(i)
  BY <1>4 DEF Beat, Continue, TypeOK, requestVars
<1>5. CASE BeatCancelled(i)
  BY <1>5 DEF BeatCancelled, Dies, TypeOK, requestVars
<1>6. CASE Timeout(i)
  BY <1>6 DEF Timeout, TypeOK, requestVars
<1> QED
  BY <1>1, <1>2, <1>3, <1>4, <1>5, <1>6 DEF LoopStep

LEMMA UndisturbedHolds ==
    ASSUME LoopInv, [Next]_vars
    PROVE  Undisturbed' /\ StopAwake'
<1> USE SchedulerAssumption
<1>t. TypeOK
  BY DEF LoopInv
<1>1. ASSUME NEW i \in Loops, LoopStep(i) \/ Timeout(i) PROVE Undisturbed' /\ StopAwake'
  <2>1. Undisturbed'
    BY <1>1, <1>t, LoopSteps DEF LoopInv, Undisturbed, Alive, TypeOK
  <2>2. StopAwake'
    BY <1>1, <1>t, LoopSteps DEF LoopInv, StopAwake, TypeOK
  <2> QED
    BY <2>1, <2>2
<1>2. CASE Chat
  BY <1>2 DEF LoopInv, Undisturbed, StopAwake, Chat, Alive
<1>3. CASE Poke
  <2>1. Undisturbed'
    BY <1>3, <1>t, PokeKeeps DEF LoopInv, Undisturbed, Poke, Alive, TypeOK
  <2>2. StopAwake'
    BY <1>3, <1>t DEF LoopInv, StopAwake, Poke, SetPoke, TypeOK
  <2> QED
    BY <2>1, <2>2
<1>4. CASE start
  <2>1. Undisturbed'
    BY <1>4, <1>t DEF LoopInv, Undisturbed, start, Alive, TypeOK
  <2>2. StopAwake'
    BY <1>4, <1>t DEF LoopInv, StopAwake, start, TypeOK
  <2> QED
    BY <2>1, <2>2
<1>5. ASSUME NEW c \in Callers, stop(c) PROVE Undisturbed' /\ StopAwake'
  <2>1. SetPoke /\ task \in Loops
    BY <1>5, <1>t DEF stop, TypeOK
  <2>2. Undisturbed'
    BY <1>5, <1>t, <2>1, PokeKeeps DEF LoopInv, Undisturbed, stop, Alive, TypeOK
  <2>3. StopAwake'
    BY <1>5, <1>t, <2>1 DEF LoopInv, Undisturbed, StopAwake, stop, SetPoke, TypeOK
  <2> QED
    BY <2>2, <2>3
<1>6. ASSUME NEW c \in Callers, stopReturns(c) PROVE Undisturbed' /\ StopAwake'
  BY <1>6, <1>t DEF LoopInv, Undisturbed, StopAwake, stopReturns, Alive, TypeOK
<1>7. CASE UNCHANGED vars
  BY <1>7 DEF LoopInv, Undisturbed, StopAwake, vars, Alive
<1> QED
  BY <1>1, <1>2, <1>3, <1>4, <1>5, <1>6, <1>7 DEF Next

LEMMA LoopInvariant == Spec => []LoopInv
<1>1. Init => Undisturbed /\ StopAwake
  BY DEF Init, Undisturbed, StopAwake
<1>2. TypeOK /\ OneBeat /\ LoopOwned /\ Undisturbed /\ StopAwake /\ [Next]_vars
        => Undisturbed' /\ StopAwake'
  BY UndisturbedHolds DEF LoopInv
<1>3. TypeOK /\ OneBeat /\ LoopOwned /\ Undisturbed /\ StopAwake <=> LoopInv
  BY DEF LoopInv
<1> QED
  BY <1>1, <1>2, <1>3, TypeCorrect, OneBeatAlways, LoopOwnedAlways, PTL DEF Spec

\* A stop() that no start overlapped never waits for a loop that sleeps, also when
\* the interpreter swallowed the cancellation it sent: what it waits for is ready.
THEOREM StopNeverSleeps == Spec => []StopAwake
<1>1. LoopInv => StopAwake
  BY DEF LoopInv
<1> QED
  BY <1>1, LoopInvariant, PTL

\* While no start has overlapped a stop, a skipped tick cannot happen: the loop that
\* wakes finds no other beat in flight.
LEMMA WakesToBeat ==
    ASSUME LoopInv, NEW i \in Loops, Wakes(i), ~overlapped, task # NoLoop, i = task
    PROVE  lp'[i] = "yielding"
<1>1. \A j \in Loops : Alive(j) => j = task
  BY SchedulerAssumption DEF LoopInv, Undisturbed, LoopOwned
<1>2. ~inFlight
  BY <1>1 DEF LoopInv, OneBeat, Wakes, Alive
<1> QED
  BY <1>2 DEF Wakes, Tick, LoopInv, TypeOK

\* The safety half of MessageSeen: while a loop runs that no start overlapping a stop
\* has disturbed, a step that queues a poke for a user message puts a beat on its
\* way, and from then on every step keeps it on its way until the message is seen or
\* the loop stopped; clearing the poke after a wait never drops it.
THEOREM PokeKept ==
    Spec => [][/\ OnItsWay \/ (~deferred /\ deferred')
               /\ unseen' /\ task' # NoLoop /\ ~overlapped'
               => OnItsWay']_vars
<1> DEFINE Kept == /\ OnItsWay \/ (~deferred /\ deferred')
                   /\ unseen' /\ task' # NoLoop /\ ~overlapped'
                   => OnItsWay'
<1>1. LoopInv /\ [Next]_vars => [Kept]_vars
  <2> SUFFICES ASSUME LoopInv, Next,
                      OnItsWay \/ (~deferred /\ deferred'),
                      unseen', task' # NoLoop, ~overlapped'
               PROVE  OnItsWay'
    OBVIOUS
  <2> USE SchedulerAssumption
  <2>t. TypeOK
    BY DEF LoopInv
  <2>1. ASSUME NEW i \in Loops, LoopStep(i) \/ Timeout(i) PROVE OnItsWay'
    <3>1. /\ UNCHANGED <<task, deferred, overlapped>> /\ task \in Loops
          /\ i # task => lp'[task] = lp[task]
      BY <2>1, <2>t, LoopSteps DEF TypeOK
    <3>2. CASE deferred
      BY <3>1, <3>2 DEF OnItsWay
    <3>3. \A j \in Loops : Alive(j) => j = task
      BY <3>1 DEF LoopInv, Undisturbed, LoopOwned
    <3>4. i = task /\ ~cancelled[i] /\ ~stopping
      BY <2>1, <2>t, <3>1, <3>3, LoopSteps DEF LoopInv, Undisturbed, Alive
    <3>5. CASE FirstStep(i) /\ ~deferred
      BY <2>t, <3>1, <3>4, <3>5 DEF FirstStep, Dies, Continue, OnItsWay, TypeOK
    <3>6. CASE Wakes(i)
      BY <3>1, <3>4, <3>6, WakesToBeat DEF OnItsWay
    <3>7. CASE WaitCancelled(i) \/ BeatCancelled(i)
      BY <3>4, <3>7 DEF WaitCancelled, BeatCancelled, Dies
    <3>8. CASE Beat(i)
      BY <3>8 DEF Beat
    <3>9. CASE Timeout(i)
      BY <2>t, <3>1, <3>4, <3>9 DEF Timeout, OnItsWay, TypeOK
    <3> QED
      BY <2>1, <3>2, <3>5, <3>6, <3>7, <3>8, <3>9, <3>1 DEF LoopStep, OnItsWay
  <2>2. CASE Chat
    BY <2>2 DEF Chat, OnItsWay
  <2>3. CASE Poke
    <3>1. task \in Loops /\ Alive(task) /\ UNCHANGED task
      BY <2>3, <2>t DEF Poke, LoopInv, Undisturbed, TypeOK
    <3>2. lp'[task] = (IF lp[task] = "waiting" THEN "woken" ELSE lp[task]) /\ poke'
      BY <2>3, <3>1 DEF Poke, SetPoke
    <3> QED
      BY <2>t, <3>1, <3>2 DEF OnItsWay, TypeOK, Alive
  <2>4. CASE start
    BY <2>4, <2>t DEF start, running, LoopInv, Undisturbed, OnItsWay, TypeOK
  <2>5. ASSUME NEW c \in Callers, stop(c) PROVE OnItsWay'
    BY <2>5 DEF stop
  <2>6. ASSUME NEW c \in Callers, stopReturns(c) PROVE OnItsWay'
    BY <2>6 DEF stopReturns, LoopInv, Undisturbed, OnItsWay
  <2> QED
    BY <2>1, <2>2, <2>3, <2>4, <2>5, <2>6 DEF Next
<1> QED
  BY <1>1, LoopInvariant, PTL DEF Spec
==============================================================================
