------------------------------- MODULE Agency -------------------------------
(***************************************************************************)
(* The bounded action layer of the resident (agency/service.py with the    *)
(* gate of agency/policy.py): one asyncio task per submitted intent, the   *)
(* single-flight lock, the append-only event store they all write, the     *)
(* dedup that answers a repeated submission from the store, crashes of the *)
(* process at any point between two appends, and the recovery a start-up   *)
(* runs (AgencyService.recover_open_deeds in main.py's lifespan).          *)
(*                                                                         *)
(* An event's id is its position in `log'.  A DEED is named by its         *)
(* intent.proposed event, as in the code.  Between two awaits a task holds *)
(* the event loop, so no other task runs; threads of the HTTP worker pool  *)
(* may append unrelated events at any time, and the process may die.       *)
(***************************************************************************)
EXTENDS Integers, Sequences, FiniteSetsExt

CONSTANTS
    Tasks,        \* asyncio tasks: HTTP requests and the Mind's proposals
    NoTask,
    Idents,       \* normalised (text, capability) pairs an intent can have
    NoIdent,
    Keys,         \* explicit idempotency keys of clients
    NoKey,
    DeedScan,     \* deed_scan_limit: newest events a deed lookup reads
    IntentScan,   \* newest intents the dedup reads (200)
    Window,       \* dedup_window_h in clock ticks
    MaxDeeds,     \* bound: intents ever proposed
    MaxNoise,     \* bound: unrelated events
    MaxTime,      \* bound: clock
    MaxCrashes,   \* bound: process deaths
    MaxFaults     \* bound: appends that raise

ASSUME AgencyAssumption ==
    /\ NoTask \notin Tasks /\ NoIdent \notin Idents /\ NoKey \notin Keys
    /\ DeedScan \in Nat \ {0} /\ IntentScan \in Nat \ {0} /\ Window \in Nat
    /\ MaxDeeds \in Nat /\ MaxNoise \in Nat /\ MaxTime \in Nat
    /\ MaxCrashes \in Nat /\ MaxFaults \in Nat

VARIABLES
    log,       \* the event store, in seq order
    mode,      \* the process: "down", "recovering" (lifespan), "up"
    granted,   \* the intents whose capability the deployed policy allows
    pc,        \* where each task stands in intake
    deed,      \* the intent a task works on, 0 if none
    ended,     \* the status of the RunResult a task has to record
    term,      \* the terminal event a task has to anchor, 0 if none
    holder,    \* the task inside `async with self._lock'
    queue,     \* the lock's waiters, oldest first
    rec,       \* the progress of recover_open_deeds
    now,       \* wall clock, in the dedup window's ticks
    crashes, faults,
    named      \* history: the deeds each key's submissions were answered with

vars == <<log, mode, granted, pc, deed, ended, term, holder, queue, rec, now,
          crashes, faults, named>>
taskVars == <<pc, deed, ended, term, holder, queue>>
envVars == <<mode, granted, rec, now, crashes, faults>>

Terminals == {"intent.rejected", "action.completed", "action.failed"}
EventTypes == Terminals \union
    {"intent.proposed", "action.started", "experience.created", "other"}

Event(type, cause) ==
    [type |-> type, cause |-> cause, ident |-> NoIdent, key |-> NoKey, at |-> 0]
Intent(ident, key) ==
    [type |-> "intent.proposed", cause |-> 0, ident |-> ident, key |-> key, at |-> now]
Put(event) == log' = Append(log, event)

Intents == {e \in DOMAIN log : log[e].type = "intent.proposed"}

(***************************************************************************)
(* The store lookups.  A lookup made when the log had n events reads the   *)
(* DeedScan newest of them; an index keeps the oldest entry it sees.       *)
(***************************************************************************)
First(S) == IF S = {} THEN 0 ELSE Min(S)
Last(S)  == IF S = {} THEN 0 ELSE Max(S)

\* Mutant: the oldest-first scan the comment at _DEED_SCAN_LIMIT warns of.
ScanOldest(n) == {e \in 1..n : e <= DeedScan}

Scan(n) == {e \in 1..n : e > n - DeedScan}

ChildrenIn(n, types, parent) ==
    {e \in Scan(n) : log[e].type \in types /\ log[e].cause = parent}

StartedIn(n, d) == First(ChildrenIn(n, {"action.started"}, d))

\* Mutant: the terminal a recovery wrote, citing action.started, is not found.
TerminalInDirect(n, d) == First(ChildrenIn(n, Terminals, d))

\* A terminal cites the intent (live path) or its action.started (recovery).
TerminalIn(n, d) ==
    LET direct == First(ChildrenIn(n, Terminals, d))
        s      == StartedIn(n, d)
    IN  IF direct # 0 THEN direct
        ELSE IF s # 0 THEN First(ChildrenIn(n, Terminals, s)) ELSE 0

RecentIntents ==
    {d \in Intents : Cardinality({f \in Intents : f > d}) < IntentScan}

\* Mutant: the key is looked for on the newest intent only.
DeedByKeyNewest(key) == {d \in {Last(Intents)} \ {0} : key # NoKey /\ log[d].key = key}
DeedByKey(key) == {d \in RecentIntents : key # NoKey /\ log[d].key = key}

\* Mutant: a deed exactly as old as the window no longer counts.
RecentDeedCandidatesStrict(ident) ==
    {d \in RecentIntents :
        /\ log[d].ident = ident
        /\ \A f \in RecentIntents : f >= d => now - log[f].at < Window}

\* The scan is newest first and stops at the first intent older than the window.
RecentDeedCandidates(ident) ==
    {d \in RecentIntents :
        /\ log[d].ident = ident
        /\ \A f \in RecentIntents : f >= d => now - log[f].at <= Window}

\* Natural dedup passes over a deed whose terminal is a rejection.
Satisfies(d) ==
    LET e == TerminalIn(Len(log), d)
    IN  e # 0 => log[e].type # "intent.rejected"

\* The deed a submission is answered with, 0 when it is a new one.
ExistingDeed(ident, key) ==
    IF DeedByKey(key) # {} THEN Max(DeedByKey(key))
    ELSE Last({d \in RecentDeedCandidates(ident) : Satisfies(d)})

(***************************************************************************)
(* Intake (service.py intake), one action per stretch between two appends. *)
(***************************************************************************)
LoopFree == \A t \in Tasks : pc[t] \notin {"gate", "start", "record", "anchor"}

Leave(t) ==
    /\ pc' = [pc EXCEPT ![t] = "idle"]
    /\ deed' = [deed EXCEPT ![t] = 0]
    /\ ended' = [ended EXCEPT ![t] = "action.failed"]
    /\ term' = [term EXCEPT ![t] = 0]

Answer(key, d) == named' = named \union (IF key = NoKey THEN {} ELSE {<<key, d>>})

\* A repeated submission is answered from the store; nothing is appended.
Deduplicate(t, ident, key) ==
    /\ mode = "up" /\ LoopFree /\ pc[t] = "idle"
    /\ ExistingDeed(ident, key) # 0
    /\ Answer(key, ExistingDeed(ident, key))
    /\ UNCHANGED <<log, taskVars, envVars>>

Propose(t, ident, key) ==
    /\ mode = "up" /\ LoopFree /\ pc[t] = "idle"
    /\ ExistingDeed(ident, key) = 0
    /\ Cardinality(Intents) < MaxDeeds
    /\ Put(Intent(ident, key))
    /\ pc' = [pc EXCEPT ![t] = "gate"]
    /\ deed' = [deed EXCEPT ![t] = Len(log) + 1]
    /\ Answer(key, Len(log) + 1)
    /\ UNCHANGED <<ended, term, holder, queue, envVars>>

Allowed(t) == log[deed[t]].ident \in granted

Reject(t) ==
    /\ pc[t] = "gate" /\ ~Allowed(t)
    /\ Put(Event("intent.rejected", deed[t]))
    /\ Leave(t)
    /\ UNCHANGED <<holder, queue, envVars, named>>

\* Mutant: the lock does not exclude.
AdmitUnlocked(t) ==
    /\ pc[t] = "gate" /\ Allowed(t)
    /\ holder' = t
    /\ pc' = [pc EXCEPT ![t] = "start"]
    /\ UNCHANGED <<queue, log, deed, ended, term, envVars, named>>

\* asyncio.Lock: taken at once only when it is free and nobody waits for it.
Admit(t) ==
    /\ pc[t] = "gate" /\ Allowed(t)
    /\ IF holder = NoTask /\ queue = <<>>
       THEN /\ holder' = t
            /\ pc' = [pc EXCEPT ![t] = "start"]
            /\ UNCHANGED queue
       ELSE /\ queue' = Append(queue, t)
            /\ pc' = [pc EXCEPT ![t] = "queued"]
            /\ UNCHANGED holder
    /\ UNCHANGED <<log, deed, ended, term, envVars, named>>

Acquire(t) ==
    /\ LoopFree /\ holder = NoTask
    /\ queue # <<>> /\ Head(queue) = t
    /\ holder' = t
    /\ queue' = Tail(queue)
    /\ pc' = [pc EXCEPT ![t] = "start"]
    /\ UNCHANGED <<log, deed, ended, term, envVars, named>>

Start(t) ==
    /\ pc[t] = "start"
    /\ Put(Event("action.started", deed[t]))
    /\ pc' = [pc EXCEPT ![t] = "running"]
    /\ UNCHANGED <<deed, ended, term, holder, queue, envVars, named>>

\* Mutants of RunReturns: a failed run is retried; a failed run keeps the lock;
\* a failed run is recorded under a type of its own.
RunReturnsRetry(t, status) ==
    /\ pc[t] = "running" /\ LoopFree
    /\ holder' = IF status = "action.failed" THEN t ELSE NoTask
    /\ ended' = [ended EXCEPT ![t] = status]
    /\ pc' = [pc EXCEPT ![t] = IF status = "action.failed" THEN "start" ELSE "record"]
    /\ UNCHANGED <<log, deed, term, queue, envVars, named>>

RunReturnsLocked(t, status) ==
    /\ pc[t] = "running" /\ LoopFree
    /\ holder' = IF status = "action.failed" THEN t ELSE NoTask
    /\ ended' = [ended EXCEPT ![t] = status]
    /\ pc' = [pc EXCEPT ![t] = "record"]
    /\ UNCHANGED <<log, deed, term, queue, envVars, named>>

RunReturnsTimeout(t, status) ==
    /\ pc[t] = "running" /\ LoopFree
    /\ holder' = NoTask
    /\ ended' = [ended EXCEPT ![t] =
                   IF status = "action.failed" THEN "action.timeout" ELSE status]
    /\ pc' = [pc EXCEPT ![t] = "record"]
    /\ UNCHANGED <<log, deed, term, queue, envVars, named>>

\* runner.run returned, or raised and was converted into a failed RunResult;
\* leaving the `async with' releases the lock before the outcome is recorded.
RunReturns(t, status) ==
    /\ pc[t] = "running" /\ LoopFree
    /\ holder' = NoTask
    /\ ended' = [ended EXCEPT ![t] = status]
    /\ pc' = [pc EXCEPT ![t] = "record"]
    /\ UNCHANGED <<log, deed, term, queue, envVars, named>>

\* Mutant: a run that failed on a denied tool is recorded as a rejection.
RecordRejected(t) ==
    /\ pc[t] = "record"
    /\ Put(Event(IF ended[t] = "action.failed" THEN "intent.rejected" ELSE ended[t], deed[t]))
    /\ term' = [term EXCEPT ![t] = Len(log) + 1]
    /\ pc' = [pc EXCEPT ![t] = "anchor"]
    /\ UNCHANGED <<deed, ended, holder, queue, envVars, named>>

Record(t) ==
    /\ pc[t] = "record"
    /\ Put(Event(ended[t], deed[t]))
    /\ term' = [term EXCEPT ![t] = Len(log) + 1]
    /\ pc' = [pc EXCEPT ![t] = "anchor"]
    /\ UNCHANGED <<deed, ended, holder, queue, envVars, named>>

Anchor(t) ==
    /\ pc[t] = "anchor"
    /\ Put(Event("experience.created", term[t]))
    /\ Leave(t)
    /\ UNCHANGED <<holder, queue, envVars, named>>

\* The task's next append raises: the exception leaves intake and, inside the
\* `async with', releases the lock.
AppendFails(t) ==
    /\ \/ pc[t] \in {"start", "record", "anchor"}
       \/ pc[t] = "gate" /\ ~Allowed(t)
    /\ faults < MaxFaults
    /\ faults' = faults + 1
    /\ holder' = IF pc[t] = "start" THEN NoTask ELSE holder
    /\ Leave(t)
    /\ UNCHANGED <<log, queue, mode, granted, rec, now, crashes, named>>

(***************************************************************************)
(* Start-up recovery (recover_open_deeds): one snapshot, then pass 1       *)
(* closes the open deeds in seq order and pass 2 back-fills the anchors    *)
(* that are missing in the snapshot.  No request is served meanwhile.      *)
(***************************************************************************)
NoRecovery == [phase |-> "none", snap |-> 0, cursor |-> 0, due |-> 0]

\* Mutant: only deeds that had started count as open.
OpenDeedsStarted ==
    {d \in Scan(rec.snap) : /\ d > rec.cursor
                            /\ log[d].type = "intent.proposed"
                            /\ StartedIn(rec.snap, d) # 0
                            /\ TerminalIn(rec.snap, d) = 0}

OpenDeeds ==
    {d \in Scan(rec.snap) : /\ d > rec.cursor
                            /\ log[d].type = "intent.proposed"
                            /\ TerminalIn(rec.snap, d) = 0}

\* Mutants: every outcome gets an anchor again; failed deeds are forgotten.
LostAnchorsAll ==
    {e \in Scan(rec.snap) : /\ e > rec.cursor
                            /\ log[e].type \in {"action.completed", "action.failed"}}

LostAnchorsCompleted ==
    {e \in Scan(rec.snap) : /\ e > rec.cursor
                            /\ log[e].type = "action.completed"
                            /\ ChildrenIn(rec.snap, {"experience.created"}, e) = {}}

LostAnchors ==
    {e \in Scan(rec.snap) : /\ e > rec.cursor
                            /\ log[e].type \in {"action.completed", "action.failed"}
                            /\ ChildrenIn(rec.snap, {"experience.created"}, e) = {}}

RecoverClose ==
    /\ mode = "recovering" /\ rec.phase = "close" /\ rec.due = 0
    /\ \E d \in OpenDeeds :
          /\ \A f \in OpenDeeds : d <= f
          /\ LET s == StartedIn(rec.snap, d)
             IN  Put(Event("action.failed", IF s # 0 THEN s ELSE d))
          /\ rec' = [rec EXCEPT !.cursor = d, !.due = Len(log) + 1]
    /\ UNCHANGED <<taskVars, mode, granted, now, crashes, faults, named>>

RecoverAnchor ==
    /\ mode = "recovering" /\ rec.due # 0
    /\ Put(Event("experience.created", rec.due))
    /\ rec' = [rec EXCEPT !.due = 0]
    /\ UNCHANGED <<taskVars, mode, granted, now, crashes, faults, named>>

RecoverTurn ==
    /\ mode = "recovering" /\ rec.phase = "close" /\ rec.due = 0
    /\ OpenDeeds = {}
    /\ rec' = [rec EXCEPT !.phase = "fill", !.cursor = 0]
    /\ UNCHANGED <<log, taskVars, mode, granted, now, crashes, faults, named>>

RecoverBackfill ==
    /\ mode = "recovering" /\ rec.phase = "fill"
    /\ \E e \in LostAnchors :
          /\ \A f \in LostAnchors : e <= f
          /\ Put(Event("experience.created", e))
          /\ rec' = [rec EXCEPT !.cursor = e]
    /\ UNCHANGED <<taskVars, mode, granted, now, crashes, faults, named>>

RecoverDone ==
    /\ mode = "recovering" /\ rec.phase = "fill" /\ LostAnchors = {}
    /\ mode' = "up"
    /\ rec' = NoRecovery
    /\ UNCHANGED <<log, taskVars, granted, now, crashes, faults, named>>

\* An append of the recovery raises: lifespan logs it and comes up anyway.
RecoverFails ==
    /\ mode = "recovering"
    /\ faults < MaxFaults
    /\ faults' = faults + 1
    /\ mode' = "up"
    /\ rec' = NoRecovery
    /\ UNCHANGED <<log, taskVars, granted, now, crashes, named>>

(***************************************************************************)
(* The environment: other writers, the clock, the process itself.          *)
(***************************************************************************)
OtherAppend ==
    /\ mode = "up"
    /\ Cardinality({e \in DOMAIN log : log[e].type = "other"}) < MaxNoise
    /\ Put(Event("other", 0))
    /\ UNCHANGED <<taskVars, envVars, named>>

Tick ==
    /\ now < MaxTime
    /\ now' = now + 1
    /\ UNCHANGED <<log, taskVars, mode, granted, rec, crashes, faults, named>>

Crash ==
    /\ mode # "down" /\ crashes < MaxCrashes
    /\ crashes' = crashes + 1
    /\ mode' = "down"
    /\ rec' = NoRecovery
    /\ pc' = [t \in Tasks |-> "idle"]
    /\ deed' = [t \in Tasks |-> 0]
    /\ ended' = [t \in Tasks |-> "action.failed"]
    /\ term' = [t \in Tasks |-> 0]
    /\ holder' = NoTask
    /\ queue' = <<>>
    /\ UNCHANGED <<log, granted, now, faults, named>>

\* The policy's capabilities are read from the environment at start-up.
Restart ==
    /\ mode = "down"
    /\ mode' = "recovering"
    /\ granted' \in SUBSET Idents
    /\ rec' = [NoRecovery EXCEPT !.phase = "close", !.snap = Len(log)]
    /\ UNCHANGED <<log, taskVars, now, crashes, faults, named>>

Init ==
    /\ log = <<>>
    /\ mode = "down"
    /\ granted = {}
    /\ pc = [t \in Tasks |-> "idle"]
    /\ deed = [t \in Tasks |-> 0]
    /\ ended = [t \in Tasks |-> "action.failed"]
    /\ term = [t \in Tasks |-> 0]
    /\ holder = NoTask
    /\ queue = <<>>
    /\ rec = NoRecovery
    /\ now = 0 /\ crashes = 0 /\ faults = 0
    /\ named = {}

Submit(t) == \E ident \in Idents, key \in Keys \union {NoKey} :
    Deduplicate(t, ident, key) \/ Propose(t, ident, key)

TaskStep(t) ==
    \/ Reject(t) \/ Admit(t) \/ Acquire(t) \/ Start(t)
    \/ \E status \in {"action.completed", "action.failed"} : RunReturns(t, status)
    \/ Record(t) \/ Anchor(t)

Recover ==
    RecoverClose \/ RecoverAnchor \/ RecoverTurn \/ RecoverBackfill \/ RecoverDone

Next ==
    \/ \E t \in Tasks : Submit(t) \/ TaskStep(t) \/ AppendFails(t)
    \/ Recover \/ RecoverFails
    \/ OtherAppend \/ Tick \/ Crash \/ Restart

Spec == Init /\ [][Next]_vars

\* The event loop runs every ready task, every run returns, as its wall-clock budget is
\* there to see to (README section 5 has the case in which it does not), and an operator
\* restarts a dead process.  Clients, the clock, other writers and crashes owe nothing.
FairSpec ==
    /\ Spec
    /\ \A t \in Tasks : WF_vars(TaskStep(t))
    /\ WF_vars(Recover)
    /\ WF_vars(Restart)

(***************************************************************************)
(* Properties.                                                             *)
(***************************************************************************)
EventRecord ==
    [type : EventTypes, cause : Nat, ident : Idents \union {NoIdent},
     key : Keys \union {NoKey}, at : Nat]

\* Every variable holds a value of its kind (the shapes of service.py's state).
TypeOK ==
    /\ log \in Seq(EventRecord)
    /\ mode \in {"down", "recovering", "up"}
    /\ granted \in SUBSET Idents
    /\ pc \in [Tasks -> {"idle", "gate", "queued", "start", "running", "record", "anchor"}]
    /\ deed \in [Tasks -> Nat]
    /\ ended \in [Tasks -> {"action.completed", "action.failed"}]
    /\ term \in [Tasks -> Nat]
    /\ holder \in Tasks \union {NoTask}
    /\ queue \in Seq(Tasks)
    /\ rec \in [phase : {"none", "close", "fill"}, snap : Nat, cursor : Nat, due : Nat]
    /\ now \in Nat /\ crashes \in Nat /\ faults \in Nat
    /\ named \in SUBSET (Keys \X Nat)

\* The intent an action.started or a terminal event belongs to.
DeedOf(e) ==
    IF log[log[e].cause].type = "action.started" THEN log[log[e].cause].cause
                                                 ELSE log[e].cause

EndsOf(d) == {e \in DOMAIN log : log[e].type \in Terminals /\ DeedOf(e) = d}
StartsOf(d) == {e \in DOMAIN log : log[e].type = "action.started" /\ log[e].cause = d}
AnchorsOf(e) == {x \in DOMAIN log : log[x].type = "experience.created" /\ log[x].cause = e}

\* ADR-0020's minimal terminal state: whatever crashes, failing appends,
\* concurrent submissions and repeated recoveries do, a deed never has two
\* terminal events (intake's outcome and a recovery's process_restart, say).
OneTerminal ==
    \A e, f \in DOMAIN log :
        (log[e].type \in Terminals /\ log[f].type \in Terminals /\ e # f)
            => DeedOf(e) # DeedOf(f)

\* A deed is executed at most once, and never after it has ended.
OneStart ==
    \A s \in DOMAIN log : log[s].type = "action.started" =>
        /\ StartsOf(log[s].cause) = {s}
        /\ \A e \in EndsOf(log[s].cause) : s < e

\* A terminal gets at most one memory anchor: neither pass of the recovery
\* duplicates the one intake (or an earlier recovery) wrote, and a rejection
\* gets none.
OneAnchor ==
    \A x, y \in DOMAIN log :
        (log[x].type = "experience.created" /\ log[y].type = "experience.created")
            => /\ x # y => log[x].cause # log[y].cause
               /\ log[log[x].cause].type \in {"action.completed", "action.failed"}

\* The comment at _DEED_SCAN_LIMIT: newest-first keeps the scan closed under a
\* deed's descendants, so a deed whose intent is in the scan looks open only
\* if it is open, however far the store has outgrown the scan.
ScanHonest ==
    \A d \in Intents \cap Scan(Len(log)) :
        (TerminalIn(Len(log), d) = 0) = (EndsOf(d) = {})

\* Natural dedup: a second deed of the same intent within the window exists
\* only if the first was rejected, unless IntentScan newer intents hide it.
NoRepeatedDeed ==
    \A d, f \in Intents :
        ( /\ d < f /\ log[d].ident = log[f].ident
          /\ log[f].at - log[d].at <= Window
          /\ Cardinality({g \in Intents : d < g /\ g < f}) < IntentScan )
        => \E e \in EndsOf(d) : log[e].type = "intent.rejected"

\* An explicit key recorded on a deed is never put on a second one while the
\* first is among the newest IntentScan intents.
KeyRecordedOnce ==
    \A d, f \in Intents :
        ( /\ d < f /\ log[d].key = log[f].key /\ log[d].key # NoKey )
        => Cardinality({g \in Intents : d < g /\ g < f}) >= IntentScan

\* Single flight, seen in the store: with no append failing and every deed
\* inside the scan, an execution starts only after the previous one has ended
\* (recorded by intake, or closed by the recovery after a crash).
SerialDeeds ==
    (faults = 0 /\ Len(log) <= DeedScan) =>
        \A s, r \in DOMAIN log :
            ( log[s].type = "action.started" /\ log[r].type = "action.started" /\ s < r )
            => \E e \in EndsOf(log[s].cause) : e < r

\* The reply "in_flight" (_deed_outcome) is honest: once the process serves
\* requests, a deed without a terminal is being worked on by a live task, so
\* nobody waits for a deed that no one will end.
InFlightIsLive ==
    (mode = "up" /\ faults = 0 /\ Len(log) <= DeedScan) =>
        \A d \in Intents : EndsOf(d) = {} => \E t \in Tasks : deed[t] = d /\ term[t] = 0

\* main.py's IntentRequest: "re-submitting the same key returns the existing
\* deed's outcome instead of executing a second time".
KeyStable ==
    \A p, q \in named :
        (p[1] = q[1] /\ p[2] # q[2]) => StartsOf(p[2]) = {} \/ StartsOf(q[2]) = {}

\* The store is append-only: no step changes or removes an event.
AppendOnly == [][SubSeq(log', 1, Len(log)) = log]_log

\* What a finished recovery leaves behind: every deed whose intent its scan
\* covered has ended, and every outcome its scan covered has its anchor,
\* including those of crashes in the middle of earlier recoveries.
RecoveryCloses ==
    [][(mode = "recovering" /\ mode' = "up" /\ faults' = faults) =>
         \A d \in Scan(rec.snap) :
            /\ log[d].type = "intent.proposed" => EndsOf(d) # {}
            /\ log[d].type \in {"action.completed", "action.failed"} => AnchorsOf(d) # {}
      ]_vars

\* No log of the bounded model is longer (AgencyProofs!LogBounded): at most an
\* intent, a start, a terminal and an anchor for each deed, and the noise.
MaxEvents == 4 * MaxDeeds + MaxNoise

\* With finitely many crashes, no failing append and runs that return, every proposed deed
\* ends in a terminal state, and an executed one is remembered.
Remembered(d) ==
    \E e \in EndsOf(d) : log[e].type = "intent.rejected" \/ AnchorsOf(e) # {}
EveryDeedEnds ==
    \A d \in 1..MaxEvents :
        (d \in Intents) ~> (d \in Intents /\ Remembered(d)) \/ faults > 0

(***************************************************************************)
(* The life of each deed, for DeedLifecycle.                               *)
(***************************************************************************)
StatusOf(d) ==
    IF EndsOf(d) # {} THEN log[CHOOSE e \in EndsOf(d) : TRUE].type
    ELSE IF StartsOf(d) # {} THEN "action.started" ELSE "intent.proposed"
Life == [d \in Intents |->
            [status |-> StatusOf(d),
             remembered |-> \E e \in EndsOf(d) : AnchorsOf(e) # {}]]

\* Every step of the agency is a step in the life of one deed (docs/ADR-0020),
\* or leaves every deed's life alone.
Lifecycle == INSTANCE DeedLifecycle WITH Deeds <- 1..MaxEvents, life <- Life
RefinesLifecycle == Lifecycle!Spec

(***************************************************************************)
(* The inductive strengthening of OneTerminal.                             *)
(***************************************************************************)
\* Causes point backwards: a start cites an intent, a terminal an intent or a
\* start, an anchor an outcome.
LinksBack ==
    \A e \in DOMAIN log :
        /\ log[e].type = "action.started" =>
              log[e].cause \in 1..(e - 1) /\ log[log[e].cause].type = "intent.proposed"
        /\ log[e].type \in Terminals =>
              /\ log[e].cause \in 1..(e - 1)
              /\ log[log[e].cause].type \in {"intent.proposed", "action.started"}

SingleStart ==
    \A s, r \in DOMAIN log :
        (/\ log[s].type = "action.started" /\ log[r].type = "action.started"
         /\ log[s].cause = log[r].cause) => s = r

StartFirst ==
    \A s, e \in DOMAIN log :
        (/\ log[s].type = "action.started" /\ log[e].type \in Terminals
         /\ DeedOf(e) = log[s].cause) => s < e

Unended ==
    {d \in Intents : \A e \in DOMAIN log : log[e].type \in Terminals => DeedOf(e) # d}

Unstarted ==
    {d \in Intents : \A s \in DOMAIN log : log[s].type = "action.started" => log[s].cause # d}

\* A task between its intent and its terminal owns a deed nobody else can end.
Working == {"gate", "queued", "start", "running", "record"}
TasksOwn ==
    /\ mode # "up" => \A t \in Tasks : pc[t] = "idle"
    /\ \A t \in Tasks :
        /\ pc[t] \in Working => deed[t] \in Unended
        /\ pc[t] \in {"gate", "queued", "start"} => deed[t] \in Unstarted
    /\ \A t, u \in Tasks :
        (t # u /\ pc[t] \in Working /\ pc[u] \in Working) => deed[t] # deed[u]

WaitersQueued ==
    /\ \A i \in DOMAIN queue : pc[queue[i]] = "queued"
    /\ \A i, j \in DOMAIN queue : i # j => queue[i] # queue[j]

\* Since its snapshot the recovery has ended only deeds at or before its cursor.
RecoveryBehind ==
    (mode = "recovering" /\ rec.phase = "close") =>
        /\ rec.snap <= Len(log)
        /\ \A e \in DOMAIN log :
            (e > rec.snap /\ log[e].type \in Terminals) => DeedOf(e) <= rec.cursor

LogInv == LinksBack /\ SingleStart /\ StartFirst /\ OneTerminal
IInv == TypeOK /\ LogInv /\ TasksOwn /\ WaitersQueued /\ RecoveryBehind

=============================================================================
