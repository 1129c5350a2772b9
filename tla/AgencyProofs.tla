---------------------------- MODULE AgencyProofs ----------------------------
(***************************************************************************)
(* Theorems about Agency, for every number of tasks, intents and keys,     *)
(* every scan limit and window, and any number of crashes and faults.      *)
(*                                                                         *)
(* The argument: LogInv says what a well-formed store is; it is kept by    *)
(* appending a neutral event, the start of an unstarted and unended deed,  *)
(* or the end of an unended deed.  TasksOwn says that a task at work owns  *)
(* an unended deed nobody else owns, RecoveryBehind that a deed beyond the *)
(* recovery's cursor is as ended as its snapshot shows.  So every append   *)
(* of every action is one of the three.                                    *)
(*                                                                         *)
(* AnchorInv does the same for the outcomes yet to be remembered;          *)
(* ClosedBehind says what the recovery has passed, LockInv and LiveInv who *)
(* works on what is open, and the dedup's promises follow from its lookup  *)
(* because the intents' stamps rise along the log.  Together these make    *)
(* each step one of DeedLifecycle, or a stutter.                           *)
(***************************************************************************)
EXTENDS Agency, ExtremaTheorems, SequenceTheorems

(***************************************************************************)
(* Appending to the log.                                                   *)
(***************************************************************************)
\* Appending an event to a typed log keeps its type, adds one position and
\* leaves the others alone.
LEMMA PutFacts ==
    ASSUME log \in Seq(EventRecord), NEW event \in EventRecord, Put(event)
    PROVE  /\ log' \in Seq(EventRecord)
           /\ Len(log) \in Nat /\ Len(log') = Len(log) + 1
           /\ DOMAIN log = 1..Len(log) /\ DOMAIN log' = 1..(Len(log) + 1)
           /\ log'[Len(log) + 1] = event
           /\ \A e \in 1..Len(log) : log'[e] = log[e]
  BY DEF Put

\* Every entry of a typed log is an event, whose cause is a natural.
LEMMA Entry ==
    ASSUME log \in Seq(EventRecord), NEW e \in DOMAIN log
    PROVE  log[e] \in EventRecord /\ log[e].cause \in Nat /\ log[e].type \in EventTypes
<1>1. log[e] \in EventRecord
  OBVIOUS
<1>. QED  BY <1>1 DEF EventRecord

\* An event without intent data is well typed if its cause is a natural.
LEMMA EventTyped ==
    ASSUME NEW type \in EventTypes, NEW cause \in Nat
    PROVE  /\ Event(type, cause) \in EventRecord
           /\ Event(type, cause).type = type /\ Event(type, cause).cause = cause
  BY DEF Event, EventRecord

LEMMA IntentTyped ==
    ASSUME NEW ident \in Idents, NEW key \in Keys \union {NoKey}, now \in Nat
    PROVE  Intent(ident, key) \in EventRecord /\ Intent(ident, key).type = "intent.proposed"
  BY DEF Intent, EventRecord, EventTypes

\* Appending does not change which deed an earlier terminal belongs to.
LEMMA DeedOfKept ==
    ASSUME log \in Seq(EventRecord), LinksBack, NEW event \in EventRecord, Put(event),
           NEW e \in 1..Len(log), log[e].type \in Terminals
    PROVE  DeedOf(e)' = DeedOf(e) /\ DeedOf(e) \in 1..(e - 1)
<1>1. log[e].cause \in 1..(e - 1) /\ log[e].cause \in 1..Len(log)
  BY PutFacts DEF LinksBack
<1>2. log'[e] = log[e] /\ log'[log[e].cause] = log[log[e].cause]
  BY <1>1, PutFacts
<1>3. DeedOf(e)' = DeedOf(e)
  BY <1>2 DEF DeedOf
<1>4. CASE log[log[e].cause].type = "action.started"
  BY <1>1, <1>3, <1>4, PutFacts DEF LinksBack, DeedOf
<1>5. CASE log[log[e].cause].type # "action.started"
  BY <1>1, <1>3, <1>5 DEF DeedOf
<1>. QED  BY <1>4, <1>5

\* A neutral event: neither a start nor a terminal.
LEMMA PutNeutral ==
    ASSUME log \in Seq(EventRecord), LogInv, NEW event \in EventRecord, Put(event),
           event.type \notin Terminals \union {"action.started"}
    PROVE  /\ LogInv'
           /\ Unended \subseteq Unended' /\ Unstarted \subseteq Unstarted'
<1>1. \A e \in DOMAIN log' : log'[e].type \in Terminals \union {"action.started"}
                               => e \in 1..Len(log) /\ log'[e] = log[e]
  BY PutFacts
<1>2. \A e \in DOMAIN log' : log'[e].type \in Terminals
                               => DeedOf(e)' = DeedOf(e) /\ e \in 1..Len(log)
  BY <1>1, DeedOfKept DEF LogInv
<1>3. LinksBack'
  <2>1. SUFFICES ASSUME NEW e \in DOMAIN log',
                        log'[e].type \in Terminals \union {"action.started"}
                 PROVE  /\ log'[e].cause \in 1..(e - 1)
                        /\ log'[log'[e].cause] = log[log[e].cause]
                        /\ log'[e] = log[e] /\ e \in DOMAIN log
    BY DEF LogInv, LinksBack
  <2>2. log'[e] = log[e] /\ e \in 1..Len(log) /\ log[e].cause \in 1..(e - 1)
    BY <1>1, <2>1, PutFacts DEF LogInv, LinksBack
  <2>. QED  BY <2>2, PutFacts
<1>4. SingleStart' /\ StartFirst' /\ OneTerminal'
  BY <1>1, <1>2, PutFacts DEF LogInv, SingleStart, StartFirst, OneTerminal
<1>5. Unended \subseteq Unended'
  BY <1>1, <1>2, PutFacts DEF Unended, Intents
<1>6. Unstarted \subseteq Unstarted'
  BY <1>1, PutFacts DEF Unstarted, Intents
<1>. QED  BY <1>3, <1>4, <1>5, <1>6 DEF LogInv

\* A new intent is the deed of no event so far.
LEMMA PutIntent ==
    ASSUME log \in Seq(EventRecord), LogInv, NEW event \in EventRecord, Put(event),
           event.type = "intent.proposed"
    PROVE  /\ LogInv'
           /\ Unended \union {Len(log) + 1} \subseteq Unended'
           /\ Unstarted \union {Len(log) + 1} \subseteq Unstarted'
<1>1. LogInv' /\ Unended \subseteq Unended' /\ Unstarted \subseteq Unstarted'
  BY PutNeutral DEF Terminals
<1>2. \A e \in DOMAIN log' : log'[e].type \in Terminals \union {"action.started"}
                               => e \in 1..Len(log) /\ log'[e] = log[e]
  BY PutFacts DEF Terminals
<1>3. \A e \in DOMAIN log' : log'[e].type \in Terminals => DeedOf(e)' # Len(log) + 1
  BY <1>2, DeedOfKept, PutFacts DEF LogInv
<1>4. \A s \in DOMAIN log' : log'[s].type = "action.started" => log'[s].cause # Len(log) + 1
  BY <1>2, PutFacts DEF LogInv, LinksBack
<1>5. Len(log) + 1 \in Intents'
  BY PutFacts DEF Intents
<1>. QED  BY <1>1, <1>3, <1>4, <1>5 DEF Unended, Unstarted

\* The start of a deed that has neither started nor ended.
LEMMA PutStart ==
    ASSUME log \in Seq(EventRecord), LogInv, NEW d \in Unended \cap Unstarted,
           Put(Event("action.started", d))
    PROVE  /\ LogInv'
           /\ Unended \subseteq Unended' /\ Unstarted \ {d} \subseteq Unstarted'
<1> DEFINE event == Event("action.started", d)
           new == Len(log) + 1
<1>0. event \in EventRecord /\ event.type = "action.started" /\ event.cause = d
  <2>1. d \in Nat
    BY DEF Unended, Intents
  <2>. QED  BY <2>1, EventTyped DEF EventTypes
<1> HIDE DEF event
<1>P. /\ DOMAIN log = 1..Len(log) /\ DOMAIN log' = 1..new /\ Len(log) \in Nat
      /\ log'[new].type = "action.started" /\ log'[new].cause = d
      /\ \A e \in 1..Len(log) : log'[e] = log[e]
  BY <1>0, PutFacts DEF event
<1>1. d \in 1..Len(log) /\ log[d].type = "intent.proposed"
  BY <1>P DEF Unended, Intents
<1>2. \A e \in DOMAIN log' : log'[e].type \in Terminals
                               => DeedOf(e)' = DeedOf(e) /\ e \in 1..Len(log)
  <2>. SUFFICES ASSUME NEW e \in DOMAIN log', log'[e].type \in Terminals
                PROVE  DeedOf(e)' = DeedOf(e) /\ e \in 1..Len(log)
    OBVIOUS
  <2>1. e # new
    BY <1>P DEF Terminals
  <2>2. e \in 1..Len(log) /\ log[e].type \in Terminals
    BY <1>P, <2>1
  <2>. QED  BY <2>2, <1>0, DeedOfKept DEF LogInv, event
<1>3. LinksBack'
  <2>1. SUFFICES ASSUME NEW e \in DOMAIN log',
                        log'[e].type \in Terminals \union {"action.started"},
                        e # new
                 PROVE  /\ log'[e].cause \in 1..(e - 1)
                        /\ log'[log'[e].cause] = log[log[e].cause]
                        /\ log'[e] = log[e] /\ e \in DOMAIN log
    BY <1>P, <1>1 DEF LogInv, LinksBack, Terminals
  <2>2. log'[e] = log[e] /\ e \in 1..Len(log) /\ log[e].cause \in 1..(e - 1)
    BY <1>P, <2>1 DEF LogInv, LinksBack
  <2>. QED  BY <2>2, <1>P
<1>4. SingleStart'
  BY <1>P DEF LogInv, SingleStart, Unstarted, Intents
<1>5. StartFirst'
  <2>1. SUFFICES ASSUME NEW s \in DOMAIN log', NEW e \in DOMAIN log',
                        log'[s].type = "action.started", log'[e].type \in Terminals,
                        DeedOf(e)' = log'[s].cause
                 PROVE  s < e
    BY DEF StartFirst
  <2>2. e \in 1..Len(log) /\ log[e].type \in Terminals /\ DeedOf(e) = log'[s].cause
    BY <1>P, <1>2, <2>1
  <2>3. s # new
    BY <1>P, <2>2 DEF Unended
  <2>4. s \in 1..Len(log) /\ log'[s] = log[s]
    BY <1>P, <2>3
  <2>. QED  BY <1>P, <2>1, <2>2, <2>4 DEF LogInv, StartFirst
<1>6. OneTerminal'
  BY <1>P, <1>2 DEF LogInv, OneTerminal
<1>7. Unended \subseteq Unended'
  BY <1>P, <1>2 DEF Unended, Intents
<1>8. Unstarted \ {d} \subseteq Unstarted'
  BY <1>P DEF Unstarted, Intents
<1>. QED  BY <1>3, <1>4, <1>5, <1>6, <1>7, <1>8 DEF LogInv

\* The end of an unended deed, cited directly or through its start.
LEMMA PutEnd ==
    ASSUME log \in Seq(EventRecord), LogInv, NEW d \in Unended,
           NEW type \in Terminals, NEW c \in DOMAIN log,
           c = d \/ (log[c].type = "action.started" /\ log[c].cause = d),
           Put(Event(type, c))
    PROVE  /\ LogInv'
           /\ Unended \ {d} \subseteq Unended' /\ Unstarted \subseteq Unstarted'
           /\ \A e \in DOMAIN log' : log'[e].type \in Terminals =>
                 (e \in 1..Len(log) /\ log[e].type \in Terminals /\ DeedOf(e)' = DeedOf(e))
                 \/ (e = Len(log) + 1 /\ DeedOf(e)' = d)
<1> DEFINE event == Event(type, c)
           new == Len(log) + 1
<1>T. type \in EventTypes /\ type # "action.started" /\ type # "intent.proposed"
  BY DEF EventTypes, Terminals
<1>0. c \in 1..Len(log) /\ Len(log) \in Nat
  OBVIOUS
<1>1. event \in EventRecord /\ event.type = type /\ event.cause = c
  BY <1>T, <1>0, EventTyped
<1> HIDE DEF event
<1>P. /\ DOMAIN log = 1..Len(log) /\ DOMAIN log' = 1..new /\ Len(log) \in Nat
      /\ log'[new].type = type /\ log'[new].cause = c
      /\ \A e \in 1..Len(log) : log'[e] = log[e]
  BY <1>1, PutFacts DEF event
<1>2. d \in 1..Len(log) /\ log[d].type = "intent.proposed"
  BY <1>P DEF Unended, Intents
<1>3. ASSUME NEW e, e = new PROVE DeedOf(e)' = d
  <2>1. log'[e].cause = c /\ log'[c] = log[c]
    BY <1>P, <1>0, <1>3
  <2>2. CASE c = d
    BY <2>1, <2>2, <1>2 DEF DeedOf
  <2>3. CASE log[c].type = "action.started" /\ log[c].cause = d
    BY <2>1, <2>3 DEF DeedOf
  <2>. QED  BY <2>2, <2>3
<1>4. \A e \in DOMAIN log' : log'[e].type \in Terminals =>
        (e \in 1..Len(log) /\ log[e].type \in Terminals /\ DeedOf(e)' = DeedOf(e))
        \/ (e = new /\ DeedOf(e)' = d)
  <2>. SUFFICES ASSUME NEW e \in DOMAIN log', log'[e].type \in Terminals, e # new
                PROVE  e \in 1..Len(log) /\ log[e].type \in Terminals /\ DeedOf(e)' = DeedOf(e)
    BY <1>3
  <2>1. e \in 1..Len(log)
    BY <1>P
  <2>2. e \in 1..Len(log) /\ log[e].type \in Terminals
    BY <1>P, <2>1
  <2>. QED  BY <2>2, <1>1, DeedOfKept DEF LogInv, event
<1>5. LinksBack'
  <2>1. SUFFICES ASSUME NEW e \in DOMAIN log',
                        log'[e].type \in Terminals \union {"action.started"},
                        e # new
                 PROVE  /\ log'[e].cause \in 1..(e - 1)
                        /\ log'[log'[e].cause] = log[log[e].cause]
                        /\ log'[e] = log[e] /\ e \in DOMAIN log
    BY <1>P, <1>0, <1>2, <1>T DEF LogInv, LinksBack
  <2>2. log'[e] = log[e] /\ e \in 1..Len(log) /\ log[e].cause \in 1..(e - 1)
    BY <1>P, <2>1 DEF LogInv, LinksBack
  <2>. QED  BY <2>2, <1>P
<1>6. SingleStart'
  BY <1>P, <1>T DEF LogInv, SingleStart
<1>7. StartFirst'
  BY <1>P, <1>T, <1>4 DEF LogInv, StartFirst
<1>8. OneTerminal'
  BY <1>P, <1>4 DEF LogInv, OneTerminal, Unended
<1>9. Unended \ {d} \subseteq Unended'
  BY <1>P, <1>T, <1>4 DEF Unended, Intents
<1>10. Unstarted \subseteq Unstarted'
  BY <1>P, <1>T DEF Unstarted, Intents
<1>. QED  BY <1>4, <1>5, <1>6, <1>7, <1>8, <1>9, <1>10 DEF LogInv

(***************************************************************************)
(* The lookups.                                                            *)
(***************************************************************************)
\* The oldest and the newest match are matches, when there are any.
LEMMA FirstFacts ==
    ASSUME NEW S \in SUBSET (Nat \ {0})
    PROVE  /\ First(S) \in Nat /\ (First(S) = 0) = (S = {})
           /\ S # {} => First(S) \in S
<1>1. CASE S = {}
  BY <1>1 DEF First
<1>2. CASE S # {}
  <2>1. Min(S) \in S
    BY <1>2, MinFacts
  <2>. QED  BY <1>2, <2>1 DEF First
<1>. QED  BY <1>1, <1>2

LEMMA LastFacts ==
    ASSUME NEW n \in Nat, NEW S \in SUBSET (1..n)
    PROVE  Last(S) \in Nat /\ (S # {} => Max(S) \in Nat /\ Max(S) \in S /\ Last(S) \in S)
<1>1. CASE S = {}
  BY <1>1 DEF Last
<1>2. CASE S # {}
  <2>1. Max(S) \in S
    BY <1>2, MaxFacts
  <2>2. \A m \in S : m \in Nat
    OBVIOUS
  <2>. QED  BY <1>2, <2>1, <2>2 DEF Last
<1>. QED  BY <1>1, <1>2

LEMMA StartedTyped ==
    ASSUME NEW n \in Nat, NEW d
    PROVE  StartedIn(n, d) \in Nat
<1>1. ChildrenIn(n, {"action.started"}, d) \in SUBSET (Nat \ {0})
  BY DEF ChildrenIn, Scan
<1>. QED  BY <1>1, FirstFacts DEF StartedIn

LEMMA ExistingTyped ==
    ASSUME TypeOK, NEW ident, NEW key
    PROVE  ExistingDeed(ident, key) \in Nat
<1>1. Len(log) \in Nat /\ Intents \in SUBSET (1..Len(log))
  BY DEF TypeOK, Intents
<1>2. DeedByKey(key) \in SUBSET (1..Len(log))
  BY <1>1 DEF DeedByKey, RecentIntents
<1>3. {d \in RecentDeedCandidates(ident) : Satisfies(d)} \in SUBSET (1..Len(log))
  BY <1>1 DEF RecentDeedCandidates, RecentIntents
<1>4. Last({d \in RecentDeedCandidates(ident) : Satisfies(d)}) \in Nat
  BY <1>1, <1>3, LastFacts
<1>5. DeedByKey(key) # {} => Max(DeedByKey(key)) \in Nat
  BY <1>1, <1>2, LastFacts
<1>. QED  BY <1>4, <1>5 DEF ExistingDeed

(***************************************************************************)
(* Type correctness.                                                       *)
(***************************************************************************)
LEMMA TypeInit == Init => TypeOK
  BY AgencyAssumption DEF Init, TypeOK, NoRecovery

\* A task that leaves intake keeps every task variable typed.
LEMMA LeaveTyped ==
    ASSUME TypeOK, NEW t \in Tasks, Leave(t)
    PROVE  /\ pc' \in [Tasks -> {"idle", "gate", "queued", "start", "running", "record", "anchor"}]
           /\ deed' \in [Tasks -> Nat]
           /\ ended' \in [Tasks -> {"action.completed", "action.failed"}]
           /\ term' \in [Tasks -> Nat]
  BY DEF TypeOK, Leave

LEMMA EventPut ==
    ASSUME TypeOK, NEW type \in EventTypes, NEW cause \in Nat, Put(Event(type, cause))
    PROVE  log' \in Seq(EventRecord)
  BY EventTyped, PutFacts DEF TypeOK

LEMMA TypeSubmit ==
    ASSUME TypeOK, NEW t \in Tasks, Submit(t)
    PROVE  TypeOK'
<1>1. PICK ident \in Idents, key \in Keys \union {NoKey} :
         Deduplicate(t, ident, key) \/ Propose(t, ident, key)
  BY DEF Submit
<1>2. ASSUME NEW d \in Nat, Answer(key, d) PROVE named' \in SUBSET (Keys \X Nat)
  BY <1>2 DEF Answer, TypeOK
<1>3. CASE Deduplicate(t, ident, key)
  <2>1. named' \in SUBSET (Keys \X Nat)
    BY <1>2, <1>3, ExistingTyped DEF Deduplicate
  <2>. QED  BY <1>3, <2>1 DEF Deduplicate, taskVars, envVars, TypeOK
<1>4. CASE Propose(t, ident, key)
  <2>1. Len(log) + 1 \in Nat
    BY DEF TypeOK
  <2>2. named' \in SUBSET (Keys \X Nat)
    BY <1>2, <1>4, <2>1 DEF Propose
  <2>3. log' \in Seq(EventRecord)
    BY <1>4, IntentTyped, PutFacts DEF Propose, TypeOK
  <2>. QED  BY <1>4, <2>1, <2>2, <2>3 DEF Propose, envVars, TypeOK
<1>. QED  BY <1>1, <1>3, <1>4

LEMMA TypeTask ==
    ASSUME TypeOK, NEW t \in Tasks, TaskStep(t)
    PROVE  TypeOK'
<1>0. deed[t] \in Nat /\ term[t] \in Nat /\ ended[t] \in EventTypes /\ Len(log) + 1 \in Nat
  BY DEF TypeOK, EventTypes, Terminals
<1>1. CASE Reject(t)
  <2>1. log' \in Seq(EventRecord)
    BY <1>0, <1>1, EventPut DEF Reject, EventTypes, Terminals
  <2>. QED  BY <1>1, <2>1, LeaveTyped DEF Reject, envVars, TypeOK
<1>2. CASE Admit(t)
  <2>1. queue' \in Seq(Tasks) /\ holder' \in Tasks \union {NoTask}
    <3>1. Append(queue, t) \in Seq(Tasks) /\ queue \in Seq(Tasks)
      BY DEF TypeOK
    <3>. QED  BY <1>2, <3>1 DEF Admit, TypeOK
  <2>2. pc' \in [Tasks -> {"idle", "gate", "queued", "start", "running", "record", "anchor"}]
    BY <1>2 DEF Admit, TypeOK
  <2>. QED  BY <1>2, <2>1, <2>2 DEF Admit, envVars, TypeOK
<1>3. CASE Acquire(t)
  <2>1. queue' \in Seq(Tasks)
    BY <1>3 DEF Acquire, TypeOK
  <2>. QED  BY <1>3, <2>1 DEF Acquire, envVars, TypeOK
<1>4. CASE Start(t)
  <2>1. log' \in Seq(EventRecord)
    BY <1>0, <1>4, EventPut DEF Start, EventTypes
  <2>. QED  BY <1>4, <2>1 DEF Start, envVars, TypeOK
<1>5. CASE \E status \in {"action.completed", "action.failed"} : RunReturns(t, status)
  BY <1>5 DEF RunReturns, envVars, TypeOK
<1>6. CASE Record(t)
  <2>1. log' \in Seq(EventRecord)
    BY <1>0, <1>6, EventPut DEF Record
  <2>. QED  BY <1>0, <1>6, <2>1 DEF Record, envVars, TypeOK
<1>7. CASE Anchor(t)
  <2>1. log' \in Seq(EventRecord)
    BY <1>0, <1>7, EventPut DEF Anchor, EventTypes
  <2>. QED  BY <1>7, <2>1, LeaveTyped DEF Anchor, envVars, TypeOK
<1>. QED  BY <1>1, <1>2, <1>3, <1>4, <1>5, <1>6, <1>7 DEF TaskStep

LEMMA TypeRecover ==
    ASSUME TypeOK, Recover \/ RecoverFails
    PROVE  TypeOK'
<1>0. rec.snap \in Nat /\ rec.due \in Nat /\ Len(log) + 1 \in Nat
  BY DEF TypeOK
<1>1. CASE RecoverClose
  <2>1. PICK d \in OpenDeeds :
           /\ LET s == StartedIn(rec.snap, d)
              IN  Put(Event("action.failed", IF s # 0 THEN s ELSE d))
           /\ rec' = [rec EXCEPT !.cursor = d, !.due = Len(log) + 1]
    BY <1>1 DEF RecoverClose
  <2>2. d \in Nat
    BY <1>0 DEF OpenDeeds, Scan
  <2>3. (IF StartedIn(rec.snap, d) # 0 THEN StartedIn(rec.snap, d) ELSE d) \in Nat
    BY <1>0, <2>2, StartedTyped
  <2>4. log' \in Seq(EventRecord)
    BY <2>1, <2>3, EventPut DEF EventTypes, Terminals
  <2>. QED  BY <1>0, <1>1, <2>1, <2>2, <2>4 DEF RecoverClose, taskVars, TypeOK
<1>2. CASE RecoverAnchor
  <2>1. log' \in Seq(EventRecord)
    BY <1>0, <1>2, EventPut DEF RecoverAnchor, EventTypes
  <2>. QED  BY <1>2, <2>1 DEF RecoverAnchor, taskVars, TypeOK
<1>3. CASE RecoverTurn
  BY <1>3 DEF RecoverTurn, taskVars, TypeOK
<1>4. CASE RecoverBackfill
  <2>1. PICK e \in LostAnchors : /\ Put(Event("experience.created", e))
                                 /\ rec' = [rec EXCEPT !.cursor = e]
    BY <1>4 DEF RecoverBackfill
  <2>2. e \in Nat
    BY <1>0 DEF LostAnchors, Scan
  <2>3. log' \in Seq(EventRecord)
    BY <2>1, <2>2, EventPut DEF EventTypes
  <2>. QED  BY <1>4, <2>1, <2>2, <2>3 DEF RecoverBackfill, taskVars, TypeOK
<1>5. CASE RecoverDone
  BY <1>5 DEF RecoverDone, taskVars, NoRecovery, TypeOK
<1>6. CASE RecoverFails
  BY <1>6 DEF RecoverFails, taskVars, NoRecovery, TypeOK
<1>. QED  BY <1>1, <1>2, <1>3, <1>4, <1>5, <1>6 DEF Recover

LEMMA TypeEnvironment ==
    ASSUME TypeOK, OtherAppend \/ Tick \/ Crash \/ Restart \/ (\E t \in Tasks : AppendFails(t))
    PROVE  TypeOK'
<1>1. CASE OtherAppend
  <2>1. log' \in Seq(EventRecord)
    BY <1>1, EventPut DEF OtherAppend, EventTypes
  <2>. QED  BY <1>1, <2>1 DEF OtherAppend, taskVars, envVars, TypeOK
<1>2. CASE Tick
  BY <1>2 DEF Tick, taskVars, TypeOK
<1>3. CASE Crash
  BY <1>3 DEF Crash, NoRecovery, TypeOK
<1>4. CASE Restart
  <2>1. rec' \in [phase : {"none", "close", "fill"}, snap : Nat, cursor : Nat, due : Nat]
    <3>1. Len(log) \in Nat
      BY DEF TypeOK
    <3>2. rec' = [phase |-> "close", snap |-> Len(log), cursor |-> 0, due |-> 0]
      BY <1>4 DEF Restart, NoRecovery
    <3>. QED  BY <3>1, <3>2
  <2>. QED  BY <1>4, <2>1 DEF Restart, taskVars, TypeOK
<1>5. ASSUME NEW t \in Tasks, AppendFails(t) PROVE TypeOK'
  <2>1. Leave(t)
    BY <1>5 DEF AppendFails
  <2>2. holder' \in Tasks \union {NoTask} /\ faults' \in Nat
    BY <1>5 DEF AppendFails, TypeOK
  <2>3. UNCHANGED <<log, queue, mode, granted, rec, now, crashes, named>>
    BY <1>5 DEF AppendFails
  <2>. QED  BY <2>1, <2>2, <2>3, LeaveTyped DEF TypeOK
<1>. QED  BY <1>1, <1>2, <1>3, <1>4, <1>5

LEMMA TypeStep ==
    ASSUME TypeOK, [Next]_vars
    PROVE  TypeOK'
<1>1. CASE UNCHANGED vars
  BY <1>1 DEF vars, TypeOK
<1>2. CASE Next
  BY <1>2, TypeSubmit, TypeTask, TypeRecover, TypeEnvironment DEF Next
<1>. QED  BY <1>1, <1>2

\* Every variable of the agency keeps the shape service.py gives it.
THEOREM TypeCorrect == Spec => []TypeOK
<1>1. Init => TypeOK
  BY TypeInit
<1>2. TypeOK /\ [Next]_vars => TypeOK'
  BY TypeStep
<1>. QED  BY <1>1, <1>2, PTL DEF Spec

(***************************************************************************)
(* The recovery ends only unended deeds.                                   *)
(***************************************************************************)
\* The scan is closed under what comes after an event of it.
LEMMA EndSeen ==
    ASSUME TypeOK, LogInv, NEW n \in Nat, n <= Len(log), NEW d \in Intents \cap Scan(n),
           NEW e \in EndsOf(d), e <= n
    PROVE  TerminalIn(n, d) # 0
<1> DEFINE s == StartedIn(n, d)
           Starts == ChildrenIn(n, {"action.started"}, d)
<1>1. /\ Len(log) \in Nat /\ DOMAIN log = 1..Len(log) /\ d \in 1..n /\ DeedScan \in Nat
      /\ e \in DOMAIN log /\ log[e].type \in Terminals /\ DeedOf(e) = d
  BY AgencyAssumption DEF TypeOK, Scan, EndsOf
<1>2. \A types, p : ChildrenIn(n, types, p) \in SUBSET (Nat \ {0})
  BY DEF ChildrenIn, Scan
<1>3. /\ log[e].cause \in 1..(e - 1) /\ log[e].cause \in DOMAIN log
      /\ log[log[e].cause].type \in {"intent.proposed", "action.started"}
  BY <1>1 DEF LogInv, LinksBack
<1>4. CASE log[log[e].cause].type = "intent.proposed"
  <2>1. log[e].cause = d
    BY <1>1, <1>4 DEF DeedOf
  <2>2. e \in Scan(n)
    BY <1>1, <1>3, <2>1 DEF Scan
  <2>3. e \in ChildrenIn(n, Terminals, d)
    BY <1>1, <2>1, <2>2 DEF ChildrenIn
  <2>4. First(ChildrenIn(n, Terminals, d)) # 0
    BY <1>2, <2>3, FirstFacts
  <2>. QED  BY <2>4 DEF TerminalIn
<1>5. CASE log[log[e].cause].type = "action.started"
  <2>1. log[log[e].cause].cause = d
    BY <1>1, <1>5 DEF DeedOf
  <2>2. d \in 1..(log[e].cause - 1)
    BY <1>3, <1>5, <2>1 DEF LogInv, LinksBack
  <2>3. e \in Scan(n) /\ log[e].cause \in Scan(n)
    BY <1>1, <1>3, <2>2 DEF Scan
  <2>4. log[e].cause \in Starts
    BY <1>5, <2>1, <2>3 DEF ChildrenIn
  <2>5. s # 0 /\ s \in Starts
    BY <1>2, <2>4, FirstFacts DEF StartedIn
  <2>6. s \in DOMAIN log /\ log[s].type = "action.started" /\ log[s].cause = d
    BY <1>1, <2>5 DEF ChildrenIn, Scan
  <2>7. s = log[e].cause
    BY <2>6, <1>3, <1>5, <2>1 DEF LogInv, SingleStart
  <2>8. e \in ChildrenIn(n, Terminals, s)
    BY <1>1, <2>3, <2>7 DEF ChildrenIn
  <2>9. First(ChildrenIn(n, Terminals, s)) # 0
    BY <1>2, <2>8, FirstFacts
  <2>. QED  BY <2>5, <2>9 DEF TerminalIn
<1>. QED  BY <1>3, <1>4, <1>5

\* What looks open in the snapshot, beyond the cursor, is open now: a terminal
\* older than the snapshot would be in the scan with all it cites, and a newer
\* one belongs to a deed at or before the cursor.
LEMMA OpenUnended ==
    ASSUME TypeOK, LogInv, RecoveryBehind, mode = "recovering", rec.phase = "close",
           NEW d \in OpenDeeds
    PROVE  /\ d \in Unended /\ d > rec.cursor /\ d \in 1..Len(log)
           /\ LET s == StartedIn(rec.snap, d)
              IN  s # 0 => /\ s \in DOMAIN log /\ log[s].type = "action.started"
                           /\ log[s].cause = d
<1> DEFINE n == rec.snap
           s == StartedIn(n, d)
           Starts == ChildrenIn(n, {"action.started"}, d)
<1>1. n \in Nat /\ rec.cursor \in Nat /\ n <= Len(log) /\ Len(log) \in Nat /\ DOMAIN log = 1..Len(log)
  BY DEF TypeOK, RecoveryBehind
<1>2. d \in Scan(n) /\ d > rec.cursor /\ log[d].type = "intent.proposed" /\ TerminalIn(n, d) = 0
  BY DEF OpenDeeds
<1> HIDE DEF n
<1>3. d \in 1..n /\ DeedScan \in Nat /\ d \in Intents /\ d \in 1..Len(log)
  BY <1>1, <1>2, AgencyAssumption DEF Scan, Intents
<1>4. \A types, p : ChildrenIn(n, types, p) \in SUBSET (Nat \ {0})
  BY <1>1 DEF ChildrenIn, Scan
<1>5. s # 0 => s \in Starts
  BY <1>4, FirstFacts DEF StartedIn
<1>6. s # 0 => s \in DOMAIN log /\ log[s].type = "action.started" /\ log[s].cause = d
  BY <1>1, <1>5 DEF ChildrenIn, Scan
<1>7. ASSUME NEW e \in DOMAIN log, log[e].type \in Terminals, DeedOf(e) = d PROVE FALSE
  <2>1. e <= n
    BY <1>1, <1>2, <1>3, <1>7 DEF RecoveryBehind, n
  <2>. QED  BY <1>1, <1>2, <1>3, <1>7, <2>1, EndSeen DEF EndsOf
<1>. QED  BY <1>2, <1>3, <1>6, <1>7 DEF Unended, n

(***************************************************************************)
(* The inductive invariant, part by part.                                  *)
(***************************************************************************)
\* A step of task t while the process is up: the others keep what they own.
LEMMA OwnStep ==
    ASSUME TypeOK, TasksOwn, NEW t \in Tasks, mode' = "up",
           \A u \in Tasks \ {t} : pc'[u] = pc[u] /\ deed'[u] = deed[u],
           \A d \in Unended : (pc[t] \in Working => d # deed[t]) => d \in Unended',
           \A d \in Unstarted : (pc[t] \in Working => d # deed[t]) => d \in Unstarted',
           pc'[t] \in Working => deed'[t] \in Unended',
           pc'[t] \in {"gate", "queued", "start"} => deed'[t] \in Unstarted',
           pc'[t] \in Working =>
              (pc[t] \in Working /\ deed'[t] = deed[t]) \/ deed'[t] \notin DOMAIN log
    PROVE  TasksOwn'
<1>1. \A u \in Tasks : pc[u] \in Working => deed[u] \in DOMAIN log
  BY DEF TasksOwn, Unended, Intents
<1>2. \A u \in Tasks \ {t} : pc[u] \in Working /\ pc[t] \in Working => deed[u] # deed[t]
  BY DEF TasksOwn
<1>3. ASSUME NEW u \in Tasks \ {t}
      PROVE  /\ pc'[u] \in Working => deed'[u] \in Unended'
             /\ pc'[u] \in {"gate", "queued", "start"} => deed'[u] \in Unstarted'
             /\ pc'[u] \in Working /\ pc'[t] \in Working => deed'[u] # deed'[t]
  <2>1. pc'[u] = pc[u] /\ deed'[u] = deed[u]
    OBVIOUS
  <2>2. pc[u] \in {"gate", "queued", "start"} => pc[u] \in Working
    BY DEF Working
  <2>. QED  BY <1>1, <1>2, <2>1, <2>2 DEF TasksOwn
<1>4. \A u, v \in Tasks \ {t} :
         (u # v /\ pc'[u] \in Working /\ pc'[v] \in Working) => deed'[u] # deed'[v]
  BY DEF TasksOwn
<1>. QED  BY <1>3, <1>4 DEF TasksOwn

\* The same for a step that appends nothing and gives t no new deed.
LEMMA OwnQuiet ==
    ASSUME TypeOK, TasksOwn, NEW t \in Tasks, mode' = "up", UNCHANGED log,
           \A u \in Tasks \ {t} : pc'[u] = pc[u] /\ deed'[u] = deed[u],
           pc'[t] \in Working => pc[t] \in Working /\ deed'[t] = deed[t],
           pc'[t] \in {"gate", "queued", "start"} => pc[t] \in {"gate", "queued", "start"}
    PROVE  TasksOwn'
<1>1. Unended' = Unended /\ Unstarted' = Unstarted
  BY DEF Unended, Unstarted, Intents, DeedOf
<1>2. pc'[t] \in {"gate", "queued", "start"} => pc'[t] \in Working
  BY DEF Working
<1>3. pc'[t] \in Working => deed'[t] \in Unended'
  BY <1>1 DEF TasksOwn
<1>4. pc'[t] \in {"gate", "queued", "start"} => deed'[t] \in Unstarted'
  BY <1>1, <1>2 DEF TasksOwn
<1>. QED  BY <1>1, <1>3, <1>4, OwnStep

\* While the process is not up every task is idle and owns nothing.
LEMMA OwnIdle ==
    ASSUME \A t \in Tasks : pc'[t] = "idle"
    PROVE  TasksOwn'
  BY DEF TasksOwn, Working

LEMMA QueueKept ==
    ASSUME TypeOK, WaitersQueued, NEW t \in Tasks, pc[t] # "queued", queue' = queue,
           \A u \in Tasks \ {t} : pc'[u] = pc[u]
    PROVE  WaitersQueued'
<1>1. \A i \in DOMAIN queue : queue[i] \in Tasks
  BY DEF TypeOK
<1>. QED  BY <1>1 DEF WaitersQueued

\* A step that appends nothing keeps every fact about the log.
LEMMA LogKept ==
    ASSUME UNCHANGED log
    PROVE  LogInv' = LogInv /\ Unended' = Unended /\ Unstarted' = Unstarted
  BY DEF LogInv, LinksBack, SingleStart, StartFirst, OneTerminal, Unended, Unstarted,
         Intents, DeedOf

(***************************************************************************)
(* Every action keeps the invariant.                                       *)
(***************************************************************************)
LEMMA InvInit == Init => IInv
<1>. SUFFICES ASSUME Init PROVE IInv
  OBVIOUS
<1>1. TypeOK
  BY TypeInit
<1>2. DOMAIN log = {} /\ DOMAIN queue = {}
  BY DEF Init
<1>3. LogInv
  BY <1>2 DEF LogInv, LinksBack, SingleStart, StartFirst, OneTerminal
<1>4. TasksOwn
  BY DEF Init, TasksOwn, Working
<1>5. WaitersQueued
  BY <1>2 DEF WaitersQueued
<1>6. RecoveryBehind
  BY DEF Init, RecoveryBehind
<1>. QED  BY <1>1, <1>3, <1>4, <1>5, <1>6 DEF IInv

LEMMA InvSubmit ==
    ASSUME IInv, NEW t \in Tasks, Submit(t)
    PROVE  IInv'
<1>0. TypeOK /\ TypeOK' /\ LogInv /\ TasksOwn /\ WaitersQueued /\ RecoveryBehind
  BY TypeSubmit DEF IInv
<1>1. PICK ident \in Idents, key \in Keys \union {NoKey} :
         Deduplicate(t, ident, key) \/ Propose(t, ident, key)
  BY DEF Submit
<1>2. CASE Deduplicate(t, ident, key)
  <2>1. UNCHANGED <<log, taskVars, mode, rec>>
    BY <1>2 DEF Deduplicate, envVars
  <2>2. LogInv' /\ Unended' = Unended /\ Unstarted' = Unstarted
    BY <1>0, <2>1, LogKept
  <2>3. TasksOwn'
    BY <1>0, <2>1, <2>2 DEF TasksOwn, taskVars
  <2>4. WaitersQueued' /\ RecoveryBehind'
    BY <1>0, <2>1 DEF WaitersQueued, RecoveryBehind, DeedOf, taskVars
  <2>. QED  BY <1>0, <2>2, <2>3, <2>4 DEF IInv
<1>3. CASE Propose(t, ident, key)
  <2>1. /\ mode = "up" /\ mode' = "up" /\ pc[t] = "idle" /\ queue' = queue
        /\ pc' = [pc EXCEPT ![t] = "gate"] /\ deed' = [deed EXCEPT ![t] = Len(log) + 1]
    BY <1>3 DEF Propose, envVars
  <2>2. DOMAIN pc = Tasks /\ DOMAIN deed = Tasks
    BY <1>0 DEF TypeOK
  <2>3. /\ LogInv'
        /\ Unended \union {Len(log) + 1} \subseteq Unended'
        /\ Unstarted \union {Len(log) + 1} \subseteq Unstarted'
    BY <1>0, <1>3, IntentTyped, PutIntent DEF Propose, TypeOK
  <2>4. Len(log) + 1 \notin DOMAIN log
    <3>1. log \in Seq(EventRecord)
      BY <1>0 DEF TypeOK
    <3>2. Len(log) \in Nat /\ DOMAIN log = 1..Len(log)
      BY <3>1
    <3>. QED  BY <3>2
  <2>5. TasksOwn'
    BY <1>0, <2>1, <2>2, <2>3, <2>4, OwnStep
  <2>6. WaitersQueued'
    BY <1>0, <2>1, <2>2, QueueKept
  <2>7. RecoveryBehind'
    BY <2>1 DEF RecoveryBehind
  <2>. QED  BY <1>0, <2>3, <2>5, <2>6, <2>7 DEF IInv
<1>. QED  BY <1>1, <1>2, <1>3

LEMMA InvTask ==
    ASSUME IInv, NEW t \in Tasks, TaskStep(t)
    PROVE  IInv'
<1>0. TypeOK /\ TypeOK' /\ LogInv /\ TasksOwn /\ WaitersQueued /\ RecoveryBehind
  BY TypeTask DEF IInv
<1>1. log \in Seq(EventRecord) /\ DOMAIN pc = Tasks /\ DOMAIN deed = Tasks
  BY <1>0 DEF TypeOK
<1>2. /\ pc[t] \in Working => deed[t] \in Unended /\ deed[t] \in DOMAIN log
      /\ pc[t] \in {"gate", "queued", "start"} => deed[t] \in Unstarted
  BY <1>0 DEF TasksOwn, Unended, Intents
<1>3. pc[t] # "idle" => mode = "up"
  BY <1>0 DEF TasksOwn
<1>4. (mode = "up" /\ mode' = mode) => RecoveryBehind'
  BY DEF RecoveryBehind
<1>5. CASE Reject(t)
  <2>1. /\ pc[t] = "gate" /\ mode = "up" /\ mode' = "up" /\ queue' = queue
        /\ pc' = [pc EXCEPT ![t] = "idle"] /\ deed' = [deed EXCEPT ![t] = 0]
        /\ Put(Event("intent.rejected", deed[t]))
    BY <1>3, <1>5 DEF Reject, Leave, envVars
  <2>2. /\ LogInv'
        /\ Unended \ {deed[t]} \subseteq Unended' /\ Unstarted \subseteq Unstarted'
    BY <1>0, <1>1, <1>2, <2>1, PutEnd DEF Working, Terminals
  <2>3. TasksOwn'
    BY <1>0, <1>1, <2>1, <2>2, OwnStep DEF Working
  <2>4. WaitersQueued'
    BY <1>0, <1>1, <2>1, QueueKept
  <2>. QED  BY <1>0, <1>4, <2>1, <2>2, <2>3, <2>4 DEF IInv
<1>6. CASE Admit(t)
  <2>1. /\ pc[t] = "gate" /\ mode = "up" /\ mode' = "up" /\ UNCHANGED <<log, deed>>
        /\ \/ pc' = [pc EXCEPT ![t] = "start"] /\ queue' = queue
           \/ pc' = [pc EXCEPT ![t] = "queued"] /\ queue' = Append(queue, t)
    BY <1>3, <1>6 DEF Admit, envVars
  <2>2. TasksOwn'
    BY <1>0, <1>1, <2>1, OwnQuiet DEF Working
  <2>3. WaitersQueued'
    <3>1. CASE pc' = [pc EXCEPT ![t] = "start"] /\ queue' = queue
      BY <1>0, <1>1, <2>1, <3>1, QueueKept
    <3>2. CASE pc' = [pc EXCEPT ![t] = "queued"] /\ queue' = Append(queue, t)
      <4>1. queue \in Seq(Tasks)
        BY <1>0 DEF TypeOK
      <4>2. \A i \in DOMAIN queue : queue[i] # t
        BY <1>0, <2>1 DEF WaitersQueued
      <4>3. /\ DOMAIN queue' = 1..(Len(queue) + 1) /\ DOMAIN queue = 1..Len(queue)
            /\ queue'[Len(queue) + 1] = t /\ Len(queue) \in Nat
            /\ \A i \in 1..Len(queue) : queue'[i] = queue[i] /\ queue[i] \in Tasks
        BY <3>2, <4>1
      <4>. QED  BY <1>0, <1>1, <3>2, <4>2, <4>3 DEF WaitersQueued
    <3>. QED  BY <2>1, <3>1, <3>2
  <2>. QED  BY <1>0, <1>4, <2>1, <2>2, <2>3, LogKept DEF IInv
<1>7. CASE Acquire(t)
  <2>1. /\ queue # <<>> /\ Head(queue) = t /\ queue' = Tail(queue)
        /\ pc' = [pc EXCEPT ![t] = "start"] /\ UNCHANGED <<log, deed, mode>>
    BY <1>7 DEF Acquire, envVars
  <2>2. queue \in Seq(Tasks)
    BY <1>0 DEF TypeOK
  <2>3. /\ Len(queue) \in Nat /\ Len(queue) > 0 /\ queue[1] = t
        /\ DOMAIN queue = 1..Len(queue) /\ DOMAIN queue' = 1..(Len(queue) - 1)
        /\ \A i \in 1..(Len(queue) - 1) : queue'[i] = queue[i + 1]
        /\ \A i \in 1..Len(queue) : queue[i] \in Tasks
    BY <2>1, <2>2
  <2>4. pc[t] = "queued" /\ mode = "up"
    BY <1>0, <1>3, <2>3 DEF WaitersQueued
  <2>5. TasksOwn'
    BY <1>0, <1>1, <2>1, <2>4, OwnQuiet DEF Working
  <2>6. WaitersQueued'
    <3>1. \A i \in 2..Len(queue) : queue[i] # t
      BY <1>0, <2>3 DEF WaitersQueued
    <3>. QED  BY <1>0, <1>1, <2>1, <2>3, <3>1 DEF WaitersQueued
  <2>. QED  BY <1>0, <1>4, <2>1, <2>4, <2>5, <2>6, LogKept DEF IInv
<1>8. CASE Start(t)
  <2>1. /\ pc[t] = "start" /\ mode = "up" /\ mode' = "up" /\ queue' = queue
        /\ pc' = [pc EXCEPT ![t] = "running"] /\ deed' = deed
        /\ Put(Event("action.started", deed[t]))
    BY <1>3, <1>8 DEF Start, envVars
  <2>2. /\ LogInv'
        /\ Unended \subseteq Unended' /\ Unstarted \ {deed[t]} \subseteq Unstarted'
    BY <1>0, <1>1, <1>2, <2>1, PutStart DEF Working
  <2>3. TasksOwn'
    BY <1>0, <1>1, <1>2, <2>1, <2>2, OwnStep DEF Working
  <2>4. WaitersQueued'
    BY <1>0, <1>1, <2>1, QueueKept
  <2>. QED  BY <1>0, <1>4, <2>1, <2>2, <2>3, <2>4 DEF IInv
<1>9. CASE \E status \in {"action.completed", "action.failed"} : RunReturns(t, status)
  <2>1. /\ pc[t] = "running" /\ mode = "up" /\ mode' = "up" /\ UNCHANGED <<log, deed, queue>>
        /\ pc' = [pc EXCEPT ![t] = "record"]
    BY <1>3, <1>9 DEF RunReturns, envVars
  <2>2. TasksOwn'
    BY <1>0, <1>1, <2>1, OwnQuiet DEF Working
  <2>3. WaitersQueued'
    BY <1>0, <1>1, <2>1, QueueKept
  <2>. QED  BY <1>0, <1>4, <2>1, <2>2, <2>3, LogKept DEF IInv
<1>10. CASE Record(t)
  <2>1. /\ pc[t] = "record" /\ mode = "up" /\ mode' = "up" /\ queue' = queue
        /\ pc' = [pc EXCEPT ![t] = "anchor"] /\ deed' = deed
        /\ Put(Event(ended[t], deed[t]))
    BY <1>3, <1>10 DEF Record, envVars
  <2>2. ended[t] \in Terminals
    BY <1>0 DEF TypeOK, Terminals
  <2>3. /\ LogInv'
        /\ Unended \ {deed[t]} \subseteq Unended' /\ Unstarted \subseteq Unstarted'
    BY <1>0, <1>1, <1>2, <2>1, <2>2, PutEnd DEF Working
  <2>4. TasksOwn'
    BY <1>0, <1>1, <2>1, <2>3, OwnStep DEF Working
  <2>5. WaitersQueued'
    BY <1>0, <1>1, <2>1, QueueKept
  <2>. QED  BY <1>0, <1>4, <2>1, <2>3, <2>4, <2>5 DEF IInv
<1>11. CASE Anchor(t)
  <2>1. /\ pc[t] = "anchor" /\ mode = "up" /\ mode' = "up" /\ queue' = queue
        /\ pc' = [pc EXCEPT ![t] = "idle"] /\ deed' = [deed EXCEPT ![t] = 0]
        /\ Put(Event("experience.created", term[t]))
    BY <1>3, <1>11 DEF Anchor, Leave, envVars
  <2>2. term[t] \in Nat
    BY <1>0 DEF TypeOK
  <2>3. LogInv' /\ Unended \subseteq Unended' /\ Unstarted \subseteq Unstarted'
    BY <1>0, <1>1, <2>1, <2>2, EventTyped, PutNeutral DEF EventTypes, Terminals
  <2>4. TasksOwn'
    BY <1>0, <1>1, <2>1, <2>3, OwnStep DEF Working
  <2>5. WaitersQueued'
    BY <1>0, <1>1, <2>1, QueueKept
  <2>. QED  BY <1>0, <1>4, <2>1, <2>3, <2>4, <2>5 DEF IInv
<1>. QED  BY <1>5, <1>6, <1>7, <1>8, <1>9, <1>10, <1>11 DEF TaskStep

LEMMA InvRecover ==
    ASSUME IInv, Recover \/ RecoverFails
    PROVE  IInv'
<1>0. TypeOK /\ TypeOK' /\ LogInv /\ TasksOwn /\ WaitersQueued /\ RecoveryBehind
  BY TypeRecover DEF IInv
<1>1. mode = "recovering" /\ UNCHANGED taskVars /\ \A t \in Tasks : pc[t] = "idle"
  BY <1>0 DEF Recover, RecoverClose, RecoverAnchor, RecoverTurn, RecoverBackfill,
              RecoverDone, RecoverFails, TasksOwn
<1>2. TasksOwn' /\ WaitersQueued'
  BY <1>0, <1>1, OwnIdle DEF taskVars, WaitersQueued
<1>3. log \in Seq(EventRecord) /\ Len(log) \in Nat /\ rec.cursor \in Nat /\ rec.snap \in Nat
  BY <1>0 DEF TypeOK
<1>4. CASE RecoverClose
  <2>1. PICK d \in OpenDeeds :
           /\ LET s == StartedIn(rec.snap, d)
              IN  Put(Event("action.failed", IF s # 0 THEN s ELSE d))
           /\ rec' = [rec EXCEPT !.cursor = d, !.due = Len(log) + 1]
    BY <1>4 DEF RecoverClose
  <2>2. mode' = mode /\ rec.phase = "close"
    BY <1>4 DEF RecoverClose
  <2> DEFINE s == StartedIn(rec.snap, d)
             c == IF s # 0 THEN s ELSE d
  <2>3. /\ d \in Unended /\ d > rec.cursor /\ d \in 1..Len(log)
        /\ s # 0 => s \in DOMAIN log /\ log[s].type = "action.started" /\ log[s].cause = d
    BY <1>0, <1>1, <2>2, OpenUnended
  <2>4. c \in DOMAIN log /\ (c = d \/ (log[c].type = "action.started" /\ log[c].cause = d))
    BY <1>3, <2>3
  <2>5. Put(Event("action.failed", c))
    BY <2>1
  <2>6. /\ LogInv'
        /\ \A e \in DOMAIN log' : log'[e].type \in Terminals =>
              (e \in 1..Len(log) /\ log[e].type \in Terminals /\ DeedOf(e)' = DeedOf(e))
              \/ (e = Len(log) + 1 /\ DeedOf(e)' = d)
    <3>1. "action.failed" \in Terminals
      BY DEF Terminals
    <3>. HIDE DEF c
    <3>. QED  BY <1>0, <1>3, <2>3, <2>4, <2>5, <3>1, PutEnd
  <2>7. rec'.snap = rec.snap /\ rec'.cursor = d
    BY <1>0, <2>1 DEF TypeOK
  <2>8. Len(log') = Len(log) + 1
    BY <1>3, <2>5 DEF Put
  <2>9. \A e \in DOMAIN log : e > rec.snap /\ log[e].type \in Terminals => DeedOf(e) <= rec.cursor
    BY <1>0, <1>1, <2>2 DEF RecoveryBehind
  <2>10. \A e \in DOMAIN log' : e > rec.snap /\ log'[e].type \in Terminals => DeedOf(e)' <= d
    <3>. SUFFICES ASSUME NEW e \in 1..Len(log), log[e].type \in Terminals, e > rec.snap
                  PROVE  DeedOf(e) <= d
      BY <2>3, <2>6
    <3>1. DeedOf(e) <= rec.cursor
      BY <1>3, <2>9
    <3>2. DeedOf(e) \in Nat
      <4>1. DeedOf(e)' = DeedOf(e) /\ DeedOf(e) \in 1..(e - 1)
        <5>1. Event("action.failed", c) \in EventRecord
          <6>1. c \in Nat
            BY <1>3, <2>4
          <6>. QED  BY <6>1, EventTyped DEF EventTypes, Terminals
        <5>. QED  BY <1>0, <1>3, <2>5, <5>1, DeedOfKept DEF LogInv
      <4>. QED  BY <4>1
    <3>. QED  BY <1>3, <2>3, <3>1, <3>2
  <2>11. RecoveryBehind'
    BY <1>0, <1>1, <1>3, <2>2, <2>7, <2>8, <2>10 DEF RecoveryBehind
  <2>. QED  BY <1>0, <1>2, <2>6, <2>11 DEF IInv
<1>5. CASE RecoverAnchor
  <2>1. rec.due \in Nat /\ Put(Event("experience.created", rec.due)) /\ mode' = mode
        /\ rec'.snap = rec.snap /\ rec'.cursor = rec.cursor /\ rec'.phase = rec.phase
    BY <1>0, <1>5 DEF RecoverAnchor, TypeOK
  <2> DEFINE event == Event("experience.created", rec.due)
  <2>2. event \in EventRecord /\ event.type = "experience.created"
    BY <2>1, EventTyped DEF EventTypes
  <2>3. LogInv'
    BY <1>0, <1>3, <2>1, <2>2, PutNeutral DEF Terminals
  <2>4. /\ Len(log') = Len(log) + 1
        /\ \A e \in DOMAIN log' : log'[e].type \in Terminals =>
              e \in DOMAIN log /\ log[e].type \in Terminals /\ DeedOf(e)' = DeedOf(e)
    <3>. HIDE DEF event
    <3>1. Put(event)
      BY <2>1 DEF event
    <3>2. /\ DOMAIN log = 1..Len(log) /\ DOMAIN log' = 1..(Len(log) + 1)
          /\ log'[Len(log) + 1].type = "experience.created"
          /\ Len(log') = Len(log) + 1
          /\ \A e \in 1..Len(log) : log'[e] = log[e]
      BY <1>3, <2>2, <3>1, PutFacts
    <3>3. \A e \in DOMAIN log' : log'[e].type \in Terminals =>
              e \in 1..Len(log) /\ log[e].type \in Terminals
      BY <3>2 DEF Terminals
    <3>. QED  BY <1>0, <1>3, <2>2, <3>1, <3>2, <3>3, DeedOfKept DEF LogInv
  <2>5. RecoveryBehind'
    BY <1>0, <1>3, <2>1, <2>4 DEF RecoveryBehind
  <2>. QED  BY <1>0, <1>2, <2>3, <2>5 DEF IInv
<1>6. CASE RecoverBackfill
  <2>1. PICK e \in LostAnchors : /\ Put(Event("experience.created", e))
                                 /\ rec' = [rec EXCEPT !.cursor = e]
    BY <1>6 DEF RecoverBackfill
  <2>2. e \in Nat /\ rec'.phase = "fill"
    BY <1>0, <1>3, <1>6, <2>1 DEF LostAnchors, Scan, RecoverBackfill, TypeOK
  <2>3. LogInv'
    BY <1>0, <1>3, <2>1, <2>2, EventTyped, PutNeutral DEF EventTypes, Terminals
  <2>. QED  BY <1>0, <1>2, <2>2, <2>3 DEF IInv, RecoveryBehind
<1>7. CASE RecoverTurn
  <2>1. log' = log /\ rec'.phase = "fill"
    BY <1>0, <1>7 DEF RecoverTurn, TypeOK
  <2>. QED  BY <1>0, <1>2, <2>1, LogKept DEF IInv, RecoveryBehind
<1>8. CASE RecoverDone \/ RecoverFails
  <2>1. log' = log /\ mode' = "up"
    BY <1>8 DEF RecoverDone, RecoverFails
  <2>. QED  BY <1>0, <1>2, <2>1, LogKept DEF IInv, RecoveryBehind
<1>. QED  BY <1>4, <1>5, <1>6, <1>7, <1>8 DEF Recover

LEMMA InvEnvironment ==
    ASSUME IInv, OtherAppend \/ Tick \/ Crash \/ Restart \/ (\E t \in Tasks : AppendFails(t))
    PROVE  IInv'
<1>0. TypeOK /\ TypeOK' /\ LogInv /\ TasksOwn /\ WaitersQueued /\ RecoveryBehind
  BY TypeEnvironment DEF IInv
<1>1. CASE OtherAppend
  <2>1. Put(Event("other", 0)) /\ UNCHANGED <<taskVars, mode>> /\ mode = "up"
    BY <1>1 DEF OtherAppend, envVars
  <2>2. LogInv' /\ Unended \subseteq Unended' /\ Unstarted \subseteq Unstarted'
    <3>1. "other" \in EventTypes /\ "other" \notin Terminals \union {"action.started"}
      BY DEF EventTypes, Terminals
    <3>2. log \in Seq(EventRecord)
      BY <1>0 DEF TypeOK
    <3>. QED  BY <1>0, <2>1, <3>1, <3>2, EventTyped, PutNeutral
  <2>. QED  BY <1>0, <2>1, <2>2
             DEF IInv, TasksOwn, WaitersQueued, RecoveryBehind, taskVars
<1>2. CASE Tick
  <2>1. UNCHANGED <<log, taskVars, mode, rec>>
    BY <1>2 DEF Tick
  <2>2. RecoveryBehind'
    BY <1>0, <2>1 DEF RecoveryBehind, DeedOf
  <2>. QED  BY <1>0, <2>1, <2>2, LogKept DEF IInv, TasksOwn, WaitersQueued, taskVars
<1>3. CASE Crash
  <2>1. log' = log /\ queue' = <<>> /\ mode' = "down" /\ \A t \in Tasks : pc'[t] = "idle"
    BY <1>3 DEF Crash
  <2>. QED  BY <1>0, <2>1, OwnIdle, LogKept DEF IInv, WaitersQueued, RecoveryBehind
<1>4. CASE Restart
  <2>1. /\ mode = "down" /\ UNCHANGED <<log, taskVars>>
        /\ rec' = [phase |-> "close", snap |-> Len(log), cursor |-> 0, due |-> 0]
    BY <1>4 DEF Restart, NoRecovery
  <2>2. \A t \in Tasks : pc'[t] = "idle"
    BY <1>0, <2>1 DEF TasksOwn, taskVars
  <2>3. RecoveryBehind'
    <3>1. \A e \in DOMAIN log : e <= Len(log)
      BY <1>0 DEF TypeOK
    <3>2. Len(log) \in Nat /\ DOMAIN log = 1..Len(log)
      BY <1>0 DEF TypeOK
    <3>. QED  BY <2>1, <3>1, <3>2 DEF RecoveryBehind
  <2>. QED  BY <1>0, <2>1, <2>2, <2>3, OwnIdle, LogKept DEF IInv, WaitersQueued, taskVars
<1>5. ASSUME NEW t \in Tasks, AppendFails(t) PROVE IInv'
  <2>1. /\ pc[t] \in {"gate", "start", "record", "anchor"}
        /\ UNCHANGED <<log, queue, mode>>
        /\ pc' = [pc EXCEPT ![t] = "idle"] /\ deed' = [deed EXCEPT ![t] = 0]
    BY <1>5 DEF AppendFails, Leave
  <2>2. mode = "up" /\ DOMAIN pc = Tasks /\ DOMAIN deed = Tasks
    BY <1>0, <2>1 DEF TasksOwn, TypeOK
  <2>3. TasksOwn'
    BY <1>0, <2>1, <2>2, OwnQuiet DEF Working
  <2>4. WaitersQueued'
    BY <1>0, <2>1, <2>2, QueueKept
  <2>. QED  BY <1>0, <2>1, <2>2, <2>3, <2>4, LogKept DEF IInv, RecoveryBehind
<1>. QED  BY <1>1, <1>2, <1>3, <1>4, <1>5

LEMMA InvStep ==
    ASSUME IInv, [Next]_vars
    PROVE  IInv'
<1>1. CASE UNCHANGED vars
  <2>1. TypeOK' /\ RecoveryBehind'
    BY <1>1 DEF vars, IInv, TypeOK, RecoveryBehind, DeedOf
  <2>. QED  BY <1>1, <2>1, LogKept DEF vars, IInv, TasksOwn, WaitersQueued
<1>2. CASE Next
  BY <1>2, InvSubmit, InvTask, InvRecover, InvEnvironment DEF Next
<1>. QED  BY <1>1, <1>2

(***************************************************************************)
(* The theorems.                                                           *)
(***************************************************************************)
\* The inductive invariant holds in every reachable state.
THEOREM InvariantHolds == Spec => []IInv
<1>1. Init => IInv
  BY InvInit
<1>2. IInv /\ [Next]_vars => IInv'
  BY InvStep
<1>. QED  BY <1>1, <1>2, PTL DEF Spec

\* A deed never has two terminal events (ADR-0020): not with any number of
\* concurrent tasks, crashes, failing appends and recoveries, and not even
\* when the store has outgrown every scan.
THEOREM OneTerminalAlways == Spec => []OneTerminal
<1>1. IInv => OneTerminal
  BY DEF IInv, LogInv
<1>. QED  BY <1>1, InvariantHolds, PTL

\* A deed is executed at most once, and never after it has ended.
THEOREM OneStartAlways == Spec => []OneStart
<1>1. IInv => OneStart
  <2>. SUFFICES ASSUME IInv PROVE OneStart
    OBVIOUS
  <2>1. SingleStart /\ StartFirst
    BY DEF IInv, LogInv
  <2>. QED  BY <2>1 DEF OneStart, SingleStart, StartFirst, StartsOf, EndsOf
<1>. QED  BY <1>1, InvariantHolds, PTL

\* Intake, recovery and the other writers only ever append to the store.
THEOREM StoreAppendOnly == Spec => AppendOnly
<1>1. ASSUME TypeOK, [Next]_vars PROVE [SubSeq(log', 1, Len(log)) = log]_log
  <2>1. SUFFICES ASSUME log' # log PROVE \E event : Put(event)
    <3>1. ASSUME NEW event, Put(event) PROVE SubSeq(log', 1, Len(log)) = log
      BY <1>1, <3>1 DEF Put, TypeOK
    <3>. QED  BY <3>1
  <2>2. Next
    BY <1>1, <2>1 DEF vars
  <2>3. ASSUME NEW t \in Tasks, Submit(t) \/ TaskStep(t) \/ AppendFails(t)
        PROVE  \E event : Put(event)
    BY <2>1, <2>3 DEF Submit, Deduplicate, Propose, TaskStep, Reject, Admit, Acquire,
                      Start, RunReturns, Record, Anchor, AppendFails
  <2>4. ASSUME Recover \/ RecoverFails PROVE \E event : Put(event)
    BY <2>1, <2>4 DEF Recover, RecoverClose, RecoverAnchor, RecoverTurn,
                      RecoverBackfill, RecoverDone, RecoverFails
  <2>5. ASSUME OtherAppend \/ Tick \/ Crash \/ Restart PROVE \E event : Put(event)
    BY <2>1, <2>5 DEF OtherAppend, Tick, Crash, Restart
  <2>. QED  BY <2>2, <2>3, <2>4, <2>5 DEF Next
<1>. QED  BY <1>1, TypeCorrect, PTL DEF Spec, AppendOnly

(***************************************************************************)
(* The strengthenings of the other invariants.                             *)
(***************************************************************************)
Outcomes == {"action.completed", "action.failed"}

\* An anchor cites an outcome before it, and no outcome has two.
AnchorLinks ==
    /\ \A x \in DOMAIN log : log[x].type = "experience.created" =>
           log[x].cause \in 1..(x - 1) /\ log[log[x].cause].type \in Outcomes
    /\ \A x, y \in DOMAIN log :
           ( /\ log[x].type = "experience.created" /\ log[y].type = "experience.created"
             /\ log[x].cause = log[y].cause ) => x = y

Unanchored ==
    {e \in DOMAIN log :
        /\ log[e].type \in Outcomes
        /\ \A x \in DOMAIN log : log[x].type = "experience.created" => log[x].cause # e}

\* A task about to remember an outcome is the only one to do so.
TermsOwn ==
    /\ \A t \in Tasks : IF pc[t] = "anchor" THEN term[t] \in Unanchored ELSE term[t] = 0
    /\ \A t, u \in Tasks :
           (t # u /\ pc[t] = "anchor" /\ pc[u] = "anchor") => term[t] # term[u]

\* Since its snapshot the recovery has anchored its own outcomes and those of the
\* snapshot at or before its cursor.
AnchorsBehind ==
    mode = "recovering" =>
        /\ rec.phase \in {"close", "fill"} /\ rec.snap <= Len(log)
        /\ rec.due # 0 =>
              rec.phase = "close" /\ rec.due > rec.snap /\ rec.due \in Unanchored
        /\ \A x \in DOMAIN log : (x > rec.snap /\ log[x].type = "experience.created") =>
              log[x].cause > rec.snap \/ (rec.phase = "fill" /\ log[x].cause <= rec.cursor)

\* What the recovery has passed it has closed.
ClosedBehind ==
    mode = "recovering" =>
        /\ \A d \in Intents : d <= rec.snap
        /\ \A d \in Intents \cap Scan(rec.snap) :
              (rec.phase = "close" => d <= rec.cursor) => d \notin Unended
        /\ \A e \in Scan(rec.snap) :
              (rec.phase = "fill" /\ e <= rec.cursor) => e \notin Unanchored

\* The lock is held while a run is, and one task at a time holds the event loop.
Busy == {"gate", "start", "record", "anchor"}
LockInv ==
    /\ \A t \in Tasks : pc[t] \in {"start", "running"} => holder = t
    /\ \A t, u \in Tasks : (pc[t] \in Busy /\ pc[u] \in Busy) => t = u

\* Nothing failed, and every deed is in view.
InView == faults = 0 /\ Len(log) <= DeedScan
LiveInv ==
    (mode = "up" /\ InView) => \A d \in Unended : \E t \in Tasks : pc[t] \in Working /\ deed[t] = d

\* Intents are stamped in the order of the log.
Stamps ==
    /\ \A d \in Intents : log[d].at <= now
    /\ \A d, f \in Intents : d <= f => log[d].at <= log[f].at

(***************************************************************************)
(* Memory: no outcome is anchored twice.                                   *)
(***************************************************************************)
\* An event that is no anchor leaves every outcome as remembered as it was.
LEMMA PutPlain ==
    ASSUME log \in Seq(EventRecord), AnchorLinks, NEW event \in EventRecord, Put(event),
           event.type # "experience.created"
    PROVE  /\ AnchorLinks' /\ Unanchored \subseteq Unanchored'
           /\ Unanchored' \subseteq Unanchored \union {Len(log) + 1}
           /\ event.type \in Outcomes => Len(log) + 1 \in Unanchored'
<1>P. /\ DOMAIN log = 1..Len(log) /\ DOMAIN log' = 1..(Len(log) + 1) /\ Len(log) \in Nat
      /\ log'[Len(log) + 1] = event
      /\ \A e \in 1..Len(log) : log'[e] = log[e]
  BY PutFacts
<1>1. ASSUME NEW x \in DOMAIN log', log'[x].type = "experience.created"
      PROVE  /\ x \in 1..Len(log) /\ log'[x] = log[x]
             /\ log[x].cause \in 1..(x - 1) /\ log'[log[x].cause] = log[log[x].cause]
             /\ log[log[x].cause].type \in Outcomes
  <2>1. x \in 1..Len(log) /\ log'[x] = log[x]
    BY <1>P, <1>1
  <2>2. log[x].cause \in 1..(x - 1) /\ log[log[x].cause].type \in Outcomes
    BY <1>P, <1>1, <2>1 DEF AnchorLinks
  <2>. QED  BY <1>P, <2>1, <2>2
<1>2. AnchorLinks'
  BY <1>P, <1>1 DEF AnchorLinks
<1>3. Unanchored \subseteq Unanchored'
  BY <1>P, <1>1 DEF Unanchored
<1>4. Unanchored' \subseteq Unanchored \union {Len(log) + 1}
  BY <1>P DEF Unanchored
<1>5. event.type \in Outcomes => Len(log) + 1 \in Unanchored'
  BY <1>P, <1>1 DEF Unanchored
<1>. QED  BY <1>2, <1>3, <1>4, <1>5

\* The anchor of an outcome that has none.
LEMMA PutAnchor ==
    ASSUME log \in Seq(EventRecord), AnchorLinks, NEW e \in Unanchored,
           Put(Event("experience.created", e))
    PROVE  /\ AnchorLinks' /\ Unanchored \ {e} \subseteq Unanchored'
           /\ Unanchored' \subseteq Unanchored \ {e}
<1> DEFINE event == Event("experience.created", e)
           new == Len(log) + 1
<1>1. e \in 1..Len(log) /\ log[e].type \in Outcomes /\ Len(log) \in Nat
  BY DEF Unanchored
<1>2. event \in EventRecord /\ event.type = "experience.created" /\ event.cause = e
  <2>1. e \in Nat /\ "experience.created" \in EventTypes
    BY <1>1 DEF EventTypes
  <2>. QED  BY <2>1, EventTyped
<1> HIDE DEF event
<1>P. /\ DOMAIN log = 1..Len(log) /\ DOMAIN log' = 1..new
      /\ log'[new].type = "experience.created" /\ log'[new].cause = e
      /\ \A x \in 1..Len(log) : log'[x] = log[x]
  BY <1>2, PutFacts DEF event
<1>3. ASSUME NEW x \in 1..Len(log), log[x].type = "experience.created"
      PROVE  /\ log'[x] = log[x] /\ log[x].cause \in 1..(x - 1)
             /\ log'[log[x].cause] = log[log[x].cause]
             /\ log[log[x].cause].type \in Outcomes /\ log[x].cause # e
  BY <1>1, <1>P, <1>3 DEF AnchorLinks, Unanchored
<1>4. AnchorLinks'
  <2>1. \A x \in DOMAIN log' : log'[x].type = "experience.created" =>
           log'[x].cause \in 1..(x - 1) /\ log'[log'[x].cause].type \in Outcomes
    <3>. SUFFICES ASSUME NEW x \in DOMAIN log', log'[x].type = "experience.created"
                  PROVE  log'[x].cause \in 1..(x - 1) /\ log'[log'[x].cause].type \in Outcomes
      OBVIOUS
    <3>1. CASE x = new
      BY <1>1, <1>P, <3>1
    <3>2. CASE x # new
      BY <1>1, <1>P, <1>3, <3>2
    <3>. QED  BY <3>1, <3>2
  <2>2. \A x, y \in DOMAIN log' :
           ( /\ log'[x].type = "experience.created" /\ log'[y].type = "experience.created"
             /\ log'[x].cause = log'[y].cause ) => x = y
    <3>1. \A x, y \in 1..Len(log) :
             ( /\ log[x].type = "experience.created" /\ log[y].type = "experience.created"
               /\ log[x].cause = log[y].cause ) => x = y
      BY <1>P DEF AnchorLinks
    <3>2. \A x \in 1..Len(log) : log[x].type = "experience.created" => log[x].cause # e
      BY <1>3
    <3>3. \A x \in DOMAIN log' : x = new \/ x \in 1..Len(log)
      BY <1>1, <1>P
    <3>. QED  BY <1>P, <3>1, <3>2, <3>3
  <2>. QED  BY <2>1, <2>2 DEF AnchorLinks
<1>5. Unanchored \ {e} \subseteq Unanchored'
  <2>. SUFFICES ASSUME NEW f \in Unanchored \ {e} PROVE f \in Unanchored'
    OBVIOUS
  <2>1. f \in 1..Len(log) /\ log[f].type \in Outcomes
    BY <1>P DEF Unanchored
  <2>2. ASSUME NEW x \in DOMAIN log', log'[x].type = "experience.created"
        PROVE  log'[x].cause # f
    <3>1. CASE x = new
      BY <1>P, <3>1
    <3>2. CASE x # new
      <4>1. x \in DOMAIN log /\ log'[x] = log[x]
        BY <1>1, <1>P, <3>2
      <4>. QED  BY <2>2, <4>1 DEF Unanchored
    <3>. QED  BY <3>1, <3>2
  <2>. QED  BY <1>1, <1>P, <2>1, <2>2 DEF Unanchored
<1>6. Unanchored' \subseteq Unanchored \ {e}
  <2>1. new \notin Unanchored'
    BY <1>P DEF Unanchored, Outcomes
  <2>2. e \notin Unanchored'
    <3>1. new \in DOMAIN log' /\ log'[new].type = "experience.created" /\ log'[new].cause = e
      BY <1>1, <1>P
    <3>. QED  BY <3>1 DEF Unanchored
  <2>3. ASSUME NEW f \in Unanchored', f # new PROVE f \in Unanchored
    BY <1>P, <2>3 DEF Unanchored
  <2>. QED  BY <2>1, <2>2, <2>3
<1>. QED  BY <1>4, <1>5, <1>6

\* A step of one task: the others keep the outcomes they are to remember.
LEMMA TermStep ==
    ASSUME TermsOwn, NEW t \in Tasks,
           \A u \in Tasks \ {t} : pc'[u] = pc[u] /\ term'[u] = term[u],
           \A e \in Unanchored : (pc[t] = "anchor" => e # term[t]) => e \in Unanchored',
           pc'[t] # "anchor" => term'[t] = 0,
           pc'[t] = "anchor" => term'[t] \in Unanchored' \ Unanchored
    PROVE  TermsOwn'
<1>1. ASSUME NEW u \in Tasks \ {t}
      PROVE  /\ IF pc'[u] = "anchor" THEN term'[u] \in Unanchored' ELSE term'[u] = 0
             /\ pc'[u] = "anchor" /\ pc'[t] = "anchor" => term'[u] # term'[t]
  BY DEF TermsOwn
<1>2. \A u, v \in Tasks \ {t} :
         (u # v /\ pc'[u] = "anchor" /\ pc'[v] = "anchor") => term'[u] # term'[v]
  BY DEF TermsOwn
<1>. QED  BY <1>1, <1>2 DEF TermsOwn

LEMMA AnchorsKept ==
    ASSUME UNCHANGED log
    PROVE  AnchorLinks' = AnchorLinks /\ Unanchored' = Unanchored
  BY DEF AnchorLinks, Unanchored

\* Only a serving process runs tasks.
LEMMA TaskUp ==
    ASSUME IInv, NEW t \in Tasks, TaskStep(t)
    PROVE  mode = "up" /\ mode' = "up" /\ UNCHANGED envVars
<1>0. TypeOK /\ TasksOwn /\ WaitersQueued
  BY DEF IInv
<1>1. UNCHANGED envVars /\ (pc[t] # "idle" \/ Acquire(t))
  BY DEF TaskStep, Reject, Admit, Acquire, Start, RunReturns, Record, Anchor
<1>2. ASSUME Acquire(t) PROVE pc[t] = "queued"
  <2>1. queue \in Seq(Tasks) /\ queue # <<>> /\ Head(queue) = t
    BY <1>0, <1>2 DEF TypeOK, Acquire
  <2>2. 1 \in DOMAIN queue /\ queue[1] = t
    BY <2>1
  <2>. QED  BY <1>0, <2>2 DEF WaitersQueued
<1>. QED  BY <1>0, <1>1, <1>2 DEF TasksOwn, envVars

AnchorInv == AnchorLinks /\ TermsOwn /\ AnchorsBehind

LEMMA AnchorInit == Init => AnchorInv
<1>. SUFFICES ASSUME Init PROVE AnchorInv
  OBVIOUS
<1>1. DOMAIN log = {}
  BY DEF Init
<1>. QED  BY <1>1 DEF Init, AnchorInv, AnchorLinks, TermsOwn, AnchorsBehind

LEMMA AnchorTask ==
    ASSUME IInv, AnchorInv, NEW t \in Tasks, TaskStep(t)
    PROVE  AnchorInv'
<1>0. TypeOK /\ AnchorLinks /\ TermsOwn /\ log \in Seq(EventRecord)
  BY DEF IInv, AnchorInv, TypeOK
<1>1. AnchorsBehind'
  BY TaskUp DEF AnchorsBehind
<1>2. /\ deed[t] \in Nat /\ ended[t] \in Outcomes /\ Len(log) \in Nat
      /\ DOMAIN pc = Tasks /\ DOMAIN term = Tasks
  BY <1>0 DEF TypeOK, Outcomes
<1>3. CASE Reject(t)
  <2>1. /\ pc[t] = "gate" /\ Put(Event("intent.rejected", deed[t]))
        /\ pc' = [pc EXCEPT ![t] = "idle"] /\ term' = [term EXCEPT ![t] = 0]
    BY <1>3 DEF Reject, Leave
  <2>2. AnchorLinks' /\ Unanchored \subseteq Unanchored'
    BY <1>0, <1>2, <2>1, EventTyped, PutPlain DEF EventTypes, Terminals
  <2>3. TermsOwn'
    BY <1>0, <1>2, <2>1, <2>2, TermStep
  <2>. QED  BY <1>1, <2>2, <2>3 DEF AnchorInv
<1>4. CASE Admit(t) \/ Acquire(t) \/ (\E status \in Outcomes : RunReturns(t, status))
  <2>1. /\ UNCHANGED <<log, term>> /\ pc'[t] # "anchor" /\ pc[t] # "anchor"
        /\ \A u \in Tasks \ {t} : pc'[u] = pc[u]
    <3>1. CASE Admit(t)
      BY <1>2, <3>1 DEF Admit
    <3>2. CASE Acquire(t)
      <4>1. queue \in Seq(Tasks) /\ queue # <<>> /\ Head(queue) = t
        BY <1>0, <3>2 DEF TypeOK, Acquire
      <4>2. 1 \in DOMAIN queue /\ queue[1] = t
        BY <4>1
      <4>3. pc[t] = "queued"
        BY <4>2 DEF IInv, WaitersQueued
      <4>. QED  BY <1>2, <3>2, <4>3 DEF Acquire
    <3>3. CASE \E status \in Outcomes : RunReturns(t, status)
      BY <1>2, <3>3 DEF RunReturns
    <3>. QED  BY <1>4, <3>1, <3>2, <3>3
  <2>2. AnchorLinks' /\ Unanchored' = Unanchored
    BY <1>0, <2>1, AnchorsKept
  <2>3. TermsOwn'
    BY <1>0, <2>1, <2>2, TermStep DEF TermsOwn
  <2>. QED  BY <1>1, <2>2, <2>3 DEF AnchorInv
<1>5. CASE Start(t)
  <2>1. /\ pc[t] = "start" /\ Put(Event("action.started", deed[t]))
        /\ pc' = [pc EXCEPT ![t] = "running"] /\ term' = term
    BY <1>5 DEF Start
  <2>2. AnchorLinks' /\ Unanchored \subseteq Unanchored'
    BY <1>0, <1>2, <2>1, EventTyped, PutPlain DEF EventTypes
  <2>3. term[t] = 0
    BY <1>0, <2>1 DEF TermsOwn
  <2>4. TermsOwn'
    BY <1>0, <1>2, <2>1, <2>2, <2>3, TermStep
  <2>. QED  BY <1>1, <2>2, <2>4 DEF AnchorInv
<1>6. CASE Record(t)
  <2>1. /\ pc[t] = "record" /\ Put(Event(ended[t], deed[t]))
        /\ pc' = [pc EXCEPT ![t] = "anchor"] /\ term' = [term EXCEPT ![t] = Len(log) + 1]
    BY <1>6 DEF Record
  <2> DEFINE event == Event(ended[t], deed[t])
  <2>2. event \in EventRecord /\ event.type \in Outcomes /\ event.type # "experience.created"
    <3>1. ended[t] \in EventTypes
      BY <1>2 DEF EventTypes, Terminals, Outcomes
    <3>. QED  BY <1>2, <3>1, EventTyped DEF Outcomes
  <2>. HIDE DEF event
  <2>3. /\ AnchorLinks' /\ Unanchored \subseteq Unanchored'
        /\ Len(log) + 1 \in Unanchored'
    BY <1>0, <2>1, <2>2, PutPlain DEF event
  <2>4. Len(log) + 1 \notin Unanchored
    BY <1>0, <1>2 DEF Unanchored
  <2>5. TermsOwn'
    BY <1>0, <1>2, <2>1, <2>3, <2>4, TermStep
  <2>. QED  BY <1>1, <2>3, <2>5 DEF AnchorInv
<1>7. CASE Anchor(t)
  <2>1. /\ pc[t] = "anchor" /\ Put(Event("experience.created", term[t]))
        /\ pc' = [pc EXCEPT ![t] = "idle"] /\ term' = [term EXCEPT ![t] = 0]
    BY <1>7 DEF Anchor, Leave
  <2>2. term[t] \in Unanchored
    BY <1>0, <2>1 DEF TermsOwn
  <2>3. AnchorLinks' /\ Unanchored \ {term[t]} \subseteq Unanchored'
    BY <1>0, <2>1, <2>2, PutAnchor
  <2>4. TermsOwn'
    BY <1>0, <1>2, <2>1, <2>3, TermStep
  <2>. QED  BY <1>1, <2>3, <2>4 DEF AnchorInv
<1>. QED  BY <1>3, <1>4, <1>5, <1>6, <1>7 DEF TaskStep, Outcomes

\* What looks forgotten in the snapshot, beyond the cursor, is forgotten now.
LEMMA LostUnanchored ==
    ASSUME TypeOK, AnchorInv, mode = "recovering", rec.phase = "fill", NEW e \in LostAnchors
    PROVE  e \in Unanchored
<1>1. /\ rec.snap \in Nat /\ rec.cursor \in Nat /\ rec.snap <= Len(log) /\ Len(log) \in Nat
      /\ DOMAIN log = 1..Len(log)
  BY DEF AnchorInv, AnchorsBehind, TypeOK
<1>2. /\ e \in 1..rec.snap /\ e > rec.snap - DeedScan /\ e > rec.cursor
      /\ e \in DOMAIN log /\ log[e].type \in Outcomes
  BY <1>1 DEF LostAnchors, Scan, Outcomes
<1>3. ASSUME NEW x \in DOMAIN log, log[x].type = "experience.created", log[x].cause = e
      PROVE  FALSE
  <2>1. x <= rec.snap
    BY <1>1, <1>2, <1>3 DEF AnchorInv, AnchorsBehind
  <2>2. e \in 1..(x - 1)
    BY <1>3 DEF AnchorInv, AnchorLinks
  <2>3. x \in Scan(rec.snap)
    BY <1>1, <1>2, <2>1, <2>2, AgencyAssumption DEF Scan
  <2>4. x \in ChildrenIn(rec.snap, {"experience.created"}, e)
    BY <1>3, <2>3 DEF ChildrenIn
  <2>. QED  BY <2>4 DEF LostAnchors
<1>. QED  BY <1>2, <1>3 DEF Unanchored

LEMMA AnchorRecover ==
    ASSUME IInv, AnchorInv, Recover \/ RecoverFails
    PROVE  AnchorInv'
<1>0. TypeOK /\ AnchorLinks /\ TermsOwn /\ AnchorsBehind /\ log \in Seq(EventRecord)
  BY DEF IInv, AnchorInv, TypeOK
<1>1. mode = "recovering" /\ UNCHANGED taskVars /\ \A t \in Tasks : pc[t] = "idle"
  BY DEF IInv, TasksOwn, Recover, RecoverClose, RecoverAnchor, RecoverTurn, RecoverBackfill,
         RecoverDone, RecoverFails
<1>2. TermsOwn'
  BY <1>0, <1>1 DEF TermsOwn, taskVars
<1>3. /\ rec.snap \in Nat /\ rec.cursor \in Nat /\ rec.due \in Nat /\ Len(log) \in Nat
      /\ DOMAIN log = 1..Len(log) /\ rec.snap <= Len(log)
      /\ rec = [phase |-> rec.phase, snap |-> rec.snap, cursor |-> rec.cursor, due |-> rec.due]
  BY <1>0, <1>1 DEF TypeOK, AnchorsBehind
<1>4. \A x \in DOMAIN log : (x > rec.snap /\ log[x].type = "experience.created") =>
         log[x].cause > rec.snap \/ (rec.phase = "fill" /\ log[x].cause <= rec.cursor)
  BY <1>0, <1>1 DEF AnchorsBehind
<1>5. CASE RecoverClose
  <2>1. PICK d \in OpenDeeds :
           /\ LET s == StartedIn(rec.snap, d)
              IN  Put(Event("action.failed", IF s # 0 THEN s ELSE d))
           /\ rec' = [rec EXCEPT !.cursor = d, !.due = Len(log) + 1]
           /\ rec.phase = "close" /\ mode' = mode
    BY <1>5 DEF RecoverClose
  <2> DEFINE c == IF StartedIn(rec.snap, d) # 0 THEN StartedIn(rec.snap, d) ELSE d
             event == Event("action.failed", c)
  <2>2. event \in EventRecord /\ event.type = "action.failed"
    <3>1. d \in Nat
      BY <1>3 DEF OpenDeeds, Scan
    <3>2. c \in Nat
      BY <1>3, <3>1, StartedTyped
    <3>. QED  BY <3>2, EventTyped DEF EventTypes, Terminals
  <2>3. Put(event)
    BY <2>1
  <2>. HIDE DEF c, event
  <2>4. /\ AnchorLinks' /\ Len(log) + 1 \in Unanchored'
    BY <1>0, <2>2, <2>3, PutPlain DEF Outcomes
  <2>5. /\ Len(log') = Len(log) + 1 /\ DOMAIN log' = 1..(Len(log) + 1)
        /\ log'[Len(log) + 1].type = "action.failed"
        /\ \A x \in 1..Len(log) : log'[x] = log[x]
    BY <1>0, <2>2, <2>3, PutFacts
  <2>6. rec'.phase = "close" /\ rec'.snap = rec.snap /\ rec'.due = Len(log) + 1
    BY <1>3, <2>1
  <2>7. ASSUME NEW x \in DOMAIN log', x > rec.snap, log'[x].type = "experience.created"
        PROVE  log'[x].cause > rec.snap
    BY <1>3, <1>4, <2>1, <2>5, <2>7
  <2>8. AnchorsBehind'
    BY <1>3, <2>4, <2>5, <2>6, <2>7 DEF AnchorsBehind
  <2>. QED  BY <1>2, <2>4, <2>8 DEF AnchorInv
<1>6. CASE RecoverAnchor
  <2>1. /\ rec.due \in Unanchored /\ rec.due > rec.snap /\ rec.phase = "close"
        /\ Put(Event("experience.created", rec.due)) /\ mode' = mode
    BY <1>0, <1>1, <1>6 DEF RecoverAnchor, AnchorsBehind
  <2>2. AnchorLinks'
    BY <1>0, <2>1, PutAnchor
  <2> DEFINE event == Event("experience.created", rec.due)
  <2>3. event \in EventRecord /\ event.cause = rec.due /\ Put(event)
    BY <1>3, <2>1, EventTyped DEF EventTypes
  <2>. HIDE DEF event
  <2>4. /\ Len(log') = Len(log) + 1 /\ DOMAIN log' = 1..(Len(log) + 1)
        /\ log'[Len(log) + 1].cause = rec.due
        /\ \A x \in 1..Len(log) : log'[x] = log[x]
    BY <1>0, <2>3, PutFacts
  <2>5. rec'.phase = "close" /\ rec'.snap = rec.snap /\ rec'.due = 0
    BY <1>3, <1>6, <2>1 DEF RecoverAnchor
  <2>6. ASSUME NEW x \in DOMAIN log', x > rec.snap, log'[x].type = "experience.created"
        PROVE  log'[x].cause > rec.snap
    <3>1. CASE x = Len(log) + 1
      BY <2>1, <2>4, <3>1
    <3>2. CASE x # Len(log) + 1
      BY <1>3, <1>4, <2>1, <2>4, <2>6, <3>2
    <3>. QED  BY <3>1, <3>2
  <2>7. AnchorsBehind'
    BY <1>3, <2>4, <2>5, <2>6 DEF AnchorsBehind
  <2>. QED  BY <1>2, <2>2, <2>7 DEF AnchorInv
<1>7. CASE RecoverTurn
  <2>1. /\ UNCHANGED log /\ rec.phase = "close" /\ rec'.phase = "fill"
        /\ rec'.snap = rec.snap /\ rec'.due = 0
    BY <1>3, <1>7 DEF RecoverTurn
  <2>2. AnchorLinks'
    BY <1>0, <2>1, AnchorsKept
  <2>3. AnchorsBehind'
    BY <1>3, <1>4, <2>1 DEF AnchorsBehind
  <2>. QED  BY <1>2, <2>2, <2>3 DEF AnchorInv
<1>8. CASE RecoverBackfill
  <2>1. PICK e \in LostAnchors : /\ Put(Event("experience.created", e))
                                 /\ rec' = [rec EXCEPT !.cursor = e]
                                 /\ rec.phase = "fill" /\ mode' = mode
    BY <1>8 DEF RecoverBackfill
  <2>2. e \in 1..rec.snap /\ e > rec.cursor /\ e \in DOMAIN log
    BY <1>3, <2>1 DEF LostAnchors, Scan
  <2>4. e \in Unanchored
    BY <1>0, <1>1, <2>1, LostUnanchored
  <2>5. AnchorLinks'
    BY <1>0, <2>1, <2>4, PutAnchor
  <2> DEFINE event == Event("experience.created", e)
  <2>6. event \in EventRecord /\ event.cause = e /\ Put(event)
    <3>1. e \in Nat /\ "experience.created" \in EventTypes
      BY <1>3, <2>2 DEF EventTypes
    <3>. QED  BY <2>1, <3>1, EventTyped
  <2>. HIDE DEF event
  <2>7. /\ Len(log') = Len(log) + 1 /\ DOMAIN log' = 1..(Len(log) + 1)
        /\ log'[Len(log) + 1].cause = e
        /\ \A x \in 1..Len(log) : log'[x] = log[x]
    BY <1>0, <2>6, PutFacts
  <2>8. rec'.phase = "fill" /\ rec'.snap = rec.snap /\ rec'.due = rec.due /\ rec'.cursor = e
    BY <1>3, <2>1
  <2>9. rec.due = 0
    BY <1>0, <1>1, <2>1 DEF AnchorsBehind
  <2>10. ASSUME NEW x \in DOMAIN log', x > rec.snap, log'[x].type = "experience.created"
         PROVE  log'[x].cause > rec.snap \/ log'[x].cause <= e
    <3>1. CASE x = Len(log) + 1
      BY <1>3, <2>2, <2>7, <3>1
    <3>2. CASE x # Len(log) + 1
      <4>1. x \in DOMAIN log /\ log'[x] = log[x] /\ log[x].cause \in Nat
        BY <1>0, <1>3, <2>7, <3>2, Entry
      <4>2. log[x].cause > rec.snap \/ log[x].cause <= rec.cursor
        BY <1>4, <2>10, <4>1
      <4>. QED  BY <1>3, <2>2, <4>1, <4>2
    <3>. QED  BY <3>1, <3>2
  <2>11. AnchorsBehind'
    BY <1>3, <2>7, <2>8, <2>9, <2>10 DEF AnchorsBehind
  <2>. QED  BY <1>2, <2>5, <2>11 DEF AnchorInv
<1>9. CASE RecoverDone \/ RecoverFails
  <2>1. UNCHANGED log /\ mode' = "up"
    BY <1>9 DEF RecoverDone, RecoverFails
  <2>. QED  BY <1>0, <1>2, <2>1, AnchorsKept DEF AnchorInv, AnchorsBehind
<1>. QED  BY <1>5, <1>6, <1>7, <1>8, <1>9 DEF Recover

LEMMA AnchorStep ==
    ASSUME IInv, AnchorInv, [Next]_vars
    PROVE  AnchorInv'
<1>0. TypeOK /\ AnchorLinks /\ TermsOwn /\ AnchorsBehind /\ log \in Seq(EventRecord)
  BY DEF IInv, AnchorInv, TypeOK
<1>1. ASSUME NEW t \in Tasks, Submit(t) PROVE AnchorInv'
  <2>1. PICK ident \in Idents, key \in Keys \union {NoKey} :
           Deduplicate(t, ident, key) \/ Propose(t, ident, key)
    BY <1>1 DEF Submit
  <2>2. CASE Deduplicate(t, ident, key)
    <3>1. UNCHANGED <<log, pc, term, mode, rec>>
      BY <2>2 DEF Deduplicate, taskVars, envVars
    <3>. QED  BY <1>0, <3>1, AnchorsKept DEF AnchorInv, TermsOwn, AnchorsBehind
  <2>3. CASE Propose(t, ident, key)
    <3>1. /\ mode' = "up" /\ pc[t] = "idle" /\ pc' = [pc EXCEPT ![t] = "gate"]
          /\ term' = term /\ Put(Intent(ident, key)) /\ DOMAIN pc = Tasks
      BY <1>0, <2>3 DEF Propose, envVars, TypeOK
    <3>2. AnchorLinks' /\ Unanchored \subseteq Unanchored'
      <4>1. /\ Intent(ident, key) \in EventRecord
            /\ Intent(ident, key).type = "intent.proposed"
        BY <1>0, IntentTyped DEF TypeOK
      <4>. QED  BY <1>0, <3>1, <4>1, PutPlain
    <3>3. TermsOwn'
      <4>1. term[t] = 0
        BY <1>0, <3>1 DEF TermsOwn
      <4>. QED  BY <1>0, <3>1, <3>2, <4>1, TermStep
    <3>. QED  BY <3>1, <3>2, <3>3 DEF AnchorInv, AnchorsBehind
  <2>. QED  BY <2>1, <2>2, <2>3
<1>2. ASSUME NEW t \in Tasks, AppendFails(t) PROVE AnchorInv'
  <2>1. /\ UNCHANGED <<log, mode>> /\ mode = "up"
        /\ pc' = [pc EXCEPT ![t] = "idle"] /\ term' = [term EXCEPT ![t] = 0]
        /\ DOMAIN pc = Tasks /\ DOMAIN term = Tasks
    BY <1>0, <1>2 DEF AppendFails, Leave, TypeOK, IInv, TasksOwn
  <2>2. AnchorLinks' /\ Unanchored' = Unanchored
    BY <1>0, <2>1, AnchorsKept
  <2>3. TermsOwn'
    BY <1>0, <2>1, <2>2, TermStep
  <2>. QED  BY <2>1, <2>2, <2>3 DEF AnchorInv, AnchorsBehind
<1>3. CASE OtherAppend
  <2>1. mode' = "up" /\ UNCHANGED <<pc, term>> /\ Put(Event("other", 0))
    BY <1>3 DEF OtherAppend, taskVars, envVars
  <2>2. AnchorLinks' /\ Unanchored \subseteq Unanchored'
    <3>1. Event("other", 0) \in EventRecord /\ Event("other", 0).type = "other"
      BY EventTyped DEF EventTypes
    <3>. QED  BY <1>0, <2>1, <3>1, PutPlain
  <2>3. TermsOwn'
    BY <1>0, <2>1, <2>2 DEF TermsOwn
  <2>. QED  BY <2>1, <2>2, <2>3 DEF AnchorInv, AnchorsBehind
<1>4. CASE Tick \/ UNCHANGED vars
  <2>1. UNCHANGED <<log, pc, term, mode, rec>>
    BY <1>4 DEF Tick, vars, taskVars
  <2>. QED  BY <1>0, <2>1, AnchorsKept DEF AnchorInv, TermsOwn, AnchorsBehind
<1>5. CASE Crash
  <2>1. /\ UNCHANGED log /\ mode' = "down"
        /\ \A t \in Tasks : pc'[t] = "idle" /\ term'[t] = 0
    BY <1>5 DEF Crash
  <2>. QED  BY <1>0, <2>1, AnchorsKept DEF AnchorInv, TermsOwn, AnchorsBehind
<1>6. CASE Restart
  <2>0. Len(log) \in Nat /\ DOMAIN log = 1..Len(log)
    BY <1>0
  <2>1. /\ UNCHANGED <<log, pc, term>>
        /\ rec' = [phase |-> "close", snap |-> Len(log), cursor |-> 0, due |-> 0]
    BY <1>6 DEF Restart, taskVars, NoRecovery
  <2>2. AnchorLinks' /\ TermsOwn'
    BY <1>0, <2>1, AnchorsKept DEF TermsOwn
  <2>3. AnchorsBehind'
    BY <2>0, <2>1 DEF AnchorsBehind
  <2>. QED  BY <2>2, <2>3 DEF AnchorInv
<1>. QED  BY <1>1, <1>2, <1>3, <1>4, <1>5, <1>6, AnchorTask, AnchorRecover DEF Next

LEMMA AnchorsHold == Spec => [](IInv /\ AnchorInv)
<1>1. Init => AnchorInv
  BY AnchorInit
<1>2. IInv /\ AnchorInv /\ [Next]_vars => AnchorInv'
  BY AnchorStep
<1>. QED  BY <1>1, <1>2, InvariantHolds, PTL DEF Spec

\* An outcome is remembered at most once, and only an outcome is: neither pass of a
\* recovery writes an anchor that intake or an earlier recovery wrote.
THEOREM OneAnchorAlways == Spec => []OneAnchor
<1>1. IInv /\ AnchorInv => OneAnchor
  BY DEF AnchorInv, AnchorLinks, OneAnchor, Outcomes
<1>. QED  BY <1>1, AnchorsHold, PTL

(***************************************************************************)
(* The lookups tell the truth about a deed whose intent they cover.        *)
(***************************************************************************)
LEMMA TerminalEnds ==
    ASSUME TypeOK, LogInv, NEW n \in Nat, n <= Len(log), NEW d \in Intents,
           TerminalIn(n, d) # 0
    PROVE  TerminalIn(n, d) \in EndsOf(d)
<1> DEFINE direct == ChildrenIn(n, Terminals, d)
           s == StartedIn(n, d)
           late == ChildrenIn(n, Terminals, s)
<1>1. Len(log) \in Nat /\ DOMAIN log = 1..Len(log)
  BY DEF TypeOK
<1>2. \A types, p : ChildrenIn(n, types, p) \in SUBSET (Nat \ {0})
  BY DEF ChildrenIn, Scan
<1>3. \A e \in Scan(n) : e \in DOMAIN log
  BY <1>1 DEF Scan
<1>4. log[d].type = "intent.proposed"
  BY DEF Intents
<1>5. CASE direct # {}
  <2>1. First(direct) \in direct /\ First(direct) # 0
    BY <1>2, <1>5, FirstFacts
  <2>2. TerminalIn(n, d) \in direct
    BY <2>1 DEF TerminalIn
  <2>. QED  BY <1>3, <1>4, <2>2 DEF ChildrenIn, EndsOf, DeedOf
<1>6. CASE direct = {}
  <2>1. First(direct) = 0
    BY <1>6 DEF First
  <2>2. s # 0 /\ TerminalIn(n, d) = First(late)
    BY <2>1 DEF TerminalIn
  <2>3. s \in ChildrenIn(n, {"action.started"}, d)
    BY <1>2, <2>2, FirstFacts DEF StartedIn
  <2>4. log[s].type = "action.started" /\ log[s].cause = d
    BY <2>3 DEF ChildrenIn
  <2>5. First(late) \in late
    BY <1>2, <2>2, FirstFacts
  <2>. QED  BY <1>3, <2>2, <2>4, <2>5 DEF ChildrenIn, EndsOf, DeedOf
<1>. QED  BY <1>5, <1>6

\* However far the store has outgrown the scan, a deed whose intent the scan covers looks
\* open if and only if it is open (the comment at _DEED_SCAN_LIMIT).
THEOREM ScanAlwaysHonest == Spec => []ScanHonest
<1>1. IInv => ScanHonest
  <2>. SUFFICES ASSUME IInv, NEW d \in Intents \cap Scan(Len(log))
                PROVE  (TerminalIn(Len(log), d) = 0) = (EndsOf(d) = {})
    BY DEF ScanHonest
  <2>1. TypeOK /\ LogInv /\ Len(log) \in Nat
    BY DEF IInv, TypeOK
  <2>2. ASSUME NEW e \in EndsOf(d) PROVE TerminalIn(Len(log), d) # 0
    <3>1. e <= Len(log)
      BY <2>1 DEF EndsOf
    <3>. QED  BY <2>1, <3>1, EndSeen
  <2>3. TerminalIn(Len(log), d) # 0 => EndsOf(d) # {}
    BY <2>1, TerminalEnds
  <2>. QED  BY <2>2, <2>3
<1>. QED  BY <1>1, InvariantHolds, PTL

(***************************************************************************)
(* What a finished recovery leaves behind.                                 *)
(***************************************************************************)
\* An append makes a deed open only if it proposes it.
LEMMA UnendedShrinks ==
    ASSUME TypeOK, LogInv, NEW event \in EventRecord, Put(event)
    PROVE  /\ Intents' = IF event.type = "intent.proposed" THEN Intents \union {Len(log) + 1}
                                                           ELSE Intents
           /\ Unended' \ Unended \subseteq Intents' \ Intents
<1>P. /\ log \in Seq(EventRecord)
      /\ DOMAIN log = 1..Len(log) /\ DOMAIN log' = 1..(Len(log) + 1) /\ Len(log) \in Nat
      /\ log'[Len(log) + 1] = event
      /\ \A e \in 1..Len(log) : log'[e] = log[e]
  BY PutFacts DEF TypeOK
<1>1. Intents' = IF event.type = "intent.proposed" THEN Intents \union {Len(log) + 1}
                                                   ELSE Intents
  BY <1>P DEF Intents
<1>2. ASSUME NEW d \in Intents, d \in Unended' PROVE d \in Unended
  <2>1. ASSUME NEW e \in DOMAIN log, log[e].type \in Terminals PROVE DeedOf(e) # d
    <3>1. DeedOf(e)' = DeedOf(e)
      BY <1>P, <2>1, DeedOfKept DEF LogInv
    <3>2. DeedOf(e)' # d
      BY <1>P, <1>2, <2>1 DEF Unended
    <3>. QED  BY <3>1, <3>2
  <2>. QED  BY <2>1 DEF Unended
<1>. QED  BY <1>1, <1>2 DEF Unended

\* A deed is closed by the recovery, the oldest that looks open.
LEMMA CloseStep ==
    ASSUME IInv, RecoverClose
    PROVE  \E d \in OpenDeeds :
              /\ \A f \in OpenDeeds : d <= f
              /\ rec' = [rec EXCEPT !.cursor = d, !.due = Len(log) + 1]
              /\ Intents' = Intents /\ Unended' \subseteq Unended \ {d}
<1>0. TypeOK /\ LogInv /\ RecoveryBehind /\ log \in Seq(EventRecord) /\ Len(log) \in Nat
  BY DEF IInv, TypeOK
<1>1. mode = "recovering" /\ rec.phase = "close"
  BY DEF RecoverClose
<1>2. PICK d \in OpenDeeds :
         /\ \A f \in OpenDeeds : d <= f
         /\ LET s == StartedIn(rec.snap, d)
            IN  Put(Event("action.failed", IF s # 0 THEN s ELSE d))
         /\ rec' = [rec EXCEPT !.cursor = d, !.due = Len(log) + 1]
  BY DEF RecoverClose
<1> DEFINE s == StartedIn(rec.snap, d)
           c == IF s # 0 THEN s ELSE d
           event == Event("action.failed", c)
<1>3. /\ d \in Unended /\ d \in 1..Len(log)
      /\ s # 0 => s \in DOMAIN log /\ log[s].type = "action.started" /\ log[s].cause = d
  BY <1>0, <1>1, OpenUnended
<1>4. c \in DOMAIN log /\ (c = d \/ (log[c].type = "action.started" /\ log[c].cause = d))
  BY <1>0, <1>3
<1>5. Put(event)
  BY <1>2
<1>. HIDE DEF c
<1>6. event \in EventRecord /\ event.type = "action.failed"
  <2>1. c \in Nat
    BY <1>0, <1>4
  <2>. QED  BY <2>1, EventTyped DEF EventTypes, Terminals
<1>7. \A e \in DOMAIN log' : log'[e].type \in Terminals =>
         (e \in 1..Len(log) /\ log[e].type \in Terminals /\ DeedOf(e)' = DeedOf(e))
         \/ (e = Len(log) + 1 /\ DeedOf(e)' = d)
  <2>1. "action.failed" \in Terminals
    BY DEF Terminals
  <2>. QED  BY <1>0, <1>3, <1>4, <1>5, <2>1, PutEnd
<1>. HIDE DEF event
<1>8. Intents' = Intents /\ Unended' \subseteq Unended
  BY <1>0, <1>5, <1>6, UnendedShrinks
<1>9. d \notin Unended'
  <2>1. PICK e \in DOMAIN log' : e = Len(log) + 1
    BY <1>0, <1>5, <1>6, PutFacts
  <2>2. log'[e].type \in Terminals /\ e \notin 1..Len(log)
    BY <1>0, <1>5, <1>6, <2>1, PutFacts DEF Terminals
  <2>3. DeedOf(e)' = d
    BY <1>7, <2>2
  <2>. QED  BY <2>1, <2>2, <2>3 DEF Unended
<1>. QED  BY <1>2, <1>8, <1>9

LEMMA ClosedStep ==
    ASSUME IInv, AnchorInv, ClosedBehind, [Next]_vars
    PROVE  ClosedBehind'
<1>0. TypeOK /\ LogInv /\ TasksOwn /\ log \in Seq(EventRecord) /\ Len(log) \in Nat
  BY DEF IInv, TypeOK
<1>r. ASSUME mode = "recovering"
      PROVE  /\ rec.snap \in Nat /\ rec.cursor \in Nat /\ rec.snap <= Len(log)
             /\ rec.phase \in {"close", "fill"}
             /\ \A d \in Intents : d <= rec.snap
             /\ \A d \in Intents \cap Scan(rec.snap) :
                   (rec.phase = "close" => d <= rec.cursor) => d \notin Unended
             /\ \A e \in Scan(rec.snap) :
                   (rec.phase = "fill" /\ e <= rec.cursor) => e \notin Unanchored
             /\ rec \in [phase : {"none", "close", "fill"}, snap : Nat, cursor : Nat, due : Nat]
  BY <1>0, <1>r DEF TypeOK, ClosedBehind, AnchorInv, AnchorsBehind
\* A deed of the snapshot that does not look open has ended.
<1>e. ASSUME mode = "recovering", rec.phase = "close",
             NEW d \in Intents \cap Scan(rec.snap), d \notin OpenDeeds
      PROVE  d \notin Unended
  <2>1. CASE d <= rec.cursor
    BY <1>e, <1>r, <2>1
  <2>2. CASE ~(d <= rec.cursor)
    <3>1. d > rec.cursor
      BY <1>e, <1>r, <2>2 DEF Scan
    <3>2. TerminalIn(rec.snap, d) # 0
      BY <1>e, <3>1 DEF OpenDeeds, Intents
    <3>3. TerminalIn(rec.snap, d) \in EndsOf(d)
      BY <1>0, <1>e, <1>r, <3>2, TerminalEnds
    <3>. QED  BY <3>3 DEF EndsOf, Unended
  <2>. QED  BY <2>1, <2>2
<1>1. CASE RecoverClose
  <2>1. PICK d \in OpenDeeds :
           /\ \A f \in OpenDeeds : d <= f
           /\ rec' = [rec EXCEPT !.cursor = d, !.due = Len(log) + 1]
           /\ Intents' = Intents /\ Unended' \subseteq Unended \ {d}
    BY <1>1, CloseStep
  <2>2. mode = "recovering" /\ rec.phase = "close"
    BY <1>1 DEF RecoverClose
  <2>3. rec'.phase = "close" /\ rec'.snap = rec.snap /\ rec'.cursor = d
    BY <1>r, <2>1, <2>2
  <2>4. ASSUME NEW f \in Intents \cap Scan(rec.snap), f <= d PROVE f \notin Unended'
    <3>1. CASE f = d
      BY <2>1, <3>1
    <3>2. CASE f # d
      <4>1. f \in Nat /\ d \in Nat
        BY <1>r, <2>2 DEF OpenDeeds, Scan
      <4>2. f \notin OpenDeeds
        BY <2>1, <2>4, <3>2, <4>1
      <4>. QED  BY <1>e, <2>1, <2>2, <4>2
    <3>. QED  BY <3>1, <3>2
  <2>. QED  BY <1>r, <2>1, <2>2, <2>3, <2>4 DEF ClosedBehind, Scan
<1>2. CASE RecoverAnchor
  <2>1. /\ mode = "recovering" /\ rec.due \in Unanchored
        /\ Put(Event("experience.created", rec.due))
        /\ rec'.phase = rec.phase /\ rec'.snap = rec.snap /\ rec'.cursor = rec.cursor
    BY <1>2, <1>r DEF RecoverAnchor, AnchorInv, AnchorsBehind
  <2>2. Unanchored' \subseteq Unanchored
    BY <1>0, <2>1, PutAnchor DEF AnchorInv
  <2>3. Intents' = Intents /\ Unended' \subseteq Unended
    <3>1. rec.due \in Nat /\ "experience.created" \in EventTypes
      BY <1>0 DEF TypeOK, EventTypes
    <3>. QED  BY <1>0, <2>1, <3>1, EventTyped, UnendedShrinks
  <2>. QED  BY <1>r, <2>1, <2>2, <2>3 DEF ClosedBehind, Scan
<1>3. CASE RecoverTurn
  <2>1. /\ mode = "recovering" /\ rec.phase = "close" /\ UNCHANGED log /\ OpenDeeds = {}
        /\ rec'.phase = "fill" /\ rec'.snap = rec.snap /\ rec'.cursor = 0
    BY <1>3, <1>r DEF RecoverTurn
  <2>2. Intents' = Intents /\ Unended' = Unended /\ Unanchored' = Unanchored
    BY <1>0, <2>1, LogKept, AnchorsKept DEF Intents
  <2>3. \A d \in Intents \cap Scan(rec.snap) : d \notin Unended
    BY <1>e, <2>1
  <2>4. \A e \in Scan(rec.snap) : ~(e <= 0)
    BY <1>r, <2>1 DEF Scan
  <2>. QED  BY <1>r, <2>1, <2>2, <2>3, <2>4 DEF ClosedBehind, Scan
<1>4. CASE RecoverBackfill
  <2>1. PICK e \in LostAnchors :
           /\ \A f \in LostAnchors : e <= f
           /\ Put(Event("experience.created", e)) /\ rec' = [rec EXCEPT !.cursor = e]
           /\ mode = "recovering" /\ rec.phase = "fill"
    BY <1>4 DEF RecoverBackfill
  <2>2. e \in Unanchored /\ e \in Nat
    BY <1>0, <1>r, <2>1, LostUnanchored DEF LostAnchors, Scan
  <2>3. Unanchored' \subseteq Unanchored \ {e}
    BY <1>0, <2>1, <2>2, PutAnchor DEF AnchorInv
  <2>4. Intents' = Intents /\ Unended' \subseteq Unended
    <3>1. "experience.created" \in EventTypes
      BY DEF EventTypes
    <3>. QED  BY <1>0, <2>1, <2>2, <3>1, EventTyped, UnendedShrinks
  <2>5. rec'.phase = "fill" /\ rec'.snap = rec.snap /\ rec'.cursor = e
    BY <1>r, <2>1
  <2>6. ASSUME NEW f \in Scan(rec.snap), f <= e PROVE f \notin Unanchored'
    <3>1. CASE f = e \/ f <= rec.cursor
      BY <1>r, <2>1, <2>3, <2>6, <3>1
    <3>2. CASE f # e /\ ~(f <= rec.cursor)
      <4>1. f \in Nat /\ f > rec.cursor /\ f \notin LostAnchors
        BY <1>r, <2>1, <2>2, <2>6, <3>2 DEF Scan
      <4>2. log[f].type \in Outcomes => ChildrenIn(rec.snap, {"experience.created"}, f) # {}
        BY <4>1, <2>6 DEF LostAnchors, Outcomes
      <4>3. \A x \in Scan(rec.snap) : x \in DOMAIN log
        BY <1>0, <1>r, <2>1 DEF Scan
      <4>4. f \notin Unanchored
        BY <4>2, <4>3 DEF Unanchored, ChildrenIn
      <4>. QED  BY <2>3, <4>4
    <3>. QED  BY <3>1, <3>2
  <2>. QED  BY <1>r, <2>1, <2>3, <2>4, <2>5, <2>6 DEF ClosedBehind, Scan
<1>5. CASE Restart
  <2>1. /\ UNCHANGED log /\ mode' = "recovering"
        /\ rec' = [phase |-> "close", snap |-> Len(log), cursor |-> 0, due |-> 0]
    BY <1>5 DEF Restart, NoRecovery
  <2>2. Intents' = Intents /\ \A d \in Intents : d <= Len(log)
    BY <1>0, <2>1 DEF Intents
  <2>3. \A d \in Scan(Len(log)) : ~(d <= 0)
    BY <1>0 DEF Scan
  <2>. QED  BY <2>1, <2>2, <2>3 DEF ClosedBehind, Scan
<1>6. CASE Tick \/ UNCHANGED vars
  <2>1. UNCHANGED <<log, mode, rec>>
    BY <1>6 DEF Tick, vars
  <2>2. Intents' = Intents /\ Unended' = Unended /\ Unanchored' = Unanchored
    BY <2>1, LogKept, AnchorsKept DEF Intents
  <2>. QED  BY <2>1, <2>2 DEF ClosedBehind, Scan
<1>7. ASSUME NEW t \in Tasks, Submit(t) \/ AppendFails(t) PROVE mode' = "up"
  BY <1>0, <1>7 DEF Submit, Deduplicate, Propose, AppendFails, envVars, TasksOwn
<1>8. CASE RecoverDone \/ RecoverFails \/ OtherAppend \/ Crash
  BY <1>8 DEF RecoverDone, RecoverFails, OtherAppend, Crash, envVars, ClosedBehind
<1>. QED  BY <1>1, <1>2, <1>3, <1>4, <1>5, <1>6, <1>7, <1>8, TaskUp
          DEF Next, Recover, ClosedBehind

\* A recovery that ends without an append failing has closed every deed of its scan and
\* remembered every outcome in it, those of crashes within earlier recoveries too.
THEOREM RecoveryClosesAlways == Spec => RecoveryCloses
<1>1. Init => ClosedBehind
  BY DEF Init, ClosedBehind
<1>2. IInv /\ AnchorInv /\ ClosedBehind /\ [Next]_vars => ClosedBehind'
  BY ClosedStep
<1>3. ASSUME IInv, AnchorInv, ClosedBehind, [Next]_vars
      PROVE  [(mode = "recovering" /\ mode' = "up" /\ faults' = faults) =>
                \A d \in Scan(rec.snap) :
                   /\ log[d].type = "intent.proposed" => EndsOf(d) # {}
                   /\ log[d].type \in {"action.completed", "action.failed"} => AnchorsOf(d) # {}
             ]_vars
  <2>. SUFFICES ASSUME mode = "recovering", mode' = "up", faults' = faults,
                       NEW d \in Scan(rec.snap)
                PROVE  /\ log[d].type = "intent.proposed" => EndsOf(d) # {}
                       /\ log[d].type \in Outcomes => AnchorsOf(d) # {}
    BY DEF Outcomes
  <2>0. /\ TypeOK /\ TasksOwn /\ log \in Seq(EventRecord) /\ Len(log) \in Nat
        /\ faults \in Nat /\ rec.snap \in Nat /\ rec.cursor \in Nat /\ rec.snap <= Len(log)
    BY <1>3 DEF IInv, TypeOK, AnchorInv, AnchorsBehind
  <2>1. Next
    BY <1>3 DEF vars
  <2>2. ASSUME NEW t \in Tasks, Submit(t) \/ AppendFails(t) PROVE FALSE
    BY <2>0, <2>2 DEF Submit, Deduplicate, Propose, AppendFails, TasksOwn
  <2>3. ASSUME NEW t \in Tasks, TaskStep(t) PROVE FALSE
    BY <1>3, <2>3, TaskUp
  <2>4. RecoverDone
    BY <2>0, <2>1, <2>2, <2>3 DEF Next, Recover, RecoverClose, RecoverAnchor, RecoverTurn,
       RecoverBackfill, RecoverFails, OtherAppend, Tick, Crash, Restart
  <2>5. rec.phase = "fill" /\ LostAnchors = {} /\ d \in DOMAIN log
    BY <2>0, <2>4 DEF RecoverDone, Scan
  <2>6. log[d].type = "intent.proposed" => EndsOf(d) # {}
    BY <1>3, <2>5 DEF ClosedBehind, Intents, Unended, EndsOf
  <2>7. ASSUME log[d].type \in Outcomes PROVE AnchorsOf(d) # {}
    <3>1. CASE d <= rec.cursor
      BY <1>3, <2>5, <2>7, <3>1 DEF ClosedBehind, Unanchored, AnchorsOf
    <3>2. CASE ~(d <= rec.cursor)
      <4>1. d > rec.cursor
        BY <2>0, <3>2 DEF Scan
      <4>2. ChildrenIn(rec.snap, {"experience.created"}, d) # {}
        BY <2>5, <2>7, <4>1 DEF LostAnchors, Outcomes
      <4>3. \A x \in Scan(rec.snap) : x \in DOMAIN log
        BY <2>0 DEF Scan
      <4>. QED  BY <4>2, <4>3 DEF ChildrenIn, AnchorsOf
    <3>. QED  BY <3>1, <3>2
  <2>. QED  BY <2>6, <2>7
<1>. QED  BY <1>1, <1>2, <1>3, AnchorsHold, PTL DEF Spec, RecoveryCloses

(***************************************************************************)
(* Who works: the lock, the event loop and the deeds in flight.            *)
(***************************************************************************)
\* A step of one task that takes the lock only when it is free, and the loop only when
\* nobody has it.
LEMMA LockStep ==
    ASSUME TypeOK, LockInv, NEW t \in Tasks,
           \A u \in Tasks \ {t} : pc'[u] = pc[u],
           pc'[t] \in {"start", "running"} => holder' = t,
           holder' # holder => holder \in {t, NoTask},
           pc'[t] \in Busy => pc[t] \in Busy \/ LoopFree
    PROVE  LockInv'
<1>1. ASSUME NEW u \in Tasks \ {t}, pc'[u] \in {"start", "running"} PROVE holder' = u
  <2>1. holder = u /\ u # NoTask
    BY <1>1, AgencyAssumption DEF LockInv
  <2>. QED  BY <1>1, <2>1
<1>2. ASSUME NEW u \in Tasks \ {t}, pc'[u] \in Busy, pc'[t] \in Busy PROVE FALSE
  BY <1>2 DEF LockInv, Busy, LoopFree
<1>3. \A u, v \in Tasks \ {t} : (pc'[u] \in Busy /\ pc'[v] \in Busy) => u = v
  BY DEF LockInv
<1>. QED  BY <1>1, <1>2, <1>3 DEF LockInv

LEMMA LockTask ==
    ASSUME IInv, LockInv, NEW t \in Tasks, TaskStep(t) \/ AppendFails(t) \/ Submit(t)
    PROVE  LockInv'
<1>0. TypeOK /\ DOMAIN pc = Tasks
  BY DEF IInv, TypeOK
<1>1. CASE Submit(t)
  <2>1. PICK ident \in Idents, key \in Keys \union {NoKey} :
           Deduplicate(t, ident, key) \/ Propose(t, ident, key)
    BY <1>1 DEF Submit
  <2>2. CASE Deduplicate(t, ident, key)
    BY <1>0, <2>2 DEF Deduplicate, taskVars, LockInv
  <2>3. CASE Propose(t, ident, key)
    <3>1. pc' = [pc EXCEPT ![t] = "gate"] /\ holder' = holder /\ LoopFree
      BY <2>3 DEF Propose
    <3>. QED  BY <1>0, <3>1, LockStep
  <2>. QED  BY <2>1, <2>2, <2>3
<1>2. CASE AppendFails(t)
  <2>1. /\ pc' = [pc EXCEPT ![t] = "idle"]
        /\ holder' = IF pc[t] = "start" THEN NoTask ELSE holder
    BY <1>2 DEF AppendFails, Leave
  <2>. QED  BY <1>0, <2>1, LockStep DEF LockInv, Busy
<1>3. CASE Reject(t) \/ Record(t) \/ Anchor(t)
  <2>1. /\ holder' = holder /\ pc[t] \in Busy
        /\ pc' = [pc EXCEPT ![t] = "idle"] \/ pc' = [pc EXCEPT ![t] = "anchor"]
    BY <1>3 DEF Reject, Record, Anchor, Leave, Busy
  <2>. QED  BY <1>0, <2>1, LockStep
<1>4. CASE Admit(t)
  <2>1. /\ pc[t] = "gate"
        /\ \/ /\ holder = NoTask /\ holder' = t /\ pc' = [pc EXCEPT ![t] = "start"]
           \/ holder' = holder /\ pc' = [pc EXCEPT ![t] = "queued"]
    BY <1>4 DEF Admit
  <2>. QED  BY <1>0, <2>1, LockStep DEF Busy
<1>5. CASE Acquire(t)
  <2>1. LoopFree /\ holder = NoTask /\ holder' = t /\ pc' = [pc EXCEPT ![t] = "start"]
    BY <1>5 DEF Acquire
  <2>. QED  BY <1>0, <2>1, LockStep
<1>6. CASE Start(t)
  <2>1. pc[t] = "start" /\ holder' = holder /\ pc' = [pc EXCEPT ![t] = "running"]
    BY <1>6 DEF Start
  <2>. QED  BY <1>0, <2>1, LockStep DEF LockInv, Busy
<1>7. CASE \E status \in {"action.completed", "action.failed"} : RunReturns(t, status)
  <2>1. /\ pc[t] = "running" /\ LoopFree /\ holder' = NoTask
        /\ pc' = [pc EXCEPT ![t] = "record"]
    BY <1>7 DEF RunReturns
  <2>. QED  BY <1>0, <2>1, LockStep DEF LockInv
<1>. QED  BY <1>1, <1>2, <1>3, <1>4, <1>5, <1>6, <1>7 DEF TaskStep

LEMMA LockHolds == Spec => []LockInv
<1>1. Init => LockInv
  BY DEF Init, LockInv, Busy
<1>2. ASSUME IInv, LockInv, [Next]_vars PROVE LockInv'
  <2>0. mode # "up" => \A t \in Tasks : pc[t] = "idle"
    BY <1>2 DEF IInv, TasksOwn
  <2>1. CASE UNCHANGED <<pc, holder>>
    BY <1>2, <2>1 DEF LockInv
  <2>2. CASE Crash
    BY <2>2 DEF Crash, LockInv, Busy
  <2>3. CASE \E t \in Tasks : Submit(t) \/ TaskStep(t) \/ AppendFails(t)
    BY <1>2, <2>3, LockTask
  <2>4. ASSUME ~UNCHANGED <<pc, holder>> PROVE
           Crash \/ \E t \in Tasks : Submit(t) \/ TaskStep(t) \/ AppendFails(t)
    BY <1>2, <2>4 DEF Next, Recover, RecoverClose, RecoverAnchor, RecoverTurn,
       RecoverBackfill, RecoverDone, RecoverFails, OtherAppend, Tick, Restart, vars, taskVars
  <2>. QED  BY <2>1, <2>2, <2>3, <2>4
<1>. QED  BY <1>1, <1>2, InvariantHolds, PTL DEF Spec

\* A terminal for a deed closes that deed and opens none.
LEMMA EndCloses ==
    ASSUME log \in Seq(EventRecord), TypeOK, LogInv, NEW d \in Unended,
           NEW type \in Terminals, Put(Event(type, d))
    PROVE  Unended' \subseteq Unended \ {d}
<1> DEFINE event == Event(type, d)
<1>1. d \in DOMAIN log /\ d \in Nat
  BY DEF Unended, Intents
<1>2. event \in EventRecord /\ event.type = type /\ type # "intent.proposed"
  BY <1>1, EventTyped DEF EventTypes, Terminals
<1>3. \A e \in DOMAIN log' : log'[e].type \in Terminals =>
         (e \in 1..Len(log) /\ log[e].type \in Terminals /\ DeedOf(e)' = DeedOf(e))
         \/ (e = Len(log) + 1 /\ DeedOf(e)' = d)
  BY <1>1, PutEnd
<1>. HIDE DEF event
<1>4. Put(event)
  BY DEF event
<1>5. Unended' \subseteq Unended
  BY <1>2, <1>4, UnendedShrinks
<1>6. d \notin Unended'
  <2>1. PICK e \in DOMAIN log' : e = Len(log) + 1
    BY <1>2, <1>4, PutFacts
  <2>2. log'[e].type \in Terminals /\ e \notin 1..Len(log)
    BY <1>2, <1>4, <2>1, PutFacts
  <2>3. DeedOf(e)' = d
    BY <1>3, <2>2
  <2>. QED  BY <2>1, <2>2, <2>3 DEF Unended
<1>. QED  BY <1>5, <1>6

\* A step of one task: it opens only a deed it works on, and leaves only one that ended.
LEMMA LiveTask ==
    ASSUME TypeOK, LiveInv, mode = "up", InView' => InView, NEW t \in Tasks,
           \A u \in Tasks \ {t} : pc'[u] = pc[u] /\ deed'[u] = deed[u],
           \A d \in Unended' : d \in Unended \/ (pc'[t] \in Working /\ deed'[t] = d),
           (pc[t] \in Working /\ deed[t] \in Unended') =>
               pc'[t] \in Working /\ deed'[t] = deed[t]
    PROVE  LiveInv'
<1>. SUFFICES ASSUME InView, NEW d \in Unended'
              PROVE  \E u \in Tasks : pc'[u] \in Working /\ deed'[u] = d
  BY DEF LiveInv
<1>1. CASE d \in Unended
  <2>1. PICK u \in Tasks : pc[u] \in Working /\ deed[u] = d
    BY <1>1 DEF LiveInv
  <2>. QED  BY <2>1
<1>. QED  BY <1>1

LEMMA LiveStep ==
    ASSUME IInv, AnchorInv, ClosedBehind, LiveInv, [Next]_vars
    PROVE  LiveInv'
<1>0. /\ TypeOK /\ LogInv /\ TasksOwn /\ log \in Seq(EventRecord) /\ Len(log) \in Nat
      /\ faults \in Nat /\ DOMAIN pc = Tasks /\ DOMAIN deed = Tasks
      /\ DeedScan \in Nat
  BY AgencyAssumption DEF IInv, TypeOK
<1>t. /\ \A t \in Tasks : pc[t] \in Working => deed[t] \in Unended
      /\ \A d \in Unended : d \in Nat
  BY <1>0 DEF TasksOwn, Unended, Intents
<1>p. ASSUME NEW event \in EventRecord, Put(event), faults' = faults PROVE InView' => InView
  BY <1>0, <1>p, PutFacts DEF InView
<1>q. ASSUME UNCHANGED <<log, faults>> PROVE InView' = InView /\ Unended' = Unended
  BY <1>q, LogKept DEF InView
<1>1. ASSUME NEW t \in Tasks, Submit(t) PROVE LiveInv'
  <2>1. PICK ident \in Idents, key \in Keys \union {NoKey} :
           Deduplicate(t, ident, key) \/ Propose(t, ident, key)
    BY <1>1 DEF Submit
  <2>2. CASE Deduplicate(t, ident, key)
    <3>1. UNCHANGED <<log, faults, mode, pc, deed>>
      BY <2>2 DEF Deduplicate, taskVars, envVars
    <3>. QED  BY <1>q, <3>1 DEF LiveInv
  <2>3. CASE Propose(t, ident, key)
    <3>1. /\ mode = "up" /\ pc[t] = "idle" /\ Put(Intent(ident, key)) /\ faults' = faults
          /\ pc' = [pc EXCEPT ![t] = "gate"] /\ deed' = [deed EXCEPT ![t] = Len(log) + 1]
      BY <2>3 DEF Propose, envVars
    <3>2. /\ Intent(ident, key) \in EventRecord
          /\ Intent(ident, key).type = "intent.proposed"
      BY <1>0, IntentTyped DEF TypeOK
    <3>3. \A d \in Unended' : d \in Unended \/ d = Len(log) + 1
      BY <1>0, <3>1, <3>2, UnendedShrinks
    <3>. QED  BY <1>0, <1>p, <3>1, <3>2, <3>3, LiveTask DEF Working
  <2>. QED  BY <2>1, <2>2, <2>3
<1>2. ASSUME NEW t \in Tasks, AppendFails(t) PROVE LiveInv'
  <2>1. faults' > 0
    BY <1>0, <1>2 DEF AppendFails
  <2>. QED  BY <2>1 DEF LiveInv, InView
<1>3. ASSUME NEW t \in Tasks, TaskStep(t) PROVE LiveInv'
  <2>0. mode = "up" /\ faults' = faults
    BY <1>3, TaskUp DEF envVars
  <2>1. CASE Reject(t) \/ Record(t)
    <3>1. PICK type \in Terminals : /\ Put(Event(type, deed[t])) /\ pc[t] \in Working
                                    /\ type \in EventTypes
                                    /\ \A u \in Tasks \ {t} : pc'[u] = pc[u] /\ deed'[u] = deed[u]
      <4>1. ended[t] \in Terminals /\ "intent.rejected" \in Terminals
        BY <1>0 DEF TypeOK, Terminals
      <4>2. Terminals \subseteq EventTypes
        BY DEF EventTypes
      <4>3. CASE Reject(t)
        BY <1>0, <4>1, <4>2, <4>3 DEF Reject, Leave, Working
      <4>4. CASE Record(t)
        BY <1>0, <4>1, <4>2, <4>4 DEF Record, Working
      <4>. QED  BY <2>1, <4>3, <4>4
    <3>2. Unended' \subseteq Unended \ {deed[t]}
      BY <1>0, <1>t, <3>1, EndCloses
    <3>3. InView' => InView
      BY <1>p, <1>t, <2>0, <3>1, EventTyped
    <3>. QED  BY <1>0, <2>0, <3>1, <3>2, <3>3, LiveTask
  <2>2. CASE Start(t)
    <3>1. /\ Put(Event("action.started", deed[t])) /\ deed' = deed /\ pc[t] \in Working
          /\ pc' = [pc EXCEPT ![t] = "running"]
      BY <2>2 DEF Start, Working
    <3>2. /\ Event("action.started", deed[t]) \in EventRecord
          /\ Event("action.started", deed[t]).type = "action.started"
      BY <1>t, <3>1, EventTyped DEF EventTypes
    <3>3. Unended' \subseteq Unended
      BY <1>0, <3>1, <3>2, UnendedShrinks
    <3>. QED  BY <1>0, <1>p, <2>0, <3>1, <3>2, <3>3, LiveTask DEF Working
  <2>3. CASE Anchor(t)
    <3>1. /\ Put(Event("experience.created", term[t])) /\ pc[t] \notin Working
          /\ \A u \in Tasks \ {t} : pc'[u] = pc[u] /\ deed'[u] = deed[u]
      BY <1>0, <2>3 DEF Anchor, Leave, Working
    <3>2. /\ Event("experience.created", term[t]) \in EventRecord
          /\ Event("experience.created", term[t]).type = "experience.created"
      BY <1>0, EventTyped DEF EventTypes, TypeOK
    <3>3. Unended' \subseteq Unended
      BY <1>0, <3>1, <3>2, UnendedShrinks
    <3>. QED  BY <1>0, <1>p, <2>0, <3>1, <3>2, <3>3, LiveTask
  <2>4. CASE Admit(t) \/ Acquire(t) \/ (\E status \in Outcomes : RunReturns(t, status))
    <3>1. /\ UNCHANGED <<log, deed>> /\ \A u \in Tasks \ {t} : pc'[u] = pc[u]
          /\ pc'[t] \in Working
      <4>1. CASE Admit(t)
        BY <1>0, <4>1 DEF Admit, Working
      <4>2. CASE Acquire(t)
        BY <1>0, <4>2 DEF Acquire, Working
      <4>3. CASE \E status \in Outcomes : RunReturns(t, status)
        BY <1>0, <4>3 DEF RunReturns, Working
      <4>. QED  BY <2>4, <4>1, <4>2, <4>3
    <3>. QED  BY <1>0, <1>q, <2>0, <3>1, LiveTask
  <2>. QED  BY <1>3, <2>1, <2>2, <2>3, <2>4 DEF TaskStep, Outcomes
<1>4. CASE OtherAppend
  <2>1. /\ Put(Event("other", 0)) /\ UNCHANGED <<pc, deed, mode, faults>>
    BY <1>4 DEF OtherAppend, taskVars, envVars
  <2>2. Event("other", 0) \in EventRecord /\ Event("other", 0).type = "other"
    BY EventTyped DEF EventTypes
  <2>3. Unended' \subseteq Unended
    BY <1>0, <2>1, <2>2, UnendedShrinks
  <2>. QED  BY <1>p, <2>1, <2>2, <2>3 DEF LiveInv
<1>5. CASE RecoverDone
  <2>1. /\ mode = "recovering" /\ rec.phase = "fill" /\ UNCHANGED <<log, faults>>
    BY <1>5 DEF RecoverDone
  <2>2. rec.snap \in Nat /\ rec.snap <= Len(log)
    BY <1>0, <2>1 DEF AnchorInv, AnchorsBehind, TypeOK
  <2>3. ASSUME InView, NEW d \in Unended PROVE FALSE
    <3>1. d \in Intents /\ d \in 1..Len(log) /\ d <= rec.snap
      BY <2>1, <2>3 DEF ClosedBehind, Unended, Intents
    <3>2. d \in Scan(rec.snap)
      BY <1>0, <2>2, <2>3, <3>1 DEF Scan, InView
    <3>. QED  BY <2>1, <2>3, <3>1, <3>2 DEF ClosedBehind
  <2>. QED  BY <1>q, <2>1, <2>3 DEF LiveInv
<1>6. CASE RecoverFails
  <2>1. faults' > 0
    BY <1>0, <1>6 DEF RecoverFails
  <2>. QED  BY <2>1 DEF LiveInv, InView
<1>7. CASE Tick \/ UNCHANGED vars
  <2>1. UNCHANGED <<log, faults, mode, pc, deed>>
    BY <1>7 DEF Tick, vars, taskVars
  <2>. QED  BY <1>q, <2>1 DEF LiveInv
<1>8. CASE RecoverClose \/ RecoverAnchor \/ RecoverTurn \/ RecoverBackfill \/ Crash \/ Restart
  <2>1. mode' # "up"
    BY <1>8 DEF RecoverClose, RecoverAnchor, RecoverTurn, RecoverBackfill, Crash, Restart
  <2>. QED  BY <2>1 DEF LiveInv
<1>. QED  BY <1>1, <1>2, <1>3, <1>4, <1>5, <1>6, <1>7, <1>8 DEF Next, Recover

LEMMA LiveHolds == Spec => [](IInv /\ AnchorInv /\ ClosedBehind /\ LiveInv)
<1>1. Init => ClosedBehind /\ LiveInv
  BY DEF Init, ClosedBehind, LiveInv
<1>2. IInv /\ AnchorInv /\ ClosedBehind /\ [Next]_vars => ClosedBehind'
  BY ClosedStep
<1>3. IInv /\ AnchorInv /\ ClosedBehind /\ LiveInv /\ [Next]_vars => LiveInv'
  BY LiveStep
<1>. QED  BY <1>1, <1>2, <1>3, AnchorsHold, PTL DEF Spec

\* A deed that looks in flight is in flight: once the process serves and every deed is in
\* view, a deed without a terminal has a live task, so nobody waits for one no one will end.
THEOREM InFlightAlwaysLive == Spec => []InFlightIsLive
<1>1. IInv /\ AnchorInv /\ LiveInv => InFlightIsLive
  <2>. SUFFICES ASSUME IInv, AnchorInv, LiveInv, mode = "up", InView,
                       NEW d \in Intents, EndsOf(d) = {}
                PROVE  \E t \in Tasks : deed[t] = d /\ term[t] = 0
    BY DEF InFlightIsLive, InView
  <2>1. d \in Unended
    BY DEF EndsOf, Unended
  <2>2. PICK t \in Tasks : pc[t] \in Working /\ deed[t] = d
    BY <2>1 DEF LiveInv
  <2>. QED  BY <2>2 DEF AnchorInv, TermsOwn, Working
<1>. QED  BY <1>1, LiveHolds, PTL

(***************************************************************************)
(* What the log shows of the past: executions in turn, and the dedup.      *)
(***************************************************************************)
\* A step leaves the log alone or appends one event; only Start appends a start and only
\* Propose an intent.
LEMMA LogStep ==
    ASSUME IInv, [Next]_vars, log' # log
    PROVE  \E event \in EventRecord :
              /\ Put(event) /\ now' = now
              /\ event.type = "action.started" =>
                    \E t \in Tasks : Start(t) /\ event.cause = deed[t]
              /\ event.type = "intent.proposed" =>
                    \E t \in Tasks, ident \in Idents, key \in Keys \union {NoKey} :
                       Propose(t, ident, key) /\ event = Intent(ident, key)
<1>0. TypeOK /\ log \in Seq(EventRecord) /\ Len(log) \in Nat
  BY DEF IInv, TypeOK
<1>1. TypeOK' /\ now \in Nat
  BY <1>0, TypeStep DEF TypeOK
<1>2. ASSUME NEW event, Put(event) PROVE event \in EventRecord
  <2>1. log' \in Seq(EventRecord) /\ log' = Append(log, event)
    BY <1>1, <1>2 DEF TypeOK, Put
  <2>2. Len(log) + 1 \in DOMAIN log' /\ log'[Len(log) + 1] = event
    BY <1>0, <2>1
  <2>. QED  BY <2>1, <2>2
<1>3. \A type, cause : Event(type, cause).type = type /\ Event(type, cause).cause = cause
  BY DEF Event
<1>4. CASE \E t \in Tasks : Start(t)
  <2>1. PICK t \in Tasks : Start(t)
    BY <1>4
  <2>2. Put(Event("action.started", deed[t])) /\ now' = now
    BY <2>1 DEF Start, envVars
  <2>. QED  BY <1>2, <1>3, <2>1, <2>2
<1>5. CASE \E t \in Tasks : Submit(t)
  <2>1. PICK t \in Tasks, ident \in Idents, key \in Keys \union {NoKey} :
           Deduplicate(t, ident, key) \/ Propose(t, ident, key)
    BY <1>5 DEF Submit
  <2>2. Propose(t, ident, key) /\ Put(Intent(ident, key)) /\ now' = now
    BY <2>1 DEF Deduplicate, Propose, envVars
  <2>3. Intent(ident, key) \in EventRecord /\ Intent(ident, key).type = "intent.proposed"
    BY <1>1, IntentTyped
  <2>. QED  BY <2>2, <2>3
<1>6. CASE \E t \in Tasks : Reject(t) \/ Record(t) \/ Anchor(t)
  <2>1. PICK t \in Tasks : Reject(t) \/ Record(t) \/ Anchor(t)
    BY <1>6
  <2>2. /\ now' = now
        /\ \/ Put(Event("intent.rejected", deed[t]))
           \/ Put(Event(ended[t], deed[t]))
           \/ Put(Event("experience.created", term[t]))
    BY <2>1 DEF Reject, Record, Anchor, envVars
  <2>3. ended[t] \in {"action.completed", "action.failed"}
    BY <1>0 DEF TypeOK
  <2>. QED  BY <1>2, <1>3, <2>2, <2>3
<1>7. CASE RecoverClose
  <2>1. PICK d \in OpenDeeds :
           Put(Event("action.failed", IF StartedIn(rec.snap, d) # 0
                                      THEN StartedIn(rec.snap, d) ELSE d))
    BY <1>7 DEF RecoverClose
  <2>2. now' = now
    BY <1>7 DEF RecoverClose
  <2>. QED  BY <1>2, <1>3, <2>1, <2>2
<1>8. CASE RecoverAnchor \/ RecoverBackfill
  <2>1. now' = now /\ \E e : Put(Event("experience.created", e))
    BY <1>8 DEF RecoverAnchor, RecoverBackfill
  <2>. QED  BY <1>2, <1>3, <2>1
<1>9. CASE OtherAppend
  <2>1. now' = now /\ Put(Event("other", 0))
    BY <1>9 DEF OtherAppend, envVars
  <2>. QED  BY <1>2, <1>3, <2>1
<1>10. ASSUME ~(\E t \in Tasks : Start(t) \/ Submit(t) \/ Reject(t) \/ Record(t) \/ Anchor(t)),
              ~RecoverClose, ~RecoverAnchor, ~RecoverBackfill, ~OtherAppend
       PROVE  FALSE
  <2>1. Next
    BY DEF vars
  <2>2. \A t \in Tasks : ~AppendFails(t) /\ ~Admit(t) /\ ~Acquire(t)
                         /\ \A status : ~RunReturns(t, status)
    BY DEF AppendFails, Admit, Acquire, RunReturns
  <2>. QED  BY <1>10, <2>1, <2>2 DEF Next, TaskStep, Recover, RecoverTurn, RecoverDone,
            RecoverFails, Tick, Crash, Restart
<1>. QED  BY <1>4, <1>5, <1>6, <1>7, <1>8, <1>9, <1>10

\* What has ended stays ended.
LEMMA EndsKept ==
    ASSUME TypeOK, LogInv, NEW event \in EventRecord, Put(event), NEW d, NEW e \in EndsOf(d)
    PROVE  e \in EndsOf(d)' /\ log'[e] = log[e]
<1>1. log \in Seq(EventRecord) /\ e \in 1..Len(log) /\ log[e].type \in Terminals
  BY DEF EndsOf, TypeOK
<1>2. DeedOf(e)' = DeedOf(e) /\ LinksBack
  BY <1>1, DeedOfKept DEF LogInv
<1>. QED  BY <1>1, <1>2, PutFacts DEF EndsOf

\* Executions follow one another: with no append failing and every deed in view, one
\* starts only after the one before it has ended, in intake or by the recovery.
THEOREM SerialAlways == Spec => []SerialDeeds
<1>1. Init => SerialDeeds
  BY DEF Init, SerialDeeds
<1>2. ASSUME IInv, AnchorInv, LockInv, LiveInv, SerialDeeds, [Next]_vars
      PROVE  SerialDeeds'
  <2>0. /\ TypeOK /\ LogInv /\ TasksOwn /\ log \in Seq(EventRecord) /\ Len(log) \in Nat
        /\ faults \in Nat /\ DeedScan \in Nat
    BY <1>2, AgencyAssumption DEF IInv, TypeOK
  <2>1. InView' => InView
    <3>1. faults' = faults \/ faults' = faults + 1
      BY <1>2 DEF Next, Submit, Deduplicate, Propose, TaskStep, Reject, Admit, Acquire, Start,
         RunReturns, Record, Anchor, AppendFails, Recover, RecoverClose, RecoverAnchor,
         RecoverTurn, RecoverBackfill, RecoverDone, RecoverFails, OtherAppend, Tick, Crash,
         Restart, envVars, vars
    <3>2. log' = log \/ Len(log') = Len(log) + 1
      BY <1>2, <2>0, LogStep, PutFacts
    <3>. QED  BY <2>0, <3>1, <3>2 DEF InView
  <2>2. CASE log' = log
    <3>1. \A d : EndsOf(d)' = EndsOf(d)
      BY <2>2 DEF EndsOf, DeedOf
    <3>. QED  BY <1>2, <2>1, <2>2, <3>1 DEF SerialDeeds, InView
  <2>3. CASE log' # log
    <3>1. PICK event \in EventRecord :
             /\ Put(event)
             /\ event.type = "action.started" =>
                   \E t \in Tasks : Start(t) /\ event.cause = deed[t]
      BY <1>2, <2>3, LogStep
    <3>2. /\ DOMAIN log = 1..Len(log) /\ DOMAIN log' = 1..(Len(log) + 1)
          /\ log'[Len(log) + 1] = event
          /\ \A e \in 1..Len(log) : log'[e] = log[e]
      BY <2>0, <3>1, PutFacts
    <3>. SUFFICES ASSUME InView, NEW s \in DOMAIN log', NEW r \in DOMAIN log', s < r,
                         log'[s].type = "action.started", log'[r].type = "action.started"
                  PROVE  \E e \in EndsOf(log[s].cause)' : e < r
      BY <2>1 DEF SerialDeeds, InView
    <3>3. s \in 1..Len(log) /\ log'[s] = log[s]
      BY <2>0, <3>2
    <3>4. \E e \in EndsOf(log[s].cause) : e < r
      <4>1. CASE r # Len(log) + 1
        BY <1>2, <2>0, <3>2, <3>3, <4>1 DEF SerialDeeds, InView
      <4>2. CASE r = Len(log) + 1
        <5>1. PICK t \in Tasks : Start(t)
          BY <3>1, <3>2, <4>2
        <5>2. mode = "up" /\ pc[t] = "start"
          BY <1>2, <5>1, TaskUp DEF TaskStep, Start
        <5>3. log[s].cause \in Intents /\ log[s].cause \notin Unstarted
          BY <2>0, <3>2, <3>3 DEF LogInv, LinksBack, Intents, Unstarted
        <5>4. ASSUME log[s].cause \in Unended PROVE FALSE
          <6>1. PICK u \in Tasks : pc[u] \in Working /\ deed[u] = log[s].cause
            BY <1>2, <5>2, <5>4 DEF LiveInv
          <6>2. pc[u] \in {"running", "record"}
            BY <2>0, <5>3, <6>1 DEF TasksOwn, Working
          <6>3. u # t
            BY <5>2, <6>2
          <6>. QED  BY <1>2, <5>2, <6>2, <6>3 DEF LockInv, Busy
        <5>5. PICK e \in EndsOf(log[s].cause) : TRUE
          BY <5>3, <5>4 DEF Unended, EndsOf
        <5>6. e <= Len(log)
          BY <2>0, <5>5 DEF EndsOf
        <5>. QED  BY <2>0, <4>2, <5>5, <5>6 DEF EndsOf
      <4>. QED  BY <4>1, <4>2
    <3>5. PICK e \in EndsOf(log[s].cause) : e < r
      BY <3>4
    <3>6. e \in EndsOf(log[s].cause)'
      <4>1. ASSUME NEW d, d = log[s].cause PROVE e \in EndsOf(d)'
        BY <2>0, <3>1, <3>5, <4>1, EndsKept
      <4>. QED  BY <3>3, <4>1 DEF EndsOf
    <3>. QED  BY <3>3, <3>5, <3>6 DEF EndsOf
  <2>. QED  BY <2>2, <2>3
<1>. QED  BY <1>1, <1>2, LiveHolds, LockHolds, PTL DEF Spec

LEMMA StampsHold == Spec => []Stamps
<1>1. Init => Stamps
  BY DEF Init, Stamps, Intents
<1>2. ASSUME IInv, Stamps, [Next]_vars PROVE Stamps'
  <2>0. log \in Seq(EventRecord) /\ Len(log) \in Nat /\ now \in Nat
    BY <1>2 DEF IInv, TypeOK
  <2>1. \A d \in Intents : log[d].at \in Nat
    <3>1. \A d \in Intents : log[d] \in EventRecord
      BY <2>0 DEF Intents
    <3>. QED  BY <3>1 DEF EventRecord
  <2>2. CASE log' = log
    <3>1. now' = now \/ now' = now + 1
      BY <1>2 DEF Next, Submit, Deduplicate, Propose, TaskStep, Reject, Admit, Acquire, Start,
         RunReturns, Record, Anchor, AppendFails, Recover, RecoverClose, RecoverAnchor,
         RecoverTurn, RecoverBackfill, RecoverDone, RecoverFails, OtherAppend, Tick, Crash,
         Restart, envVars, vars
    <3>2. Intents' = Intents
      BY <2>2 DEF Intents
    <3>3. \A d \in Intents : log[d].at <= now'
      BY <1>2, <2>0, <2>1, <3>1 DEF Stamps
    <3>. QED  BY <1>2, <2>2, <3>2, <3>3 DEF Stamps
  <2>3. CASE log' # log
    <3>1. PICK event \in EventRecord :
             /\ Put(event) /\ now' = now
             /\ event.type = "intent.proposed" => event.at = now
      BY <1>2, <2>3, LogStep DEF Intent
    <3>2. /\ \A e \in 1..Len(log) : log'[e] = log[e]
          /\ DOMAIN log = 1..Len(log) /\ DOMAIN log' = 1..(Len(log) + 1)
          /\ log'[Len(log) + 1] = event
      BY <2>0, <3>1, PutFacts
    <3>3. \A d \in Intents' : \/ d \in Intents /\ log'[d] = log[d] /\ d < Len(log) + 1
                              \/ d = Len(log) + 1 /\ log'[d].at = now
      BY <2>0, <3>1, <3>2 DEF Intents
    <3>4. \A d \in Intents' : log'[d].at <= now'
      BY <1>2, <2>0, <3>1, <3>3 DEF Stamps
    <3>5. ASSUME NEW d \in Intents', NEW f \in Intents', d <= f PROVE log'[d].at <= log'[f].at
      <4>1. CASE f = Len(log) + 1
        BY <3>1, <3>2, <3>3, <3>4, <4>1
      <4>2. CASE f # Len(log) + 1
        <5>1. f \in Intents /\ log'[f] = log[f] /\ f < Len(log) + 1 /\ f \in Nat /\ d \in Nat
          BY <2>0, <3>2, <3>3, <4>2 DEF Intents
        <5>2. d \in Intents /\ log'[d] = log[d]
          BY <2>0, <3>3, <3>5, <5>1
        <5>. QED  BY <1>2, <3>5, <5>1, <5>2 DEF Stamps
      <4>. QED  BY <4>1, <4>2
    <3>. QED  BY <3>4, <3>5 DEF Stamps
  <2>. QED  BY <2>2, <2>3
<1>. QED  BY <1>1, <1>2, InvariantHolds, PTL DEF Spec

\* What the dedup knows when it lets a submission through.
LEMMA LetThrough ==
    ASSUME TypeOK, LogInv, Stamps, NEW ident, NEW key, ExistingDeed(ident, key) = 0,
           NEW d \in RecentIntents
    PROVE  /\ key # NoKey => log[d].key # key
           /\ (log[d].ident = ident /\ now - log[d].at <= Window) =>
                 \E e \in EndsOf(d) : log[e].type = "intent.rejected"
<1> DEFINE C == {c \in RecentDeedCandidates(ident) : Satisfies(c)}
<1>1. /\ Len(log) \in Nat /\ d \in Intents /\ now \in Nat /\ Window \in Nat
      /\ DeedByKey(key) \in SUBSET (1..Len(log)) /\ C \in SUBSET (1..Len(log))
  BY AgencyAssumption DEF TypeOK, DeedByKey, RecentDeedCandidates, RecentIntents, Intents
<1>2. DeedByKey(key) = {}
  <2>. SUFFICES ASSUME DeedByKey(key) # {} PROVE FALSE
    OBVIOUS
  <2>1. Max(DeedByKey(key)) \in DeedByKey(key)
    BY <1>1, LastFacts
  <2>. QED  BY <1>1, <2>1 DEF ExistingDeed
<1>3. C = {}
  <2>. SUFFICES ASSUME C # {} PROVE FALSE
    OBVIOUS
  <2>1. Last(C) = 0
    BY <1>2 DEF ExistingDeed
  <2>2. Last(C) \in C
    <3>. HIDE DEF C
    <3>. QED  BY <1>1, LastFacts
  <2>. HIDE DEF C
  <2>. QED  BY <1>1, <2>1, <2>2
<1>4. key # NoKey => log[d].key # key
  BY <1>2 DEF DeedByKey
<1>5. ASSUME log[d].ident = ident, now - log[d].at <= Window
      PROVE  \E e \in EndsOf(d) : log[e].type = "intent.rejected"
  <2>1. \A f \in RecentIntents : f >= d => now - log[f].at <= Window
    <3>. SUFFICES ASSUME NEW f \in RecentIntents, f >= d PROVE now - log[f].at <= Window
      OBVIOUS
    <3>1. log[d].at <= log[f].at
      <4>1. f \in Intents /\ f \in Nat /\ d \in Nat
        BY <1>1 DEF RecentIntents, Intents, TypeOK
      <4>. QED  BY <1>1, <4>1 DEF Stamps
    <3>2. log[d].at \in Nat /\ log[f].at \in Nat
      <4>1. log[d] \in EventRecord /\ log[f] \in EventRecord
        BY <1>1 DEF RecentIntents, Intents, TypeOK
      <4>. QED  BY <4>1 DEF EventRecord
    <3>. QED  BY <1>1, <1>5, <3>1, <3>2
  <2>2. d \in RecentDeedCandidates(ident)
    BY <1>5, <2>1 DEF RecentDeedCandidates
  <2>3. ~Satisfies(d)
    BY <1>3, <2>2
  <2>4. /\ TerminalIn(Len(log), d) # 0
        /\ log[TerminalIn(Len(log), d)].type = "intent.rejected"
    BY <2>3 DEF Satisfies
  <2>. QED  BY <1>1, <2>4, TerminalEnds
<1>. QED  BY <1>4, <1>5

\* The intents between two of them.
Between(d, f) == {g \in Intents : d < g /\ g < f}

\* An append adds nothing between two intents that were there; a new intent is the newest,
\* so what lies between it and d is what was newer than d.
LEMMA BetweenKept ==
    ASSUME TypeOK, NEW event \in EventRecord, Put(event)
    PROVE  /\ \A d, f \in 1..Len(log) : Between(d, f)' = Between(d, f)
           /\ \A d \in Intents :
                 /\ Cardinality(Between(d, Len(log) + 1)) \in Nat
                 /\ Cardinality(Between(d, Len(log) + 1)) < IntentScan => d \in RecentIntents
                 /\ \A f : f = Len(log) + 1 => {g \in Intents' : d < g /\ g < f} = Between(d, f)
<1>P. /\ \A e \in 1..Len(log) : log'[e] = log[e]
      /\ DOMAIN log = 1..Len(log) /\ DOMAIN log' = 1..(Len(log) + 1)
      /\ Len(log) \in Nat
  BY PutFacts DEF TypeOK
<1>1. \A g \in 1..Len(log) : (g \in Intents') = (g \in Intents)
  BY <1>P DEF Intents
<1>2. \A d, f \in 1..Len(log) : Between(d, f)' = Between(d, f)
  BY <1>P, <1>1 DEF Between, Intents
<1>3. ASSUME NEW d \in Intents
      PROVE  /\ Between(d, Len(log) + 1) = {f \in Intents : f > d}
             /\ Cardinality({f \in Intents : f > d}) \in Nat
  <2>1. Between(d, Len(log) + 1) = {f \in Intents : f > d}
    BY <1>P DEF Between, Intents
  <2>2. IsFiniteSet({f \in Intents : f > d})
    <3>1. {f \in Intents : f > d} \in SUBSET (1..Len(log))
      BY <1>P DEF Intents
    <3>2. IsFiniteSet(1..Len(log))
      BY <1>P, FS_Interval
    <3>. QED  BY <3>1, <3>2, FS_Subset
  <2>. QED  BY <2>1, <2>2, FS_CardinalityType
<1>4. \A d \in Intents : \A f : f = Len(log) + 1 =>
         {g \in Intents' : d < g /\ g < f} = Between(d, f)
  BY <1>P, <1>1 DEF Between, Intents
<1>. QED  BY <1>2, <1>3, <1>4 DEF RecentIntents

\* The dedup on the log: what Propose cannot repeat is never repeated.
LEMMA DedupStep ==
    ASSUME IInv, Stamps, KeyRecordedOnce, NoRepeatedDeed, [Next]_vars
    PROVE  KeyRecordedOnce' /\ NoRepeatedDeed'
<1>0. /\ TypeOK /\ LogInv /\ log \in Seq(EventRecord) /\ Len(log) \in Nat
      /\ IntentScan \in Nat
  BY AgencyAssumption DEF IInv, TypeOK
<1>1. CASE log' = log
  <2>1. Intents' = Intents /\ \A d : EndsOf(d)' = EndsOf(d)
    BY <1>1 DEF Intents, EndsOf, DeedOf
  <2>. QED  BY <1>1, <2>1 DEF KeyRecordedOnce, NoRepeatedDeed
<1>2. CASE log' # log
  <2>1. PICK event \in EventRecord :
           /\ Put(event)
           /\ event.type = "intent.proposed" =>
                 \E t \in Tasks, ident \in Idents, key \in Keys \union {NoKey} :
                    Propose(t, ident, key) /\ event = Intent(ident, key)
    BY <1>2, LogStep
  <2> DEFINE new == Len(log) + 1
  <2>P. /\ \A e \in 1..Len(log) : log'[e] = log[e]
        /\ DOMAIN log = 1..Len(log) /\ DOMAIN log' = 1..new /\ log'[new] = event
    BY <1>0, <2>1, PutFacts
  <2>2. \A d \in Intents' : \/ d \in Intents /\ d \in 1..Len(log) /\ log'[d] = log[d]
                            \/ d = new /\ event.type = "intent.proposed"
    BY <2>P DEF Intents
  <2>3. ASSUME NEW d \in Intents', NEW f \in Intents', d < f, f # new
        PROVE  /\ d \in Intents /\ f \in Intents /\ log'[d] = log[d] /\ log'[f] = log[f]
               /\ {g \in Intents' : d < g /\ g < f} = {g \in Intents : d < g /\ g < f}
    <3>1. /\ d \in Intents /\ f \in Intents /\ log'[d] = log[d] /\ log'[f] = log[f]
          /\ d \in 1..Len(log) /\ f \in 1..Len(log)
      BY <1>0, <2>2, <2>3
    <3>2. \A g \in Intents' : g < f => g \in Intents
      BY <1>0, <2>2, <3>1
    <3>3. Intents \subseteq Intents'
      BY <1>0, <2>P DEF Intents
    <3>. QED  BY <3>1, <3>2, <3>3
  <2>4. ASSUME NEW d \in Intents', d < new, new \in Intents'
        PROVE  /\ d \in Intents /\ log'[d] = log[d]
               /\ Cardinality({g \in Intents' : d < g /\ g < new}) \in Nat
               /\ Cardinality({g \in Intents' : d < g /\ g < new}) < IntentScan =>
                     /\ event.key # NoKey => log[d].key # event.key
                     /\ (log[d].ident = event.ident /\ event.at - log[d].at <= Window) =>
                           \E e \in EndsOf(d) : log[e].type = "intent.rejected"
    <3>1. d \in Intents /\ log'[d] = log[d] /\ event.type = "intent.proposed"
      BY <1>0, <2>2, <2>4, <2>P DEF Intents
    <3>2. PICK t \in Tasks, ident \in Idents, key \in Keys \union {NoKey} :
             Propose(t, ident, key) /\ event = Intent(ident, key)
      BY <2>1, <3>1
    <3>3. /\ ExistingDeed(ident, key) = 0
          /\ event.key = key /\ event.ident = ident /\ event.at = now
      BY <3>2 DEF Propose, Intent
    <3>4. /\ Cardinality({g \in Intents' : d < g /\ g < new}) \in Nat
          /\ Cardinality({g \in Intents' : d < g /\ g < new}) < IntentScan =>
                d \in RecentIntents
      BY <1>0, <2>1, <3>1, BetweenKept
    <3>. QED  BY <1>0, <3>1, <3>3, <3>4, LetThrough
  <2>5. KeyRecordedOnce'
    <3>. SUFFICES ASSUME NEW d \in Intents', NEW f \in Intents', d < f,
                         log'[d].key = log'[f].key, log'[d].key # NoKey
                  PROVE  Cardinality({g \in Intents' : d < g /\ g < f}) >= IntentScan
      BY DEF KeyRecordedOnce
    <3>1. CASE f = new
      BY <1>0, <2>4, <2>P, <3>1
    <3>2. CASE f # new
      BY <2>3, <3>2 DEF KeyRecordedOnce
    <3>. QED  BY <3>1, <3>2
  <2>6. NoRepeatedDeed'
    <3>. SUFFICES ASSUME NEW d \in Intents', NEW f \in Intents', d < f,
                         log'[d].ident = log'[f].ident, log'[f].at - log'[d].at <= Window,
                         Cardinality({g \in Intents' : d < g /\ g < f}) < IntentScan
                  PROVE  \E e \in EndsOf(d)' : log'[e].type = "intent.rejected"
      BY DEF NoRepeatedDeed
    <3>1. \E e \in EndsOf(d) : log[e].type = "intent.rejected"
      <4>1. CASE f = new
        BY <2>4, <2>P, <4>1
      <4>2. CASE f # new
        BY <2>3, <4>2 DEF NoRepeatedDeed
      <4>. QED  BY <4>1, <4>2
    <3>2. PICK e \in EndsOf(d) : log[e].type = "intent.rejected"
      BY <3>1
    <3>3. e \in EndsOf(d)' /\ log'[e] = log[e]
      BY <1>0, <2>1, EndsKept
    <3>. QED  BY <3>2, <3>3
  <2>. QED  BY <2>5, <2>6
<1>. QED  BY <1>1, <1>2

LEMMA DedupHolds == Spec => [](KeyRecordedOnce /\ NoRepeatedDeed)
<1>1. Init => KeyRecordedOnce /\ NoRepeatedDeed
  BY DEF Init, KeyRecordedOnce, NoRepeatedDeed, Intents
<1>2. IInv /\ Stamps /\ KeyRecordedOnce /\ NoRepeatedDeed /\ [Next]_vars
         => (KeyRecordedOnce /\ NoRepeatedDeed)'
  BY DedupStep
<1>. QED  BY <1>1, <1>2, StampsHold, InvariantHolds, PTL DEF Spec

\* A key on a recorded deed is put on no other until IntentScan newer intents hide it.
THEOREM KeyAlwaysOnce == Spec => []KeyRecordedOnce
  BY DedupHolds, PTL

\* Within the window a second deed of the same intent exists only if the first was
\* rejected, unless IntentScan newer intents hide it.
THEOREM NeverRepeated == Spec => []NoRepeatedDeed
  BY DedupHolds, PTL

(***************************************************************************)
(* The agency implements the life of a deed (DeedLifecycle).               *)
(***************************************************************************)
AnyLife == INSTANCE DeedLifecycle WITH Deeds <- Nat, life <- Life

\* A task that runs, or records what its run returned, has started its deed.
RunsStarted == \A t \in Tasks : pc[t] \in {"running", "record"} => deed[t] \notin Unstarted

\* Who appends what.
LEMMA WhoAppends ==
    ASSUME IInv, [Next]_vars, NEW event \in EventRecord, Put(event)
    PROVE  \/ event.type = "other" /\ OtherAppend
           \/ event.type = "intent.proposed" /\ \E t \in Tasks : Submit(t)
           \/ event.type = "action.started" /\ \E t \in Tasks : Start(t)
           \/ /\ event.type \in Terminals
              /\ (\E t \in Tasks : Reject(t) \/ Record(t)) \/ RecoverClose
           \/ /\ event.type = "experience.created"
              /\ (\E t \in Tasks : Anchor(t)) \/ RecoverAnchor \/ RecoverBackfill
<1>0. TypeOK /\ log \in Seq(EventRecord) /\ log' # log
  <2>1. log \in Seq(EventRecord)
    BY DEF IInv, TypeOK
  <2>2. Len(log') # Len(log)
    BY <2>1, PutFacts
  <2>. QED  BY <2>1, <2>2 DEF IInv
<1>1. \A e : Put(e) => e = event
  <2>. SUFFICES ASSUME NEW e, Append(log, e) = Append(log, event) PROVE e = event
    BY DEF Put
  <2>1. Append(log, e)[Len(log) + 1] = e /\ Append(log, event)[Len(log) + 1] = event
    BY <1>0
  <2>. QED  BY <2>1
<1>2. \A type, cause : Event(type, cause).type = type
  BY DEF Event
<1>3. "intent.rejected" \in Terminals /\ \A t \in Tasks : ended[t] \in Terminals
  BY <1>0 DEF TypeOK, Terminals
<1>4. "action.failed" \in Terminals
  BY DEF Terminals
<1>5. CASE \E t \in Tasks : Start(t)
  <2>1. \E c : Put(Event("action.started", c))
    BY <1>5 DEF Start
  <2>. QED  BY <1>1, <1>2, <1>5, <2>1
<1>6. CASE \E t \in Tasks : Submit(t)
  <2>1. PICK ident \in Idents, key \in Keys \union {NoKey} : Put(Intent(ident, key))
    BY <1>0, <1>6 DEF Submit, Deduplicate, Propose
  <2>. QED  BY <1>1, <1>6, <2>1 DEF Intent
<1>7. CASE \E t \in Tasks : Reject(t) \/ Record(t)
  <2>1. \E type \in Terminals : \E c : Put(Event(type, c))
    BY <1>3, <1>7 DEF Reject, Record
  <2>. QED  BY <1>1, <1>2, <1>7, <2>1
<1>8. CASE RecoverClose
  <2>1. \E c : Put(Event("action.failed", c))
    BY <1>8 DEF RecoverClose
  <2>. QED  BY <1>1, <1>2, <1>4, <1>8, <2>1
<1>9. CASE (\E t \in Tasks : Anchor(t)) \/ RecoverAnchor \/ RecoverBackfill
  <2>1. \E e : Put(Event("experience.created", e))
    BY <1>9 DEF Anchor, RecoverAnchor, RecoverBackfill
  <2>. QED  BY <1>1, <1>2, <1>9, <2>1
<1>10. CASE OtherAppend
  <2>1. \E c : Put(Event("other", c))
    BY <1>10 DEF OtherAppend
  <2>. QED  BY <1>1, <1>2, <1>10, <2>1
<1>11. ASSUME ~(\E t \in Tasks : Start(t) \/ Submit(t) \/ Reject(t) \/ Record(t) \/ Anchor(t)),
              ~RecoverClose, ~RecoverAnchor, ~RecoverBackfill, ~OtherAppend
       PROVE  FALSE
  <2>1. Next
    BY <1>0 DEF vars
  <2>2. \A t \in Tasks : ~AppendFails(t) /\ ~Admit(t) /\ ~Acquire(t)
                         /\ \A status : ~RunReturns(t, status)
    BY <1>0 DEF AppendFails, Admit, Acquire, RunReturns
  <2>. QED  BY <1>0, <1>11, <2>1, <2>2 DEF Next, TaskStep, Recover, RecoverTurn, RecoverDone,
            RecoverFails, Tick, Crash, Restart
<1>. QED  BY <1>5, <1>6, <1>7, <1>8, <1>9, <1>10, <1>11

LEMMA StartedStep ==
    ASSUME IInv, RunsStarted, [Next]_vars
    PROVE  RunsStarted'
<1>0. /\ TypeOK /\ TasksOwn /\ log \in Seq(EventRecord) /\ Len(log) \in Nat
      /\ DOMAIN pc = Tasks /\ DOMAIN deed = Tasks
  BY DEF IInv, TypeOK
<1>1. ASSUME NEW u \in Tasks, pc'[u] \in {"running", "record"}
      PROVE  (pc[u] \in {"running", "record"} /\ deed'[u] = deed[u]) \/ Start(u)
  <2>1. CASE \E t \in Tasks : Submit(t) \/ TaskStep(t) \/ AppendFails(t)
    BY <1>0, <1>1, <2>1 DEF Submit, Deduplicate, Propose, TaskStep, Reject, Admit, Acquire, Start,
       RunReturns, Record, Anchor, AppendFails, Leave, taskVars
  <2>2. CASE ~ \E t \in Tasks : Submit(t) \/ TaskStep(t) \/ AppendFails(t)
    BY <1>0, <1>1, <2>2 DEF Next, Recover, RecoverClose, RecoverAnchor, RecoverTurn,
       RecoverBackfill, RecoverDone, RecoverFails, OtherAppend, Tick, Crash, Restart, taskVars, vars
  <2>. QED  BY <2>1, <2>2
<1>2. ASSUME NEW d \in Intents, d \notin Unstarted PROVE d \notin Unstarted'
  <2>1. PICK s \in DOMAIN log : log[s].type = "action.started" /\ log[s].cause = d
    BY <1>2 DEF Unstarted
  <2>2. s \in DOMAIN log' /\ log'[s] = log[s]
    BY <1>0, <2>1, LogStep, PutFacts
  <2>. QED  BY <2>1, <2>2 DEF Unstarted
<1>3. ASSUME NEW u \in Tasks, Start(u) PROVE deed'[u] \notin Unstarted'
  <2>1. deed[u] \in Nat /\ Put(Event("action.started", deed[u])) /\ deed' = deed
    BY <1>0, <1>3 DEF Start, TypeOK
  <2>2. /\ Event("action.started", deed[u]) \in EventRecord
        /\ Event("action.started", deed[u]).type = "action.started"
        /\ Event("action.started", deed[u]).cause = deed[u]
    BY <2>1, EventTyped DEF EventTypes
  <2>3. \E s \in DOMAIN log' : log'[s].type = "action.started" /\ log'[s].cause = deed[u]
    BY <1>0, <2>1, <2>2, PutFacts
  <2>. QED  BY <2>1, <2>3 DEF Unstarted
<1>4. ASSUME NEW u \in Tasks, pc[u] \in {"running", "record"} PROVE deed[u] \in Intents \ Unstarted
  BY <1>0, <1>4 DEF TasksOwn, Working, Unended, RunsStarted
<1>. QED  BY <1>1, <1>2, <1>3, <1>4 DEF RunsStarted

LEMMA StartedHold == Spec => []RunsStarted
<1>1. Init => RunsStarted
  BY DEF Init, RunsStarted
<1>2. IInv /\ RunsStarted /\ [Next]_vars => RunsStarted'
  BY StartedStep
<1>. QED  BY <1>1, <1>2, InvariantHolds, PTL DEF Spec

\* A deed the appended event is not about lives on as it was.
LEMMA LifeQuiet ==
    ASSUME TypeOK, LogInv, NEW event \in EventRecord, Put(event),
           NEW n, n = Len(log) + 1, NEW f \in Intents,
           event.type \in Terminals => DeedOf(n)' # f,
           event.type = "action.started" => event.cause # f,
           event.type = "experience.created" => event.cause \notin EndsOf(f)
    PROVE  f \in Intents' /\ Life'[f] = Life[f]
<1>P. /\ \A e \in 1..Len(log) : log'[e] = log[e]
      /\ log \in Seq(EventRecord) /\ Len(log) \in Nat
      /\ DOMAIN log = 1..Len(log) /\ DOMAIN log' = 1..n /\ log'[n] = event
  BY PutFacts DEF TypeOK
<1>1. f \in Intents'
  BY <1>P DEF Intents
<1>2. EndsOf(f)' = EndsOf(f)
  <2>1. ASSUME NEW e \in 1..Len(log), log[e].type \in Terminals PROVE DeedOf(e)' = DeedOf(e)
    BY <1>P, <2>1, DeedOfKept DEF LogInv
  <2>. QED  BY <1>P, <2>1 DEF EndsOf
<1>3. StartsOf(f)' = StartsOf(f)
  BY <1>P DEF StartsOf
<1>4. \A e \in EndsOf(f) : log'[e] = log[e] /\ AnchorsOf(e)' = AnchorsOf(e)
  BY <1>P DEF AnchorsOf, EndsOf
<1>5. StatusOf(f)' = StatusOf(f)
  <2>1. CASE EndsOf(f) = {}
    BY <1>2, <1>3, <2>1 DEF StatusOf
  <2>2. CASE EndsOf(f) # {}
    <3>1. (CHOOSE e \in EndsOf(f) : TRUE) \in EndsOf(f)
      BY <2>2
    <3>. QED  BY <1>2, <1>4, <2>2, <3>1 DEF StatusOf
  <2>. QED  BY <2>1, <2>2
<1>6. (\E e \in EndsOf(f) : AnchorsOf(e) # {})' = (\E e \in EndsOf(f) : AnchorsOf(e) # {})
  BY <1>2, <1>4
<1>. QED  BY <1>1, <1>5, <1>6 DEF Life

\* The life of a deed that has not ended, and of one that has.
LEMMA LifeOpen ==
    ASSUME NEW d \in Unended
    PROVE  Life[d] = [status |-> IF d \in Unstarted THEN "intent.proposed" ELSE "action.started",
                      remembered |-> FALSE]
<1>1. d \in Intents /\ EndsOf(d) = {}
  BY DEF Unended, EndsOf
<1>2. (StartsOf(d) = {}) = (d \in Unstarted)
  BY <1>1 DEF StartsOf, Unstarted
<1>. QED  BY <1>1, <1>2 DEF Life, StatusOf

LEMMA LifeEnded ==
    ASSUME OneTerminal, NEW d \in Intents, NEW e \in EndsOf(d)
    PROVE  Life[d] = [status |-> log[e].type, remembered |-> AnchorsOf(e) # {}]
<1>1. EndsOf(d) = {e}
  BY DEF OneTerminal, EndsOf
<1>2. StatusOf(d) = log[e].type
  BY <1>1 DEF StatusOf
<1>. QED  BY <1>1, <1>2 DEF Life

LifeRecord == [status : EventTypes, remembered : BOOLEAN]

LEMMA LifeTyped == Life \in [Intents -> LifeRecord]
<1>1. ASSUME NEW d \in Intents PROVE StatusOf(d) \in EventTypes
  <2>1. EndsOf(d) # {} => log[CHOOSE e \in EndsOf(d) : TRUE].type \in Terminals
    BY DEF EndsOf
  <2>. QED  BY <2>1 DEF StatusOf, EventTypes
<1>. QED  BY <1>1 DEF Life, LifeRecord

\* One deed changes its status, or is remembered, and no deed is added.
LEMMA LifeChanges ==
    ASSUME Intents' = Intents, NEW d \in Intents,
           \A f \in Intents : f # d => Life'[f] = Life[f]
    PROVE  /\ Life'[d].remembered = Life[d].remembered =>
                 Life' = [Life EXCEPT ![d].status = Life'[d].status]
           /\ Life'[d].status = Life[d].status =>
                 Life' = [Life EXCEPT ![d].remembered = Life'[d].remembered]
<1> DEFINE f == Life
           g == Life'
           x == g[d].status
           b == g[d].remembered
           s == [f EXCEPT ![d].status = x]
           r == [f EXCEPT ![d].remembered = b]
<1>1. f \in [Intents -> LifeRecord] /\ g \in [Intents -> LifeRecord]
  <2>1. (Life \in [Intents -> LifeRecord])'
    BY LifeTyped, PTL
  <2>. QED  BY <2>1, LifeTyped DEF LifeRecord, EventTypes, Terminals
<1>2. \A e \in Intents : e # d => g[e] = f[e]
  OBVIOUS
<1>. HIDE DEF f, g
<1>3. x \in EventTypes /\ b \in BOOLEAN
  BY <1>1 DEF LifeRecord
<1>. HIDE DEF x, b
<1>4. s \in [Intents -> LifeRecord] /\ r \in [Intents -> LifeRecord]
  BY <1>1, <1>3 DEF LifeRecord
<1>5. \A e \in Intents : e # d => g[e] = s[e] /\ g[e] = r[e]
  BY <1>1, <1>2, <1>3 DEF LifeRecord
<1>6. ASSUME b = f[d].remembered PROVE g = s
  <2>1. /\ s[d] \in LifeRecord /\ s[d].status = x /\ s[d].remembered = f[d].remembered
        /\ g[d] \in LifeRecord
    BY <1>1, <1>3, <1>4 DEF LifeRecord
  <2>. HIDE DEF s
  <2>2. s[d] = g[d]
    BY <1>6, <2>1 DEF LifeRecord, x, b
  <2>. QED  BY <1>1, <1>4, <1>5, <2>2
<1>7. ASSUME x = f[d].status PROVE g = r
  <2>1. /\ r[d] \in LifeRecord /\ r[d].remembered = b /\ r[d].status = f[d].status
        /\ g[d] \in LifeRecord
    BY <1>1, <1>3, <1>4 DEF LifeRecord
  <2>. HIDE DEF r
  <2>2. r[d] = g[d]
    BY <1>7, <2>1 DEF LifeRecord, x, b
  <2>. QED  BY <1>1, <1>4, <1>5, <2>2
<1>. QED  BY <1>6, <1>7 DEF f, g, x, b

LEMMA LifeStart ==
    ASSUME IInv, AnchorInv, RunsStarted, NEW t \in Tasks, Start(t)
    PROVE  \E d \in Nat : AnyLife!Start(d)
<1>d. PICK d : d = deed[t]
  OBVIOUS
<1> DEFINE event == Event("action.started", d)
<1>0. TypeOK /\ LogInv /\ TasksOwn /\ log \in Seq(EventRecord)
  BY DEF IInv, TypeOK
<1>1. d \in Unended /\ d \in Unstarted /\ d \in Intents /\ d \in Nat /\ Put(event)
  BY <1>0, <1>d DEF Start, TasksOwn, Working, Unended, Intents
<1>2. event \in EventRecord /\ event.type = "action.started" /\ event.cause = d
  BY <1>1, EventTyped DEF EventTypes
<1>3. Unended \subseteq Unended'
  BY <1>0, <1>1, PutStart
<1>. HIDE DEF event
<1>4. d \notin Unstarted'
  BY <1>0, <1>1, <1>2, PutFacts DEF Unstarted
<1>5. Intents' = Intents
  BY <1>0, <1>1, <1>2, UnendedShrinks
<1>6. \A f \in Intents : f # d => Life'[f] = Life[f]
  BY <1>0, <1>1, <1>2, LifeQuiet DEF Terminals
<1>7. Life[d] = [status |-> "intent.proposed", remembered |-> FALSE]
  BY <1>1, LifeOpen
<1>8. Life'[d] = [status |-> "action.started", remembered |-> FALSE]
  <2>1. EndsOf(d)' = {}
    BY <1>1, <1>3 DEF EndsOf, Unended
  <2>2. StartsOf(d)' # {}
    BY <1>1, <1>4, <1>5 DEF StartsOf, Unstarted
  <2>3. StatusOf(d)' = "action.started"
    BY <2>1, <2>2 DEF StatusOf
  <2>. QED  BY <1>1, <1>5, <2>1, <2>3 DEF Life
<1>9. Life' = [Life EXCEPT ![d].status = "action.started"]
  <2>1. Life'[d].status = "action.started" /\ Life'[d].remembered = Life[d].remembered
    BY <1>7, <1>8
  <2>. QED  BY <1>1, <1>5, <1>6, <2>1, LifeChanges
<1>10. d \in DOMAIN Life
  BY <1>1 DEF Life
<1>11. AnyLife!Start(d)
  BY <1>7, <1>9, <1>10 DEF AnyLife!Start, AnyLife!Become
<1>. QED  BY <1>1, <1>11

\* The one terminal of a deed.
LEMMA LifeEnd ==
    ASSUME IInv, AnchorInv, NEW d \in Unended, NEW type \in Terminals, NEW c \in DOMAIN log,
           c = d \/ (log[c].type = "action.started" /\ log[c].cause = d),
           Put(Event(type, c))
    PROVE  /\ Life' = [Life EXCEPT ![d].status = type]
           /\ d \in DOMAIN Life
           /\ Life[d].status = IF d \in Unstarted THEN "intent.proposed" ELSE "action.started"
<1> DEFINE event == Event(type, c)
<1>0. TypeOK /\ LogInv /\ log \in Seq(EventRecord) /\ Len(log) \in Nat /\ AnchorLinks
  BY DEF IInv, TypeOK, AnchorInv
<1>1. d \in Intents /\ d \in DOMAIN log /\ c \in Nat
  BY <1>0 DEF Unended, Intents
<1>2. event \in EventRecord /\ event.type = type /\ event.cause = c
  BY <1>1, EventTyped DEF EventTypes
<1>3. /\ LogInv'
      /\ \A e \in DOMAIN log' : log'[e].type \in Terminals =>
            (e \in 1..Len(log) /\ log[e].type \in Terminals /\ DeedOf(e)' = DeedOf(e))
            \/ (e = Len(log) + 1 /\ DeedOf(e)' = d)
  BY <1>0, PutEnd
<1>. HIDE DEF event
<1>4. Put(event)
  BY DEF event
<1>5. Intents' = Intents
  BY <1>0, <1>2, <1>4, UnendedShrinks DEF Terminals
<1>6. PICK n \in DOMAIN log' : n = Len(log) + 1 /\ log'[n] = event
  BY <1>0, <1>2, <1>4, PutFacts
<1>7. DeedOf(n)' = d
  BY <1>0, <1>2, <1>3, <1>6
<1>8. \A f \in Intents : f # d => Life'[f] = Life[f]
  <2>1. event.type # "action.started" /\ event.type # "experience.created"
    BY <1>2 DEF Terminals
  <2>. QED  BY <1>0, <1>2, <1>4, <1>6, <1>7, <2>1, LifeQuiet
<1>9. EndsOf(d)' = {n}
  <2>1. n \in EndsOf(d)'
    BY <1>2, <1>6, <1>7 DEF EndsOf
  <2>. QED  BY <1>3, <2>1 DEF LogInv, OneTerminal, EndsOf
<1>10. AnchorsOf(n)' = {}
  <2>1. \A x \in DOMAIN log' : log'[x].type = "experience.created" =>
           x \in 1..Len(log) /\ log[x].cause \in 1..(x - 1) /\ log'[x] = log[x]
    <3>1. event.type # "experience.created"
      BY <1>2 DEF Terminals
    <3>. QED  BY <1>0, <1>2, <1>4, <3>1, PutFacts DEF AnchorLinks
  <2>. QED  BY <1>0, <1>6, <2>1 DEF AnchorsOf
<1>11. Life'[d] = [status |-> type, remembered |-> FALSE]
  <2>1. StatusOf(d)' = type
    BY <1>2, <1>6, <1>9 DEF StatusOf
  <2>2. (\E e \in EndsOf(d) : AnchorsOf(e) # {})' = FALSE
    BY <1>9, <1>10
  <2>. QED  BY <1>1, <1>5, <2>1, <2>2 DEF Life
<1>12. d \in DOMAIN Life
  BY <1>1 DEF Life
<1>13. Life[d] = [status |-> IF d \in Unstarted THEN "intent.proposed" ELSE "action.started",
                 remembered |-> FALSE]
  BY LifeOpen
<1>14. Life' = [Life EXCEPT ![d].status = type]
  <2>1. Life'[d].status = type /\ Life'[d].remembered = Life[d].remembered
    BY <1>11, <1>13
  <2>. QED  BY <1>1, <1>5, <1>8, <2>1, LifeChanges
<1>. QED  BY <1>12, <1>13, <1>14

\* The anchor of an outcome that has none.
LEMMA LifeAnchor ==
    ASSUME IInv, AnchorInv, NEW e \in Unanchored, Put(Event("experience.created", e))
    PROVE  \E d \in Nat : AnyLife!Remember(d)
<1>d. PICK d : d = DeedOf(e)
  OBVIOUS
<1> DEFINE event == Event("experience.created", e)
<1>0. TypeOK /\ LogInv /\ log \in Seq(EventRecord) /\ Len(log) \in Nat /\ AnchorLinks
  BY DEF IInv, TypeOK, AnchorInv
<1>1. e \in DOMAIN log /\ log[e].type \in Outcomes /\ log[e].type \in Terminals /\ e \in Nat
  BY <1>0 DEF Unanchored, Outcomes, Terminals
<1>2. event \in EventRecord /\ event.type = "experience.created" /\ event.cause = e
  BY <1>1, EventTyped DEF EventTypes
<1>3. d \in Intents /\ d \in Nat /\ e \in EndsOf(d)
  <2>1. /\ log[e].cause \in 1..(e - 1) /\ log[e].cause \in DOMAIN log
        /\ log[log[e].cause].type \in {"intent.proposed", "action.started"}
    BY <1>0, <1>1 DEF LogInv, LinksBack
  <2>2. d \in Intents
    <3>1. CASE log[log[e].cause].type = "intent.proposed"
      BY <1>d, <2>1, <3>1 DEF DeedOf, Intents
    <3>2. CASE log[log[e].cause].type = "action.started"
      <4>1. /\ log[log[e].cause].cause \in 1..(log[e].cause - 1)
            /\ log[log[log[e].cause].cause].type = "intent.proposed"
        BY <1>0, <2>1, <3>2 DEF LogInv, LinksBack
      <4>. QED  BY <1>0, <1>d, <2>1, <3>2, <4>1 DEF DeedOf, Intents
    <3>. QED  BY <2>1, <3>1, <3>2
  <2>. QED  BY <1>0, <1>1, <1>d, <2>2 DEF EndsOf, Intents
<1>. HIDE DEF event
<1>4. Put(event)
  BY DEF event
<1>5. Intents' = Intents
  BY <1>0, <1>2, <1>4, UnendedShrinks
<1>6. PICK n \in DOMAIN log' : n = Len(log) + 1 /\ log'[n] = event
  BY <1>0, <1>2, <1>4, PutFacts
<1>7. \A f \in Intents : f # d => Life'[f] = Life[f]
  <2>1. event.type \notin Terminals /\ event.type # "action.started"
    BY <1>2 DEF Terminals
  <2>2. \A f : f # d => e \notin EndsOf(f)
    BY <1>3 DEF EndsOf
  <2>. QED  BY <1>0, <1>2, <1>4, <1>6, <2>1, <2>2, LifeQuiet
<1>8. Life[d] = [status |-> log[e].type, remembered |-> FALSE]
  <2>1. AnchorsOf(e) = {}
    BY DEF Unanchored, AnchorsOf
  <2>. QED  BY <1>0, <1>3, <2>1, LifeEnded DEF LogInv
<1>9. Life'[d] = [status |-> log[e].type, remembered |-> TRUE]
  <2>1. EndsOf(d)' = {e} /\ log'[e] = log[e]
    <3>1. \A x \in EndsOf(d) : x = e
      BY <1>0, <1>3 DEF LogInv, OneTerminal, EndsOf
    <3>2. EndsOf(d)' \subseteq EndsOf(d)
      <4>1. \A x \in DOMAIN log' : log'[x].type \in Terminals =>
               x \in 1..Len(log) /\ log[x].type \in Terminals
        BY <1>0, <1>2, <1>4, PutFacts DEF Terminals
      <4>2. \A x \in 1..Len(log) : log[x].type \in Terminals => DeedOf(x)' = DeedOf(x)
        BY <1>0, <1>2, <1>4, DeedOfKept DEF LogInv
      <4>. QED  BY <1>0, <4>1, <4>2 DEF EndsOf
    <3>. QED  BY <1>0, <1>2, <1>3, <1>4, <3>1, <3>2, EndsKept
  <2>2. AnchorsOf(e)' # {}
    BY <1>2, <1>6 DEF AnchorsOf
  <2>3. StatusOf(d)' = log[e].type
    BY <2>1 DEF StatusOf
  <2>4. (\E x \in EndsOf(d) : AnchorsOf(x) # {})' = TRUE
    BY <2>1, <2>2
  <2>. QED  BY <1>3, <1>5, <2>3, <2>4 DEF Life
<1>10. Life' = [Life EXCEPT ![d].remembered = TRUE]
  BY <1>3, <1>5, <1>7, <1>8, <1>9, LifeChanges
<1>11. d \in DOMAIN Life
  BY <1>3 DEF Life
<1>12. AnyLife!Remember(d)
  BY <1>1, <1>8, <1>10, <1>11 DEF AnyLife!Remember, Outcomes
<1>. QED  BY <1>3, <1>12

LEMMA LifePropose ==
    ASSUME TypeOK, LogInv, NEW event \in EventRecord, Put(event), event.type = "intent.proposed"
    PROVE  \E d \in Nat : AnyLife!Propose(d)
<1>1. PICK n : n = Len(log) + 1
  OBVIOUS
<1>P. /\ \A e \in 1..Len(log) : log'[e] = log[e]
      /\ log \in Seq(EventRecord) /\ Len(log) \in Nat /\ n \in Nat
      /\ DOMAIN log = 1..Len(log) /\ DOMAIN log' = 1..n /\ log'[n] = event
  BY <1>1, PutFacts DEF TypeOK
<1>2. Intents' = Intents \union {n} /\ n \notin Intents
  BY <1>1, <1>P, UnendedShrinks DEF Intents
<1>3. \A f \in Intents : Life'[f] = Life[f]
  BY <1>1, LifeQuiet DEF Terminals
<1>4. EndsOf(n)' = {} /\ StartsOf(n)' = {}
  <2>1. /\ n \in Unended' /\ n \in Unstarted'
    BY <1>1, <1>P, PutIntent
  <2>. QED  BY <2>1 DEF Unended, Unstarted, EndsOf, StartsOf
<1>5. Life'[n] = [status |-> "intent.proposed", remembered |-> FALSE]
  <2>1. StatusOf(n)' = "intent.proposed"
    BY <1>4 DEF StatusOf
  <2>2. (\E e \in EndsOf(n) : AnchorsOf(e) # {})' = FALSE
    BY <1>4
  <2>. QED  BY <1>2, <2>1, <2>2 DEF Life
<1>6. DOMAIN Life = Intents /\ Life' = [f \in Intents' |-> Life'[f]]
  BY DEF Life
<1>7. AnyLife!Propose(n)
  <2>1. \A f \in Intents' : Life'[f] = IF f = n THEN [status |-> "intent.proposed",
                                                       remembered |-> FALSE]
                                               ELSE Life[f]
    BY <1>2, <1>3, <1>5
  <2>. QED  BY <1>2, <1>6, <2>1 DEF AnyLife!Propose
<1>. QED  BY <1>P, <1>7

\* Every step of the agency is a step in the life of one deed, or of none.
LEMMA LifeStep ==
    ASSUME IInv, AnchorInv, RunsStarted, [Next]_vars
    PROVE  [AnyLife!Next]_Life
<1>0. /\ TypeOK /\ LogInv /\ TasksOwn /\ RecoveryBehind /\ log \in Seq(EventRecord)
      /\ Len(log) \in Nat /\ \A d \in Unended : d \in Nat /\ d \in DOMAIN log
  BY DEF IInv, TypeOK, Unended, Intents
<1>1. CASE log' = log
  BY <1>1 DEF Life, StatusOf, EndsOf, StartsOf, AnchorsOf, DeedOf, Intents
<1>2. ASSUME NEW d \in Unended, NEW type \in Terminals, NEW c \in DOMAIN log,
             c = d \/ (log[c].type = "action.started" /\ log[c].cause = d),
             Put(Event(type, c)),
             type = "intent.rejected" => d \in Unstarted,
             type = "action.completed" => d \notin Unstarted
      PROVE  AnyLife!Next
  <2>1. /\ Life' = [Life EXCEPT ![d].status = type] /\ d \in DOMAIN Life
        /\ Life[d].status = IF d \in Unstarted THEN "intent.proposed" ELSE "action.started"
    BY <1>2, LifeEnd
  <2>2. CASE type = "intent.rejected"
    <3>1. AnyLife!Reject(d)
      BY <1>2, <2>1, <2>2 DEF AnyLife!Reject, AnyLife!Become
    <3>. QED  BY <1>0, <3>1 DEF AnyLife!Next
  <2>3. CASE type = "action.completed"
    <3>1. AnyLife!Complete(d)
      BY <1>2, <2>1, <2>3 DEF AnyLife!Complete, AnyLife!Become
    <3>. QED  BY <1>0, <3>1 DEF AnyLife!Next
  <2>4. CASE type = "action.failed"
    <3>1. AnyLife!Abandon(d)
      BY <1>2, <2>1, <2>4 DEF AnyLife!Abandon, AnyLife!Become
    <3>. QED  BY <1>0, <3>1 DEF AnyLife!Next
  <2>. QED  BY <2>2, <2>3, <2>4 DEF Terminals
<1>3. CASE log' # log
  <2>1. PICK event \in EventRecord : Put(event)
    BY <1>3, LogStep
  <2>2. CASE event.type = "other"
    <3>1. event.type \notin Terminals \union {"intent.proposed", "action.started",
                                              "experience.created"}
      BY <2>2 DEF Terminals
    <3>2. Intents' = Intents
      BY <1>0, <2>1, <3>1, UnendedShrinks
    <3>3. \A f \in Intents : Life'[f] = Life[f]
      <4>1. PICK n : n = Len(log) + 1
        OBVIOUS
      <4>. QED  BY <1>0, <2>1, <3>1, <4>1, LifeQuiet
    <3>4. Life' = Life
      BY <3>2, <3>3 DEF Life
    <3>. QED  BY <3>4
  <2>3. CASE event.type = "intent.proposed"
    BY <1>0, <2>1, <2>3, LifePropose DEF AnyLife!Next
  <2>4. CASE \E t \in Tasks : Start(t)
    BY <2>4, LifeStart DEF AnyLife!Next
  <2>5. ASSUME NEW t \in Tasks, Reject(t) PROVE AnyLife!Next
    <3>1. deed[t] \in Unended /\ deed[t] \in Unstarted
      BY <1>0, <2>5 DEF Reject, TasksOwn, Working
    <3>2. Put(Event("intent.rejected", deed[t])) /\ "intent.rejected" \in Terminals
      BY <2>5 DEF Reject, Terminals
    <3>. QED  BY <1>0, <1>2, <3>1, <3>2
  <2>6. ASSUME NEW t \in Tasks, Record(t) PROVE AnyLife!Next
    <3>1. deed[t] \in Unended /\ deed[t] \notin Unstarted
      BY <1>0, <2>6 DEF Record, TasksOwn, Working, RunsStarted
    <3>2. /\ Put(Event(ended[t], deed[t])) /\ ended[t] \in Terminals
          /\ ended[t] # "intent.rejected"
      BY <1>0, <2>6 DEF Record, Terminals, TypeOK
    <3>. QED  BY <1>0, <1>2, <3>1, <3>2
  <2>7. CASE RecoverClose
    <3>1. PICK d \in OpenDeeds :
             Put(Event("action.failed", IF StartedIn(rec.snap, d) # 0
                                        THEN StartedIn(rec.snap, d) ELSE d))
      BY <2>7 DEF RecoverClose
    <3>2. mode = "recovering" /\ rec.phase = "close"
      BY <2>7 DEF RecoverClose
    <3>3. PICK c : c = IF StartedIn(rec.snap, d) # 0 THEN StartedIn(rec.snap, d) ELSE d
      OBVIOUS
    <3>4. /\ d \in Unended /\ c \in DOMAIN log
          /\ c = d \/ (log[c].type = "action.started" /\ log[c].cause = d)
      BY <1>0, <3>2, <3>3, OpenUnended
    <3>5. "action.failed" \in Terminals
      BY DEF Terminals
    <3>. QED  BY <1>2, <3>1, <3>3, <3>4, <3>5
  <2>8. ASSUME NEW e \in Unanchored, Put(Event("experience.created", e)) PROVE AnyLife!Next
    BY <2>8, LifeAnchor DEF AnyLife!Next
  <2>9. CASE (\E t \in Tasks : Anchor(t)) \/ RecoverAnchor \/ RecoverBackfill
    <3>1. CASE \E t \in Tasks : Anchor(t)
      BY <2>8, <3>1 DEF Anchor, AnchorInv, TermsOwn
    <3>2. CASE RecoverAnchor
      BY <2>8, <3>2 DEF RecoverAnchor, AnchorInv, AnchorsBehind
    <3>3. CASE RecoverBackfill
      <4>1. PICK e \in LostAnchors : Put(Event("experience.created", e))
        BY <3>3 DEF RecoverBackfill
      <4>2. e \in Unanchored
        BY <1>0, <3>3, <4>1, LostUnanchored DEF RecoverBackfill
      <4>. QED  BY <2>8, <4>1, <4>2
    <3>. QED  BY <2>9, <3>1, <3>2, <3>3
  <2>. QED  BY <2>1, <2>2, <2>3, <2>4, <2>5, <2>6, <2>7, <2>9, WhoAppends
<1>. QED  BY <1>1, <1>3

\* The agency keeps what ADR-0020 promises of a deed's life: with any number of tasks,
\* crashes, faults and recoveries every deed is proposed once, ends once, is completed or
\* rejected only as its start allows, and is remembered at most once, after it ended.
THEOREM ImplementsLifecycle == Spec => AnyLife!Spec
<1>1. Init => AnyLife!Init
  <2>. SUFFICES ASSUME Init PROVE Life = << >>
    BY DEF AnyLife!Init
  <2>1. Intents = {}
    BY DEF Init, Intents
  <2>. QED  BY <2>1 DEF Life
<1>2. IInv /\ AnchorInv /\ RunsStarted /\ [Next]_vars => [AnyLife!Next]_Life
  BY LifeStep
<1>. QED  BY <1>1, <1>2, AnchorsHold, StartedHold, PTL DEF Spec, AnyLife!Spec
(***************************************************************************)
(* The bounded model: how long its log can get, and the refinement the     *)
(* runs check over the deeds that log has room for.                        *)
(***************************************************************************)
Events(types) == {e \in DOMAIN log : log[e].type \in types}

\* What the guards of Propose and OtherAppend bound.
CountInv ==
    /\ Cardinality(Intents) <= MaxDeeds
    /\ Cardinality(Events({"other"})) <= MaxNoise

LEMMA EventsFinite ==
    ASSUME TypeOK, NEW types
    PROVE  IsFiniteSet(Events(types)) /\ Cardinality(Events(types)) \in Nat
<1>1. DOMAIN log = 1..Len(log) /\ Len(log) \in Nat
  BY DEF TypeOK
<1>2. IsFiniteSet(DOMAIN log)
  BY <1>1, FS_Interval
<1>3. Events(types) \in SUBSET DOMAIN log
  BY DEF Events
<1>4. IsFiniteSet(Events(types))
  BY <1>2, <1>3, FS_Subset
<1>. QED  BY <1>4, FS_CardinalityType

\* A set that maps one-to-one into a finite one is no larger.
LEMMA OneFromEach ==
    ASSUME NEW S, IsFiniteSet(S), NEW T, IsFiniteSet(T), NEW f \in [S -> T],
           \A x, y \in S : f[x] = f[y] => x = y
    PROVE  Cardinality(S) <= Cardinality(T)
<1>1. ~ Cardinality(T) < Cardinality(S)
  BY FS_PigeonHole
<1>2. Cardinality(S) \in Nat /\ Cardinality(T) \in Nat
  BY FS_CardinalityType
<1>. QED  BY <1>1, <1>2

\* An appended event counts for its own type only.
LEMMA CountPut ==
    ASSUME TypeOK, NEW event \in EventRecord, Put(event), NEW types
    PROVE  /\ event.type \notin types => Events(types)' = Events(types)
           /\ event.type \in types =>
                 /\ Events(types)' = Events(types) \union {Len(log) + 1}
                 /\ Cardinality(Events(types)') = Cardinality(Events(types)) + 1
<1>1. /\ log \in Seq(EventRecord) /\ Len(log) \in Nat
      /\ DOMAIN log = 1..Len(log) /\ DOMAIN log' = 1..(Len(log) + 1)
      /\ log'[Len(log) + 1] = event /\ \A e \in 1..Len(log) : log'[e] = log[e]
  BY PutFacts DEF TypeOK
<1>2. Events(types)' = IF event.type \in types THEN Events(types) \union {Len(log) + 1}
                                               ELSE Events(types)
  BY <1>1 DEF Events
<1>3. Len(log) + 1 \notin Events(types) /\ IsFiniteSet(Events(types))
  <2>1. Events(types) \subseteq 1..Len(log)
    BY <1>1 DEF Events
  <2>2. IsFiniteSet(Events(types))
    BY EventsFinite
  <2>. QED  BY <1>1, <2>1, <2>2
<1>4. Cardinality(Events(types) \union {Len(log) + 1}) = Cardinality(Events(types)) + 1
  BY <1>3, FS_AddElement
<1>. QED  BY <1>2, <1>4

LEMMA CountStep ==
    ASSUME IInv, CountInv, [Next]_vars
    PROVE  CountInv'
<1>0. TypeOK /\ LogInv
  BY DEF IInv
<1>1. Intents = Events({"intent.proposed"}) /\ Intents' = Events({"intent.proposed"})'
  BY DEF Intents, Events
<1>2. MaxDeeds \in Nat /\ MaxNoise \in Nat
  BY AgencyAssumption
<1>3. /\ Cardinality(Events({"intent.proposed"})) \in Nat
      /\ Cardinality(Events({"other"})) \in Nat
  BY <1>0, EventsFinite
<1>4. CASE log' = log
  BY <1>4 DEF CountInv, Events, Intents
<1>5. CASE log' # log
  <2>1. PICK event \in EventRecord : Put(event)
    BY <1>5, LogStep
  <2>2. CASE event.type = "other"
    <3>1. Cardinality(Events({"other"})) < MaxNoise
      BY <1>5, <2>1, <2>2, WhoAppends DEF OtherAppend, Events, Terminals
    <3>2. /\ Events({"intent.proposed"})' = Events({"intent.proposed"})
          /\ Cardinality(Events({"other"})') = Cardinality(Events({"other"})) + 1
      BY <1>0, <2>1, <2>2, CountPut
    <3>. QED  BY <1>1, <1>2, <1>3, <3>1, <3>2 DEF CountInv
  <2>3. CASE event.type = "intent.proposed"
    <3>1. PICK t \in Tasks : Submit(t)
      BY <2>1, <2>3, WhoAppends DEF Terminals
    <3>2. Cardinality(Intents) < MaxDeeds
      BY <1>5, <3>1 DEF Submit, Deduplicate, Propose
    <3>3. /\ Cardinality(Events({"intent.proposed"})') = Cardinality(Events({"intent.proposed"})) + 1
          /\ Events({"other"})' = Events({"other"})
      BY <1>0, <2>1, <2>3, CountPut
    <3>. QED  BY <1>1, <1>2, <1>3, <3>2, <3>3 DEF CountInv
  <2>4. CASE event.type \notin {"other", "intent.proposed"}
    <3>1. /\ Events({"intent.proposed"})' = Events({"intent.proposed"})
          /\ Events({"other"})' = Events({"other"})
      BY <1>0, <2>1, <2>4, CountPut
    <3>. QED  BY <1>1, <3>1 DEF CountInv
  <2>. QED  BY <2>2, <2>3, <2>4
<1>. QED  BY <1>4, <1>5

\* A deed has at most one start, one terminal and one anchor.
LEMMA LogFits ==
    ASSUME IInv, AnchorInv, CountInv
    PROVE  Len(log) <= MaxEvents
<1> DEFINE I == Events({"intent.proposed"})
           S == Events({"action.started"})
           E == Events(Terminals)
           X == Events({"experience.created"})
           N == Events({"other"})
<1>0. /\ TypeOK /\ LogInv /\ AnchorLinks /\ log \in Seq(EventRecord)
      /\ Len(log) \in Nat /\ DOMAIN log = 1..Len(log)
  BY DEF IInv, TypeOK, AnchorInv
<1>1. /\ IsFiniteSet(I) /\ IsFiniteSet(S) /\ IsFiniteSet(E) /\ IsFiniteSet(X) /\ IsFiniteSet(N)
      /\ Cardinality(I) \in Nat /\ Cardinality(S) \in Nat /\ Cardinality(E) \in Nat
      /\ Cardinality(X) \in Nat /\ Cardinality(N) \in Nat
  BY <1>0, EventsFinite
<1>2. Cardinality(S) <= Cardinality(I)
  <2> DEFINE f == [s \in S |-> log[s].cause]
  <2>1. \A s \in S : log[s].cause \in I
    BY <1>0 DEF LogInv, LinksBack, Events
  <2>2. f \in [S -> I]
    BY <2>1
  <2>3. \A s, r \in S : f[s] = f[r] => s = r
    BY <1>0 DEF LogInv, SingleStart, Events
  <2>. HIDE DEF f, S, I
  <2>. QED  BY <1>1, <2>2, <2>3, OneFromEach
<1>3. Cardinality(E) <= Cardinality(I)
  <2> DEFINE f == [e \in E |-> DeedOf(e)]
  <2>1. ASSUME NEW e \in E PROVE DeedOf(e) \in I
    <3>1. /\ e \in DOMAIN log /\ log[e].cause \in DOMAIN log
          /\ log[log[e].cause].type \in {"intent.proposed", "action.started"}
      BY <1>0 DEF LogInv, LinksBack, Events
    <3>. QED  BY <1>0, <3>1 DEF LogInv, LinksBack, DeedOf, Events
  <2>2. f \in [E -> I]
    BY <2>1
  <2>3. \A e, g \in E : f[e] = f[g] => e = g
    BY <1>0 DEF LogInv, OneTerminal, Events
  <2>. HIDE DEF f, E, I
  <2>. QED  BY <1>1, <2>2, <2>3, OneFromEach
<1>4. Cardinality(X) <= Cardinality(E)
  <2> DEFINE f == [x \in X |-> log[x].cause]
  <2>1. \A x \in X : log[x].cause \in E
    BY <1>0 DEF AnchorLinks, Events, Outcomes, Terminals
  <2>2. f \in [X -> E]
    BY <2>1
  <2>3. \A x, y \in X : f[x] = f[y] => x = y
    BY <1>0 DEF AnchorLinks, Events
  <2>. HIDE DEF f, X, E
  <2>. QED  BY <1>1, <2>2, <2>3, OneFromEach
<1>5. DOMAIN log = (I \union S) \union (E \union X) \union N
  <2>1. \A e \in DOMAIN log : log[e].type \in EventTypes
    BY <1>0, Entry
  <2>. QED  BY <2>1 DEF Events, EventTypes
<1>6. Cardinality(I) <= MaxDeeds /\ Cardinality(N) <= MaxNoise
  BY DEF CountInv, Events, Intents
<1>. HIDE DEF I, S, E, X, N
<1>7. \A A, B : IsFiniteSet(A) /\ IsFiniteSet(B) =>
         /\ IsFiniteSet(A \union B)
         /\ Cardinality(A \union B) <= Cardinality(A) + Cardinality(B)
  <2>. SUFFICES ASSUME NEW A, NEW B, IsFiniteSet(A), IsFiniteSet(B)
                PROVE  /\ IsFiniteSet(A \union B)
                       /\ Cardinality(A \union B) <= Cardinality(A) + Cardinality(B)
    OBVIOUS
  <2>1. /\ IsFiniteSet(A \union B)
        /\ Cardinality(A \union B) = Cardinality(A) + Cardinality(B) - Cardinality(A \cap B)
    BY FS_Union
  <2>2. IsFiniteSet(A \cap B)
    BY FS_Subset
  <2>3. Cardinality(A) \in Nat /\ Cardinality(B) \in Nat /\ Cardinality(A \cap B) \in Nat
    BY <2>2, FS_CardinalityType
  <2>. QED  BY <2>1, <2>3
<1>8. IsFiniteSet(I \union S) /\ IsFiniteSet(E \union X) /\ IsFiniteSet((I \union S) \union (E \union X))
  BY <1>1, <1>7
<1>9. /\ Cardinality(I \union S) <= Cardinality(I) + Cardinality(S)
      /\ Cardinality(E \union X) <= Cardinality(E) + Cardinality(X)
      /\ Cardinality((I \union S) \union (E \union X)) <= Cardinality(I \union S) + Cardinality(E \union X)
      /\ Cardinality((I \union S) \union (E \union X) \union N)
            <= Cardinality((I \union S) \union (E \union X)) + Cardinality(N)
  BY <1>1, <1>7, <1>8
<1>10. Len(log) = Cardinality((I \union S) \union (E \union X) \union N)
  <2>1. Cardinality(1..Len(log)) = Len(log)
    BY <1>0, FS_Interval
  <2>. QED  BY <1>0, <1>5, <2>1
<1>11. /\ Cardinality(I \union S) \in Nat /\ Cardinality(E \union X) \in Nat
       /\ Cardinality((I \union S) \union (E \union X)) \in Nat
       /\ MaxDeeds \in Nat /\ MaxNoise \in Nat
  BY <1>8, FS_CardinalityType, AgencyAssumption
<1>. QED  BY <1>1, <1>2, <1>3, <1>4, <1>6, <1>9, <1>10, <1>11 DEF MaxEvents

LEMMA CountsHold == Spec => [](IInv /\ AnchorInv /\ CountInv)
<1>1. Init => CountInv
  <2>. SUFFICES ASSUME Init PROVE CountInv
    OBVIOUS
  <2>1. Intents = {} /\ Events({"other"}) = {}
    BY DEF Init, Intents, Events
  <2>. QED  BY <2>1, FS_EmptySet, AgencyAssumption DEF CountInv
<1>2. IInv /\ CountInv /\ [Next]_vars => CountInv'
  BY CountStep
<1>. QED  BY <1>1, <1>2, AnchorsHold, PTL DEF Spec

\* The store grows with what is asked of the agency and with nothing else: whatever
\* crashes, faults and repeated recoveries append, it holds at most four events for each
\* deed (so the deeds that EveryDeedEnds and Lifecycle range over are all there are).
THEOREM LogBounded == Spec => [](Len(log) <= MaxEvents)
<1>1. IInv /\ AnchorInv /\ CountInv => Len(log) <= MaxEvents
  BY LogFits
<1>. QED  BY <1>1, CountsHold, PTL

\* A step in the life of any deed is one of a deed the log has room for.
LEMMA LifeInRoom ==
    ASSUME TypeOK, TypeOK', (Len(log) <= MaxEvents), (Len(log) <= MaxEvents)', [AnyLife!Next]_Life
    PROVE  [Lifecycle!Next]_Life
<1>1. CASE Life' = Life
  BY <1>1
<1>2. ASSUME NEW d \in Nat,
             \/ AnyLife!Propose(d) \/ AnyLife!Reject(d) \/ AnyLife!Start(d) \/ AnyLife!Complete(d)
             \/ AnyLife!Fail(d) \/ AnyLife!Abandon(d) \/ AnyLife!Remember(d)
      PROVE  Lifecycle!Next
  <2>1. d \in DOMAIN Life \/ d \in DOMAIN Life'
    BY <1>2 DEF AnyLife!Propose, AnyLife!Reject, AnyLife!Start, AnyLife!Complete, AnyLife!Fail,
       AnyLife!Abandon, AnyLife!Remember, AnyLife!Become
  <2>2. DOMAIN Life = Intents /\ DOMAIN Life' = Intents'
    BY DEF Life
  <2>3. /\ Intents \subseteq 1..Len(log) /\ Len(log) \in Nat
        /\ Intents' \subseteq 1..Len(log') /\ Len(log') \in Nat
    <3>1. DOMAIN log = 1..Len(log) /\ Len(log) \in Nat
      BY DEF TypeOK
    <3>2. DOMAIN log' = 1..Len(log') /\ Len(log') \in Nat
      <4>1. log' \in Seq(EventRecord')
        BY DEF TypeOK
      <4>. QED  BY <4>1
    <3>. QED  BY <3>1, <3>2 DEF Intents
  <2>4. MaxEvents \in Nat
    BY AgencyAssumption DEF MaxEvents
  <2>5. d \in 1..MaxEvents
    BY <2>1, <2>2, <2>3, <2>4
  <2>6. \/ Lifecycle!Propose(d) \/ Lifecycle!Reject(d) \/ Lifecycle!Start(d)
        \/ Lifecycle!Complete(d) \/ Lifecycle!Fail(d) \/ Lifecycle!Abandon(d)
        \/ Lifecycle!Remember(d)
    BY <1>2 DEF AnyLife!Propose, AnyLife!Reject, AnyLife!Start, AnyLife!Complete, AnyLife!Fail,
       AnyLife!Abandon, AnyLife!Remember, AnyLife!Become,
       Lifecycle!Propose, Lifecycle!Reject, Lifecycle!Start, Lifecycle!Complete, Lifecycle!Fail,
       Lifecycle!Abandon, Lifecycle!Remember, Lifecycle!Become
  <2>. QED  BY <2>5, <2>6 DEF Lifecycle!Next
<1>. QED  BY <1>1, <1>2 DEF AnyLife!Next

\* The refinement the runs check, over the deeds the log has room for.
THEOREM RefinesLifecycleAlways == Spec => RefinesLifecycle
<1>1. AnyLife!Init => Lifecycle!Init
  BY DEF AnyLife!Init, Lifecycle!Init
<1>2. TypeOK /\ TypeOK' /\ Len(log) <= MaxEvents /\ (Len(log) <= MaxEvents)' /\ [AnyLife!Next]_Life
         => [Lifecycle!Next]_Life
  BY LifeInRoom
<1>. QED  BY <1>1, <1>2, ImplementsLifecycle, TypeCorrect, LogBounded, PTL
          DEF AnyLife!Spec, Lifecycle!Spec, RefinesLifecycle
=============================================================================
