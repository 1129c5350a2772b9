--------------------------- MODULE CircadianProofs ---------------------------
(***************************************************************************)
(* Theorems about Circadian, for all thresholds, windows and bounds.       *)
(***************************************************************************)
EXTENDS Circadian, ExtremaTheorems

\* What a beat in progress is about to do fits the state: a consolidation begins
\* asleep, and the machine stays in that sub-state until it is told to leave it.
PhaseFits ==
    /\ phase = "begin" => state \in ASLEEP
    /\ phase \in {"sleep", "end"} => state = "consolidating"
    /\ mode = "down" => phase = "idle"

\* A restart loses a difference between memory and log; a fault may make one.
Agree == state = last.to \/ (faults > 0 /\ {state, last.to} = ASLEEP)

StateShape ==
    /\ state \in STATES /\ last \in [from : STATES \cup {"none"}, to : STATES]
    /\ mode \in {"up", "down"}
    /\ phase \in {"idle", "begin", "sleep", "end", "wake"}
    /\ faults \in 0 .. MaxFaults

IInv == StateShape /\ PhaseFits /\ (mode = "up" => Agree)

LEMMA DecideState ==
    ASSUME NEW wakes, NEW n
    PROVE  Decide(wakes, n) \in STATES
  BY DEF Decide, Descent, STATES, ASLEEP

LEMMA NextPhaseFits ==
    ASSUME NEW s \in STATES
    PROVE  /\ NextPhase(s) \in {"idle", "begin", "wake"}
           /\ NextPhase(s) = "begin" => s \in ASLEEP
  BY DEF NextPhase, STATES

LEMMA FaultCounts ==
    ASSUME faults \in 0 .. MaxFaults, Fault
    PROVE  faults' \in 0 .. MaxFaults /\ faults' > 0
<1>1. MaxFaults \in Nat
  BY CircadianAssumption
<1> QED
  BY <1>1 DEF Fault

\* begin_consolidation and end_consolidation go between the two asleep states only,
\* so that whatever their append does, memory and log agree on being asleep.
LEMMA ChangeKeeps ==
    ASSUME IInv, NEW to \in ASLEEP, NEW then \in {"sleep", "idle"},
           state \in ASLEEP, mode = "up", to = "consolidating" \/ then = "idle",
           Change(to, then)
    PROVE  IInv'
<1>1. UNCHANGED mode /\ state' = to /\ mode' = "up" /\ to \in STATES
  BY DEF Change, STATES, ASLEEP
<1>2. last.to \in ASLEEP
  BY DEF IInv, Agree, ASLEEP
<1>3. CASE Goes(then) /\ UNCHANGED faults /\ IF to = state THEN UNCHANGED last ELSE Recorded(to)
  <2>1. StateShape'
    BY <1>1, <1>3 DEF IInv, StateShape, Goes, Recorded, STATES
  <2>2. PhaseFits'
    BY <1>1, <1>3 DEF PhaseFits, Goes
  <2>3. Agree'
    <3>1. CASE to = state
      BY <1>1, <1>3, <3>1 DEF IInv, Agree
    <3>2. CASE to # state
      BY <1>1, <1>3, <3>2 DEF Agree, Recorded
    <3> QED
      BY <3>1, <3>2
  <2> QED
    BY <2>1, <2>2, <2>3 DEF IInv
<1>4. CASE to # state /\ Fault /\ EndBeat /\ UNCHANGED last
  <2>1. faults' \in 0 .. MaxFaults /\ faults' > 0
    BY <1>4, FaultCounts DEF IInv, StateShape
  <2>2. StateShape' /\ PhaseFits'
    BY <1>1, <1>4, <2>1 DEF IInv, StateShape, PhaseFits, EndBeat
  <2>3. Agree'
    BY <1>1, <1>2, <1>4, <2>1 DEF Agree, ASLEEP
  <2> QED
    BY <2>2, <2>3 DEF IInv
<1> QED
  BY <1>3, <1>4 DEF Change

THEOREM InvariantHolds == Spec => []IInv
<1>1. Init => IInv
  <2>1. MaxFaults \in Nat
    BY CircadianAssumption
  <2> QED
    BY <2>1 DEF Init, IInv, StateShape, PhaseFits, Agree, STATES, ASLEEP
<1>2. IInv /\ [Next]_vars => IInv'
  <2> SUFFICES ASSUME IInv, [Next]_vars PROVE IInv'
    OBVIOUS
  <2>1. CASE Assess
    <3> PICK wakes \in 0 .. DensityFull, n \in 0 .. MaxThreads :
          LET to == Decide(wakes, n) IN
          /\ mode = "up" /\ phase = "idle" /\ UNCHANGED mode
          /\ \/ to = state /\ Goes(NextPhase(to)) /\ UNCHANGED <<state, last, faults>>
             \/ /\ Recorded(to) /\ state' = to
                /\ Goes(NextPhase(to)) /\ UNCHANGED faults
             \/ Fault /\ EndBeat /\ UNCHANGED <<state, last>>
      BY <2>1 DEF Assess
    <3> DEFINE to == Decide(wakes, n)
    <3>1. to \in STATES
      BY DecideState
    <3>2. NextPhase(to) \in {"idle", "begin", "wake"} /\ (NextPhase(to) = "begin" => to \in ASLEEP)
      BY <3>1, NextPhaseFits
    <3> HIDE DEF to
    <3>3. CASE to = state /\ Goes(NextPhase(to)) /\ UNCHANGED <<state, last, faults>>
      BY <3>1, <3>2, <3>3 DEF IInv, StateShape, PhaseFits, Agree, Goes
    <3>4. CASE Recorded(to) /\ state' = to /\ Goes(NextPhase(to)) /\ UNCHANGED faults
      BY <3>1, <3>2, <3>4 DEF IInv, StateShape, PhaseFits, Agree, Goes, Recorded
    <3>5. CASE Fault /\ EndBeat /\ UNCHANGED <<state, last>>
      <4>1. faults' \in 0 .. MaxFaults /\ faults' > 0
        BY <3>5, FaultCounts DEF IInv, StateShape
      <4> QED
        BY <3>5, <4>1 DEF IInv, StateShape, PhaseFits, Agree, EndBeat
    <3> QED
      BY <3>3, <3>4, <3>5 DEF to
  <2>2. CASE begin_consolidation
    <3>1. state \in ASLEEP
      BY <2>2 DEF begin_consolidation, IInv, PhaseFits
    <3> QED
      BY <2>2, <3>1, ChangeKeeps DEF begin_consolidation, ASLEEP
  <2>3. CASE end_consolidation
    <3>1. state \in ASLEEP
      BY <2>3 DEF end_consolidation, IInv, PhaseFits, ASLEEP
    <3> QED
      BY <2>3, <3>1, ChangeKeeps DEF end_consolidation, ASLEEP
  <2>4. CASE Sleep \/ Wake
    <3>1. UNCHANGED <<state, last, mode>> /\ (UNCHANGED faults \/ Fault)
      BY <2>4 DEF Sleep, Wake
    <3>2. faults' \in 0 .. MaxFaults /\ (faults > 0 => faults' > 0)
      BY <3>1, FaultCounts DEF IInv, StateShape
    <3>3. phase' = "idle" \/ (phase' = "end" /\ phase = "sleep")
      BY <2>4 DEF Sleep, Wake, EndBeat
    <3> QED
      BY <3>1, <3>2, <3>3 DEF IInv, StateShape, PhaseFits, Agree
  <2>5. CASE Chat \/ Experience \/ Meaningful \/ ManualWake \/ Tick \/ UNCHANGED vars
    <3>1. UNCHANGED <<state, last, mode, phase, faults>>
      BY <2>5 DEF Chat, Experience, Meaningful, ManualWake, Tick, vars, Others
    <3> QED
      BY <3>1 DEF IInv, StateShape, PhaseFits, Agree
  <2>6. CASE Crash
    BY <2>6 DEF Crash, IInv, StateShape, PhaseFits
  <2>7. CASE Restart
    BY <2>7 DEF Restart, IInv, StateShape, PhaseFits, Agree, ASLEEP
  <2> QED
    BY <2>1, <2>2, <2>3, <2>4, <2>5, <2>6, <2>7 DEF Next, Beat
<1> QED
  BY <1>1, <1>2, PTL DEF Spec

\* The machine's memory and what a restart reconstructs agree, and after any number
\* of failing appends and crashes they still agree on whether the mind is asleep.
THEOREM StateRecordedAlways == Spec => []StateRecorded
<1>1. IInv => StateRecorded
  BY DEF IInv, StateShape, Agree, StateRecorded
<1> QED
  BY <1>1, InvariantHolds, PTL

LEMMA CapsAreNat == AgeCap \in [Kinds -> Nat]
<1>1. /\ SleepAfter \in Nat /\ ActiveMeaningful \in Nat /\ ConsolidationInterval \in Nat
      /\ ActiveWake \in Nat /\ QuietWake \in Nat /\ DrowsyWake \in Nat
      /\ BaseThreads \in Nat /\ MaxThreads \in Nat
  BY CircadianAssumption
<1>2. Long \in Nat
  <2>1. Resist(MaxThreads) \in Nat
    BY <1>1 DEF Resist
  <2> DEFINE product == SleepAfter * Resist(MaxThreads)
  <2>2. product \in Nat
    BY <1>1, <2>1
  <2> HIDE DEF product
  <2>3. (product + 3) \div 4 \in Nat
    BY <2>2
  <2> QED
    BY <1>1, <2>3 DEF Long, product
<1>3. Max({ActiveWake, QuietWake, DrowsyWake}) \in Nat
  <2> DEFINE S == {ActiveWake, QuietWake, DrowsyWake}
  <2>1. \E x \in S : \A y \in S : x >= y
    BY <1>1, GreatestExists, ActiveWake + QuietWake + DrowsyWake \in Nat,
       \A x \in S : x <= ActiveWake + QuietWake + DrowsyWake
  <2>2. Max(S) \in S
    BY <2>1 DEF Max
  <2> QED
    BY <1>1, <2>2
<1> QED
  BY <1>1, <1>2, <1>3, Zenon DEF AgeCap, Kinds

\* Every variable keeps its shape; in particular no age outgrows what the decisions
\* distinguish.
THEOREM TypeCorrect == Spec => []TypeOK
<1> DEFINE Rest == /\ hour \in 0 .. Day - 1
                   /\ age \in [Kinds -> Nat] /\ \A k \in Kinds : age[k] <= AgeCap[k]
                   /\ fresh \in BOOLEAN /\ beaten \in BOOLEAN /\ stirred \in BOOLEAN
                   /\ crashes \in 0 .. MaxCrashes
<1>1. Init => Rest
  <2>1. MaxCrashes \in Nat /\ \A k \in Kinds : AgeCap[k] <= AgeCap[k]
    BY CircadianAssumption, CapsAreNat
  <2>2. ASSUME Init PROVE age \in [Kinds -> Nat] /\ \A k \in Kinds : age[k] <= AgeCap[k]
    BY <2>1, <2>2, CapsAreNat DEF Init
  <2>3. ASSUME Init PROVE hour \in 0 .. Day - 1 /\ crashes \in 0 .. MaxCrashes
    BY <2>1, <2>3 DEF Init
  <2>4. ASSUME Init PROVE fresh \in BOOLEAN /\ beaten \in BOOLEAN /\ stirred \in BOOLEAN
    BY <2>4 DEF Init
  <2> QED
    BY <2>2, <2>3, <2>4
<1>2. ASSUME Rest, NEW K, Reset(K)
      PROVE  age' \in [Kinds -> Nat] /\ \A k \in Kinds : age'[k] <= AgeCap[k]
  BY <1>2, CapsAreNat DEF Reset
<1>3. Rest /\ [Next]_vars => Rest'
  <2> SUFFICES ASSUME Rest, [Next]_vars PROVE Rest'
    OBVIOUS
  <2>1. CASE Assess \/ begin_consolidation \/ end_consolidation
    BY <2>1 DEF Assess, begin_consolidation, end_consolidation, Change, Goes, EndBeat
  <2>2. CASE Sleep
    <3>1. PICK also \in {{}, {"meaningful"}} : Reset({"slept"} \cup also) \/ Reset(also)
      BY <2>2 DEF Sleep
    <3>2. age' \in [Kinds -> Nat] /\ \A k \in Kinds : age'[k] <= AgeCap[k]
      BY <1>2, <3>1
    <3> QED
      BY <2>2, <3>2 DEF Sleep, EndBeat
  <2>3. CASE Wake \/ ManualWake
    <3>1. UNCHANGED age \/ \E also \in {{}, {"meaningful"}} : Reset({"wake"} \cup also)
      BY <2>3 DEF Wake, ManualWake
    <3>2. age' \in [Kinds -> Nat] /\ \A k \in Kinds : age'[k] <= AgeCap[k]
      BY <1>2, <3>1
    <3> QED
      BY <2>3, <3>2 DEF Wake, ManualWake, EndBeat, Others
  <2>4. CASE Chat \/ Experience \/ Meaningful
    <3>1. \E K \in SUBSET Kinds : Reset(K)
      BY <2>4 DEF Chat, Experience, Meaningful, Kinds
    <3>2. age' \in [Kinds -> Nat] /\ \A k \in Kinds : age'[k] <= AgeCap[k]
      BY <1>2, <3>1
    <3> QED
      BY <2>4, <3>2 DEF Chat, Experience, Meaningful, Others
  <2>5. CASE Tick
    <3>1. Day \in Nat \ {0}
      BY CircadianAssumption
    <3>2. hour' \in 0 .. Day - 1
      BY <2>5, <3>1 DEF Tick
    <3>3. age' \in [Kinds -> Nat] /\ \A k \in Kinds : age'[k] <= AgeCap[k]
      BY <2>5, CapsAreNat DEF Tick, Older
    <3> QED
      BY <2>5, <3>2, <3>3 DEF Tick
  <2>6. CASE Crash
    <3>1. crashes' \in 0 .. MaxCrashes
      <4>1. MaxCrashes \in Nat
        BY CircadianAssumption
      <4> QED
        BY <2>6, <4>1 DEF Crash
    <3>2. UNCHANGED <<hour, age, fresh, stirred>> /\ beaten' \in BOOLEAN
      BY <2>6 DEF Crash
    <3> QED
      BY <3>1, <3>2
  <2>7. CASE Restart \/ UNCHANGED vars
    BY <2>7 DEF Restart, vars
  <2> QED
    BY <2>1, <2>2, <2>3, <2>4, <2>5, <2>6, <2>7 DEF Next, Beat
<1>4. IInv /\ Rest => TypeOK
  BY DEF IInv, StateShape, TypeOK
<1> HIDE DEF Rest
<1> QED
  BY <1>1, <1>3, <1>4, InvariantHolds, PTL DEF Spec

\* While nothing has failed, a message no wake has seen yet is about to be answered:
\* it came in this tick, or the beat of the next one has still to run or to wake.
MessagePending ==
    /\ mode = "up"
    /\ fresh => /\ age["user"] <= 1
                /\ phase \in {"idle", "wake"}
                /\ phase = "idle" /\ beaten => age["user"] = 0

Prompt == faults = 0 /\ crashes = 0 => MessagePending

\* A beat that meets such a message decides for "wake" or "active", so it wakes.
LEMMA MessageWakes ==
    ASSUME ActiveUser > 1, TypeOK, fresh, age["user"] <= 1, NEW wakes, NEW n
    PROVE  NextPhase(Decide(wakes, n)) = "wake"
<1>1. age["user"] < ActiveUser
  <2>1. ActiveUser \in Nat /\ age["user"] \in Nat
    BY CircadianAssumption DEF TypeOK, Kinds
  <2> QED
    BY <2>1
<1>2. Decide(wakes, n) \in {"wake", "active"}
  BY <1>1 DEF Decide, WakeTrigger
<1> QED
  BY <1>2 DEF NextPhase, WakeDue, ASLEEP

\* Whatever the thresholds, windows and cadences, provided a user counts as active for
\* more than a tick: while nothing fails, a new message is met by a wake within a tick,
\* asleep or not.
THEOREM MessagesWake ==
    ASSUME ActiveUser > 1
    PROVE  Spec => []PromptWake
<1>1. Init => Prompt
  BY DEF Init, Prompt, MessagePending
<1>2. TypeOK /\ TypeOK' /\ Prompt /\ [Next]_vars => Prompt'
  <2> SUFFICES ASSUME TypeOK, TypeOK', Prompt, [Next]_vars, faults' = 0, crashes' = 0
               PROVE  MessagePending'
    BY DEF Prompt
  <2>1. faults \in Nat /\ crashes \in Nat /\ age["user"] \in Nat /\ fresh \in BOOLEAN
    <3>1. MaxFaults \in Nat /\ MaxCrashes \in Nat
      BY CircadianAssumption
    <3> QED
      BY <3>1 DEF TypeOK, Kinds
  <2>2. ~Fault
    BY <2>1 DEF Fault
  <2>3. MessagePending
    <3>1. UNCHANGED faults \/ Fault
      BY DEF Next, Beat, Assess, begin_consolidation, end_consolidation, Change, Sleep, Wake,
             Chat, Experience, Meaningful, ManualWake, Tick, Crash, Restart, Others, vars
    <3>2. UNCHANGED crashes \/ crashes' = crashes + 1
      BY DEF Next, Beat, Assess, begin_consolidation, end_consolidation, Change, Sleep, Wake,
             Chat, Experience, Meaningful, ManualWake, Tick, Crash, Restart, Others, vars
    <3>3. faults = 0 /\ crashes = 0
      BY <2>1, <2>2, <3>1, <3>2
    <3> QED
      BY <3>3 DEF Prompt
  <2>4. CASE Assess
    <3>1. PICK wakes \in 0 .. DensityFull, n \in 0 .. MaxThreads :
             UNCHANGED <<age, fresh, mode>> /\ phase = "idle" /\ Goes(NextPhase(Decide(wakes, n)))
      BY <2>2, <2>4 DEF Assess
    <3>2. fresh => NextPhase(Decide(wakes, n)) = "wake"
      BY <2>3, MessageWakes DEF MessagePending
    <3> QED
      BY <2>3, <3>1, <3>2 DEF MessagePending, Goes
  <2>5. CASE begin_consolidation \/ end_consolidation
    <3>1. ~fresh
      BY <2>3, <2>5 DEF begin_consolidation, end_consolidation, MessagePending
    <3>2. UNCHANGED <<fresh, mode>>
      BY <2>5 DEF begin_consolidation, end_consolidation, Change
    <3> QED
      BY <2>3, <3>1, <3>2 DEF MessagePending
  <2>6. CASE Sleep
    BY <2>3, <2>6 DEF Sleep, MessagePending
  <2>7. CASE Wake \/ ManualWake
    <3>1. UNCHANGED mode /\ fresh' = FALSE
      BY <2>2, <2>7 DEF Wake, ManualWake, Others
    <3> QED
      BY <2>3, <3>1 DEF MessagePending
  <2>8. CASE Chat
    <3>1. age'["user"] = 0 /\ UNCHANGED <<mode, phase>> /\ phase = "idle"
      BY <2>8 DEF Chat, Reset, Kinds, Others
    <3> QED
      BY <2>3, <3>1 DEF MessagePending
  <2>9. CASE Experience \/ Meaningful
    <3>1. age'["user"] = age["user"] /\ UNCHANGED <<fresh, mode, phase, beaten>>
      BY <2>9 DEF Experience, Meaningful, Reset, Kinds, Others
    <3> QED
      BY <2>3, <3>1 DEF MessagePending
  <2>10. CASE Tick
    <3>1. /\ phase = "idle" /\ beaten /\ beaten' = FALSE
          /\ UNCHANGED <<fresh, mode, phase>>
      BY <2>3, <2>10 DEF Tick, MessagePending
    <3>2. age["user"] = 0 => age'["user"] <= 1
      BY <2>10 DEF Tick, Older, Kinds
    <3> QED
      BY <2>3, <3>1, <3>2 DEF MessagePending
  <2>11. CASE Crash
    BY <2>1, <2>11 DEF Crash
  <2>12. CASE Restart
    BY <2>3, <2>12 DEF Restart, MessagePending
  <2>13. CASE UNCHANGED vars
    BY <2>3, <2>13 DEF vars, MessagePending
  <2> QED
    BY <2>4, <2>5, <2>6, <2>7, <2>8, <2>9, <2>10, <2>11, <2>12, <2>13 DEF Next, Beat
<1>3. Prompt => PromptWake
  BY DEF Prompt, MessagePending, PromptWake
<1> QED
  BY <1>1, <1>2, <1>3, TypeCorrect, PTL DEF Spec

(***************************************************************************)
(* The rhythm: the machine and its record are two readings of Rhythm.      *)
(***************************************************************************)
Lived == INSTANCE Rhythm WITH rhythm <- state
Logged == INSTANCE Rhythm WITH rhythm <- last.to

\* What a step does to the state and to its record: nothing, a decided and recorded
\* change, a move between the two asleep states, or the reconstruction.
LEMMA StateSteps ==
    ASSUME IInv, Next
    PROVE  \/ UNCHANGED <<state, last>>
           \/ \E wakes \in 0 .. DensityFull, n \in 0 .. MaxThreads :
                /\ mode = "up" /\ state' # state /\ state' = Decide(wakes, n)
                /\ last' = [from |-> state, to |-> state']
           \/ /\ mode = "up" /\ state \in ASLEEP /\ state' \in ASLEEP
              /\ UNCHANGED last \/ last' = [from |-> state, to |-> state']
           \/ mode = "down" /\ state' = last.to /\ UNCHANGED last
<1>1. CASE Assess
  BY <1>1 DEF Assess, Recorded
<1>2. CASE begin_consolidation
  <2>1. state \in ASLEEP /\ mode = "up" /\ state' = "consolidating"
            /\ (UNCHANGED last \/ last' = [from |-> state, to |-> state'])
    BY <1>2 DEF begin_consolidation, Change, Recorded, IInv, PhaseFits
  <2> QED
    BY <2>1 DEF ASLEEP
<1>3. CASE end_consolidation
  <2>1. state = "consolidating" /\ mode = "up" /\ state' = "sleep"
            /\ (UNCHANGED last \/ last' = [from |-> state, to |-> state'])
    BY <1>3 DEF end_consolidation, Change, Recorded, IInv, PhaseFits
  <2> QED
    BY <2>1 DEF ASLEEP
<1>4. CASE Restart
  BY <1>4 DEF Restart
<1> QED
  BY <1>1, <1>2, <1>3, <1>4 DEF Next, Beat, Sleep, Wake, Chat, Experience, Meaningful,
     ManualWake, Tick, Crash, Others

\* Memory and record agree in a dead process too: nothing moves either.
LEMMA AgreeAlways == Spec => [](IInv /\ Agree)
<1>1. Init => Agree
  BY DEF Init, Agree
<1>2. IInv /\ IInv' /\ Agree /\ [Next]_vars => Agree'
  <2> SUFFICES ASSUME IInv, IInv', Agree, Next, mode' = "down" PROVE Agree'
    BY DEF IInv, StateShape, Agree, vars
  <2>1. UNCHANGED <<state, last, faults>>
    BY DEF Next, Beat, Assess, begin_consolidation, end_consolidation, Change, Sleep, Wake,
           Chat, Experience, Meaningful, ManualWake, Tick, Crash, Restart, Others
  <2> QED
    BY <2>1 DEF Agree
<1> QED
  BY <1>1, <1>2, InvariantHolds, PTL DEF Spec

\* Where a decision may lead from each state.
LEMMA DecideMoves ==
    ASSUME NEW wakes, NEW n, state \in STATES
    PROVE  /\ state \in ASLEEP =>
                \/ Decide(wakes, n) = "wake" /\ WakeTrigger
                \/ Decide(wakes, n) = "sleep" /\ ~WakeTrigger
           /\ state = "wake" => Decide(wakes, n) = "active"
           /\ Decide(wakes, n) = "wake" => state \in ASLEEP
           /\ Decide(wakes, n) # "consolidating"
  BY DEF Decide, Descent, ASLEEP, STATES

LEMMA RhythmStep ==
    ASSUME IInv, Agree, Next
    PROVE  /\ Lived!Next \/ UNCHANGED state
           /\ Logged!Next \/ UNCHANGED last.to
<1> USE DEF Lived!Next, Lived!Drift, Lived!FallAsleep, Lived!Consolidate, Lived!Rouse,
            Lived!Reopen, Lived!Engaged, Lived!Asleep, Logged!Next, Logged!Drift,
            Logged!FallAsleep, Logged!Consolidate, Logged!Rouse, Logged!Reopen,
            Logged!Engaged, Logged!Asleep
<1>. state \in STATES
  BY DEF IInv, StateShape
<1>0. last.to = state \/ (state \in ASLEEP /\ last.to \in ASLEEP)
  BY DEF Agree, ASLEEP
<1>1. CASE UNCHANGED <<state, last>>
  BY <1>1
<1>2. ASSUME NEW wakes, NEW n, state' # state, state' = Decide(wakes, n),
             last' = [from |-> state, to |-> state']
      PROVE  (Lived!Next \/ UNCHANGED state) /\ (Logged!Next \/ UNCHANGED last.to)
  <2>1. last'.to = state' /\ state' \in STATES
    BY <1>2, DecideState
  <2>2. CASE state \in ASLEEP
    BY <1>0, <1>2, <2>1, <2>2, DecideMoves DEF ASLEEP
  <2>3. CASE state \notin ASLEEP
    <3>1. last.to = state
      BY <1>0, <2>3
    <3>2. state \in {"active", "quiet", "drowsy", "wake"}
      BY <2>3 DEF ASLEEP, STATES
    <3>3. state = "wake" => state' = "active"
      BY <1>2, DecideMoves
    <3>4. state' \in {"active", "quiet", "drowsy", "sleep"}
      BY <1>2, <2>1, <2>3, DecideMoves DEF ASLEEP, STATES
    <3> QED
      BY <2>1, <3>1, <3>2, <3>3, <3>4
  <2> QED
    BY <2>2, <2>3
<1>3. CASE /\ state \in ASLEEP /\ state' \in ASLEEP
           /\ UNCHANGED last \/ last' = [from |-> state, to |-> state']
  BY <1>0, <1>3 DEF ASLEEP
<1>4. CASE state' = last.to /\ UNCHANGED last
  BY <1>0, <1>4 DEF ASLEEP
<1> QED
  BY <1>1, <1>2, <1>3, <1>4, StateSteps

\* The machine lives the rhythm, through any failing append, crash and restart: no
\* state is skipped, and sleep is entered and left only where ADR-0007 says.
THEOREM LivesTheRhythm == Spec => Lived!Spec
<1>1. Init => Lived!Init
  BY DEF Init, Lived!Init
<1>2. IInv /\ Agree /\ [Next]_vars => [Lived!Next]_state
  BY RhythmStep DEF vars
<1> QED
  BY <1>1, <1>2, AgreeAlways, PTL DEF Spec, Lived!Spec

\* What the log tells of the states is a rhythm as well, though a change of which the
\* append failed is missing from it.
THEOREM LogsARhythm == Spec => Logged!Spec
<1>1. Init => Logged!Init
  BY DEF Init, Logged!Init
<1>2. IInv /\ Agree /\ [Next]_vars => [Logged!Next]_(last.to)
  BY RhythmStep DEF vars
<1> QED
  BY <1>1, <1>2, AgreeAlways, PTL DEF Spec, Logged!Spec

\* Each recorded change begins where the one before it ended; only after a failure, and
\* only between the two asleep states, may there be a gap.
THEOREM RecordChains ==
    Spec => [][last' # last =>
                 \/ last'.from = last.to
                 \/ faults > 0 /\ last'.from \in ASLEEP /\ last.to \in ASLEEP]_vars
<1>1. IInv /\ Agree /\ [Next]_vars =>
        [last' # last => \/ last'.from = last.to
                         \/ faults > 0 /\ last'.from \in ASLEEP /\ last.to \in ASLEEP]_vars
  <2> SUFFICES ASSUME IInv, Agree, Next, last' # last
               PROVE  \/ last'.from = last.to
                      \/ faults > 0 /\ last'.from \in ASLEEP /\ last.to \in ASLEEP
    OBVIOUS
  <2>1. last'.from = state
    BY StateSteps
  <2>2. state = last.to \/ (faults > 0 /\ state \in ASLEEP /\ last.to \in ASLEEP)
    BY DEF Agree, ASLEEP
  <2> QED
    BY <2>1, <2>2
<1> QED
  BY <1>1, AgreeAlways, PTL DEF Spec

\* What wakes a sleeping mind is a user, an event from outside or the morning, and
\* nothing else: no crash, no failure, no consolidation, no thought of its own.
THEOREM OnlyAStimulusWakes ==
    Spec => [][(state \in ASLEEP /\ state' \notin ASLEEP)
                  => (mode = "up" /\ WakeTrigger /\ state' = "wake")]_vars
<1>1. IInv /\ Agree /\ [Next]_vars =>
        [(state \in ASLEEP /\ state' \notin ASLEEP)
            => (mode = "up" /\ WakeTrigger /\ state' = "wake")]_vars
  <2> SUFFICES ASSUME IInv, Agree, Next, state \in ASLEEP, state' \notin ASLEEP
               PROVE  mode = "up" /\ WakeTrigger /\ state' = "wake"
    OBVIOUS
  <2>1. last.to \in ASLEEP /\ state \in STATES
    BY DEF Agree, IInv, StateShape, ASLEEP
  <2>2. \E wakes, n : mode = "up" /\ state' = Decide(wakes, n)
    BY <2>1, StateSteps
  <2>3. "sleep" \in ASLEEP
    BY DEF ASLEEP
  <2> QED
    BY <2>1, <2>2, <2>3, DecideMoves
<1> QED
  BY <1>1, AgreeAlways, PTL DEF Spec

(***************************************************************************)
(* Falling asleep: the clock is a bias and never the decider.              *)
(***************************************************************************)
LEMMA NatConstants ==
    /\ SleepAfter \in Nat /\ DensityFull \in Nat /\ ActiveUser \in Nat
    /\ BaseThreads \in Nat /\ MaxThreads \in Nat /\ DensityFull > 0
    /\ ActiveUser <= Long
  BY CircadianAssumption

LEMMA BiasBounded ==
    ASSUME NEW wakes \in Nat
    PROVE  Bias(wakes) \in Nat /\ Bias(wakes) <= 30 * DensityFull
  BY NatConstants DEF Bias

\* Night, tiredness and quiet threads together take no more than three tenths off the
\* silence that sleep needs.
LEMMA SilenceNeeded ==
    ASSUME NEW wakes \in Nat, NEW r \in Nat, NEW a \in Nat, NEW s \in Nat,
           a * 400 * DensityFull >= s * (100 * DensityFull - Bias(wakes)) * (4 + r)
    PROVE  10 * a >= 7 * s
<1> DEFINE D == DensityFull
           left == 100 * D - Bias(wakes)
<1>1. left \in Nat /\ left >= 70 * D /\ D \in Nat /\ D > 0
  BY BiasBounded, NatConstants
<1> HIDE DEF D, left
<1>2. s * left >= s * (70 * D)
  BY <1>1
<1>3. s * left * (4 + r) >= s * left * 4
  <2> DEFINE p == s * left
  <2>1. p \in Nat
    BY <1>1
  <2> HIDE DEF p
  <2>2. p * (4 + r) = p * 4 + p * r /\ p * r >= 0
    BY <2>1
  <2> QED
    BY <2>1, <2>2 DEF p
<1>4. a * 400 * D >= 4 * (s * (70 * D))
  BY <1>1, <1>2, <1>3 DEF D, left
<1>5. (40 * (10 * a)) * D >= (40 * (7 * s)) * D
  BY <1>1, <1>4
<1>6. 40 * (10 * a) >= 40 * (7 * s)
  BY <1>1, <1>5
<1> QED
  BY <1>6

\* The mind falls asleep only with its user gone for most of sleep_after, never in the
\* morning window, and never from the state it wakes up in, whatever the hour, its
\* tiredness and its threads.
THEOREM SleepsOnlyInSilence ==
    Spec => [][(state \notin ASLEEP /\ state' \in ASLEEP)
                  => /\ state # "wake" /\ state' = "sleep"
                     /\ hour \notin Morning /\ age["user"] >= ActiveUser
                     /\ 10 * age["user"] >= 7 * SleepAfter]_vars
<1> DEFINE Silent == /\ state # "wake" /\ state' = "sleep"
                     /\ hour \notin Morning /\ age["user"] >= ActiveUser
                     /\ 10 * age["user"] >= 7 * SleepAfter
<1>1. IInv /\ Agree /\ TypeOK /\ [Next]_vars =>
        [(state \notin ASLEEP /\ state' \in ASLEEP) => Silent]_vars
  <2> SUFFICES ASSUME IInv, Agree, TypeOK, Next, state \notin ASLEEP, state' \in ASLEEP
               PROVE  Silent
    OBVIOUS
  <2>1. state = last.to /\ state \in STATES
    BY DEF Agree, IInv, StateShape, ASLEEP
  <2>2. PICK wakes \in 0 .. DensityFull, n \in 0 .. MaxThreads : state' = Decide(wakes, n)
    BY <2>1, StateSteps
  <2>3. state # "wake" /\ state' = "sleep"
    BY <2>1, <2>2, DecideMoves DEF ASLEEP
  <2>4. ~(age["user"] < ActiveUser) /\ hour \notin Morning /\ Descent(wakes, n) = "sleep"
    BY <2>2, <2>3 DEF Decide
  <2>5. SilentFor(SleepAfter, wakes, Resist(n))
    BY <2>4 DEF Descent
  <2>6. wakes \in Nat /\ Resist(n) \in Nat /\ age["user"] \in Nat
    BY NatConstants DEF Resist, TypeOK, Kinds
  <2>7. 10 * age["user"] >= 7 * SleepAfter
    BY <2>5, <2>6, NatConstants, SilenceNeeded DEF SilentFor
  <2>8. age["user"] >= ActiveUser
    BY <2>4, <2>6, NatConstants
  <2> QED
    BY <2>3, <2>4, <2>7, <2>8
<1> HIDE DEF Silent
<1>2. Spec => [][(state \notin ASLEEP /\ state' \in ASLEEP) => Silent]_vars
  BY <1>1, AgreeAlways, TypeCorrect, PTL DEF Spec
<1> QED
  BY <1>2 DEF Silent

\* The safety half of Rests: a mind that is awake and engaged, whose user has been gone
\* for Long, decides for sleep outside the morning window, whatever it has been thinking
\* and however many threads, up to MaxThreads, it keeps active: nothing is a veto.
THEOREM NothingVetoesSleep ==
    ASSUME TypeOK, state \in {"active", "quiet", "drowsy"}, hour \notin Morning,
           age["user"] >= Long, NEW wakes \in 0 .. DensityFull, NEW n \in 0 .. MaxThreads
    PROVE  Decide(wakes, n) = "sleep"
<1> DEFINE S == SleepAfter
           D == DensityFull
           r == Resist(n)
           R == Resist(MaxThreads)
           b == Bias(wakes)
           a == age["user"]
<1>1. /\ S \in Nat /\ D \in Nat /\ r \in Nat /\ R \in Nat /\ a \in Nat
      /\ b \in Nat /\ b <= 30 * D /\ r <= R
  BY NatConstants, BiasBounded DEF Resist, TypeOK, Kinds
<1>2. a >= S + (S * R + 3) \div 4
  BY DEF Long
<1> HIDE DEF S, D, r, R, b, a
<1>3. 4 * a >= S * (4 + R)
  <2> DEFINE p == S * R
  <2>1. p \in Nat /\ S * (4 + R) = 4 * S + p
    BY <1>1
  <2> HIDE DEF p
  <2>2. 4 * ((p + 3) \div 4) >= p
    BY <2>1
  <2> QED
    BY <1>1, <1>2, <2>1, <2>2 DEF p
<1>4. S * (4 + R) >= S * (4 + r)
  <2>1. S * (4 + R) = S * (4 + r) + S * (R - r) /\ S * (R - r) >= 0
    BY <1>1
  <2>2. S * (4 + R) \in Nat /\ S * (4 + r) \in Nat
    BY <1>1
  <2> QED
    BY <1>1, <2>1, <2>2
<1>5. a * 400 * D >= S * (100 * D - b) * (4 + r)
  <2> DEFINE q == S * (4 + r)
  <2>1. q \in Nat /\ 4 * a >= q
    BY <1>1, <1>3, <1>4
  <2>2. S * (100 * D - b) * (4 + r) = q * (100 * D - b)
    BY <1>1
  <2> HIDE DEF q
  <2>3. (4 * a) * (100 * D) >= q * (100 * D)
    BY <1>1, <2>1
  <2>4. q * (100 * D) >= q * (100 * D - b)
    BY <1>1, <2>1
  <2>5. a * 400 * D = (4 * a) * (100 * D)
    BY <1>1
  <2> QED
    BY <1>1, <2>1, <2>2, <2>3, <2>4, <2>5
<1>6. SilentFor(SleepAfter, wakes, Resist(n))
  BY <1>5 DEF SilentFor, S, D, b, a, r
<1>7. ~(age["user"] < ActiveUser)
  <2>1. age["user"] \in Nat /\ Long \in Nat
    BY CapsAreNat DEF TypeOK, Kinds, AgeCap
  <2> QED
    BY <2>1, NatConstants
<1> QED
  BY <1>6, <1>7 DEF Decide, Descent, ASLEEP
==============================================================================
