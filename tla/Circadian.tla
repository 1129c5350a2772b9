------------------------------- MODULE Circadian -------------------------------
(***************************************************************************)
(* circadian.py: the state machine of the rhythm and the orchestrator's    *)
(* beat, which wakes the mind or runs a consolidation by it.               *)
(*                                                                         *)
(* The events the machine reads are kept as ages that grow with the clock  *)
(* up to the largest age any decision distinguishes.  Wake density and     *)
(* the number of active threads belong to the mind: a beat finds any.      *)
(* What is stored (the recorded state, the ages) survives a crash, the     *)
(* machine's own `state' does not.                                         *)
(***************************************************************************)
EXTENDS Integers, FiniteSetsExt

CONSTANTS
    Day,                \* ticks in a day; hour runs over 0 .. Day-1
    Night, Morning,     \* night_window, wake_window, as sets of hours
    ActiveUser,         \* active_user_s, in ticks, as are those that follow
    ActiveMeaningful,   \* active_meaningful_s
    QuietAfter, DrowsyAfter, SleepAfter,
    ConsolidationInterval,
    ActiveWake, QuietWake, DrowsyWake,  \* wake cadence of each awake state
    DensityFull,        \* wake_density_full
    BaseThreads,        \* max_active_for_sleep
    MaxThreads,         \* bound: active threads a beat may find
    MaxFaults,          \* bound: appends, wakes and sleeps that raise
    MaxCrashes          \* bound

Resist(n) == IF n > BaseThreads THEN n - BaseThreads ELSE 0

\* The silence after which nothing can keep the mind from sleep.
Long == SleepAfter + (SleepAfter * Resist(MaxThreads) + 3) \div 4

ASSUME CircadianAssumption ==
    /\ Day \in Nat \ {0} /\ Night \subseteq 0 .. Day - 1 /\ Morning \subseteq 0 .. Day - 1
    /\ {ActiveUser, ActiveMeaningful, QuietAfter, DrowsyAfter, SleepAfter,
        ConsolidationInterval, ActiveWake, QuietWake, DrowsyWake, DensityFull}
           \subseteq Nat \ {0}
    /\ ActiveUser <= Long
    /\ BaseThreads \in Nat /\ MaxThreads \in Nat
    /\ MaxFaults \in Nat /\ MaxCrashes \in Nat

VARIABLES
    hour,       \* local hour of the day
    age,        \* ticks since the last: user message, external event, meaningful
                \* event, sleep.completed, wake.started
    fresh,      \* the last user message is newer than the last wake.started
    state,      \* machine._state
    last,       \* from and to of the last circadian.state_changed event
    mode,       \* "up" or "down"
    phase,      \* what the beat in progress does next: "idle", "begin", "sleep",
                \* "end", "wake"
    beaten,     \* a beat has run since the clock last moved
    stirred,    \* history: the sleeping mind has been woken since the last
                \* external event
    faults, crashes

vars == <<hour, age, fresh, state, last, mode, phase, beaten, stirred, faults, crashes>>

ASLEEP == {"sleep", "consolidating"}
STATES == {"active", "quiet", "drowsy", "wake"} \cup ASLEEP

\* What the ages are of, and the largest that matters to any decision.
Kinds == {"user", "external", "meaningful", "slept", "wake"}
AgeCap == [k \in Kinds |->
    CASE k = "user" -> Long
      [] k \in {"external", "meaningful"} -> ActiveMeaningful
      [] k = "slept" -> ConsolidationInterval
      [] k = "wake" -> Max({ActiveWake, QuietWake, DrowsyWake})]

\* Events of these kinds have just been stored.
Reset(K) == age' = [k \in Kinds |-> IF k \in K THEN 0 ELSE age[k]]

(***************************************************************************)
(* The decision.                                                           *)
(***************************************************************************)
\* Mutant: the morning does not wake.
MorningMissed == age["user"] < ActiveUser \/ age["external"] < ActiveMeaningful

\* _wake_trigger.
WakeTrigger ==
    \/ age["user"] < ActiveUser
    \/ age["external"] < ActiveMeaningful
    \/ hour \in Morning

\* _bias, in units of 1/(100 * DensityFull): 20% at night, 10% for full tiredness.
Bias(wakes) ==
    LET tired == IF wakes < DensityFull THEN wakes ELSE DensityFull
        bias == (IF hour \in Night THEN 20 * DensityFull ELSE 0) + 10 * tired
    IN  IF bias < 45 * DensityFull THEN bias ELSE 45 * DensityFull

\* The user has been silent for `after', eased by the bias; extra threads add a
\* quarter each (for deep sleep only).
SilentFor(after, wakes, resist) ==
    age["user"] * 400 * DensityFull
        >= after * (100 * DensityFull - Bias(wakes)) * (4 + resist)

\* Mutant: a recent thought holds the mind awake, also when it is late.
DescentGraceFirst(wakes, n) ==
    IF age["meaningful"] < ActiveMeaningful THEN "active"
    ELSE IF SilentFor(SleepAfter, wakes, Resist(n)) THEN "sleep"
    ELSE IF SilentFor(DrowsyAfter, wakes, 0) THEN "drowsy"
    ELSE IF SilentFor(QuietAfter, wakes, 0) THEN "quiet"
    ELSE "active"

\* decide, for a mind that is up and whose user is not there.
Descent(wakes, n) ==
    IF SilentFor(SleepAfter, wakes, Resist(n)) THEN "sleep"
    ELSE IF age["meaningful"] < ActiveMeaningful THEN "active"
    ELSE IF SilentFor(DrowsyAfter, wakes, 0) THEN "drowsy"
    ELSE IF SilentFor(QuietAfter, wakes, 0) THEN "quiet"
    ELSE "active"

Decide(wakes, n) ==
    IF state \in ASLEEP THEN IF WakeTrigger THEN "wake" ELSE "sleep"
    ELSE IF state = "wake" \/ age["user"] < ActiveUser \/ hour \in Morning THEN "active"
    ELSE Descent(wakes, n)

(***************************************************************************)
(* The beat.                                                               *)
(***************************************************************************)
Cadence(s) == CASE s = "quiet" -> QuietWake [] s = "drowsy" -> DrowsyWake
                [] OTHER -> ActiveWake

\* Mutant: a new message does not matter.
WakeDueByCadence(s) == age["wake"] >= Cadence(s)

WakeDue(s) == fresh \/ age["wake"] >= Cadence(s)
ConsolidationDue == age["slept"] >= ConsolidationInterval

\* What the rest of the beat does once the state is s.
NextPhase(s) ==
    IF s \in ASLEEP THEN IF ConsolidationDue THEN "begin" ELSE "idle"
    ELSE IF s = "wake" \/ WakeDue(s) THEN "wake" ELSE "idle"

Recorded(to) == last' = [from |-> state, to |-> to]
Fault == faults < MaxFaults /\ faults' = faults + 1

\* The beat ends here, in good order or by an exception the scheduler catches.
EndBeat == phase' = "idle" /\ beaten' = TRUE
Goes(p) == phase' = p /\ beaten' = (p = "idle")

\* Mutant: the state is assigned before it is recorded.
AssessStateFirst == \E wakes \in 0 .. DensityFull, n \in 0 .. MaxThreads :
    LET to == Decide(wakes, n) IN
    /\ mode = "up" /\ phase = "idle"
    /\ state' = to
    /\ stirred' = (stirred \/ (to = "wake" /\ hour \notin Morning))
    /\ \/ /\ to = state \/ Recorded(to)
          /\ to = state => UNCHANGED last
          /\ Goes(NextPhase(to)) /\ UNCHANGED faults
       \/ to # state /\ Fault /\ EndBeat /\ UNCHANGED last
    /\ UNCHANGED <<hour, age, fresh, mode, crashes>>

\* assemble_evidence and assess: a change is recorded, then made.
Assess == \E wakes \in 0 .. DensityFull, n \in 0 .. MaxThreads :
    LET to == Decide(wakes, n) IN
    /\ mode = "up" /\ phase = "idle"
    /\ \/ /\ to = state
          /\ Goes(NextPhase(to))
          /\ UNCHANGED <<state, last, stirred, faults>>
       \/ /\ to # state
          /\ Recorded(to) /\ state' = to
          /\ stirred' = (stirred \/ (to = "wake" /\ hour \notin Morning))
          /\ Goes(NextPhase(to)) /\ UNCHANGED faults
       \/ to # state /\ Fault /\ EndBeat /\ UNCHANGED <<state, last, stirred>>
    /\ UNCHANGED <<hour, age, fresh, mode, crashes>>

\* A sub-state is entered or left: the state is assigned, then recorded if new.
Change(to, then) ==
    /\ state' = to
    /\ \/ /\ IF to = state THEN UNCHANGED last ELSE Recorded(to)
          /\ Goes(then) /\ UNCHANGED faults
       \/ to # state /\ Fault /\ EndBeat /\ UNCHANGED last
    /\ UNCHANGED <<hour, age, fresh, mode, stirred, crashes>>

begin_consolidation == mode = "up" /\ phase = "begin" /\ Change("consolidating", "sleep")
end_consolidation == mode = "up" /\ phase = "end" /\ Change("sleep", "idle")

\* sleep_once: it may leave memories, dreams or threads; sleep.completed is last.
Sleep == \E also \in {{}, {"meaningful"}} :
    /\ mode = "up" /\ phase = "sleep"
    /\ \/ /\ Reset({"slept"} \cup also)
          /\ phase' = "end" /\ UNCHANGED <<beaten, faults>>
       \/ Fault /\ EndBeat /\ Reset(also)
    /\ UNCHANGED <<hour, fresh, state, last, mode, stirred, crashes>>

\* wake_once: wake.started first; the wake, the promotion after it or the world
\* window may leave a meaningful event; any of them may raise, also before that.
Wake == \E also \in {{}, {"meaningful"}} :
    /\ mode = "up" /\ phase = "wake" /\ EndBeat
    /\ \/ /\ Reset({"wake"} \cup also)
          /\ fresh' = FALSE
          /\ Fault \/ UNCHANGED faults
       \/ Fault /\ UNCHANGED <<age, fresh>>
    /\ UNCHANGED <<hour, state, last, mode, stirred, crashes>>

(***************************************************************************)
(* The surroundings.                                                       *)
(***************************************************************************)
Others == <<hour, state, last, mode, phase, beaten, faults, crashes>>

\* chat: a user message and the experience of it.
Chat ==
    /\ mode = "up" /\ phase = "idle"
    /\ Reset({"user", "external", "meaningful"})
    /\ fresh' = TRUE /\ stirred' = FALSE
    /\ UNCHANGED Others

\* A deed of the agency ends and leaves its experience.created anchor.
Experience ==
    /\ mode = "up" /\ phase = "idle"
    /\ Reset({"external", "meaningful"})
    /\ stirred' = FALSE
    /\ UNCHANGED <<fresh, Others>>

\* Any other event that is not bookkeeping, of whatever thread.
Meaningful ==
    /\ mode = "up"
    /\ Reset({"meaningful"})
    /\ UNCHANGED <<fresh, stirred, Others>>

\* POST /api/wake.
ManualWake == \E also \in {{}, {"meaningful"}} :
    /\ mode = "up" /\ phase = "idle"
    /\ Reset({"wake"} \cup also)
    /\ fresh' = FALSE
    /\ UNCHANGED <<stirred, Others>>

Older == [k \in Kinds |-> IF age[k] < AgeCap[k] THEN age[k] + 1 ELSE age[k]]

\* Beats are much closer together than anything a decision tells apart: while the
\* process is up the clock does not move before one has run.
Tick ==
    /\ phase = "idle" /\ (mode = "up" => beaten)
    /\ hour' = (hour + 1) % Day
    /\ age' = Older
    /\ beaten' = FALSE
    /\ UNCHANGED <<fresh, state, last, mode, phase, stirred, faults, crashes>>

Crash ==
    /\ mode = "up" /\ crashes < MaxCrashes
    /\ crashes' = crashes + 1
    /\ mode' = "down" /\ phase' = "idle" /\ beaten' = FALSE
    /\ UNCHANGED <<hour, age, fresh, state, last, stirred, faults>>

\* Mutant: the wrong end of the last change.
RestartFrom ==
    /\ mode = "down"
    /\ mode' = "up" /\ state' = last.from
    /\ UNCHANGED <<hour, age, fresh, last, phase, beaten, stirred, faults, crashes>>

\* The machine reconstructs its state from the last recorded change.
Restart ==
    /\ mode = "down"
    /\ mode' = "up" /\ state' = last.to
    /\ UNCHANGED <<hour, age, fresh, last, phase, beaten, stirred, faults, crashes>>

\* A fresh mind at some hour: nothing is recorded, which reads as active, and every
\* silence is as long as can be.
Init ==
    /\ hour \in 0 .. Day - 1
    /\ age = AgeCap /\ fresh = FALSE
    /\ state = "active" /\ last = [from |-> "none", to |-> "active"]
    /\ mode = "up" /\ phase = "idle" /\ beaten = FALSE /\ stirred = FALSE
    /\ faults = 0 /\ crashes = 0

Beat == Assess \/ begin_consolidation \/ Sleep \/ end_consolidation \/ Wake

Next ==
    \/ Beat
    \/ Chat \/ Experience \/ Meaningful \/ ManualWake
    \/ Tick \/ Crash \/ Restart

Spec == Init /\ [][Next]_vars

\* The scheduler beats, a dead process is started again, and time passes: Tick waits
\* for the beat in progress, which may be so whenever one looks, hence SF.
FairSpec ==
    Spec /\ WF_vars(Beat /\ ~beaten) /\ SF_vars(Tick) /\ WF_vars(Restart)

(***************************************************************************)
(* Properties.                                                             *)
(***************************************************************************)
TypeOK ==
    /\ hour \in 0 .. Day - 1
    /\ age \in [Kinds -> Nat] /\ \A k \in Kinds : age[k] <= AgeCap[k]
    /\ state \in STATES /\ last \in [from : STATES \cup {"none"}, to : STATES]
    /\ mode \in {"up", "down"}
    /\ phase \in {"idle", "begin", "sleep", "end", "wake"}
    /\ fresh \in BOOLEAN /\ beaten \in BOOLEAN /\ stirred \in BOOLEAN
    /\ faults \in 0 .. MaxFaults /\ crashes \in 0 .. MaxCrashes

\* The state in memory and the one a restart would reconstruct agree; after an
\* append that raised they still agree on whether the mind is asleep, so that no
\* failure and no restart wakes it or puts it to sleep off the record.
StateRecorded ==
    \/ state = last.to
    \/ faults > 0 /\ {state, last.to} = ASLEEP
    \/ mode = "down"

\* A new user message wakes the mind within a tick, asleep or not, whatever the
\* cadence of its state ("always wakes promptly regardless of these").
PromptWake == faults = 0 /\ crashes = 0 => (fresh => age["user"] <= 1)

\* The mind does not sleep on: whatever fails, it is awake again some day.
NightEnds == state \in ASLEEP ~> state \notin ASLEEP

\* Private thoughts, wake-ups and active threads are no permanent veto: a mind whose
\* user is gone for long enough sleeps, again and again.
Rests == []<>(state \in ASLEEP \/ age["user"] < Long)

\* "sleep is stable" (ADR-0007), "only a genuine external stimulus or the morning
\* re-open" ends it (_wake_trigger): a stimulus wakes the sleeping mind at most once.
NightStable ==
    [][(state \in ASLEEP /\ state' = "wake" /\ hour \notin Morning) => ~stirred]_vars
================================================================================
