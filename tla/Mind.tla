---------------------------------- MODULE Mind ----------------------------------
(***************************************************************************)
(* The mind's own material and the three engines that write it, one at a   *)
(* time: wake_once (mind_loop.py), sleep_once (sleep.py) and maybe_open    *)
(* (world.py).  Threads are kept as MentalState folds them from the log;   *)
(* of the rest of the log the engines read only how far back a thread's    *)
(* last event lies and how much was opened and thought today.              *)
(*                                                                         *)
(* No engine awaits anything, so engines do not interleave; between any    *)
(* two of their appends the process may die or the append raise, and       *)
(* other writers may store events of their own.                            *)
(***************************************************************************)
EXTENDS Naturals, FiniteSets, FiniteSetsExt, Sequences

CONSTANTS
    SelfThreads,      \* names of self threads, as many as self_max admits
    Topics,           \* topics of the world; a topic's world thread is named by it
    None,             \* no thread, no topic
    MaxWorldThreads,  \* max_world_threads
    Recent,           \* RECENT_WINDOW, in events
    Window,           \* events the day's counters list (500)
    MaxLight, MaxAlien, MaxAccident,  \* opens a day: all, alien, accident
    MaxDeep,          \* world thoughts a day
    Cooldown,         \* ticks between two opens
    Day,              \* ticks in a day
    MaxImpressions,   \* bound
    MaxInterruptions  \* bound: appends that raise and crashes

Threads == SelfThreads \cup Topics

ASSUME MindAssumption ==
    /\ IsFiniteSet(SelfThreads) /\ IsFiniteSet(Topics)
    /\ SelfThreads \cap Topics = {} /\ None \notin Threads
    /\ {Recent, Window, Day} \subseteq Nat \ {0}
    /\ {MaxWorldThreads, MaxLight, MaxAlien, MaxAccident, MaxDeep, Cooldown,
        MaxImpressions, MaxInterruptions} \subseteq Nat

VARIABLES
    life,         \* each thread's state in MentalState
    since,        \* of an active thread, events stored after its last, up to Recent
    stored,       \* windows opened and thoughts created ever, up to Window + 1
    today,        \* of each kind below, how many today
    counted,      \* and how many of those the counters see
    impressions,  \* what is kept of each impression, oldest first
    hour, rest,   \* the clock; ticks since the last open, up to Cooldown
    mode,         \* "up" or "down"
    phase,        \* what the engine at work does next, "idle" if none is
    job,          \* what it does it with
    interruptions

vars == <<life, since, stored, today, counted, impressions, hour, rest, mode, phase,
          job, interruptions>>
clock == <<hour, rest>>
tallies == <<stored, today, counted>>

OpenModes == {"near", "alien", "accident"}  \* near: follow and edge
Kinds == OpenModes \cup {"deep"}
NoJob == [thread |-> None, topic |-> None, rests |-> {}, prior |-> 0]

Active == {t \in Threads : life[t] = "activated"}
Dormant == {t \in Threads : life[t] = "dormant"}

(***************************************************************************)
(* Appends.                                                                *)
(***************************************************************************)
Cap(n, max) == IF n < max THEN n ELSE max

\* n events are stored, none of an active thread's own.
Aged(n) == since' = [t \in Threads |->
    IF t \in Active THEN Cap(since[t] + n, Recent) ELSE Recent]

\* The last of t's own events is number `at' of n that are stored; t is active then.
Touched(t, at, n) == since' = [u \in Threads |->
    IF u = t THEN Cap(n - at, Recent)
    ELSE IF u \in Active THEN Cap(since[u] + n, Recent) ELSE Recent]

\* One more of k today: the counters list the oldest Window events of all days.
Tally(k, of) ==
    /\ stored' = [stored EXCEPT ![of] = Cap(@ + 1, Window + 1)]
    /\ today' = [today EXCEPT ![k] = @ + 1]
    /\ counted' = [counted EXCEPT ![k] = IF stored[of] < Window THEN @ + 1 ELSE @]

\* A thought that is not the world's.
OwnThought ==
    /\ stored' = [stored EXCEPT !["thoughts"] = Cap(@ + 1, Window + 1)]
    /\ UNCHANGED <<today, counted>>

Idle == mode = "up" /\ phase = "idle"
At(p) == mode = "up" /\ phase = p
Go(p) == phase' = p /\ UNCHANGED job
Then(p) == phase' = p /\ job' = NoJob
Done == Then("idle")

(***************************************************************************)
(* wake_once.                                                              *)
(***************************************************************************)
\* A wake that leaves nothing: started, route_selected, noop, completed.
WakeNoop ==
    /\ Idle /\ Aged(4)
    /\ UNCHANGED <<life, tallies, impressions, clock, mode, phase, job, interruptions>>

\* started, route_selected and the thought.  The route settles the thread where it
\* can; elsewhere the model may echo any thread it was shown.
WakeThinks == \E route \in {"continuity", "revisit", "other"},
                 t \in Active \cup Dormant \cup {None} :
    /\ Idle
    /\ route = "continuity" /\ Active # {} => t \in Active
    /\ route = "revisit" /\ Dormant # {} => t \in Dormant
    /\ OwnThought /\ IF t \in Active THEN Touched(t, 3, 3) ELSE Aged(3)
    /\ phase' = "bookkeep"
    /\ job' = [NoJob EXCEPT !.thread = IF route = "other" THEN None ELSE t]
    /\ UNCHANGED <<life, impressions, clock, mode, interruptions>>

\* Mutant: the fold takes the event's own name for the thread's state.
WakeRevisits ==
    /\ At("bookkeep") /\ Then("surface")
    /\ IF job.thread = None THEN UNCHANGED <<life, since>>
       ELSE life' = [life EXCEPT ![job.thread] = "revisited"] /\ Touched(job.thread, 1, 1)
    /\ UNCHANGED <<tallies, impressions, clock, mode, interruptions>>

\* thread.activated or thread.revisited of the thread that was thought on.
WakeBookkeeps ==
    /\ At("bookkeep") /\ Then("surface")
    /\ IF job.thread = None THEN UNCHANGED <<life, since>>
       ELSE life' = [life EXCEPT ![job.thread] = "activated"] /\ Touched(job.thread, 1, 1)
    /\ UNCHANGED <<tallies, impressions, clock, mode, interruptions>>

\* _resurface_dormant_threads, then completed.
WakeSurfaces ==
    /\ At("surface") /\ Done
    /\ \/ Aged(1) /\ UNCHANGED life
       \/ \E t \in Dormant :
            life' = [life EXCEPT ![t] = "activated"] /\ Touched(t, 1, 2)
    /\ UNCHANGED <<tallies, impressions, clock, mode, interruptions>>

(***************************************************************************)
(* sleep_once.                                                             *)
(***************************************************************************)
\* Mutant: one event further back than the window reaches.
SleepBeginsLate == \E compress \in 0 .. 1 :
    /\ Idle /\ phase' = "dormancy"
    /\ job' = [NoJob EXCEPT !.rests = {t \in Active : since[t] > Recent}]
    /\ Aged(1 + compress)
    /\ UNCHANGED <<life, tallies, impressions, clock, mode, interruptions>>

\* started; what the cycle observes is read now.  The window is the newest events of
\* all kinds, started among them.  It may compress near-duplicates.
SleepBegins == \E compress \in 0 .. 1 :
    /\ Idle /\ phase' = "dormancy"
    /\ job' = [NoJob EXCEPT !.rests = {t \in Active : since[t] + 1 >= Recent}]
    /\ Aged(1 + compress)
    /\ UNCHANGED <<life, tallies, impressions, clock, mode, interruptions>>

SleepRests == \E t \in job.rests :
    /\ At("dormancy")
    /\ life' = [life EXCEPT ![t] = "dormant"] /\ Aged(1)
    /\ job' = [job EXCEPT !.rests = @ \ {t}]
    /\ UNCHANGED <<tallies, impressions, clock, mode, phase, interruptions>>

\* Up to three reactivations and a cross link, and perhaps a dream.
SleepAssociates == \E links \in 0 .. 4, dreams \in BOOLEAN :
    /\ At("dormancy") /\ job.rests = {} /\ Go("self")
    /\ IF dreams THEN OwnThought /\ Aged(links + 1) ELSE Aged(links) /\ UNCHANGED tallies
    /\ UNCHANGED <<life, impressions, clock, mode, interruptions>>

\* The pair is missing or has its thread, the roll fails or the cap is reached.
SleepCreatesNone ==
    /\ At("self") /\ Aged(1) /\ Done
    /\ UNCHANGED <<life, tallies, impressions, clock, mode, interruptions>>

SleepCreates == \E t \in SelfThreads :
    /\ At("self") /\ life[t] = "none"
    /\ life' = [life EXCEPT ![t] = "created"] /\ Aged(1)
    /\ phase' = "activate" /\ job' = [job EXCEPT !.thread = t]
    /\ UNCHANGED <<tallies, impressions, clock, mode, interruptions>>

\* thread.activated of the new thread, then completed.
SleepActivates ==
    /\ At("activate") /\ Done
    /\ life' = [life EXCEPT ![job.thread] = "activated"] /\ Touched(job.thread, 1, 2)
    /\ UNCHANGED <<tallies, impressions, clock, mode, interruptions>>

(***************************************************************************)
(* maybe_open.                                                             *)
(***************************************************************************)
OpenCap(m) == CASE m = "alien" -> MaxAlien [] m = "accident" -> MaxAccident
                [] OTHER -> MaxLight
OpenedToday(n) == n["near"] + n["alien"] + n["accident"]

\* Mutant: the day's budget is checked one too late.
OpensLate == \E m \in OpenModes, topic \in Topics :
    /\ Idle /\ rest >= Cooldown
    /\ OpenedToday(counted) <= MaxLight /\ counted[m] < OpenCap(m)
    /\ Tally(m, "opens") /\ Aged(1) /\ rest' = 0
    /\ phase' = "look" /\ job' = [NoJob EXCEPT !.topic = topic]
    /\ UNCHANGED <<life, impressions, hour, mode, interruptions>>

\* The window is opened: its slot of the day is spent, whatever comes of it.
Opens == \E m \in OpenModes, topic \in Topics :
    /\ Idle /\ rest >= Cooldown
    /\ OpenedToday(counted) < MaxLight /\ counted[m] < OpenCap(m)
    /\ Tally(m, "opens") /\ Aged(1) /\ rest' = 0
    /\ phase' = "look" /\ job' = [NoJob EXCEPT !.topic = topic]
    /\ UNCHANGED <<life, impressions, hour, mode, interruptions>>

\* The world does not answer.
FetchFails ==
    /\ At("look") /\ Aged(1) /\ Done
    /\ UNCHANGED <<life, tallies, impressions, clock, mode, interruptions>>

\* The observation, the experience of it and perhaps an impression.  prior: the oldest
\* earlier impression of the topic, or of one the item links to, that is not spent.
Looks == \E linked \in SUBSET Topics, impresses \in BOOLEAN :
    LET connected == {i \in DOMAIN impressions :
                         /\ impressions[i].status = "formed"
                         /\ impressions[i].topic \in linked \cup {job.topic}} IN
    /\ At("look") /\ phase' = "think"
    /\ impresses => Len(impressions) < MaxImpressions
    /\ impressions' = IF impresses
           THEN Append(impressions, [topic |-> job.topic, status |-> "formed"])
           ELSE impressions
    /\ Aged(IF impresses THEN 3 ELSE 2)
    /\ job' = [job EXCEPT !.prior = IF connected = {} THEN 0 ELSE Min(connected)]
    /\ UNCHANGED <<life, tallies, clock, mode, interruptions>>

Sated == counted["deep"] >= MaxDeep

\* Mutant: the impression is spent and its thought never comes.
PromotesSilently ==
    /\ At("think") /\ ~Sated /\ job.prior # 0
    /\ Aged(1) /\ phase' = "seed" /\ job' = [job EXCEPT !.prior = 0]
    /\ impressions' = [impressions EXCEPT ![job.prior].status = "promoted"]
    /\ UNCHANGED <<life, tallies, clock, mode, interruptions>>

\* impression.promoted: the impression is spent, its thought comes next.
Promotes ==
    /\ At("think") /\ ~Sated /\ job.prior # 0
    /\ Aged(1) /\ Go("reactivate")
    /\ impressions' = [impressions EXCEPT ![job.prior].status = "promoted"]
    /\ UNCHANGED <<life, tallies, clock, mode, interruptions>>

WorldThought(p) ==
    /\ At(p) /\ phase' = "seed" /\ job' = [job EXCEPT !.prior = 0]
    /\ Tally("deep", "thoughts") /\ Aged(1)
    /\ UNCHANGED <<life, clock, mode, interruptions>>

Reactivates ==
    /\ WorldThought("reactivate")
    /\ impressions' = [impressions EXCEPT ![job.prior].status = "thought"]

\* An association with an old memory of the mind's own.
Associates == ~Sated /\ WorldThought("think") /\ UNCHANGED impressions

\* No connection, or the rolls fail; the question that may then form ends up with the
\* others (Asks).
ThinksNothing ==
    /\ At("think") /\ Then("touch")
    /\ UNCHANGED <<life, since, tallies, impressions, clock, mode, interruptions>>

\* _maybe_world_thread: one thread a topic, revisited when there is one already.
SeedsNone ==
    /\ At("seed") /\ life[job.topic] = "none" /\ Then("touch")
    /\ UNCHANGED <<life, since, tallies, impressions, clock, mode, interruptions>>

SeedRevisits ==
    /\ At("seed") /\ life[job.topic] # "none" /\ Then("touch")
    /\ life' = [life EXCEPT ![job.topic] = "activated"] /\ Touched(job.topic, 1, 1)
    /\ UNCHANGED <<tallies, impressions, clock, mode, interruptions>>

Seeds ==
    /\ At("seed") /\ life[job.topic] = "none"
    /\ Cardinality({t \in Topics : life[t] # "none"}) < MaxWorldThreads
    /\ life' = [life EXCEPT ![job.topic] = "created"] /\ Aged(1)
    /\ Go("sprout")
    /\ UNCHANGED <<tallies, impressions, clock, mode, interruptions>>

Sprouts ==
    /\ At("sprout") /\ Then("touch")
    /\ life' = [life EXCEPT ![job.topic] = "activated"] /\ Touched(job.topic, 1, 1)
    /\ UNCHANGED <<tallies, impressions, clock, mode, interruptions>>

\* question.revisited or question.created.
Asks ==
    /\ At("touch") /\ Aged(1) /\ Done
    /\ UNCHANGED <<life, tallies, impressions, clock, mode, interruptions>>

\* question.revisited, and a dormant self thread its question resonates with.
Bridges == \E t \in Dormant \cap SelfThreads, asked \in 0 .. 1 :
    /\ At("touch")
    /\ life' = [life EXCEPT ![t] = "activated"] /\ Touched(t, 1 + asked, 1 + asked)
    /\ UNCHANGED <<tallies, impressions, clock, mode, phase, job, interruptions>>

OpenEnds ==
    /\ At("touch") /\ Done
    /\ UNCHANGED <<life, since, tallies, impressions, clock, mode, interruptions>>

(***************************************************************************)
(* The surroundings.                                                       *)
(***************************************************************************)
\* Events of other kinds: skipped windows, state changes, messages, projects.
OtherAppend ==
    /\ mode = "up" /\ Aged(1)
    /\ UNCHANGED <<life, tallies, impressions, clock, mode, phase, job, interruptions>>

\* The next append of the engine raises: the beat that called it ends.
AppendFails ==
    /\ mode = "up" /\ phase # "idle" /\ interruptions < MaxInterruptions
    /\ interruptions' = interruptions + 1 /\ Done
    /\ UNCHANGED <<life, since, tallies, impressions, clock, mode>>

Crash ==
    /\ mode = "up" /\ interruptions < MaxInterruptions
    /\ interruptions' = interruptions + 1 /\ mode' = "down" /\ Done
    /\ UNCHANGED <<life, since, tallies, impressions, clock>>

\* Everything is read back from the log.
Restart ==
    /\ mode = "down" /\ mode' = "up"
    /\ UNCHANGED <<life, since, tallies, impressions, clock, phase, job, interruptions>>

\* Time passes at any moment: a day may turn between a check and its append.
Tick ==
    /\ hour' = (hour + 1) % Day
    /\ rest' = Cap(rest + 1, Cooldown)
    /\ IF hour' = 0 THEN /\ today' = [k \in Kinds |-> 0]
                         /\ counted' = [k \in Kinds |-> 0]
       ELSE UNCHANGED <<today, counted>>
    /\ UNCHANGED <<life, since, stored, impressions, mode, phase, job, interruptions>>

Init ==
    /\ life = [t \in Threads |-> "none"] /\ since = [t \in Threads |-> Recent]
    /\ stored = [of \in {"opens", "thoughts"} |-> 0]
    /\ today = [k \in Kinds |-> 0] /\ counted = [k \in Kinds |-> 0]
    /\ impressions = <<>>
    /\ hour = 0 /\ rest = Cooldown
    /\ mode = "up" /\ phase = "idle" /\ job = NoJob
    /\ interruptions = 0

Wake == WakeNoop \/ WakeThinks \/ WakeBookkeeps \/ WakeSurfaces
Sleep == SleepBegins \/ SleepRests \/ SleepAssociates \/ SleepCreatesNone
             \/ SleepCreates \/ SleepActivates
World == Opens \/ FetchFails \/ Looks \/ Promotes \/ Reactivates \/ Associates
             \/ ThinksNothing \/ SeedsNone \/ SeedRevisits \/ Seeds \/ Sprouts
             \/ Asks \/ Bridges \/ OpenEnds
Surroundings == OtherAppend \/ AppendFails \/ Crash \/ Restart \/ Tick

Next == Wake \/ Sleep \/ World \/ Surroundings

Spec == Init /\ [][Next]_vars

\* An engine at work goes on (there is no await in it), and a dead process is started
\* again.
FairSpec ==
    /\ Spec
    /\ WF_vars(phase # "idle" /\ (Wake \/ Sleep \/ World))
    /\ WF_vars(Restart)

(***************************************************************************)
(* Properties.                                                             *)
(***************************************************************************)
Phases == {"idle", "bookkeep", "surface", "dormancy", "self", "activate", "look",
           "think", "reactivate", "seed", "sprout", "touch"}

TypeOK ==
    /\ life \in [Threads -> {"none", "created", "activated", "dormant"}]
    /\ since \in [Threads -> 0 .. Recent]
    /\ stored \in [{"opens", "thoughts"} -> 0 .. Window + 1]
    /\ today \in [Kinds -> Nat] /\ counted \in [Kinds -> Nat]
    /\ impressions \in Seq([topic : Topics, status : {"formed", "promoted", "thought"}])
    /\ hour \in 0 .. Day - 1 /\ rest \in 0 .. Cooldown
    /\ mode \in {"up", "down"} /\ phase \in Phases
    /\ job \in [thread : Threads \cup {None}, topic : Topics \cup {None},
                rests : SUBSET Threads, prior : 0 .. Len(impressions)]
    /\ interruptions \in 0 .. MaxInterruptions

\* The rails of a day hold ("caps ... that make runaway browsing impossible") as long
\* as the log is not longer than what the counters list; each rail has its own log.
DailyCaps ==
    /\ stored["opens"] <= Window =>
           /\ OpenedToday(today) <= MaxLight
           /\ \A m \in OpenModes : today[m] <= OpenCap(m)
    /\ stored["thoughts"] <= Window => today["deep"] <= MaxDeep

\* What two appends do is left half done, a thread created and not activated or an
\* impression spent without its thought, at most once per interruption.
HalfThreads == {t \in Threads : life[t] = "created"}
HalfThoughts == {i \in DOMAIN impressions : impressions[i].status = "promoted"}
OneLeftoverEach ==
    Cardinality(HalfThreads) + Cardinality(HalfThoughts)
        <= interruptions + (IF phase \in {"activate", "sprout", "reactivate"} THEN 1 ELSE 0)

\* No thread holds its place for good: in a mind that sleeps again and again each
\* active thread is put to rest, or has been touched within the newest events.
IdleThreadsRest ==
    []<><<SleepBegins>>_vars =>
        \A t \in Threads : life[t] = "activated" ~> (life[t] = "dormant" \/ since[t] + 1 < Recent)
================================================================================
