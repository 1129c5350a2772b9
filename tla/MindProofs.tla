------------------------------- MODULE MindProofs -------------------------------
(***************************************************************************)
(* Theorems about Mind, for all windows, caps and sets of threads.         *)
(***************************************************************************)
EXTENDS Mind, ExtremaTheorems, SequenceTheorems, TLAPS

(***************************************************************************)
(* Type correctness.                                                       *)
(***************************************************************************)
Impression == [topic : Topics, status : {"formed", "promoted", "thought"}]

ThreadsOK ==
    /\ life \in [Threads -> {"none", "created", "activated", "dormant"}]
    /\ since \in [Threads -> 0 .. Recent]

TalliesOK ==
    /\ stored \in [{"opens", "thoughts"} -> 0 .. Window + 1]
    /\ today \in [Kinds -> Nat] /\ counted \in [Kinds -> Nat]

MaterialOK ==
    /\ impressions \in Seq(Impression)
    /\ job \in [thread : Threads \cup {None}, topic : Topics \cup {None},
                rests : SUBSET Threads, prior : 0 .. Len(impressions)]

ControlOK ==
    /\ hour \in 0 .. Day - 1 /\ rest \in 0 .. Cooldown
    /\ mode \in {"up", "down"} /\ phase \in Phases
    /\ interruptions \in 0 .. MaxInterruptions

LEMMA TypeParts == TypeOK <=> ThreadsOK /\ TalliesOK /\ MaterialOK /\ ControlOK
  BY DEF TypeOK, ThreadsOK, TalliesOK, MaterialOK, ControlOK, Impression

\* What an engine works with is there when it needs it.
Engaged ==
    /\ phase = "activate" => job.thread \in SelfThreads
    /\ phase \in {"look", "think", "reactivate", "seed", "sprout"} => job.topic \in Topics
    /\ phase = "reactivate" => job.prior # 0

TypeInv == ThreadsOK /\ TalliesOK /\ MaterialOK /\ ControlOK /\ Engaged

LEMMA Constants ==
    /\ Recent \in Nat \ {0} /\ Window \in Nat \ {0} /\ Day \in Nat \ {0}
    /\ MaxWorldThreads \in Nat /\ MaxLight \in Nat /\ MaxAlien \in Nat
    /\ MaxAccident \in Nat /\ MaxDeep \in Nat /\ Cooldown \in Nat
    /\ MaxImpressions \in Nat /\ MaxInterruptions \in Nat
    /\ None \notin Threads
  BY MindAssumption

\* How a step may change the threads.
LEMMA ThreadSteps ==
    ASSUME TypeInv, Next
    PROVE  \/ UNCHANGED <<life, since>>
           \/ UNCHANGED life /\ \E n \in Nat : Aged(n)
           \/ UNCHANGED life /\ \E t \in Threads : Touched(t, 3, 3)
           \/ \E t \in Threads : /\ life' = [life EXCEPT ![t] = "activated"]
                                 /\ \E at \in {1, 2}, n \in {1, 2} : at <= n /\ Touched(t, at, n)
           \/ \E t \in Threads, s \in {"created", "dormant"} :
                 life' = [life EXCEPT ![t] = s] /\ Aged(1)
<1> USE DEF TypeInv, At, Idle, Done, Then, Go
<1>1. CASE WakeNoop
  BY <1>1 DEF WakeNoop
<1>2. CASE WakeThinks
  <2>1. UNCHANGED life /\ \E t \in Active \cup Dormant \cup {None} :
            IF t \in Active THEN Touched(t, 3, 3) ELSE Aged(3)
    BY <1>2 DEF WakeThinks
  <2>2. Active \subseteq Threads
    BY DEF Active
  <2> QED
    BY <2>1, <2>2
<1>3. CASE WakeBookkeeps
  <2>1. job.thread = None \/ job.thread \in Threads
    BY DEF MaterialOK
  <2> QED
    BY <1>3, <2>1 DEF WakeBookkeeps
<1>4. CASE WakeSurfaces
  BY <1>4 DEF WakeSurfaces, Dormant
<1>5. CASE SleepBegins
  BY <1>5 DEF SleepBegins
<1>6. CASE SleepRests
  BY <1>6 DEF SleepRests, MaterialOK
<1>7. CASE SleepAssociates
  BY <1>7 DEF SleepAssociates
<1>8. CASE SleepCreatesNone
  BY <1>8 DEF SleepCreatesNone
<1>9. CASE SleepCreates
  BY <1>9 DEF SleepCreates, Threads
<1>10. CASE SleepActivates
  <2>1. job.thread \in Threads
    BY <1>10 DEF SleepActivates, Engaged, Threads
  <2>2. life' = [life EXCEPT ![job.thread] = "activated"] /\ Touched(job.thread, 1, 2)
    BY <1>10 DEF SleepActivates
  <2>3. \E at \in {1, 2}, n \in {1, 2} : at <= n /\ Touched(job.thread, at, n)
    BY <2>2
  <2> QED
    BY <2>1, <2>2, <2>3
<1>11. CASE Opens
  BY <1>11 DEF Opens
<1>12. CASE FetchFails \/ Looks \/ Promotes \/ Reactivates \/ Associates
                \/ ThinksNothing \/ SeedsNone \/ Asks \/ OpenEnds
  BY <1>12 DEF FetchFails, Looks, Promotes, Reactivates, Associates, WorldThought,
               ThinksNothing, SeedsNone, Asks, OpenEnds
<1>13. CASE SeedRevisits \/ Sprouts
  <2>1. job.topic \in Threads
    BY <1>13 DEF SeedRevisits, Sprouts, Engaged, Threads
  <2> QED
    BY <1>13, <2>1 DEF SeedRevisits, Sprouts
<1>14. CASE Seeds
  <2>1. job.topic \in Threads
    BY <1>14 DEF Seeds, Engaged, Threads
  <2> QED
    BY <1>14, <2>1 DEF Seeds
<1>15. CASE Bridges
  <2>1. PICK t \in Dormant \cap SelfThreads, asked \in 0 .. 1 :
            life' = [life EXCEPT ![t] = "activated"] /\ Touched(t, 1 + asked, 1 + asked)
    BY <1>15 DEF Bridges
  <2>2. t \in Threads /\ 1 + asked \in {1, 2}
    BY DEF Dormant
  <2>3. \E at \in {1, 2}, n \in {1, 2} : at <= n /\ Touched(t, at, n)
    BY <2>1, <2>2
  <2> QED
    BY <2>1, <2>2, <2>3
<1>16. CASE Surroundings
  BY <1>16 DEF Surroundings, OtherAppend, AppendFails, Crash, Restart, Tick
<1> QED
  BY <1>1, <1>2, <1>3, <1>4, <1>5, <1>6, <1>7, <1>8, <1>9, <1>10, <1>11, <1>12, <1>13,
     <1>14, <1>15, <1>16 DEF Next, Wake, Sleep, World

LEMMA ThreadsKept ==
    ASSUME TypeInv, Next
    PROVE  ThreadsOK'
<1>. USE Constants
<1>. ThreadsOK
  BY DEF TypeInv
<1>1. ASSUME NEW n \in Nat, Aged(n) PROVE since' \in [Threads -> 0 .. Recent]
  BY <1>1 DEF Aged, Cap, ThreadsOK
<1>2. ASSUME NEW t \in Threads, NEW n \in Nat, NEW at \in Nat, at <= n, Touched(t, at, n)
      PROVE  since' \in [Threads -> 0 .. Recent]
  BY <1>2 DEF Touched, Cap, ThreadsOK
<1> QED
  BY <1>1, <1>2, ThreadSteps DEF ThreadsOK

\* How a step may change the day's tallies.
LEMMA TallySteps ==
    ASSUME Next
    PROVE  \/ UNCHANGED tallies
           \/ OwnThought
           \/ \E m \in OpenModes : /\ OpenedToday(counted) < MaxLight
                                   /\ counted[m] < OpenCap(m)
                                   /\ Tally(m, "opens")
           \/ Tally("deep", "thoughts") /\ (phase = "reactivate" \/ ~Sated)
           \/ /\ today' = [k \in Kinds |-> 0] /\ counted' = [k \in Kinds |-> 0]
              /\ UNCHANGED stored
<1>1. CASE Wake
  BY <1>1 DEF Wake, WakeNoop, WakeThinks, WakeBookkeeps, WakeSurfaces
<1>2. CASE Sleep
  BY <1>2 DEF Sleep, SleepBegins, SleepRests, SleepAssociates, SleepCreatesNone,
              SleepCreates, SleepActivates
<1>3. CASE Opens
  BY <1>3 DEF Opens
<1>4. CASE Reactivates \/ Associates
  BY <1>4 DEF Reactivates, Associates, WorldThought, At
<1>5. CASE FetchFails \/ Looks \/ Promotes \/ ThinksNothing \/ SeedsNone
               \/ SeedRevisits \/ Seeds \/ Sprouts \/ Asks \/ Bridges \/ OpenEnds
  BY <1>5 DEF FetchFails, Looks, Promotes, ThinksNothing, SeedsNone, SeedRevisits, Seeds,
              Sprouts, Asks, Bridges, OpenEnds
<1>6. CASE Surroundings
  BY <1>6 DEF Surroundings, OtherAppend, AppendFails, Crash, Restart, Tick, tallies
<1> QED
  BY <1>1, <1>2, <1>3, <1>4, <1>5, <1>6 DEF Next, World

LEMMA TalliesKept ==
    ASSUME TypeInv, Next
    PROVE  TalliesOK'
<1>. USE Constants
<1>. TalliesOK
  BY DEF TypeInv
<1>1. CASE UNCHANGED tallies
  BY <1>1 DEF tallies, TalliesOK
<1>2. CASE OwnThought
  BY <1>2 DEF OwnThought, Cap, TalliesOK
<1>3. ASSUME NEW k \in Kinds, NEW of \in {"opens", "thoughts"}, Tally(k, of)
      PROVE  TalliesOK'
  BY <1>3 DEF Tally, Cap, TalliesOK
<1>4. CASE /\ today' = [k \in Kinds |-> 0] /\ counted' = [k \in Kinds |-> 0]
           /\ UNCHANGED stored
  BY <1>4 DEF TalliesOK
<1> QED
  BY <1>1, <1>2, <1>3, <1>4, TallySteps DEF Kinds

\* Marking an impression leaves the others.
LEMMA Marks ==
    ASSUME impressions \in Seq(Impression), NEW i \in 1 .. Len(impressions),
           NEW s \in {"formed", "promoted", "thought"},
           impressions' = [impressions EXCEPT ![i].status = s]
    PROVE  /\ impressions' \in Seq(Impression) /\ Len(impressions') = Len(impressions)
           /\ impressions'[i].status = s
           /\ \A j \in 1 .. Len(impressions) \ {i} : impressions'[j] = impressions[j]
<1> DEFINE mark == [impressions[i] EXCEPT !.status = s]
<1>1. impressions[i] \in Impression
  BY ElementOfSeq
<1>2. mark \in Impression /\ mark.status = s
  BY <1>1 DEF Impression
<1>3. impressions' = [impressions EXCEPT ![i] = mark]
  OBVIOUS
<1> HIDE DEF mark
<1> QED
  BY <1>2, <1>3, ExceptSeq

LEMMA MaterialKept ==
    ASSUME TypeInv, Next
    PROVE  MaterialOK'
<1> USE DEF At, Idle, Done, Then, Go
<1>. MaterialOK /\ ThreadsOK
  BY DEF TypeInv
<1>. Len(impressions) \in Nat
  BY DEF MaterialOK
<1>. NoJob \in [thread : Threads \cup {None}, topic : Topics \cup {None},
               rests : SUBSET Threads, prior : {0}]
  BY DEF NoJob
<1>1. ASSUME UNCHANGED impressions, job' = NoJob PROVE MaterialOK'
  BY <1>1 DEF MaterialOK
<1>2. ASSUME UNCHANGED <<impressions, job>> PROVE MaterialOK'
  BY <1>2 DEF MaterialOK
<1>3. CASE WakeNoop \/ WakeBookkeeps \/ WakeSurfaces
  BY <1>1, <1>2, <1>3 DEF WakeNoop, WakeBookkeeps, WakeSurfaces
<1>4. CASE WakeThinks
  <2>1. PICK t \in Threads \cup {None} : job' = [NoJob EXCEPT !.thread = t]
    BY <1>4 DEF WakeThinks, Active, Dormant
  <2>2. UNCHANGED impressions
    BY <1>4 DEF WakeThinks
  <2> QED
    BY <2>1, <2>2 DEF MaterialOK
<1>5. CASE SleepBegins
  <2>1. PICK R \in SUBSET Threads : job' = [NoJob EXCEPT !.rests = R]
    BY <1>5 DEF SleepBegins, Active
  <2>2. UNCHANGED impressions
    BY <1>5 DEF SleepBegins
  <2> QED
    BY <2>1, <2>2 DEF MaterialOK
<1>6. CASE SleepRests \/ SleepAssociates \/ SleepCreatesNone \/ SleepCreates \/ SleepActivates
  <2>1. CASE SleepRests
    BY <2>1 DEF SleepRests, MaterialOK
  <2>2. CASE SleepCreates
    BY <2>2 DEF SleepCreates, MaterialOK, Threads
  <2> QED
    BY <1>1, <1>2, <1>6, <2>1, <2>2 DEF SleepAssociates, SleepCreatesNone, SleepActivates
<1>7. CASE Opens
  <2>1. PICK u \in Topics : job' = [NoJob EXCEPT !.topic = u]
    BY <1>7 DEF Opens
  <2>2. UNCHANGED impressions
    BY <1>7 DEF Opens
  <2> QED
    BY <2>1, <2>2 DEF MaterialOK
<1>8. CASE FetchFails \/ ThinksNothing \/ SeedsNone \/ SeedRevisits \/ Seeds \/ Sprouts
               \/ Asks \/ Bridges \/ OpenEnds
  BY <1>1, <1>2, <1>8 DEF FetchFails, ThinksNothing, SeedsNone, SeedRevisits, Seeds,
                          Sprouts, Asks, Bridges, OpenEnds
<1>9. CASE Looks
  <2>1. PICK linked \in SUBSET Topics, impresses \in BOOLEAN :
            LET connected == {i \in DOMAIN impressions :
                         /\ impressions[i].status = "formed"
                         /\ impressions[i].topic \in linked \cup {job.topic}} IN
            /\ impressions' = IF impresses
                   THEN Append(impressions, [topic |-> job.topic, status |-> "formed"])
                   ELSE impressions
            /\ job' = [job EXCEPT !.prior = IF connected = {} THEN 0 ELSE Min(connected)]
    BY <1>9 DEF Looks
  <2> DEFINE connected == {i \in DOMAIN impressions :
                         /\ impressions[i].status = "formed"
                         /\ impressions[i].topic \in linked \cup {job.topic}}
             p == IF connected = {} THEN 0 ELSE Min(connected)
  <2>2. p \in 0 .. Len(impressions)
    <3>1. connected \subseteq 1 .. Len(impressions)
      BY DEF MaterialOK
    <3> HIDE DEF connected
    <3>2. connected # {} => Min(connected) \in connected
      BY <3>1, MinFacts
    <3>3. CASE connected = {}
      BY <3>3
    <3>4. CASE connected # {}
      <4>1. p = Min(connected) /\ Min(connected) \in 1 .. Len(impressions)
        BY <3>1, <3>2, <3>4
      <4> QED
        BY <4>1
    <3> QED
      BY <3>3, <3>4
  <2>3. job.topic \in Topics
    BY <1>9 DEF Looks, TypeInv, Engaged
  <2>4. impressions' \in Seq(Impression) /\ Len(impressions') \in Nat
            /\ Len(impressions) <= Len(impressions')
    <3> DEFINE imp == [topic |-> job.topic, status |-> "formed"]
    <3>1. imp \in Impression /\ impressions \in Seq(Impression)
      BY <2>3 DEF MaterialOK, Impression
    <3>2. impressions' = Append(impressions, imp) \/ impressions' = impressions
      BY <2>1
    <3> HIDE DEF imp
    <3> QED
      BY <3>1, <3>2, AppendProperties
  <2>5. job' = [job EXCEPT !.prior = p]
    BY <2>1
  <2> HIDE DEF p
  <2>6. p \in 0 .. Len(impressions')
    BY <2>2, <2>4
  <2> QED
    BY <2>4, <2>5, <2>6 DEF MaterialOK
<1>10. CASE Promotes
  <2>1. job.prior \in 1 .. Len(impressions) /\ UNCHANGED job
           /\ impressions' = [impressions EXCEPT ![job.prior].status = "promoted"]
    BY <1>10 DEF Promotes, MaterialOK
  <2>2. impressions' \in Seq(Impression) /\ Len(impressions') = Len(impressions)
    BY <2>1, Marks DEF MaterialOK
  <2> QED
    BY <2>1, <2>2 DEF MaterialOK
<1>11. CASE Reactivates
  <2>1. job.prior \in 1 .. Len(impressions)
           /\ impressions' = [impressions EXCEPT ![job.prior].status = "thought"]
           /\ job' = [job EXCEPT !.prior = 0]
    BY <1>11 DEF Reactivates, WorldThought, MaterialOK, TypeInv, Engaged
  <2>2. impressions' \in Seq(Impression) /\ Len(impressions') = Len(impressions)
    BY <2>1, Marks DEF MaterialOK
  <2> QED
    BY <2>1, <2>2 DEF MaterialOK
<1>12. CASE Associates
  BY <1>12 DEF Associates, WorldThought, MaterialOK
<1>13. CASE Surroundings
  BY <1>1, <1>2, <1>13 DEF Surroundings, OtherAppend, AppendFails, Crash, Restart, Tick
<1> QED
  BY <1>3, <1>4, <1>5, <1>6, <1>7, <1>8, <1>9, <1>10, <1>11, <1>12, <1>13
     DEF Next, Wake, Sleep, World

LEMMA ControlKept ==
    ASSUME TypeInv, Next
    PROVE  ControlOK'
<1> USE Constants DEF At, Idle, Done, Then, Go, clock, Phases
<1>. ControlOK
  BY DEF TypeInv
<1>1. CASE Wake
  BY <1>1 DEF Wake, WakeNoop, WakeThinks, WakeBookkeeps, WakeSurfaces, ControlOK
<1>2. CASE Sleep
  BY <1>2 DEF Sleep, SleepBegins, SleepRests, SleepAssociates, SleepCreatesNone,
              SleepCreates, SleepActivates, ControlOK
<1>3. CASE Opens
  BY <1>3 DEF Opens, ControlOK
<1>4. CASE FetchFails \/ Looks \/ Promotes \/ Reactivates \/ Associates \/ ThinksNothing
  BY <1>4 DEF FetchFails, Looks, Promotes, Reactivates, Associates, WorldThought,
              ThinksNothing, ControlOK
<1>5. CASE SeedsNone \/ SeedRevisits \/ Seeds \/ Sprouts \/ Asks \/ Bridges \/ OpenEnds
  BY <1>5 DEF SeedsNone, SeedRevisits, Seeds, Sprouts, Asks, Bridges, OpenEnds, ControlOK
<1>6. CASE OtherAppend \/ AppendFails \/ Crash \/ Restart
  BY <1>6 DEF OtherAppend, AppendFails, Crash, Restart, ControlOK
<1>7. CASE Tick
  <2>1. hour' \in 0 .. Day - 1
    BY <1>7 DEF Tick, ControlOK
  <2>2. rest' \in 0 .. Cooldown
    BY <1>7 DEF Tick, Cap, ControlOK
  <2> QED
    BY <1>7, <2>1, <2>2 DEF Tick, ControlOK
<1> QED
  BY <1>1, <1>2, <1>3, <1>4, <1>5, <1>6, <1>7 DEF Next, World, Surroundings

LEMMA EngagedKept ==
    ASSUME TypeInv, Next
    PROVE  Engaged'
<1> USE DEF At, Idle, Done, Then, Go
<1>. Engaged /\ MaterialOK
  BY DEF TypeInv
<1>. job \in [thread : Threads \cup {None}, topic : Topics \cup {None},
             rests : SUBSET Threads, prior : 0 .. Len(impressions)]
  BY DEF MaterialOK
<1>1. CASE Wake
  BY <1>1 DEF Wake, WakeNoop, WakeThinks, WakeBookkeeps, WakeSurfaces, Engaged
<1>2. CASE Sleep
  BY <1>2 DEF Sleep, SleepBegins, SleepRests, SleepAssociates, SleepCreatesNone,
              SleepCreates, SleepActivates, Engaged
<1>3. CASE Opens
  BY <1>3 DEF Opens, Engaged, NoJob
<1>4. CASE FetchFails \/ ThinksNothing
  BY <1>4 DEF FetchFails, ThinksNothing, Engaged
<1>5. CASE Looks
  <2>1. job'.topic = job.topic /\ phase = "look" /\ phase' = "think"
    BY <1>5 DEF Looks
  <2> QED
    BY <2>1 DEF Engaged
<1>6. CASE Promotes \/ Reactivates \/ Associates
  BY <1>6 DEF Promotes, Reactivates, Associates, WorldThought, Engaged
<1>7. CASE SeedsNone \/ SeedRevisits \/ Seeds \/ Sprouts \/ Asks \/ Bridges \/ OpenEnds
  BY <1>7 DEF SeedsNone, SeedRevisits, Seeds, Sprouts, Asks, Bridges, OpenEnds, Engaged
<1>8. CASE Surroundings
  BY <1>8 DEF Surroundings, OtherAppend, AppendFails, Crash, Restart, Tick, Engaged
<1> QED
  BY <1>1, <1>2, <1>3, <1>4, <1>5, <1>6, <1>7, <1>8 DEF Next, World

LEMMA TypeInit == Init => TypeInv
<1> SUFFICES ASSUME Init PROVE TypeInv
  OBVIOUS
<1> USE Constants DEF Init
<1>1. ThreadsOK
  BY DEF ThreadsOK
<1>2. TalliesOK
  BY DEF TalliesOK
<1>3. MaterialOK
  BY EmptySeq DEF MaterialOK, NoJob
<1>4. ControlOK
  BY DEF ControlOK, Phases
<1>5. Engaged
  BY DEF Engaged
<1> QED
  BY <1>1, <1>2, <1>3, <1>4, <1>5 DEF TypeInv

LEMMA TypeInductive == TypeInv /\ [Next]_vars => TypeInv'
<1>1. ASSUME TypeInv, Next PROVE TypeInv'
  BY <1>1, ThreadsKept, TalliesKept, MaterialKept, ControlKept, EngagedKept DEF TypeInv
<1>2. ASSUME TypeInv, UNCHANGED vars PROVE TypeInv'
  BY <1>2 DEF vars, TypeInv, ThreadsOK, TalliesOK, MaterialOK, ControlOK, Engaged
<1> QED
  BY <1>1, <1>2

\* The state keeps its shape: the fold leaves a thread in one of its four states
\* (mental_state.py:66), and an engine has what its next append is about.
THEOREM TypeCorrect == Spec => []TypeOK
<1>1. TypeInv => TypeOK
  BY TypeParts DEF TypeInv
<1> QED
  BY <1>1, TypeInit, TypeInductive, PTL DEF Spec

(***************************************************************************)
(* The rails of a day.                                                     *)
(***************************************************************************)
\* What is counted is within the caps whatever the log holds, also between the check
\* and the append; and while the log is short it is all there is.
Rails ==
    /\ OpenedToday(counted) <= MaxLight
    /\ \A m \in OpenModes : counted[m] <= OpenCap(m)
    /\ counted["deep"] <= MaxDeep
    /\ phase = "reactivate" => counted["deep"] < MaxDeep
    /\ stored["opens"] <= Window => \A m \in OpenModes : counted[m] = today[m]
    /\ stored["thoughts"] <= Window => counted["deep"] = today["deep"]

RailsInv == TypeInv /\ Rails

LEMMA CapIsNat == \A m \in OpenModes : OpenCap(m) \in Nat
  BY Constants DEF OpenCap, OpenModes

LEMMA KindsApart ==
    /\ "near" \in OpenModes /\ "alien" \in OpenModes /\ "accident" \in OpenModes
    /\ "deep" \in Kinds /\ "deep" \notin OpenModes /\ OpenModes \subseteq Kinds
  BY DEF Kinds, OpenModes

\* reactivate is reached only while the day has room for a thought.
LEMMA RoomToThink ==
    ASSUME RailsInv, Next, phase' = "reactivate"
    PROVE  \/ phase = "reactivate" /\ (UNCHANGED counted \/ counted' = [k \in Kinds |-> 0])
           \/ ~Sated /\ UNCHANGED counted
<1> USE DEF At, Idle, Done, Then, Go, tallies
<1>1. CASE Wake
  BY <1>1 DEF Wake, WakeNoop, WakeThinks, WakeBookkeeps, WakeSurfaces
<1>2. CASE Sleep
  BY <1>2 DEF Sleep, SleepBegins, SleepRests, SleepAssociates, SleepCreatesNone,
              SleepCreates, SleepActivates
<1>3. CASE World
  BY <1>3 DEF World, Opens, FetchFails, Looks, Promotes, Reactivates, Associates,
              WorldThought, ThinksNothing, SeedsNone, SeedRevisits, Seeds, Sprouts, Asks,
              Bridges, OpenEnds
<1>4. CASE Surroundings
  BY <1>4 DEF Surroundings, OtherAppend, AppendFails, Crash, Restart, Tick
<1> QED
  BY <1>1, <1>2, <1>3, <1>4 DEF Next

LEMMA RailsStep ==
    ASSUME RailsInv, Next
    PROVE  Rails'
<1> USE Constants, KindsApart
<1>. Rails /\ TalliesOK
  BY DEF RailsInv, TypeInv
<1>. \A k \in Kinds : counted[k] \in Nat /\ today[k] \in Nat
  BY DEF TalliesOK
<1>. stored["opens"] \in Nat /\ stored["thoughts"] \in Nat
  BY DEF TalliesOK
<1>1. phase' = "reactivate" => counted'["deep"] < MaxDeep
  <2>1. phase' = "reactivate" => counted["deep"] < MaxDeep
    BY RoomToThink DEF Rails, Sated
  <2> QED
    BY <2>1, RoomToThink
<1>2. CASE UNCHANGED tallies
  BY <1>1, <1>2 DEF tallies, Rails, OpenedToday
<1>3. CASE OwnThought
  <2>1. UNCHANGED <<today, counted>> /\ stored'["opens"] = stored["opens"]
           /\ (stored'["thoughts"] <= Window => stored["thoughts"] <= Window)
    BY <1>3 DEF OwnThought, Cap, TalliesOK
  <2> QED
    BY <1>1, <2>1 DEF Rails, OpenedToday
<1>4. ASSUME NEW m \in OpenModes, OpenedToday(counted) < MaxLight, counted[m] < OpenCap(m),
             Tally(m, "opens")
      PROVE  Rails'
  <2>1. /\ \A k \in Kinds \ {m} : today'[k] = today[k] /\ counted'[k] = counted[k]
        /\ today'[m] = today[m] + 1
        /\ counted'[m] = IF stored["opens"] < Window THEN counted[m] + 1 ELSE counted[m]
        /\ stored'["thoughts"] = stored["thoughts"]
        /\ stored'["opens"] <= Window => stored["opens"] < Window
    BY <1>4 DEF Tally, Cap, TalliesOK
  <2>2. OpenedToday(counted') <= MaxLight
    BY <1>4, <2>1 DEF OpenedToday, OpenModes
  <2>3. \A k \in OpenModes : counted'[k] <= OpenCap(k)
    <3>1. counted'[m] <= OpenCap(m)
      BY <1>4, <2>1, CapIsNat
    <3>2. \A k \in OpenModes \ {m} : counted'[k] <= OpenCap(k)
      BY <2>1 DEF Rails
    <3> QED
      BY <3>1, <3>2
  <2>4. counted'["deep"] = counted["deep"] /\ today'["deep"] = today["deep"]
    BY <2>1
  <2>5. stored'["opens"] <= Window => \A k \in OpenModes : counted'[k] = today'[k]
    BY <2>1 DEF Rails
  <2> QED
    BY <1>1, <2>1, <2>2, <2>3, <2>4, <2>5 DEF Rails
<1>5. CASE Tally("deep", "thoughts") /\ (phase = "reactivate" \/ ~Sated)
  <2>1. /\ \A k \in OpenModes : today'[k] = today[k] /\ counted'[k] = counted[k]
        /\ today'["deep"] = today["deep"] + 1
        /\ counted'["deep"] =
               IF stored["thoughts"] < Window THEN counted["deep"] + 1 ELSE counted["deep"]
        /\ stored'["opens"] = stored["opens"]
        /\ stored'["thoughts"] <= Window => stored["thoughts"] < Window
    BY <1>5 DEF Tally, Cap, TalliesOK
  <2>2. counted["deep"] < MaxDeep
    BY <1>5 DEF Rails, Sated
  <2>3. counted'["deep"] <= MaxDeep
    BY <2>1, <2>2
  <2>4. OpenedToday(counted') = OpenedToday(counted)
    BY <2>1 DEF OpenedToday
  <2> QED
    BY <1>1, <2>1, <2>3, <2>4 DEF Rails
<1>6. CASE /\ today' = [k \in Kinds |-> 0] /\ counted' = [k \in Kinds |-> 0]
           /\ UNCHANGED stored
  <2>1. OpenedToday(counted') = 0
    BY <1>6 DEF OpenedToday
  <2> QED
    BY <1>1, <1>6, <2>1, CapIsNat DEF Rails
<1> QED
  BY <1>2, <1>3, <1>4, <1>5, <1>6, TallySteps

LEMMA RailsInit == Init => RailsInv
<1> SUFFICES ASSUME Init PROVE Rails
  BY TypeInit DEF RailsInv
<1> QED
  BY Constants, CapIsNat, KindsApart DEF Init, Rails, OpenedToday

LEMMA RailsInductive == RailsInv /\ [Next]_vars => RailsInv'
<1>1. ASSUME RailsInv, UNCHANGED vars PROVE Rails'
  BY <1>1 DEF RailsInv, Rails, vars, OpenedToday
<1> QED
  BY <1>1, RailsStep, TypeInductive DEF RailsInv

\* The caps of a day hold (world.py:236) for as long as the counters see the log's end
\* (world.py:812), whatever interrupts the engines and wherever the day turns.
THEOREM CapsHold == Spec => []DailyCaps
<1>1. RailsInv => DailyCaps
  <2> SUFFICES ASSUME RailsInv PROVE DailyCaps
    OBVIOUS
  <2>1. stored["opens"] <= Window => OpenedToday(today) = OpenedToday(counted)
    BY KindsApart DEF RailsInv, Rails, OpenedToday
  <2> QED
    BY <2>1 DEF RailsInv, Rails, DailyCaps
<1> QED
  BY <1>1, RailsInit, RailsInductive, PTL DEF Spec

(***************************************************************************)
(* What interruptions leave half done.                                     *)
(***************************************************************************)
Pair == {"activate", "sprout", "reactivate"}
Pending == IF phase \in Pair THEN 1 ELSE 0

\* The pair at work is half done, and what it began is what it will complete.
Begun ==
    /\ phase = "activate" => job.thread \in HalfThreads
    /\ phase = "sprout" => job.topic \in HalfThreads
    /\ phase = "reactivate" => job.prior \in HalfThoughts

LeftoverInv == TypeInv /\ Begun /\ OneLeftoverEach

Counted ==
    /\ IsFiniteSet(HalfThreads) /\ Cardinality(HalfThreads) \in Nat
    /\ IsFiniteSet(HalfThoughts) /\ Cardinality(HalfThoughts) \in Nat

LEMMA LeftoversFinite == TypeInv => Counted
<1> SUFFICES ASSUME TypeInv PROVE Counted
  OBVIOUS
<1> USE DEF Counted
<1>1. IsFiniteSet(Threads)
  BY MindAssumption, FS_Union DEF Threads
<1>2. HalfThreads \subseteq Threads /\ HalfThoughts \subseteq 1 .. Len(impressions)
  BY DEF HalfThreads, HalfThoughts, TypeInv, MaterialOK
<1>3. Len(impressions) \in Nat
  BY DEF TypeInv, MaterialOK
<1>4. IsFiniteSet(1 .. Len(impressions))
  BY <1>3, FS_Interval
<1> QED
  BY <1>1, <1>2, <1>4, FS_Subset, FS_CardinalityType

\* How a step may change what is half done.
LEMMA LeftoverSteps ==
    ASSUME LeftoverInv, Next
    PROVE  \/ /\ HalfThreads' \subseteq HalfThreads /\ HalfThoughts' \subseteq HalfThoughts
              /\ Begun'
              /\ \/ UNCHANGED interruptions /\ (phase \in Pair => phase' \in Pair)
                 \/ interruptions' = interruptions + 1
           \/ /\ phase \notin Pair /\ phase' \in Pair /\ UNCHANGED interruptions /\ Begun'
              /\ \/ UNCHANGED HalfThoughts /\ \E t \in Threads : HalfThreads' = HalfThreads \cup {t}
                 \/ UNCHANGED HalfThreads
                       /\ \E i \in 1 .. Len(impressions) : HalfThoughts' = HalfThoughts \cup {i}
           \/ /\ phase \in Pair /\ phase' \notin Pair /\ UNCHANGED interruptions
              /\ \/ UNCHANGED HalfThoughts /\ \E t \in HalfThreads : HalfThreads' = HalfThreads \ {t}
                 \/ UNCHANGED HalfThreads /\ \E i \in HalfThoughts : HalfThoughts' = HalfThoughts \ {i}
<1> USE DEF At, Idle, Done, Then, Go, Pair
<1>. TypeInv /\ Begun /\ ThreadsOK /\ MaterialOK
  BY DEF LeftoverInv, TypeInv
<1>. Len(impressions) \in Nat /\ impressions \in Seq(Impression)
  BY DEF MaterialOK
<1>1. ASSUME UNCHANGED <<life, impressions>>
      PROVE  UNCHANGED <<HalfThreads, HalfThoughts>>
  BY <1>1 DEF HalfThreads, HalfThoughts
<1>2. ASSUME NEW t \in Threads, life' = [life EXCEPT ![t] = "activated"]
      PROVE  HalfThreads' = HalfThreads \ {t}
  BY <1>2 DEF HalfThreads, ThreadsOK
<1>3. ASSUME NEW t \in Threads, life' = [life EXCEPT ![t] = "created"]
      PROVE  HalfThreads' = HalfThreads \cup {t}
  BY <1>3 DEF HalfThreads, ThreadsOK
<1>4. ASSUME UNCHANGED impressions PROVE UNCHANGED HalfThoughts
  BY <1>4 DEF HalfThoughts
<1>5. ASSUME UNCHANGED life PROVE UNCHANGED HalfThreads
  BY <1>5 DEF HalfThreads
<1>6. ASSUME phase' \notin Pair PROVE Begun'
  BY <1>6 DEF Begun
<1>7. CASE WakeNoop \/ WakeThinks \/ WakeBookkeeps \/ WakeSurfaces
  <2>1. phase \notin Pair /\ phase' \notin Pair /\ UNCHANGED <<impressions, interruptions>>
    BY <1>7 DEF WakeNoop, WakeThinks, WakeBookkeeps, WakeSurfaces
  <2>2. UNCHANGED life \/ \E t \in Threads : life' = [life EXCEPT ![t] = "activated"]
    BY <1>7 DEF WakeNoop, WakeThinks, WakeBookkeeps, WakeSurfaces, MaterialOK, Dormant
  <2> QED
    BY <1>2, <1>4, <1>5, <1>6, <2>1, <2>2
<1>8. CASE SleepBegins \/ SleepAssociates \/ SleepCreatesNone
  <2>1. phase \notin Pair /\ phase' \notin Pair /\ UNCHANGED <<life, impressions, interruptions>>
    BY <1>8 DEF SleepBegins, SleepAssociates, SleepCreatesNone
  <2> QED
    BY <1>1, <1>6, <2>1
<1>9. CASE SleepRests
  <2>1. /\ phase \notin Pair /\ phase' \notin Pair /\ UNCHANGED <<impressions, interruptions>>
        /\ \E t \in Threads : life' = [life EXCEPT ![t] = "dormant"]
    BY <1>9 DEF SleepRests, MaterialOK
  <2>2. HalfThreads' \subseteq HalfThreads
    BY <2>1 DEF HalfThreads, ThreadsOK
  <2> QED
    BY <1>4, <1>6, <2>1, <2>2
<1>10. CASE SleepCreates
  <2>1. PICK t \in SelfThreads : /\ life' = [life EXCEPT ![t] = "created"]
                                 /\ job' = [job EXCEPT !.thread = t]
    BY <1>10 DEF SleepCreates
  <2>2. phase = "self" /\ phase' = "activate" /\ UNCHANGED <<impressions, interruptions>>
    BY <1>10 DEF SleepCreates
  <2>3. t \in Threads /\ HalfThreads' = HalfThreads \cup {t}
    BY <1>3, <2>1 DEF Threads
  <2>4. job'.thread = t
    BY <2>1 DEF MaterialOK
  <2>5. Begun'
    BY <2>2, <2>3, <2>4 DEF Begun
  <2> QED
    BY <1>4, <2>2, <2>3, <2>5
<1>11. CASE SleepActivates
  <2>1. /\ phase = "activate" /\ phase' = "idle" /\ UNCHANGED <<impressions, interruptions>>
        /\ life' = [life EXCEPT ![job.thread] = "activated"]
    BY <1>11 DEF SleepActivates
  <2>2. job.thread \in HalfThreads /\ job.thread \in Threads
    BY <2>1 DEF Begun, HalfThreads
  <2> QED
    BY <1>2, <1>4, <2>1, <2>2
<1>12. CASE Opens \/ FetchFails \/ Associates \/ ThinksNothing \/ SeedsNone \/ Asks \/ OpenEnds
  <2>1. phase \notin Pair /\ phase' \notin Pair /\ UNCHANGED <<life, impressions, interruptions>>
    BY <1>12 DEF Opens, FetchFails, Associates, WorldThought, ThinksNothing, SeedsNone, Asks,
                 OpenEnds
  <2> QED
    BY <1>1, <1>6, <2>1
<1>13. CASE Looks
  <2>1. phase \notin Pair /\ phase' \notin Pair /\ UNCHANGED <<life, interruptions>>
    BY <1>13 DEF Looks
  <2>2. HalfThoughts' \subseteq HalfThoughts
    <3> DEFINE imp == [topic |-> job.topic, status |-> "formed"]
    <3>1. imp.status = "formed"
      OBVIOUS
    <3>2. impressions' = impressions \/ impressions' = Append(impressions, imp)
      BY <1>13 DEF Looks
    <3> HIDE DEF imp
    <3>3. CASE impressions' = Append(impressions, imp)
      BY <3>1, <3>3 DEF HalfThoughts
    <3> QED
      BY <3>2, <3>3 DEF HalfThoughts
  <2> QED
    BY <1>5, <1>6, <2>1, <2>2
<1>14. CASE Promotes
  <2>1. /\ phase = "think" /\ phase' = "reactivate" /\ UNCHANGED <<life, job, interruptions>>
        /\ impressions' = [impressions EXCEPT ![job.prior].status = "promoted"]
        /\ job.prior \in 1 .. Len(impressions)
    BY <1>14 DEF Promotes, MaterialOK
  <2>2. HalfThoughts' = HalfThoughts \cup {job.prior}
    BY <2>1, Marks DEF HalfThoughts
  <2>3. Begun'
    BY <2>1, <2>2 DEF Begun
  <2> QED
    BY <1>5, <2>1, <2>2, <2>3
<1>15. CASE Reactivates
  <2>1. /\ phase = "reactivate" /\ phase' = "seed" /\ UNCHANGED <<life, interruptions>>
        /\ impressions' = [impressions EXCEPT ![job.prior].status = "thought"]
        /\ job.prior \in HalfThoughts
    BY <1>15 DEF Reactivates, WorldThought, Begun
  <2>2. job.prior \in 1 .. Len(impressions)
    BY <2>1 DEF HalfThoughts
  <2>3. HalfThoughts' = HalfThoughts \ {job.prior}
    BY <2>1, <2>2, Marks DEF HalfThoughts
  <2> QED
    BY <1>5, <2>1, <2>3
<1>16. CASE SeedRevisits \/ Bridges
  <2>1. phase \notin Pair /\ phase' \notin Pair /\ UNCHANGED <<impressions, interruptions>>
    BY <1>16 DEF SeedRevisits, Bridges
  <2>2. \E t \in Threads : life' = [life EXCEPT ![t] = "activated"]
    BY <1>16 DEF SeedRevisits, Bridges, TypeInv, Engaged, Threads
  <2> QED
    BY <1>2, <1>4, <1>6, <2>1, <2>2
<1>17. CASE Seeds
  <2>1. /\ phase = "seed" /\ phase' = "sprout" /\ UNCHANGED <<impressions, job, interruptions>>
        /\ life' = [life EXCEPT ![job.topic] = "created"]
    BY <1>17 DEF Seeds
  <2>2. job.topic \in Threads
    BY <2>1 DEF TypeInv, Engaged, Threads
  <2>3. HalfThreads' = HalfThreads \cup {job.topic}
    BY <1>3, <2>1, <2>2
  <2>4. Begun'
    BY <2>1, <2>3 DEF Begun
  <2> QED
    BY <1>4, <2>1, <2>2, <2>3, <2>4
<1>18. CASE Sprouts
  <2>1. /\ phase = "sprout" /\ phase' = "touch" /\ UNCHANGED <<impressions, interruptions>>
        /\ life' = [life EXCEPT ![job.topic] = "activated"]
    BY <1>18 DEF Sprouts
  <2>2. job.topic \in HalfThreads /\ job.topic \in Threads
    BY <2>1 DEF Begun, HalfThreads
  <2> QED
    BY <1>2, <1>4, <2>1, <2>2
<1>19. CASE OtherAppend \/ Restart \/ Tick
  <2>1. UNCHANGED <<life, impressions, phase, job, interruptions>>
    BY <1>19 DEF OtherAppend, Restart, Tick
  <2>2. Begun'
    BY <1>1, <2>1 DEF Begun
  <2> QED
    BY <1>1, <2>1, <2>2
<1>20. CASE AppendFails \/ Crash
  <2>1. phase' = "idle" /\ interruptions' = interruptions + 1 /\ UNCHANGED <<life, impressions>>
    BY <1>20 DEF AppendFails, Crash
  <2> QED
    BY <1>1, <1>6, <2>1
<1> QED
  BY <1>7, <1>8, <1>9, <1>10, <1>11, <1>12, <1>13, <1>14, <1>15, <1>16, <1>17, <1>18,
     <1>19, <1>20 DEF Next, Wake, Sleep, World, Surroundings

LEMMA LeftoverStep ==
    ASSUME LeftoverInv, Next
    PROVE  Begun' /\ OneLeftoverEach'
<1> DEFINE a == Cardinality(HalfThreads)
           b == Cardinality(HalfThoughts)
           c == Cardinality(HalfThreads')
           d == Cardinality(HalfThoughts')
<1>. TypeInv /\ TypeInv'
  BY TypeInductive DEF LeftoverInv
<1>1. /\ a \in Nat /\ b \in Nat /\ c \in Nat /\ d \in Nat
      /\ IsFiniteSet(HalfThreads) /\ IsFiniteSet(HalfThoughts)
      /\ IsFiniteSet(HalfThreads') /\ IsFiniteSet(HalfThoughts')
  <2>1. TypeInv' => Counted'
    BY LeftoversFinite, PTL
  <2> QED
    BY <2>1, LeftoversFinite DEF Counted
<1>2. interruptions \in Nat /\ interruptions' \in Nat
  BY Constants DEF TypeInv, ControlOK
<1>3. a + b <= interruptions + Pending
  BY DEF LeftoverInv, OneLeftoverEach, Pending, Pair
<1>4. SUFFICES Begun' /\ c + d <= interruptions' + Pending'
  BY DEF OneLeftoverEach, Pending, Pair
<1>5. (Pending = 0 \/ Pending = 1) /\ (Pending' = 0 \/ Pending' = 1)
  BY DEF Pending
<1>6. CASE /\ HalfThreads' \subseteq HalfThreads /\ HalfThoughts' \subseteq HalfThoughts
           /\ Begun'
           /\ \/ UNCHANGED interruptions /\ (phase \in Pair => phase' \in Pair)
              \/ interruptions' = interruptions + 1
  <2>1. c <= a /\ d <= b
    BY <1>1, <1>6, FS_Subset
  <2>2. interruptions + Pending <= interruptions' + Pending'
    <3>1. CASE interruptions' = interruptions + 1
      BY <1>2, <1>5, <3>1
    <3>2. CASE UNCHANGED interruptions /\ (phase \in Pair => phase' \in Pair)
      <4>1. CASE phase \in Pair
        BY <1>2, <1>5, <3>2, <4>1 DEF Pending, Pair
      <4>2. CASE phase \notin Pair
        <5>1. Pending = 0
          BY <4>2 DEF Pending
        <5> QED
          BY <1>2, <1>5, <3>2, <5>1
      <4> QED
        BY <4>1, <4>2
    <3> QED
      BY <1>6, <3>1, <3>2
  <2>3. Begun'
    BY <1>6
  <2>4. c + d <= interruptions' + Pending'
    <3> HIDE DEF a, b, c, d
    <3> QED
      BY <1>1, <1>2, <1>3, <1>5, <2>1, <2>2
  <2> QED
    BY <2>3, <2>4
<1>7. CASE /\ phase \notin Pair /\ phase' \in Pair /\ UNCHANGED interruptions /\ Begun'
           /\ \/ UNCHANGED HalfThoughts /\ \E t \in Threads : HalfThreads' = HalfThreads \cup {t}
              \/ UNCHANGED HalfThreads
                    /\ \E i \in 1 .. Len(impressions) : HalfThoughts' = HalfThoughts \cup {i}
  <2>1. c + d <= a + b + 1
    <3>1. (c \in {a, a + 1} /\ d = b) \/ (c = a /\ d \in {b, b + 1})
      BY <1>1, <1>7, FS_AddElement
    <3> HIDE DEF a, b, c, d
    <3> QED
      BY <1>1, <3>1
  <2>2. Pending = 0 /\ Pending' = 1
    BY <1>7 DEF Pending
  <2> HIDE DEF a, b, c, d
  <2> QED
    BY <1>1, <1>2, <1>3, <1>7, <2>1, <2>2
<1>8. CASE /\ phase \in Pair /\ phase' \notin Pair /\ UNCHANGED interruptions
           /\ \/ UNCHANGED HalfThoughts /\ \E t \in HalfThreads : HalfThreads' = HalfThreads \ {t}
              \/ UNCHANGED HalfThreads /\ \E i \in HalfThoughts : HalfThoughts' = HalfThoughts \ {i}
  <2>1. c + d + 1 = a + b
    <3>1. (c = a - 1 /\ d = b) \/ (c = a /\ d = b - 1)
      BY <1>1, <1>8, FS_RemoveElement
    <3> HIDE DEF a, b, c, d
    <3> QED
      BY <1>1, <3>1
  <2>2. Pending = 1 /\ Pending' = 0
    BY <1>8 DEF Pending
  <2>3. Begun'
    BY <1>8 DEF Begun, Pair
  <2> HIDE DEF a, b, c, d
  <2> QED
    BY <1>1, <1>2, <1>3, <1>8, <2>1, <2>2, <2>3
<1> QED
  BY <1>6, <1>7, <1>8, LeftoverSteps

LEMMA LeftoverInit == Init => LeftoverInv
<1> SUFFICES ASSUME Init PROVE Begun /\ OneLeftoverEach
  BY TypeInit DEF LeftoverInv
<1>1. HalfThreads = {} /\ HalfThoughts = {}
  BY DEF Init, HalfThreads, HalfThoughts
<1> QED
  BY <1>1, FS_EmptySet DEF Init, Begun, OneLeftoverEach

LEMMA LeftoverInductive == LeftoverInv /\ [Next]_vars => LeftoverInv'
<1>1. ASSUME LeftoverInv, UNCHANGED vars PROVE Begun' /\ OneLeftoverEach'
  BY <1>1 DEF LeftoverInv, Begun, OneLeftoverEach, HalfThreads, HalfThoughts, vars
<1> QED
  BY <1>1, LeftoverStep, TypeInductive DEF LeftoverInv

\* An interruption leaves one thread unborn or one impression without its thought, never
\* two (sleep.py:299, world.py:546, world.py:628).
THEOREM LeftoversBounded == Spec => []OneLeftoverEach
<1>1. LeftoverInv => OneLeftoverEach
  BY DEF LeftoverInv
<1> QED
  BY <1>1, LeftoverInit, LeftoverInductive, PTL DEF Spec

(***************************************************************************)
(* The refinement of InnerLife, and what holds of it step by step.         *)
(***************************************************************************)
Inner == INSTANCE InnerLife

LEMMA SameCardinality == \A S : Inner!Cardinality(S) = Cardinality(S)
  BY DEF Inner!Cardinality, Cardinality

\* What an engine read before its appends still holds when it makes them: what it puts
\* to rest is active and idle, what it returns to is alive, what it spends is unspent.
EngineReady ==
    /\ phase = "dormancy" => \A t \in job.rests : life[t] = "activated" /\ since[t] + 1 >= Recent
    /\ phase = "bookkeep" /\ job.thread # None => life[job.thread] \in {"activated", "dormant"}
    /\ phase = "think" /\ job.prior # 0 => impressions[job.prior].status = "formed"

EngineInv == LeftoverInv /\ EngineReady

LEMMA Ages ==
    ASSUME ThreadsOK, NEW n \in Nat, Aged(n), NEW t \in Threads,
           life[t] = "activated", since[t] + 1 >= Recent
    PROVE  since'[t] + 1 >= Recent /\ (n >= 1 => since'[t] = Recent)
  BY Constants DEF ThreadsOK, Aged, Active, Cap

LEMMA EngineReadyKept ==
    ASSUME EngineInv, Next
    PROVE  EngineReady'
<1> USE DEF At, Idle, Done, Then, Go
<1>. TypeInv /\ ThreadsOK /\ MaterialOK /\ EngineReady
  BY DEF EngineInv, LeftoverInv, TypeInv
<1>1. ASSUME phase' \notin {"dormancy", "bookkeep", "think"} PROVE EngineReady'
  BY <1>1 DEF EngineReady
<1>2. CASE WakeNoop \/ WakeBookkeeps \/ WakeSurfaces
  BY <1>1, <1>2 DEF WakeNoop, WakeBookkeeps, WakeSurfaces
<1>3. CASE WakeThinks
  <2>1. PICK route \in {"continuity", "revisit", "other"}, t \in Active \cup Dormant \cup {None} :
            job' = [NoJob EXCEPT !.thread = IF route = "other" THEN None ELSE t]
    BY <1>3 DEF WakeThinks
  <2>2. job'.thread = (IF route = "other" THEN None ELSE t)
    BY <2>1 DEF NoJob
  <2>3. phase' = "bookkeep" /\ UNCHANGED life
    BY <1>3 DEF WakeThinks
  <2> QED
    BY <2>2, <2>3 DEF EngineReady, Active, Dormant
<1>4. CASE SleepBegins
  <2>1. PICK compress \in 0 .. 1 : Aged(1 + compress)
    BY <1>4 DEF SleepBegins
  <2>2. /\ phase' = "dormancy" /\ UNCHANGED life
        /\ job' = [NoJob EXCEPT !.rests = {t \in Active : since[t] + 1 >= Recent}]
    BY <1>4 DEF SleepBegins
  <2>3. job'.rests = {t \in Active : since[t] + 1 >= Recent}
    BY <2>2 DEF NoJob
  <2> QED
    BY <2>1, <2>2, <2>3, Ages DEF EngineReady, Active
<1>5. CASE SleepRests
  <2>1. PICK r \in job.rests : /\ phase = "dormancy" /\ UNCHANGED phase /\ Aged(1)
                               /\ life' = [life EXCEPT ![r] = "dormant"]
                               /\ job' = [job EXCEPT !.rests = @ \ {r}]
    BY <1>5 DEF SleepRests
  <2>2. job'.rests = job.rests \ {r} /\ job.rests \subseteq Threads
    BY <2>1 DEF MaterialOK
  <2> QED
    BY <2>1, <2>2, Ages DEF EngineReady, ThreadsOK
<1>6. CASE SleepAssociates \/ SleepCreatesNone \/ SleepCreates \/ SleepActivates
  BY <1>1, <1>6 DEF SleepAssociates, SleepCreatesNone, SleepCreates, SleepActivates
<1>7. CASE Opens \/ FetchFails \/ Promotes \/ Reactivates \/ Associates \/ ThinksNothing
               \/ SeedsNone \/ SeedRevisits \/ Seeds \/ Sprouts \/ Asks \/ Bridges \/ OpenEnds
  BY <1>1, <1>7 DEF Opens, FetchFails, Promotes, Reactivates, Associates, WorldThought,
                    ThinksNothing, SeedsNone, SeedRevisits, Seeds, Sprouts, Asks, Bridges, OpenEnds
<1>8. CASE Looks
  <2>1. PICK linked \in SUBSET Topics, impresses \in BOOLEAN :
            LET connected == {i \in DOMAIN impressions :
                         /\ impressions[i].status = "formed"
                         /\ impressions[i].topic \in linked \cup {job.topic}} IN
            /\ impressions' = IF impresses
                   THEN Append(impressions, [topic |-> job.topic, status |-> "formed"])
                   ELSE impressions
            /\ job' = [job EXCEPT !.prior = IF connected = {} THEN 0 ELSE Min(connected)]
    BY <1>8 DEF Looks
  <2> DEFINE connected == {i \in DOMAIN impressions :
                         /\ impressions[i].status = "formed"
                         /\ impressions[i].topic \in linked \cup {job.topic}}
  <2>2. phase' = "think" /\ job'.prior = (IF connected = {} THEN 0 ELSE Min(connected))
    BY <1>8, <2>1 DEF Looks, MaterialOK
  <2>3. connected \subseteq 1 .. Len(impressions) /\ Len(impressions) \in Nat
    BY DEF MaterialOK
  <2>4. connected # {} => Min(connected) \in connected
    <3> HIDE DEF connected
    <3> QED
      BY <2>3, MinFacts
  <2>5. \A i \in 1 .. Len(impressions) : impressions'[i] = impressions[i]
    BY <2>1 DEF MaterialOK
  <2>6. job'.prior # 0 => impressions'[job'.prior].status = "formed"
    BY <2>2, <2>3, <2>4, <2>5
  <2> QED
    BY <2>2, <2>6 DEF EngineReady
<1>9. CASE OtherAppend
  <2>1. Aged(1) /\ UNCHANGED <<life, impressions, phase, job>>
    BY <1>9 DEF OtherAppend
  <2> QED
    BY <2>1, Ages DEF EngineReady, MaterialOK
<1>10. CASE AppendFails \/ Crash
  BY <1>1, <1>10 DEF AppendFails, Crash
<1>11. CASE Restart \/ Tick
  BY <1>11 DEF Restart, Tick, EngineReady
<1> QED
  BY <1>2, <1>3, <1>4, <1>5, <1>6, <1>7, <1>8, <1>9, <1>10, <1>11
     DEF Next, Wake, Sleep, World, Surroundings

LEMMA EngineInvariant == Spec => []EngineInv
<1>1. Init => EngineInv
  BY LeftoverInit DEF Init, EngineInv, EngineReady
<1>2. EngineInv /\ [Next]_vars => EngineInv'
  <2>1. ASSUME EngineInv, UNCHANGED vars PROVE EngineReady'
    BY <2>1 DEF EngineInv, EngineReady, vars
  <2> QED
    BY <2>1, EngineReadyKept, LeftoverInductive DEF EngineInv
<1> QED
  BY <1>1, <1>2, PTL DEF Spec

\* Every step moves at most one thread, and where it moves it.
LEMMA LifeSteps ==
    ASSUME EngineInv, Next
    PROVE  \/ UNCHANGED life
           \/ UNCHANGED impressions /\ \E t \in Threads :
                \/ /\ \/ life[t] \in {"activated", "dormant"}
                      \/ life[t] = "created" /\ t \in Topics
                      \/ life[t] = "created" /\ phase = "activate" /\ job.thread = t
                   /\ life' = [life EXCEPT ![t] = "activated"]
                \/ /\ life[t] = "activated" /\ since[t] + 1 >= Recent
                   /\ life' = [life EXCEPT ![t] = "dormant"]
                \/ /\ life[t] = "none" /\ life' = [life EXCEPT ![t] = "created"]
                   /\ t \in Topics => Cardinality({u \in Topics : life[u] # "none"})
                                          < MaxWorldThreads
                   /\ t \notin Topics => phase' = "activate" /\ job'.thread = t
<1> USE DEF At, Idle, Done, Then, Go
<1>. TypeInv /\ ThreadsOK /\ MaterialOK /\ EngineReady /\ Begun
  BY DEF EngineInv, LeftoverInv, TypeInv
<1>1. CASE WakeNoop \/ WakeThinks
  BY <1>1 DEF WakeNoop, WakeThinks
<1>2. CASE WakeBookkeeps
  <2>1. job.thread \in Threads \cup {None} /\ None \notin Threads
    BY Constants DEF MaterialOK
  <2> QED
    BY <1>2, <2>1 DEF WakeBookkeeps, EngineReady
<1>3. CASE WakeSurfaces
  BY <1>3 DEF WakeSurfaces, Dormant
<1>4. CASE SleepBegins \/ SleepAssociates \/ SleepCreatesNone
  BY <1>4 DEF SleepBegins, SleepAssociates, SleepCreatesNone
<1>5. CASE SleepRests
  BY <1>5 DEF SleepRests, EngineReady, MaterialOK
<1>6. CASE SleepCreates
  <2>1. PICK t \in SelfThreads : /\ life[t] = "none" /\ life' = [life EXCEPT ![t] = "created"]
                                 /\ phase' = "activate" /\ job' = [job EXCEPT !.thread = t]
                                 /\ UNCHANGED impressions
    BY <1>6 DEF SleepCreates
  <2>2. t \in Threads /\ t \notin Topics /\ job'.thread = t
    BY <2>1, MindAssumption DEF Threads, MaterialOK
  <2> QED
    BY <2>1, <2>2
<1>7. CASE SleepActivates
  <2>1. life[job.thread] = "created" /\ job.thread \in Threads
    BY <1>7 DEF SleepActivates, Begun, HalfThreads
  <2> QED
    BY <1>7, <2>1 DEF SleepActivates
<1>8. CASE Opens \/ FetchFails \/ Looks \/ Promotes \/ Reactivates \/ Associates
               \/ ThinksNothing \/ SeedsNone \/ Asks \/ OpenEnds
  BY <1>8 DEF Opens, FetchFails, Looks, Promotes, Reactivates, Associates, WorldThought,
              ThinksNothing, SeedsNone, Asks, OpenEnds
<1>9. CASE SeedRevisits \/ Sprouts
  <2>1. job.topic \in Topics /\ job.topic \in Threads
    BY <1>9 DEF SeedRevisits, Sprouts, Engaged, TypeInv, Threads
  <2>2. life[job.topic] \in {"created", "activated", "dormant"}
    BY <1>9, <2>1 DEF SeedRevisits, Sprouts, Begun, HalfThreads, ThreadsOK
  <2> QED
    BY <1>9, <2>1, <2>2 DEF SeedRevisits, Sprouts
<1>10. CASE Seeds
  <2>1. job.topic \in Topics /\ job.topic \in Threads
    BY <1>10 DEF Seeds, Engaged, TypeInv, Threads
  <2> QED
    BY <1>10, <2>1 DEF Seeds
<1>11. CASE Bridges
  BY <1>11 DEF Bridges, Dormant
<1>12. CASE Surroundings
  BY <1>12 DEF Surroundings, OtherAppend, AppendFails, Crash, Restart, Tick
<1> QED
  BY <1>1, <1>2, <1>3, <1>4, <1>5, <1>6, <1>7, <1>8, <1>9, <1>10, <1>11, <1>12
     DEF Next, Wake, Sleep, World

\* Every step leaves the impressions, forms one, or takes one a state further.
LEMMA ImpressionSteps ==
    ASSUME EngineInv, Next
    PROVE  \/ UNCHANGED impressions
           \/ UNCHANGED life /\ \E topic \in Topics : Inner!Form(topic)
           \/ \E i \in DOMAIN impressions : Inner!Spend(i) \/ Inner!ThinkOn(i)
<1> USE DEF At, Idle, Done, Then, Go
<1>. TypeInv /\ MaterialOK /\ EngineReady /\ Begun
  BY DEF EngineInv, LeftoverInv, TypeInv
<1>1. CASE Wake \/ Sleep \/ Surroundings
  BY <1>1 DEF Wake, WakeNoop, WakeThinks, WakeBookkeeps, WakeSurfaces, Sleep, SleepBegins,
              SleepRests, SleepAssociates, SleepCreatesNone, SleepCreates, SleepActivates,
              Surroundings, OtherAppend, AppendFails, Crash, Restart, Tick
<1>2. CASE Opens \/ FetchFails \/ Associates \/ ThinksNothing \/ SeedsNone \/ SeedRevisits
               \/ Seeds \/ Sprouts \/ Asks \/ Bridges \/ OpenEnds
  BY <1>2 DEF Opens, FetchFails, Associates, ThinksNothing, SeedsNone, SeedRevisits, Seeds,
              Sprouts, Asks, Bridges, OpenEnds
<1>3. CASE Looks
  <2>1. job.topic \in Topics
    BY <1>3 DEF Looks, Engaged, TypeInv
  <2>2. \/ UNCHANGED impressions
        \/ impressions' = Append(impressions, [topic |-> job.topic, status |-> "formed"])
    BY <1>3 DEF Looks
  <2>3. UNCHANGED life
    BY <1>3 DEF Looks
  <2> QED
    BY <2>1, <2>2, <2>3 DEF Inner!Form
<1>4. CASE Promotes
  <2>1. job.prior \in DOMAIN impressions
    BY <1>4 DEF Promotes, MaterialOK
  <2>2. Inner!Spend(job.prior)
    BY <1>4 DEF Promotes, EngineReady, Inner!Spend, Inner!Marks
  <2> QED
    BY <2>1, <2>2
<1>5. CASE Reactivates
  <2>1. job.prior \in HalfThoughts /\ UNCHANGED life
            /\ impressions' = [impressions EXCEPT ![job.prior].status = "thought"]
    BY <1>5 DEF Reactivates, WorldThought, Begun
  <2> QED
    BY <2>1 DEF HalfThoughts, Inner!ThinkOn, Inner!Marks
<1> QED
  BY <1>1, <1>2, <1>3, <1>4, <1>5 DEF Next, World

\* The mind keeps InnerLife's promises whatever the engines, other writers, failing
\* appends and crashes do in between: no thread skips a state of its life, the world's
\* threads stay within max_world_threads (world.py:622), and no impression is spent or
\* thought on twice (world.py:543).
THEOREM ImplementsInnerLife == Spec => Inner!Spec
<1>1. Init => Inner!Init
  BY DEF Init, Inner!Init, Threads
<1>2. EngineInv /\ [Next]_vars => [Inner!Next]_(Inner!material)
  <2>1. ASSUME EngineInv, Next PROVE Inner!Next \/ UNCHANGED Inner!material
    <3> USE DEF Inner!material
    <3>1. CASE UNCHANGED life
      BY <2>1, <3>1, ImpressionSteps DEF Inner!Next
    <3>2. CASE ~UNCHANGED life
      <4>1. UNCHANGED impressions
        BY <2>1, <3>2, LifeSteps
      <4>2. PICK t \in SelfThreads \cup Topics :
                \/ /\ life[t] \in {"created", "activated", "dormant"}
                   /\ life' = [life EXCEPT ![t] = "activated"]
                \/ life[t] = "activated" /\ life' = [life EXCEPT ![t] = "dormant"]
                \/ /\ life[t] = "none" /\ life' = [life EXCEPT ![t] = "created"]
                   /\ t \in Topics => Cardinality({u \in Topics : life[u] # "none"})
                                          < MaxWorldThreads
        BY <2>1, <3>2, LifeSteps DEF Threads
      <4>3. CASE life[t] = "activated" /\ life' = [life EXCEPT ![t] = "activated"]
        <5>1. life' = life
          BY <2>1, <4>3 DEF EngineInv, LeftoverInv, TypeInv, ThreadsOK
        <5> QED
          BY <5>1, <3>2
      <4>4. CASE \/ life[t] \in {"created", "dormant"} /\ life' = [life EXCEPT ![t] = "activated"]
                 \/ life[t] = "activated" /\ life' = [life EXCEPT ![t] = "dormant"]
        BY <4>1, <4>4 DEF Inner!Next, Inner!Activate, Inner!Rest, Inner!Moves
      <4>5. CASE /\ life[t] = "none" /\ life' = [life EXCEPT ![t] = "created"]
                 /\ t \in Topics => Cardinality({u \in Topics : life[u] # "none"})
                                        < MaxWorldThreads
        <5>1. t \in Topics => Inner!Cardinality({u \in Topics : life[u] # "none"})
                                  < MaxWorldThreads
          BY <4>5, SameCardinality
        <5>2. Inner!Moves(t, {"none"}, "created")
          BY <4>1, <4>5 DEF Inner!Moves
        <5> QED
          BY <5>1, <5>2 DEF Inner!Create, Inner!Next
      <4> QED
        BY <4>2, <4>3, <4>4, <4>5
    <3> QED
      BY <3>1, <3>2
  <2>2. UNCHANGED vars => UNCHANGED Inner!material
    BY DEF vars, Inner!material
  <2> QED
    BY <2>1, <2>2
<1> QED
  BY <1>1, <1>2, EngineInvariant, PTL DEF Spec, Inner!Spec

\* Sleep puts a thread to rest only if it is active and idle at that moment, though it
\* chose what to rest from what it read when the cycle began (sleep.py:121) and other
\* writers may have stored events since.
THEOREM RestsOnlyIdle ==
    Spec => [][\A t \in Threads :
                  life[t] # "dormant" /\ life'[t] = "dormant"
                      => life[t] = "activated" /\ since[t] + 1 >= Recent]_vars
<1>1. EngineInv /\ [Next]_vars =>
        [\A t \in Threads : life[t] # "dormant" /\ life'[t] = "dormant"
                      => life[t] = "activated" /\ since[t] + 1 >= Recent]_vars
  BY LifeSteps DEF EngineInv, LeftoverInv, TypeInv, ThreadsOK
<1> QED
  BY <1>1, EngineInvariant, PTL DEF Spec

\* t is created, and no cycle is about to activate it.
Stranded(t) == life[t] = "created" /\ ~(phase = "activate" /\ job.thread = t)

\* A self thread that an interruption left created and not activated (sleep.py:299) stays
\* so for good: no wake, sleep, window or restart completes it or puts it to rest.
THEOREM StrandedForGood ==
    Spec => [][\A t \in SelfThreads : Stranded(t) => Stranded(t)']_vars
<1>1. EngineInv /\ [Next]_vars =>
        [\A t \in SelfThreads : Stranded(t) => Stranded(t)']_vars
  <2> SUFFICES ASSUME EngineInv, Next, NEW t \in SelfThreads, Stranded(t)
               PROVE  Stranded(t)'
    OBVIOUS
  <2>. t \in Threads /\ t \notin Topics
    BY MindAssumption DEF Threads
  <2>1. life'[t] = "created"
    BY LifeSteps DEF Stranded, EngineInv, LeftoverInv, TypeInv, ThreadsOK
  <2>2. ~(phase' = "activate" /\ job'.thread = t)
    <3>1. CASE SleepCreates
      <4>1. PICK u \in SelfThreads : life[u] = "none" /\ job' = [job EXCEPT !.thread = u]
        BY <3>1 DEF SleepCreates
      <4>2. job'.thread = u
        BY <4>1 DEF EngineInv, LeftoverInv, TypeInv, MaterialOK
      <4> QED
        BY <4>1, <4>2 DEF Stranded
    <3>2. CASE ~SleepCreates /\ phase' = "activate"
      <4>1. UNCHANGED <<phase, job>>
        BY <3>2 DEF Next, Wake, WakeNoop, WakeThinks, WakeBookkeeps, WakeSurfaces, Sleep,
              SleepBegins, SleepRests, SleepAssociates, SleepCreatesNone, SleepActivates,
              World, Opens, FetchFails, Looks, Promotes, Reactivates, Associates, WorldThought,
              ThinksNothing, SeedsNone, SeedRevisits, Seeds, Sprouts, Asks, Bridges, OpenEnds,
              Surroundings, OtherAppend, AppendFails, Crash, Restart, Tick, At, Idle, Done,
              Then, Go
      <4> QED
        BY <3>2, <4>1 DEF Stranded
    <3> QED
      BY <3>1, <3>2
  <2> QED
    BY <2>1, <2>2 DEF Stranded
<1> QED
  BY <1>1, EngineInvariant, PTL DEF Spec

WorldThreads == {t \in Topics : life[t] # "none"}
WorldCapped == Cardinality(WorldThreads) <= MaxWorldThreads

\* The world never holds more than max_world_threads threads, in whatever state they are
\* (world.py:622), whatever comes between the count and the append.  The count lists the
\* newest 500 thread.created events (world.py:604); as self_max and max_world_threads
\* bound those, the model lets it see them all.
THEOREM WorldThreadsCapped == Spec => []WorldCapped
<1>1. Init => WorldCapped
  <2>1. Init => WorldThreads = {}
    BY DEF Init, WorldThreads, Threads
  <2> QED
    BY <2>1, FS_EmptySet, Constants DEF WorldCapped
<1>2. EngineInv /\ WorldCapped /\ [Next]_vars => WorldCapped'
  <2>1. ASSUME EngineInv, WorldCapped, Next PROVE WorldCapped'
    <3>. ThreadsOK /\ MaxWorldThreads \in Nat
      BY <2>1, Constants DEF EngineInv, LeftoverInv, TypeInv
    <3>1. IsFiniteSet(WorldThreads) /\ Cardinality(WorldThreads) \in Nat
      BY MindAssumption, FS_Subset, FS_CardinalityType DEF WorldThreads
    <3>2. \/ WorldThreads' = WorldThreads
          \/ /\ \E t \in Topics : WorldThreads' = WorldThreads \cup {t}
             /\ Cardinality(WorldThreads) < MaxWorldThreads
      <4>1. CASE UNCHANGED life
        BY <4>1 DEF WorldThreads
      <4>2. ASSUME NEW t \in Threads, NEW s \in {"activated", "dormant"},
                   life[t] # "none", life' = [life EXCEPT ![t] = s]
            PROVE  WorldThreads' = WorldThreads
        BY <4>2 DEF WorldThreads, ThreadsOK, Threads
      <4>3. ASSUME NEW t \in Threads, life' = [life EXCEPT ![t] = "created"]
            PROVE  WorldThreads' = (IF t \in Topics THEN WorldThreads \cup {t} ELSE WorldThreads)
        BY <4>3 DEF WorldThreads, ThreadsOK, Threads
      <4> QED
        BY <2>1, <4>1, <4>2, <4>3, LifeSteps DEF WorldThreads
    <3>3. \A t : Cardinality(WorldThreads \cup {t})
                    \in {Cardinality(WorldThreads), Cardinality(WorldThreads) + 1}
      BY <3>1, FS_AddElement
    <3> QED
      BY <2>1, <3>1, <3>2, <3>3 DEF WorldCapped
  <2>2. WorldCapped /\ UNCHANGED vars => WorldCapped'
    BY DEF WorldCapped, WorldThreads, vars
  <2> QED
    BY <2>1, <2>2
<1> QED
  BY <1>1, <1>2, EngineInvariant, PTL DEF Spec
================================================================================
