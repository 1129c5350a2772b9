------------------------------ MODULE Questions ------------------------------
(***************************************************************************)
(* The questions the world's window leaves open, and what becomes of them: *)
(* material of their topic meets them again (_touch_open_questions), time  *)
(* lets them go dormant (question_state: derived, never stored), the owner *)
(* who comes back is told of both (ContinuityEngine._candidates), and a    *)
(* question met often enough is to become a project (check_genesis).       *)
(*                                                                         *)
(* Questions and private projects are switched on.  Openings, wakes and    *)
(* chats run on the event loop, await nothing between the steps below and  *)
(* do not interleave; the clock moves whenever it likes.                   *)
(***************************************************************************)
EXTENDS Naturals, FiniteSets, FiniteSetsExt, Sequences

CONSTANTS
    Topics,
    Sources,           \* of the world's material
    Memories,          \* what stands for the source of a memory of the mind's own
    Conversations,     \* the memories among them that are conversation events
    DormantAfter,      \* DEFAULT_QUESTION_DORMANT_S, in ticks
    Threshold,         \* absence_threshold_s
    MessageWindow,     \* messages the absence lists (200)
    MaxCandidates,     \* max_candidates (8)
    MinRevisits, MinSources, MinSpan, \* the bars of private_projects.py
    MaxImpressions, MaxQuestions, MaxMeetings, MaxMessages, MaxTime, \* bounds
    MaxInterruptions   \* bound: appends that raise, and crashes

ASSUME QuestionsAssumption ==
    /\ {DormantAfter, Threshold, MaxCandidates, MinRevisits, MinSources, MinSpan,
        MaxImpressions, MaxQuestions, MaxMeetings, MaxMessages, MaxTime,
        MaxInterruptions} \subseteq Nat
    /\ MessageWindow \in Nat \ {0}
    /\ Conversations \subseteq Memories /\ Sources \cap Memories = {}

VARIABLES
    impressions, \* of the world's material; a spent one was promoted to a thought
    questions,   \* question.created, with what its evidence comes from
    meetings,    \* question.revisited; after: how many messages came before it
    projects,    \* questions with a project.created
    messages,    \* the stamp of each message
    absences,    \* the message that ended each, and the facts stored as candidates
    now,         \* the clock
    phase,       \* what the loop does next
    job,         \* the opening at work, or the question a self thought cites
    interruptions

vars == <<impressions, questions, meetings, projects, messages, absences, now, phase, job,
          interruptions>>
inquiry == <<questions, meetings, projects>>
speech == <<messages, absences>>

None == [topic |-> "none", source |-> "none", prior |-> 0, left |-> {}]

(***************************************************************************)
(* The derived life of a question.                                         *)
(***************************************************************************)
LastTouch(q) ==
    Max({questions[q].at} \cup {meetings[i].at : i \in {j \in DOMAIN meetings :
                                                            meetings[j].question = q}})

\* Not met for DormantAfter at time t, seen with all that is stored by now.
Dormant(q, t) == t > LastTouch(q) + DormantAfter

(***************************************************************************)
(* An opening of the window.                                               *)
(***************************************************************************)
\* Mutant: a dormant question is met again too.
ReachableDormant(topic) ==
    {q \in DOMAIN questions : questions[q].topic = topic /\ questions[q].at < now}

\* Mutant: a question of this very moment is met again.
ReachableNew(topic) ==
    {q \in DOMAIN questions : questions[q].topic = topic /\ ~Dormant(q, now)}

\* The open questions on a topic, asked before this very moment.
Reachable(topic) ==
    {q \in DOMAIN questions :
        questions[q].topic = topic /\ questions[q].at < now /\ ~Dormant(q, now)}

\* The oldest unspent impression of this or a linked topic, 0 if there is none.
Prior(topics) ==
    LET connected == {i \in DOMAIN impressions :
            /\ ~impressions[i].spent /\ impressions[i].at < now
            /\ impressions[i].topic \in topics}
    IN IF connected = {} THEN 0 ELSE Min(connected)

\* The observation and perhaps an impression of it.  A thought, when one forms, spends
\* the prior impression or none (an association); which it is, the rolls and the day's
\* cap decide.  The open questions are listed before the first of them is met.
Opens(topic, source) == \E linked \in SUBSET Topics, impresses, thinks, spends \in BOOLEAN :
    LET prior == Prior(linked \cup {topic}) IN
    /\ phase = "idle"
    /\ spends => thinks /\ prior # 0
    /\ impresses => Len(impressions) < MaxImpressions
    /\ Len(meetings) + Cardinality(Reachable(topic)) <= MaxMeetings
    /\ impressions' =
        LET kept == IF impresses
                THEN Append(impressions, [topic |-> topic, source |-> source, at |-> now,
                                          spent |-> FALSE])
                ELSE impressions
        IN IF spends THEN [kept EXCEPT ![prior].spent = TRUE] ELSE kept
    /\ job' = [topic |-> topic, source |-> source, prior |-> prior,
               left |-> Reachable(topic)]
    /\ phase' = IF thinks THEN "meet" ELSE "meet or ask"
    /\ UNCHANGED <<inquiry, speech, now, interruptions>>

Opening == phase \in {"meet", "meet or ask"}
Done == phase' = "idle" /\ job' = None

\* question.revisited, for one after the other.
Meets ==
    /\ Opening /\ job.left # {}
    /\ LET q == Min(job.left) IN
        /\ meetings' = Append(meetings, [question |-> q, source |-> job.source,
                                         at |-> now, after |-> Len(messages)])
        /\ job' = [job EXCEPT !.left = @ \ {q}]
    /\ UNCHANGED <<impressions, questions, projects, speech, now, phase, interruptions>>

\* question.created, by an opening that left no thought.
Asks(evidence) ==
    /\ phase = "meet or ask" /\ job.left = {} /\ Len(questions) < MaxQuestions
    /\ questions' = Append(questions, [topic |-> job.topic, at |-> now,
                                       sources |-> evidence])
    /\ Done
    /\ UNCHANGED <<impressions, meetings, projects, speech, now, interruptions>>

\* The prior impression and the observation it came from have one source.
AsksOfTension == job.prior # 0 /\ Asks({impressions[job.prior].source})

\* One old memory of the mind's own.
AsksOfGap == \E memory \in Memories : job.prior = 0 /\ Asks({memory})

OpenEnds ==
    /\ Opening /\ job.left = {} /\ Done
    /\ UNCHANGED <<impressions, inquiry, speech, now, interruptions>>

(***************************************************************************)
(* Projects.                                                               *)
(***************************************************************************)
MeetingsOf(q) == {i \in DOMAIN meetings : meetings[i].question = q}

\* The bars that genesis_candidates applies to a question whose chain has these sources.
Qualifies(q, sources) ==
    /\ Cardinality(MeetingsOf(q)) >= MinRevisits
    /\ Cardinality(sources) >= MinSources
    /\ LastTouch(q) - questions[q].at >= MinSpan
    /\ questions[q].sources \cap Conversations = {}

Genesis == {q \in DOMAIN questions : Qualifies(q, questions[q].sources)}

\* A wake stores a self thought that cites a question or its evidence.
Ponders == \E q \in DOMAIN questions :
    /\ phase = "idle" /\ phase' = "check" /\ job' = [None EXCEPT !.left = {q}]
    /\ UNCHANGED <<impressions, inquiry, speech, now, interruptions>>

\* check_genesis: project.created, one for a question.  A question cited by an earlier
\* self thought counts too; here it is cited again.
Checks ==
    /\ phase = "check" /\ Done
    /\ projects' = projects \cup (Genesis \cap job.left)
    /\ UNCHANGED <<impressions, questions, meetings, speech, now, interruptions>>

(***************************************************************************)
(* The owner comes back.                                                   *)
(***************************************************************************)
Speaks ==
    /\ phase = "idle" /\ Len(messages) < MaxMessages
    /\ messages' = Append(messages, now) /\ phase' = "return"
    /\ UNCHANGED <<impressions, inquiry, absences, now, job, interruptions>>

\* The last message before m of the oldest that are listed, 0 if there is none.
Previous(m) == IF m - 1 < MessageWindow THEN m - 1 ELSE MessageWindow

\* In the gap between messages p and m: the first meeting of each question.
Met(p, m) ==
    LET gap == {i \in DOMAIN meetings : p <= meetings[i].after /\ meetings[i].after < m}
    IN {i \in gap : \A j \in gap : meetings[j].question = meetings[i].question => i <= j}

\* Mutant: whatever is dormant is told.
DormantNow(p, m) == {q \in DOMAIN questions : Dormant(q, messages[m])}

\* The questions that are dormant now and were not then.
Died(p, m) ==
    {q \in DOMAIN questions : Dormant(q, messages[m]) /\ ~Dormant(q, messages[p])}

Facts(p, m) ==
    {[class |-> "question_revisited", of |-> i] : i \in Met(p, m)} \cup
    {[class |-> "went_dormant", of |-> q] : q \in Died(p, m)}

Away == LET m == Len(messages) IN
    Previous(m) # 0 /\ messages[m] - messages[Previous(m)] >= Threshold

\* absence.detected and the candidates.  The window of 2000 events may end before the last
\* meetings, changes of other kinds take up places among the candidates, and an interruption
\* ends them early: of each class any first part may be stored.
Returns == LET m == Len(messages) IN
    /\ phase = "return" /\ Away /\ phase' = "idle"
    /\ \E stored \in SUBSET Facts(Previous(m), m) :
        /\ Cardinality(stored) <= MaxCandidates
        /\ \A f \in Facts(Previous(m), m), g \in stored :
               f.class = g.class /\ f.of < g.of => f \in stored
        /\ absences' = Append(absences, [until |-> m, facts |-> stored])
    /\ UNCHANGED <<impressions, inquiry, messages, now, job, interruptions>>

StaysOn ==
    /\ phase = "return" /\ ~Away /\ phase' = "idle"
    /\ UNCHANGED <<impressions, inquiry, speech, now, job, interruptions>>

(***************************************************************************)
(* The surroundings.                                                       *)
(***************************************************************************)
Tick ==
    /\ now < MaxTime /\ now' = now + 1
    /\ UNCHANGED <<impressions, inquiry, speech, phase, job, interruptions>>

\* The next append raises, or the process dies and is started again.
Interrupted ==
    /\ phase # "idle" /\ interruptions < MaxInterruptions
    /\ interruptions' = interruptions + 1 /\ Done
    /\ UNCHANGED <<impressions, inquiry, speech, now>>

Init ==
    /\ impressions = <<>> /\ questions = <<>> /\ meetings = <<>>
    /\ projects = {} /\ messages = <<>> /\ absences = <<>>
    /\ now = 0 /\ phase = "idle" /\ job = None /\ interruptions = 0

Next ==
    \/ \E topic \in Topics, source \in Sources : Opens(topic, source)
    \/ Meets \/ AsksOfTension \/ AsksOfGap \/ OpenEnds
    \/ Ponders \/ Checks \/ Speaks \/ Returns \/ StaysOn \/ Tick \/ Interrupted

Spec == Init /\ [][Next]_vars

(***************************************************************************)
(* Properties.                                                             *)
(***************************************************************************)
TypeOK ==
    /\ impressions \in Seq([topic : Topics, source : Sources, at : Nat, spent : BOOLEAN])
    /\ questions \in Seq([topic : Topics, at : Nat,
                          sources : SUBSET (Sources \cup Memories)])
    /\ \A q \in DOMAIN questions : questions[q].at <= now
    /\ meetings \in Seq([question : Nat, source : Sources, at : Nat, after : Nat])
    /\ \A i \in DOMAIN meetings :
        /\ meetings[i].question \in DOMAIN questions
        /\ meetings[i].at > questions[meetings[i].question].at /\ meetings[i].at <= now
        /\ meetings[i].after <= Len(messages)
    /\ projects \subseteq DOMAIN questions
    /\ messages \in Seq(Nat) /\ \A m \in DOMAIN messages : messages[m] <= now
    /\ absences \in Seq([until : Nat, facts :
                         SUBSET [class : {"question_revisited", "went_dormant"}, of : Nat]])
    /\ \A i \in DOMAIN absences : absences[i].until \in DOMAIN messages
    /\ now \in 0 .. MaxTime
    /\ phase \in {"idle", "meet", "meet or ask", "check", "return"}
    /\ job \in [topic : Topics \cup {"none"}, source : Sources \cup {"none"},
                prior : 0 .. Len(impressions), left : SUBSET DOMAIN questions]
    /\ phase = "return" => messages # <<>>
    /\ Opening =>
        /\ job.topic \in Topics /\ job.source \in Sources
        /\ \A q \in job.left : questions[q].topic = job.topic /\ questions[q].at < now
    /\ interruptions \in 0 .. MaxInterruptions

\* No two absences tell the owner of the same thing, neither of the same meeting with a
\* question nor of the same question's going dormant, as long as the messages are no
\* more than the search for the previous one lists.
ToldOnce ==
    \A i, j \in DOMAIN absences :
        i < j /\ absences[j].until - 1 <= MessageWindow
            => absences[i].facts \cap absences[j].facts = {}

\* ADR-0011: the window cannot resurrect a dormant question.  One whose going dormant
\* the owner was told of is never met again, though its state is derived anew each time
\* and the meetings are stored later than it was derived.
ToldStaysDead ==
    \A i \in DOMAIN absences : \A f \in absences[i].facts :
        f.class = "went_dormant" =>
            \A j \in DOMAIN meetings :
                meetings[j].question = f.of => meetings[j].after < absences[i].until

\* private_projects.py: a question met again in independent experiences, with "evidence +
\* revisits spanning >=2 distinct sources and >=7 days", that a self thought cites.
Documented(q) ==
    Qualifies(q, questions[q].sources \cup {meetings[i].source : i \in MeetingsOf(q)})

\* Such a question has its project once the self thought is stored.
GenesisFound ==
    [][(phase = "check" /\ interruptions' = interruptions /\ Done)
        => \A q \in job.left : Documented(q) => q \in projects']_vars

================================================================================
