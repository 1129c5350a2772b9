----------------------------- MODULE QuestionsProofs -----------------------------
(***************************************************************************)
(* Theorems about Questions, for all windows, spans and bounds.            *)
(***************************************************************************)
EXTENDS Questions, ExtremaTheorems, SequenceTheorems, TLAPS

(***************************************************************************)
(* Type correctness.                                                       *)
(***************************************************************************)
Impression == [topic : Topics, source : Sources, at : Nat, spent : BOOLEAN]
Question == [topic : Topics, at : Nat, sources : SUBSET (Sources \cup Memories)]
Meeting == [question : Nat, source : Sources, at : Nat, after : Nat]
Fact == [class : {"question_revisited", "went_dormant"}, of : Nat]
Absence == [until : Nat, facts : SUBSET Fact]
Job == [topic : Topics \cup {"none"}, source : Sources \cup {"none"}, prior : Nat,
        left : SUBSET Nat]

MaterialOK == impressions \in Seq(Impression) /\ now \in 0 .. MaxTime

QuestionsOK ==
    /\ questions \in Seq(Question)
    /\ \A q \in DOMAIN questions : questions[q].at <= now
    /\ projects \subseteq DOMAIN questions

MeetingsOK ==
    /\ meetings \in Seq(Meeting)
    /\ \A i \in DOMAIN meetings :
        /\ meetings[i].question \in DOMAIN questions
        /\ meetings[i].at > questions[meetings[i].question].at /\ meetings[i].at <= now
        /\ meetings[i].after <= Len(messages)

SpeechOK ==
    /\ messages \in Seq(Nat) /\ \A m \in DOMAIN messages : messages[m] <= now
    /\ absences \in Seq(Absence)
    /\ \A i \in DOMAIN absences : absences[i].until \in DOMAIN messages
    /\ phase = "return" => messages # <<>>

JobOK ==
    /\ job \in Job
    /\ job.prior <= Len(impressions) /\ job.left \subseteq DOMAIN questions
    /\ Opening =>
        /\ job.topic \in Topics /\ job.source \in Sources
        /\ \A q \in job.left : questions[q].topic = job.topic /\ questions[q].at < now

ControlOK ==
    /\ phase \in {"idle", "meet", "meet or ask", "check", "return"}
    /\ interruptions \in 0 .. MaxInterruptions

LEMMA TypeParts ==
    TypeOK <=> MaterialOK /\ QuestionsOK /\ MeetingsOK /\ SpeechOK /\ JobOK /\ ControlOK
<1>1. \A s : s \in Seq(Impression) => Len(s) \in Nat
  BY LenProperties
<1>2. \A s : s \in Seq(Question) => DOMAIN s \subseteq Nat
  BY LenProperties
<1>3. (impressions \in Seq(Impression) /\ questions \in Seq(Question)) =>
        ( job \in [topic : Topics \cup {"none"}, source : Sources \cup {"none"},
                   prior : 0 .. Len(impressions), left : SUBSET DOMAIN questions]
          <=> job \in Job /\ job.prior <= Len(impressions)
                /\ job.left \subseteq DOMAIN questions )
  BY <1>1, <1>2 DEF Job
<1>. QED
  BY <1>3 DEF TypeOK, MaterialOK, QuestionsOK, MeetingsOK, SpeechOK, JobOK, ControlOK,
              Impression, Question, Meeting, Fact, Absence

LEMMA Constants ==
    /\ DormantAfter \in Nat /\ MaxTime \in Nat /\ MaxInterruptions \in Nat
    /\ MessageWindow \in Nat \ {0} /\ MaxQuestions \in Nat /\ Threshold \in Nat
  BY QuestionsAssumption

LEMMA PriorFound ==
    ASSUME MaterialOK, NEW topics
    PROVE  Prior(topics) \in {0} \cup DOMAIN impressions
<1> DEFINE connected == {i \in DOMAIN impressions :
                /\ ~impressions[i].spent /\ impressions[i].at < now
                /\ impressions[i].topic \in topics}
<1>1. connected \in SUBSET Nat
  BY LenProperties DEF MaterialOK
<1>2. connected # {} => Min(connected) \in connected
  BY <1>1, MinFacts
<1>. QED
  BY <1>2 DEF Prior

\* The opening: it may append an impression and spend one.
LEMMA ImpressionsKept ==
    ASSUME MaterialOK, NEW i \in Impression, NEW prior, NEW kept,
           kept \in {impressions, Append(impressions, i)}
    PROVE  /\ kept \in Seq(Impression) /\ Len(kept) >= Len(impressions)
           /\ prior \in DOMAIN impressions =>
                /\ [kept EXCEPT ![prior].spent = TRUE] \in Seq(Impression)
                /\ Len([kept EXCEPT ![prior].spent = TRUE]) >= Len(impressions)
<1>1. /\ impressions \in Seq(Impression) /\ Len(impressions) \in Nat
      /\ DOMAIN impressions = 1 .. Len(impressions)
  BY LenProperties DEF MaterialOK
<1>2. /\ kept \in Seq(Impression) /\ Len(kept) \in Nat /\ Len(kept) >= Len(impressions)
  BY <1>1, AppendProperties, LenProperties
<1>3. ASSUME prior \in DOMAIN impressions
      PROVE  /\ [kept EXCEPT ![prior].spent = TRUE] \in Seq(Impression)
             /\ Len([kept EXCEPT ![prior].spent = TRUE]) >= Len(impressions)
  <2> DEFINE spent == [kept[prior] EXCEPT !.spent = TRUE]
  <2>1. prior \in 1 .. Len(kept)
    BY <1>1, <1>2, <1>3
  <2>2. kept[prior] \in Impression
    BY <1>2, <2>1, ElementOfSeq
  <2>3. spent \in Impression
    BY <2>2 DEF Impression
  <2>4. [kept EXCEPT ![prior].spent = TRUE] = [kept EXCEPT ![prior] = spent]
    OBVIOUS
  <2>5. [kept EXCEPT ![prior] = spent] \in Seq(Impression)
        /\ Len([kept EXCEPT ![prior] = spent]) = Len(kept)
    <3> HIDE DEF spent
    <3>. QED
      BY <1>2, <2>1, <2>3, ExceptSeq
  <2>. QED
    BY <1>2, <2>4, <2>5
<1>. QED
  BY <1>2, <1>3

\* What a step leaves alone stays well typed.
LEMMA QuestionsUnchanged ==
    ASSUME QuestionsOK, MaterialOK, MaterialOK', UNCHANGED <<questions, projects>>,
           now <= now'
    PROVE  QuestionsOK'
<1>. QuestionsOK /\ now \in Nat /\ now' \in Nat
  BY Constants DEF MaterialOK
<1>1. ASSUME NEW q \in DOMAIN questions PROVE questions[q].at <= now'
  <2>1. questions[q] \in Question
    BY ElementOfSeq, LenProperties DEF QuestionsOK
  <2>. QED
    BY <2>1 DEF QuestionsOK, Question
<1>. QED
  BY <1>1 DEF QuestionsOK

LEMMA MeetingsUnchanged ==
    ASSUME MeetingsOK, SpeechOK, SpeechOK', MaterialOK, MaterialOK',
           UNCHANGED <<questions, meetings>>, now <= now', Len(messages) <= Len(messages')
    PROVE  MeetingsOK'
<1>. now \in Nat /\ now' \in Nat /\ Len(messages) \in Nat /\ Len(messages') \in Nat
  BY Constants, LenProperties DEF MaterialOK, SpeechOK
<1>1. ASSUME NEW i \in DOMAIN meetings
      PROVE  meetings[i].at <= now' /\ meetings[i].after <= Len(messages')
  <2>1. meetings[i] \in Meeting
    BY ElementOfSeq, LenProperties DEF MeetingsOK
  <2>. QED
    BY <2>1 DEF MeetingsOK, Meeting
<1>. QED
  BY <1>1 DEF MeetingsOK

LEMMA SpeechUnchanged ==
    ASSUME SpeechOK, MaterialOK, MaterialOK', UNCHANGED speech, now <= now',
           phase' = "return" => phase = "return"
    PROVE  SpeechOK'
<1>. now \in Nat /\ now' \in Nat
  BY Constants DEF MaterialOK
<1>1. ASSUME NEW m \in DOMAIN messages PROVE messages[m] <= now'
  <2>1. messages[m] \in Nat
    BY ElementOfSeq, LenProperties DEF SpeechOK
  <2>. QED
    BY <2>1 DEF SpeechOK
<1>. QED
  BY <1>1 DEF SpeechOK, speech

\* A new question comes after those that are there.
LEMMA QuestionAdded ==
    ASSUME QuestionsOK, MaterialOK, NEW q \in Question, q.at = now,
           questions' = Append(questions, q), UNCHANGED <<projects, now>>
    PROVE  /\ QuestionsOK'
           /\ DOMAIN questions \subseteq DOMAIN questions'
           /\ \A i \in DOMAIN questions : questions'[i] = questions[i]
<1>1. /\ questions \in Seq(Question) /\ Len(questions) \in Nat
      /\ DOMAIN questions = 1 .. Len(questions)
  BY LenProperties DEF QuestionsOK
<1>2. /\ questions' \in Seq(Question) /\ Len(questions') = Len(questions) + 1
      /\ \A i \in 1 .. Len(questions) : questions'[i] = questions[i]
      /\ questions'[Len(questions) + 1] = q
  BY <1>1, AppendProperties
<1>3. DOMAIN questions' = 1 .. Len(questions) + 1
  BY <1>2, LenProperties
<1>4. ASSUME NEW i \in DOMAIN questions' PROVE questions'[i].at <= now'
  <2>1. now \in Nat
    BY Constants DEF MaterialOK
  <2>2. CASE i = Len(questions) + 1
    BY <1>2, <2>1, <2>2
  <2>3. CASE i \in 1 .. Len(questions)
    BY <1>1, <1>2, <2>3 DEF QuestionsOK
  <2>. QED
    BY <1>1, <1>3, <2>2, <2>3
<1>. QED
  BY <1>1, <1>2, <1>3, <1>4 DEF QuestionsOK

\* A meeting is with a question asked before.
LEMMA MeetingAdded ==
    ASSUME MeetingsOK, MaterialOK, SpeechOK, QuestionsOK,
           NEW q \in DOMAIN questions, questions[q].at < now, NEW source \in Sources,
           meetings' = Append(meetings, [question |-> q, source |-> source, at |-> now,
                                         after |-> Len(messages)]),
           UNCHANGED <<questions, messages, now>>
    PROVE  /\ MeetingsOK'
           /\ DOMAIN meetings' = DOMAIN meetings \cup {Len(meetings) + 1}
           /\ Len(meetings) + 1 \notin DOMAIN meetings
           /\ \A i \in DOMAIN meetings : meetings'[i] = meetings[i]
           /\ meetings'[Len(meetings) + 1].question = q
           /\ meetings'[Len(meetings) + 1].after = Len(messages)
<1> DEFINE new == [question |-> q, source |-> source, at |-> now, after |-> Len(messages)]
<1>1. q \in Nat /\ now \in Nat /\ Len(messages) \in Nat
  BY LenProperties, Constants DEF QuestionsOK, MaterialOK, SpeechOK
<1>2. new \in Meeting
  BY <1>1 DEF Meeting
<1>3. /\ meetings \in Seq(Meeting) /\ Len(meetings) \in Nat
      /\ DOMAIN meetings = 1 .. Len(meetings)
  BY LenProperties DEF MeetingsOK
<1>4. /\ meetings' \in Seq(Meeting) /\ Len(meetings') = Len(meetings) + 1
      /\ \A i \in 1 .. Len(meetings) : meetings'[i] = meetings[i]
      /\ meetings'[Len(meetings) + 1] = new
  <2> HIDE DEF new
  <2>1. meetings' = Append(meetings, new)
    BY DEF new
  <2>. QED
    BY <1>2, <1>3, <2>1, AppendProperties
<1>5. DOMAIN meetings' = 1 .. Len(meetings) + 1
  BY <1>4, LenProperties
<1>6. ASSUME NEW i \in DOMAIN meetings'
      PROVE  /\ meetings'[i].question \in DOMAIN questions'
             /\ meetings'[i].at > questions'[meetings'[i].question].at
             /\ meetings'[i].at <= now' /\ meetings'[i].after <= Len(messages')
  <2>1. CASE i = Len(meetings) + 1
    <3>1. questions[q] \in Question
      BY ElementOfSeq, LenProperties DEF QuestionsOK
    <3>. QED
      BY <1>1, <1>4, <2>1, <3>1 DEF Question
  <2>2. CASE i \in 1 .. Len(meetings)
    BY <1>3, <1>4, <2>2 DEF MeetingsOK
  <2>. QED
    BY <1>3, <1>5, <2>1, <2>2
<1>. QED
  BY <1>3, <1>4, <1>5, <1>6 DEF MeetingsOK

LEMMA NoneIsJob == None \in Job /\ None.left = {} /\ None.prior = 0
  BY DEF None, Job

LEMMA TypeInit == Init => TypeOK
<1> SUFFICES ASSUME Init
             PROVE  MaterialOK /\ QuestionsOK /\ MeetingsOK /\ SpeechOK /\ JobOK /\ ControlOK
  BY TypeParts
<1>. QED
  BY NoneIsJob, Constants, EmptySeq
     DEF Init, MaterialOK, QuestionsOK, MeetingsOK, SpeechOK, JobOK, ControlOK, Opening

\* The loop gives up what it worked at.
LEMMA JobDone ==
    ASSUME JobOK, MaterialOK, Done, Len(impressions) <= Len(impressions')
    PROVE  JobOK'
<1>1. Len(impressions) \in Nat
  BY LenProperties DEF MaterialOK
<1>2. ~Opening'
  BY DEF Done, Opening
<1>3. 0 <= Len(impressions') /\ job' = None
  <2>1. Len(impressions') \in Nat \/ Len(impressions') \notin Nat
    OBVIOUS
  <2>. QED
    BY <1>1 DEF Done
<1>. QED
  BY <1>2, <1>3, NoneIsJob DEF JobOK

LEMMA JobUnchanged ==
    ASSUME JobOK, QuestionsOK, MaterialOK, MaterialOK', Opening' => Opening, UNCHANGED job,
           now <= now', UNCHANGED <<questions, impressions>>
    PROVE  JobOK'
<1>. now \in Nat /\ now' \in Nat
  BY Constants DEF MaterialOK
<1>1. ASSUME Opening', NEW q \in job.left PROVE questions[q].at < now'
  <2>1. questions[q] \in Question
    BY ElementOfSeq, LenProperties DEF QuestionsOK, JobOK
  <2>. QED
    BY <1>1, <2>1 DEF JobOK, Question
<1>. QED
  BY <1>1 DEF JobOK

LEMMA TypeInductive == TypeOK /\ [Next]_vars => TypeOK'
<1> SUFFICES ASSUME MaterialOK, QuestionsOK, MeetingsOK, SpeechOK, JobOK, ControlOK,
                    [Next]_vars
             PROVE  MaterialOK' /\ QuestionsOK' /\ MeetingsOK' /\ SpeechOK' /\ JobOK'
                    /\ ControlOK'
  BY TypeParts, PTL
<1>a. /\ now \in Nat /\ now <= now /\ Len(messages) \in Nat /\ Len(impressions) \in Nat
      /\ Len(messages) <= Len(messages) /\ Len(impressions) <= Len(impressions)
  BY LenProperties, Constants DEF MaterialOK, SpeechOK
<1> USE DEF inquiry
<1>1. ASSUME NEW topic \in Topics, NEW source \in Sources, Opens(topic, source)
      PROVE  MaterialOK' /\ QuestionsOK' /\ MeetingsOK' /\ SpeechOK' /\ JobOK' /\ ControlOK'
  <2>1. PICK linked \in SUBSET Topics, impresses \in BOOLEAN, thinks \in BOOLEAN,
             spends \in BOOLEAN :
        LET prior == Prior(linked \cup {topic})
            seen == [topic |-> topic, source |-> source, at |-> now, spent |-> FALSE]
            kept == IF impresses THEN Append(impressions, seen) ELSE impressions IN
        /\ phase = "idle" /\ (spends => thinks /\ prior # 0)
        /\ impressions' = IF spends THEN [kept EXCEPT ![prior].spent = TRUE] ELSE kept
        /\ job' = [topic |-> topic, source |-> source, prior |-> prior,
                   left |-> Reachable(topic)]
        /\ phase' = IF thinks THEN "meet" ELSE "meet or ask"
        /\ UNCHANGED <<inquiry, speech, now, interruptions>>
    BY <1>1 DEF Opens
  <2> DEFINE prior == Prior(linked \cup {topic})
             seen == [topic |-> topic, source |-> source, at |-> now, spent |-> FALSE]
             kept == IF impresses THEN Append(impressions, seen) ELSE impressions
  <2>2. prior \in {0} \cup DOMAIN impressions
    BY PriorFound
  <2>3. seen \in Impression
    BY <1>a DEF Impression
  <2>4. impressions' \in Seq(Impression) /\ Len(impressions') >= Len(impressions)
    <3>1. kept \in {impressions, Append(impressions, seen)}
      OBVIOUS
    <3>2. impressions' = IF spends THEN [kept EXCEPT ![prior].spent = TRUE] ELSE kept
      BY <2>1
    <3>3. spends => prior \in DOMAIN impressions
      BY <2>1, <2>2
    <3> HIDE DEF kept, seen, prior
    <3>. QED
      BY <2>3, <3>1, <3>2, <3>3, ImpressionsKept
  <2>5. MaterialOK'
    BY <2>1, <2>4 DEF MaterialOK
  <2>6. prior \in Nat /\ prior <= Len(impressions')
    <3>1. Len(impressions') \in Nat
      BY <2>4, LenProperties
    <3>2. DOMAIN impressions = 1 .. Len(impressions)
      BY LenProperties DEF MaterialOK
    <3> HIDE DEF prior
    <3>. QED
      BY <1>a, <2>2, <2>4, <3>1, <3>2
  <2>7. Reachable(topic) \subseteq DOMAIN questions /\ DOMAIN questions \subseteq Nat
    BY LenProperties DEF Reachable, QuestionsOK
  <2>8. JobOK'
    <3>1. job' = [topic |-> topic, source |-> source, prior |-> prior,
                  left |-> Reachable(topic)]
      BY <2>1
    <3>2. job' \in Job
      <4> HIDE DEF prior
      <4>. QED
        BY <2>6, <2>7, <3>1 DEF Job
    <3>3. UNCHANGED <<questions, now>>
      BY <2>1
    <3>4. \A q \in job'.left : questions'[q].topic = job'.topic /\ questions'[q].at < now'
      <4>1. job'.left = Reachable(topic) /\ job'.topic = topic
        <5> HIDE DEF prior
        <5>. QED
          BY <3>1
      <4>. QED
        BY <3>3, <4>1 DEF Reachable
    <3> HIDE DEF prior
    <3>. QED
      BY <2>6, <2>7, <3>1, <3>2, <3>3, <3>4 DEF JobOK
  <2>9. SpeechOK' /\ QuestionsOK' /\ MeetingsOK'
    BY <1>a, <2>1, <2>5, SpeechUnchanged, QuestionsUnchanged, MeetingsUnchanged DEF speech
  <2>10. ControlOK'
    BY <2>1 DEF ControlOK
  <2>. QED
    BY <2>5, <2>8, <2>9, <2>10
<1>2. CASE Meets
  <2> DEFINE q == Min(job.left)
  <2>1. job.left \in SUBSET Nat /\ job.left # {}
    BY <1>2, LenProperties DEF Meets, JobOK, QuestionsOK
  <2>2. q \in job.left
    BY <2>1, MinFacts
  <2>3. q \in DOMAIN questions /\ questions[q].at < now /\ job.source \in Sources
    <3> HIDE DEF q
    <3>. QED
      BY <1>2, <2>2 DEF Meets, JobOK
  <2>4. /\ meetings' = Append(meetings, [question |-> q, source |-> job.source, at |-> now,
                                         after |-> Len(messages)])
        /\ job' = [job EXCEPT !.left = @ \ {q}] /\ Opening
        /\ UNCHANGED <<impressions, questions, projects, speech, now, phase, interruptions>>
    BY <1>2 DEF Meets
  <2> HIDE DEF q
  <2>5. MeetingsOK'
    BY <2>3, <2>4, MeetingAdded DEF speech
  <2>6. JobOK'
    <3>1. job' \in Job /\ job'.left \subseteq job.left /\ job'.prior = job.prior
          /\ job'.topic = job.topic /\ job'.source = job.source
      BY <2>4 DEF JobOK, Job
    <3>. QED
      BY <2>4, <3>1 DEF JobOK
  <2>7. MaterialOK' /\ ControlOK'
    BY <2>4 DEF MaterialOK, ControlOK
  <2>8. QuestionsOK' /\ SpeechOK'
    BY <1>a, <2>4, <2>7, QuestionsUnchanged, SpeechUnchanged
  <2>. QED
    BY <2>5, <2>6, <2>7, <2>8
<1>3. ASSUME NEW evidence \in SUBSET (Sources \cup Memories), Asks(evidence)
      PROVE  MaterialOK' /\ QuestionsOK' /\ MeetingsOK' /\ SpeechOK' /\ JobOK' /\ ControlOK'
  <2> DEFINE new == [topic |-> job.topic, at |-> now, sources |-> evidence]
  <2>1. new \in Question
    BY <1>3, <1>a DEF Asks, JobOK, Opening, Question
  <2>2. /\ questions' = Append(questions, new) /\ Done
        /\ UNCHANGED <<impressions, meetings, projects, speech, now, interruptions>>
    BY <1>3 DEF Asks
  <2>3. /\ QuestionsOK' /\ DOMAIN questions \subseteq DOMAIN questions'
        /\ \A i \in DOMAIN questions : questions'[i] = questions[i]
    <3>1. new.at = now
      OBVIOUS
    <3> HIDE DEF new
    <3>. QED
      BY <2>1, <2>2, <3>1, QuestionAdded
  <2>4. MeetingsOK'
    BY <2>2, <2>3 DEF MeetingsOK, speech
  <2>5. MaterialOK' /\ ControlOK'
    BY <2>2 DEF MaterialOK, ControlOK, Done
  <2>6. SpeechOK'
    BY <1>a, <2>2, <2>5, SpeechUnchanged DEF Done
  <2>7. JobOK'
    BY <1>a, <2>2, JobDone
  <2>. QED
    BY <2>3, <2>4, <2>5, <2>6, <2>7
<1>4. CASE AsksOfTension
  <2>1. job.prior \in 1 .. Len(impressions)
    BY <1>4, <1>a DEF AsksOfTension, JobOK, Job
  <2>2. impressions[job.prior] \in Impression
    BY <2>1, ElementOfSeq DEF MaterialOK
  <2>3. {impressions[job.prior].source} \in SUBSET (Sources \cup Memories)
    BY <2>2 DEF Impression
  <2>. QED
    BY <1>3, <1>4, <2>3 DEF AsksOfTension
<1>5. CASE AsksOfGap
  BY <1>3, <1>5 DEF AsksOfGap
<1>6. CASE OpenEnds \/ Checks \/ Interrupted
  <2>1. /\ Done
        /\ UNCHANGED <<impressions, questions, meetings, speech, now>>
        /\ projects' \subseteq DOMAIN questions
    BY <1>6 DEF OpenEnds, Checks, Interrupted, Genesis, QuestionsOK
  <2>2. MaterialOK' /\ QuestionsOK' /\ MeetingsOK'
    BY <2>1 DEF MaterialOK, QuestionsOK, MeetingsOK, speech
  <2>3. SpeechOK'
    BY <1>a, <2>1, <2>2, SpeechUnchanged DEF Done
  <2>4. ControlOK'
    <3>1. phase' = "idle"
      BY <2>1 DEF Done
    <3>2. CASE Interrupted
      <4>1. interruptions < MaxInterruptions /\ interruptions' = interruptions + 1
        BY <3>2 DEF Interrupted
      <4>2. interruptions \in 0 .. MaxInterruptions
        BY DEF ControlOK
      <4>3. interruptions' \in 0 .. MaxInterruptions
        BY <4>1, <4>2, Constants
      <4>. QED
        BY <3>1, <4>3 DEF ControlOK
    <3>. QED
      BY <1>6, <3>1, <3>2 DEF OpenEnds, Checks, ControlOK
  <2>. QED
    BY <1>a, <2>1, <2>2, <2>3, <2>4, JobDone
<1>7. CASE Ponders
  <2>1. PICK q \in DOMAIN questions :
            /\ phase' = "check" /\ job' = [None EXCEPT !.left = {q}]
            /\ UNCHANGED <<impressions, inquiry, speech, now, interruptions>>
    BY <1>7 DEF Ponders
  <2>2. MaterialOK' /\ ControlOK'
    BY <2>1 DEF MaterialOK, ControlOK
  <2>3. QuestionsOK' /\ MeetingsOK' /\ SpeechOK'
    BY <1>a, <2>1, <2>2, QuestionsUnchanged, MeetingsUnchanged, SpeechUnchanged DEF speech
  <2>4. JobOK'
    <3>1. q \in Nat
      BY LenProperties DEF QuestionsOK
    <3>2. job' \in Job /\ job'.left = {q} /\ job'.prior = 0
      BY <2>1, <3>1 DEF None, Job
    <3>3. ~Opening'
      BY <2>1 DEF Opening
    <3>4. job'.prior <= Len(impressions') /\ job'.left \subseteq DOMAIN questions'
      BY <1>a, <2>1, <3>2
    <3>. QED
      BY <3>2, <3>3, <3>4 DEF JobOK
  <2>. QED
    BY <2>2, <2>3, <2>4
<1>8. CASE Speaks
  <2>1. /\ messages' = Append(messages, now) /\ phase' = "return"
        /\ UNCHANGED <<impressions, inquiry, absences, now, job, interruptions>>
    BY <1>8 DEF Speaks
  <2>2. MaterialOK' /\ ControlOK'
    BY <2>1 DEF MaterialOK, ControlOK
  <2>3. /\ messages \in Seq(Nat) /\ messages' \in Seq(Nat)
        /\ Len(messages') = Len(messages) + 1
        /\ DOMAIN messages = 1 .. Len(messages) /\ DOMAIN messages' = 1 .. Len(messages) + 1
        /\ \A m \in 1 .. Len(messages) : messages'[m] = messages[m]
        /\ messages'[Len(messages) + 1] = now
    BY <1>a, <2>1, AppendProperties, LenProperties DEF SpeechOK
  <2>4. SpeechOK'
    <3>1. ASSUME NEW m \in DOMAIN messages' PROVE messages'[m] <= now'
      <4>1. CASE m \in 1 .. Len(messages)
        BY <2>1, <2>3, <4>1 DEF SpeechOK
      <4>. QED
        BY <1>a, <2>1, <2>3, <4>1
    <3>2. DOMAIN messages \subseteq DOMAIN messages' /\ messages' # <<>>
      BY <1>a, <2>3
    <3>. QED
      BY <2>1, <2>3, <3>1, <3>2 DEF SpeechOK
  <2>5. QuestionsOK' /\ MeetingsOK'
    BY <1>a, <2>1, <2>2, <2>3, <2>4, QuestionsUnchanged, MeetingsUnchanged
  <2>6. JobOK'
    BY <2>1 DEF JobOK, Opening
  <2>. QED
    BY <2>2, <2>4, <2>5, <2>6
<1>9. CASE Returns
  <2> DEFINE m == Len(messages)
  <2>1. PICK stored \in SUBSET Facts(Previous(m), m) :
            absences' = Append(absences, [until |-> m, facts |-> stored])
    BY <1>9 DEF Returns
  <2>2. /\ phase = "return" /\ phase' = "idle"
        /\ UNCHANGED <<impressions, inquiry, messages, now, job, interruptions>>
    BY <1>9 DEF Returns
  <2>3. Facts(Previous(m), m) \subseteq Fact
    BY LenProperties DEF Facts, Fact, Met, Died, QuestionsOK, MeetingsOK
  <2>4. [until |-> m, facts |-> stored] \in Absence
    BY <1>a, <2>3 DEF Absence
  <2>5. m \in DOMAIN messages
    BY <1>a, <2>2, EmptySeq, LenProperties DEF SpeechOK
  <2>6. SpeechOK'
    <3> DEFINE new == [until |-> m, facts |-> stored]
    <3>1. /\ absences \in Seq(Absence) /\ Len(absences) \in Nat
          /\ DOMAIN absences = 1 .. Len(absences)
      BY LenProperties DEF SpeechOK
    <3>2. /\ absences' \in Seq(Absence) /\ Len(absences') = Len(absences) + 1
          /\ \A i \in 1 .. Len(absences) : absences'[i] = absences[i]
          /\ absences'[Len(absences) + 1] = new
      <4> HIDE DEF m, new
      <4>1. absences' = Append(absences, new)
        BY <2>1 DEF new
      <4>2. new \in Absence
        BY <2>4 DEF new
      <4>. QED
        BY <3>1, <4>1, <4>2, AppendProperties
    <3>3. DOMAIN absences' = 1 .. Len(absences) + 1
      BY <3>1, <3>2, LenProperties
    <3>4. ASSUME NEW i \in DOMAIN absences' PROVE absences'[i].until \in DOMAIN messages'
      <4>1. CASE i = Len(absences) + 1
        BY <2>2, <2>5, <3>2, <4>1
      <4>2. CASE i \in 1 .. Len(absences)
        BY <2>2, <3>1, <3>2, <4>2 DEF SpeechOK
      <4>. QED
        BY <3>1, <3>3, <4>1, <4>2
    <3>. QED
      BY <2>2, <3>2, <3>4 DEF SpeechOK
  <2>7. MaterialOK' /\ QuestionsOK' /\ MeetingsOK' /\ ControlOK' /\ JobOK'
    BY <2>2 DEF MaterialOK, QuestionsOK, MeetingsOK, ControlOK, JobOK, Opening
  <2>. QED
    BY <2>6, <2>7
<1>10. CASE StaysOn
  BY <1>10 DEF StaysOn, MaterialOK, QuestionsOK, MeetingsOK, SpeechOK, JobOK, ControlOK,
               Opening, speech
<1>11. CASE Tick
  <2>1. /\ now' = now + 1 /\ now < MaxTime
        /\ UNCHANGED <<impressions, inquiry, speech, phase, job, interruptions>>
    BY <1>11 DEF Tick
  <2>2. MaterialOK' /\ now <= now'
    BY <1>a, <2>1, Constants DEF MaterialOK
  <2>3. ControlOK' /\ SpeechOK'
    BY <2>1, <2>2, SpeechUnchanged DEF ControlOK
  <2>4. QuestionsOK' /\ MeetingsOK' /\ JobOK'
    BY <1>a, <2>1, <2>2, <2>3, QuestionsUnchanged, MeetingsUnchanged, JobUnchanged
       DEF Opening, speech
  <2>. QED
    BY <2>2, <2>3, <2>4
<1>12. CASE UNCHANGED vars
  BY <1>12 DEF vars, MaterialOK, QuestionsOK, MeetingsOK, SpeechOK, JobOK, ControlOK, Opening
<1>. QED
  BY <1>1, <1>2, <1>4, <1>5, <1>6, <1>7, <1>8, <1>9, <1>10, <1>11, <1>12 DEF Next

\* Every reachable state is well typed: no meeting with a question that is not older, no
\* absence that a message does not end, whatever the bounds.
THEOREM TypeCorrect == Spec => []TypeOK
  BY TypeInit, TypeInductive, PTL DEF Spec

(***************************************************************************)
(* What the owner is told.                                                 *)
(***************************************************************************)
LEMMA LastTouchNat ==
    ASSUME QuestionsOK, MeetingsOK, MaterialOK, NEW q \in DOMAIN questions
    PROVE  LastTouch(q) \in Nat
<1> DEFINE met == {j \in DOMAIN meetings : meetings[j].question = q}
           times == {questions[q].at} \cup {meetings[i].at : i \in met}
<1>1. questions[q] \in Question
  BY ElementOfSeq, LenProperties DEF QuestionsOK
<1>2. \A i \in DOMAIN meetings : meetings[i] \in Meeting
  BY ElementOfSeq, LenProperties DEF MeetingsOK
<1>3. times \in SUBSET Nat /\ times # {}
  BY <1>1, <1>2 DEF Question, Meeting
<1>4. \A t \in times : t <= now
  BY <1>1, <1>2 DEF QuestionsOK, MeetingsOK
<1>5. now \in Nat
  BY Constants DEF MaterialOK
<1>6. Max(times) \in times
  <2> HIDE DEF times
  <2>. QED
    BY <1>3, <1>4, <1>5, MaxFacts
<1>7. LastTouch(q) = Max(times)
  BY DEF LastTouch
<1>. QED
  BY <1>3, <1>6, <1>7

\* A meeting with another question leaves q's last touch, and so does a step that stores
\* no meeting.
LEMMA LastTouchKept ==
    ASSUME NEW q, questions'[q] = questions[q],
           DOMAIN meetings \subseteq DOMAIN meetings',
           \A i \in DOMAIN meetings : meetings'[i] = meetings[i],
           \A i \in DOMAIN meetings' \ DOMAIN meetings : meetings'[i].question # q
    PROVE  LastTouch(q)' = LastTouch(q)
<1>1. {j \in DOMAIN meetings' : meetings'[j].question = q}
        = {j \in DOMAIN meetings : meetings[j].question = q}
  OBVIOUS
<1>2. {meetings'[i].at : i \in {j \in DOMAIN meetings' : meetings'[j].question = q}}
        = {meetings[i].at : i \in {j \in DOMAIN meetings : meetings[j].question = q}}
  BY <1>1
<1>. QED
  BY <1>2 DEF LastTouch

\* The messages are in the order of the clock, and so are the absences.
InOrder ==
    /\ \A m, n \in DOMAIN messages : m <= n => messages[m] <= messages[n]
    /\ \A i, j \in DOMAIN absences : i < j => absences[i].until < absences[j].until
    /\ phase = "return" =>
        /\ \A i \in DOMAIN absences : absences[i].until < Len(messages)
        /\ \A i \in DOMAIN meetings : meetings[i].after < Len(messages)

\* A meeting that is told of was before the message, a question told dead is as dead now.
MeetingTold(i, u) == i \in DOMAIN meetings /\ meetings[i].after < u
DeathTold(q, u) ==
    /\ q \in DOMAIN questions /\ Dormant(q, messages[u])
    /\ \A j \in DOMAIN meetings : meetings[j].question = q => meetings[j].after < u
    /\ Opening => q \notin job.left
Told ==
    \A i \in DOMAIN absences : \A f \in absences[i].facts :
        IF f.class = "question_revisited" THEN MeetingTold(f.of, absences[i].until)
        ELSE DeathTold(f.of, absences[i].until)

TellingInv == TypeOK /\ InOrder /\ Told /\ ToldOnce

\* What is dormant at a message is dormant now.
LEMMA StaysDormant ==
    ASSUME TypeOK, NEW q \in DOMAIN questions, NEW t \in Nat, NEW u \in Nat, t <= u,
           Dormant(q, t)
    PROVE  Dormant(q, u)
<1>1. LastTouch(q) \in Nat
  BY TypeParts, LastTouchNat
<1>. QED
  BY <1>1, Constants DEF Dormant

\* A step that stores neither an absence nor a message and meets no question told dead
\* keeps what was told true.
LEMMA ToldKept ==
    ASSUME TypeOK, Told,
           UNCHANGED <<messages, absences>>,
           DOMAIN questions \subseteq DOMAIN questions',
           \A q \in DOMAIN questions : questions'[q] = questions[q],
           DOMAIN meetings \subseteq DOMAIN meetings',
           \A i \in DOMAIN meetings : meetings'[i] = meetings[i],
           \A i \in DOMAIN absences : \A f \in absences[i].facts :
              f.class = "went_dormant" =>
                 /\ Opening' => f.of \notin job'.left
                 /\ \A j \in DOMAIN meetings' \ DOMAIN meetings :
                        meetings'[j].question # f.of
    PROVE  Told'
<1> SUFFICES ASSUME NEW i \in DOMAIN absences, NEW f \in absences[i].facts
             PROVE  IF f.class = "question_revisited" THEN MeetingTold(f.of, absences[i].until)'
                    ELSE DeathTold(f.of, absences[i].until)'
  BY DEF Told
<1>1. CASE f.class = "question_revisited"
  BY <1>1 DEF Told, MeetingTold
<1>2. CASE f.class # "question_revisited"
  <2>1. absences[i] \in Absence
    BY TypeParts, ElementOfSeq, LenProperties DEF SpeechOK
  <2>2. f.class = "went_dormant"
    BY <1>2, <2>1 DEF Absence, Fact
  <2>3. DeathTold(f.of, absences[i].until)
    BY <1>2 DEF Told
  <2>4. LastTouch(f.of)' = LastTouch(f.of)
    BY <2>2, <2>3, LastTouchKept DEF DeathTold
  <2>5. Dormant(f.of, messages[absences[i].until])'
    BY <2>3, <2>4 DEF DeathTold, Dormant
  <2>. QED
    BY <1>2, <2>2, <2>3, <2>5 DEF DeathTold
<1>. QED
  BY <1>1, <1>2

\* Steps that store no absence, no message and no meeting, and open nothing.
LEMMA QuietSteps ==
    ASSUME TellingInv, TypeOK', UNCHANGED <<messages, absences, meetings>>,
           DOMAIN questions \subseteq DOMAIN questions',
           \A q \in DOMAIN questions : questions'[q] = questions[q],
           phase' = "return" => phase = "return",
           Opening' => Opening /\ UNCHANGED job
    PROVE  InOrder' /\ Told' /\ ToldOnce'
<1>1. InOrder'
  BY DEF TellingInv, InOrder
<1>2. ToldOnce'
  BY DEF TellingInv, ToldOnce
<1>3. Told'
  <2>1. DOMAIN meetings \subseteq DOMAIN meetings' /\ UNCHANGED <<messages, absences>>
    OBVIOUS
  <2>2. ASSUME NEW i \in DOMAIN absences, NEW f \in absences[i].facts,
               f.class = "went_dormant", Opening'
        PROVE  f.of \notin job'.left
    <3>1. DeathTold(f.of, absences[i].until)
      BY <2>2 DEF TellingInv, Told
    <3>. QED
      BY <2>2, <3>1 DEF DeathTold
  <2>3. \A i \in DOMAIN absences : \A f \in absences[i].facts :
            f.class = "went_dormant" => /\ Opening' => f.of \notin job'.left
                                        /\ \A j \in DOMAIN meetings' \ DOMAIN meetings :
                                              meetings'[j].question # f.of
    BY <2>2
  <2>4. TypeOK /\ Told
    BY DEF TellingInv
  <2>. QED
    BY <2>1, <2>3, <2>4, ToldKept
<1>. QED
  BY <1>1, <1>2, <1>3

\* An opening lists no question that the owner was told is dead.
LEMMA OpensTold ==
    ASSUME TellingInv, TypeOK', NEW topic \in Topics, NEW source \in Sources,
           Opens(topic, source)
    PROVE  InOrder' /\ Told' /\ ToldOnce'
<1>1. /\ job'.left = Reachable(topic) /\ phase' # "return"
      /\ UNCHANGED <<questions, meetings, messages, absences, now>>
  <2>1. PICK linked \in SUBSET Topics, impresses \in BOOLEAN, thinks \in BOOLEAN,
             spends \in BOOLEAN :
        /\ job' = [topic |-> topic, source |-> source, prior |-> Prior(linked \cup {topic}),
                   left |-> Reachable(topic)]
        /\ phase' = IF thinks THEN "meet" ELSE "meet or ask"
        /\ UNCHANGED <<inquiry, speech, now, interruptions>>
    BY DEF Opens
  <2>. QED
    BY <2>1 DEF inquiry, speech
<1>2. InOrder' /\ ToldOnce'
  BY <1>1 DEF TellingInv, InOrder, ToldOnce
<1>3. ASSUME NEW i \in DOMAIN absences, NEW f \in absences[i].facts,
             f.class = "went_dormant"
      PROVE  f.of \notin job'.left
  <2>1. DeathTold(f.of, absences[i].until)
    BY <1>3 DEF TellingInv, Told
  <2>2. absences[i].until \in DOMAIN messages
    BY TypeParts DEF TellingInv, SpeechOK
  <2>3. messages[absences[i].until] \in Nat /\ messages[absences[i].until] <= now
    BY <2>2, TypeParts, ElementOfSeq, LenProperties DEF TellingInv, SpeechOK
  <2>4. now \in Nat
    BY TypeParts, Constants DEF TellingInv, MaterialOK
  <2>5. Dormant(f.of, now)
    BY <2>1, <2>3, <2>4, StaysDormant DEF TellingInv, DeathTold
  <2>. QED
    BY <1>1, <2>5 DEF Reachable
<1>4. DOMAIN meetings \subseteq DOMAIN meetings' /\ UNCHANGED <<messages, absences>>
  BY <1>1
<1>5. \A i \in DOMAIN absences : \A f \in absences[i].facts :
          f.class = "went_dormant" => /\ Opening' => f.of \notin job'.left
                                      /\ \A j \in DOMAIN meetings' \ DOMAIN meetings :
                                            meetings'[j].question # f.of
  BY <1>1, <1>3
<1>6. TypeOK /\ Told
  BY DEF TellingInv
<1>7. Told'
  BY <1>1, <1>4, <1>5, <1>6, ToldKept
<1>. QED
  BY <1>2, <1>7

\* What is met was listed, so the owner was not told it is dead.
LEMMA MeetsTold ==
    ASSUME TellingInv, TypeOK', Meets
    PROVE  InOrder' /\ Told' /\ ToldOnce'
<1> DEFINE q == Min(job.left)
           n == Len(meetings) + 1
<1>1. /\ meetings' = Append(meetings, [question |-> q, source |-> job.source, at |-> now,
                                       after |-> Len(messages)])
      /\ job' = [job EXCEPT !.left = @ \ {q}] /\ Opening /\ job.left # {}
      /\ UNCHANGED <<impressions, questions, projects, speech, now, phase, interruptions>>
  BY DEF Meets
<1>2. q \in job.left
  <2>1. job.left \in SUBSET Nat
    BY TypeParts DEF TellingInv, JobOK, Job
  <2>. QED
    BY <1>1, <2>1, MinFacts
<1>3. q \in DOMAIN questions /\ questions[q].at < now /\ job.source \in Sources
  <2> HIDE DEF q
  <2>. QED
    BY <1>1, <1>2, TypeParts DEF TellingInv, JobOK
<1> HIDE DEF q
<1>4. /\ DOMAIN meetings' = DOMAIN meetings \cup {n} /\ n \notin DOMAIN meetings
      /\ \A i \in DOMAIN meetings : meetings'[i] = meetings[i]
      /\ meetings'[n].question = q
  BY <1>1, <1>3, TypeParts, MeetingAdded DEF TellingInv, speech
<1>5. InOrder' /\ ToldOnce'
  BY <1>1 DEF TellingInv, InOrder, ToldOnce, speech, Opening
<1>6. ASSUME NEW i \in DOMAIN absences, NEW f \in absences[i].facts,
             f.class = "went_dormant"
      PROVE  f.of \notin job.left
  BY <1>1, <1>6 DEF TellingInv, Told, DeathTold
<1>7. job'.left \subseteq job.left
  BY <1>1, TypeParts DEF TellingInv, JobOK, Job
<1>8. Told'
  <2> HIDE DEF n
  <2>1. UNCHANGED <<messages, absences, questions>>
    BY <1>1 DEF speech
  <2>2. ASSUME NEW i \in DOMAIN absences, NEW f \in absences[i].facts,
               f.class = "went_dormant"
        PROVE  /\ Opening' => f.of \notin job'.left
               /\ \A j \in DOMAIN meetings' \ DOMAIN meetings :
                     meetings'[j].question # f.of
    BY <1>2, <1>4, <1>6, <1>7, <2>2
  <2>3. \A i \in DOMAIN absences : \A f \in absences[i].facts :
            f.class = "went_dormant" => /\ Opening' => f.of \notin job'.left
                                        /\ \A j \in DOMAIN meetings' \ DOMAIN meetings :
                                              meetings'[j].question # f.of
    BY <2>2
  <2>4. TypeOK /\ Told
    BY DEF TellingInv
  <2>. QED
    BY <1>4, <2>1, <2>3, <2>4, ToldKept
<1>. QED
  BY <1>5, <1>8

\* A message comes after all that there is.
LEMMA SpeaksTold ==
    ASSUME TellingInv, TypeOK', Speaks
    PROVE  InOrder' /\ Told' /\ ToldOnce'
<1>1. /\ messages' = Append(messages, now) /\ phase' = "return"
      /\ UNCHANGED <<questions, meetings, absences, now>>
  BY DEF Speaks, inquiry
<1>2. now \in Nat /\ Len(messages) \in Nat
  BY TypeParts, Constants, LenProperties DEF TellingInv, MaterialOK, SpeechOK
<1>3. /\ Len(messages') = Len(messages) + 1
      /\ DOMAIN messages = 1 .. Len(messages) /\ DOMAIN messages' = 1 .. Len(messages) + 1
      /\ \A m \in 1 .. Len(messages) : messages'[m] = messages[m]
      /\ messages'[Len(messages) + 1] = now
  <2>1. messages \in Seq(Nat) /\ messages' \in Seq(Nat)
    BY TypeParts, <1>1, <1>2, AppendProperties DEF TellingInv, SpeechOK
  <2>. QED
    BY <1>1, <1>2, <2>1, AppendProperties, LenProperties
<1>4. \A m \in 1 .. Len(messages) : messages[m] <= now
  BY <1>3, TypeParts DEF TellingInv, SpeechOK
<1>5. \A m, n \in DOMAIN messages' : m <= n => messages'[m] <= messages'[n]
  BY <1>2, <1>3, <1>4 DEF TellingInv, InOrder
<1>6. \A i \in DOMAIN absences : absences[i].until \in 1 .. Len(messages)
  BY <1>3, TypeParts DEF TellingInv, SpeechOK
<1>7. ASSUME NEW i \in DOMAIN meetings PROVE meetings[i].after < Len(messages')
  <2>1. meetings[i] \in Meeting
    BY TypeParts, ElementOfSeq, LenProperties DEF TellingInv, MeetingsOK
  <2>2. meetings[i].after <= Len(messages) /\ meetings[i].after \in Nat
    BY <2>1, TypeParts DEF TellingInv, MeetingsOK, Meeting
  <2>. QED
    BY <1>2, <1>3, <2>2
<1>8. InOrder'
  BY <1>1, <1>2, <1>3, <1>5, <1>6, <1>7 DEF TellingInv, InOrder
<1>9. ToldOnce'
  BY <1>1 DEF TellingInv, ToldOnce
<1>10. Told'
  <2> SUFFICES ASSUME NEW i \in DOMAIN absences, NEW f \in absences[i].facts
               PROVE  IF f.class = "question_revisited"
                      THEN MeetingTold(f.of, absences[i].until)'
                      ELSE DeathTold(f.of, absences[i].until)'
    BY <1>1 DEF Told
  <2>1. IF f.class = "question_revisited" THEN MeetingTold(f.of, absences[i].until)
        ELSE DeathTold(f.of, absences[i].until)
    BY DEF TellingInv, Told
  <2>2. messages'[absences[i].until] = messages[absences[i].until]
    BY <1>3, <1>6
  <2>3. LastTouch(f.of)' = LastTouch(f.of)
    BY <1>1 DEF LastTouch
  <2>4. ~Opening'
    BY <1>1 DEF Opening
  <2>. QED
    BY <1>1, <2>1, <2>2, <2>3, <2>4 DEF MeetingTold, DeathTold, Dormant
<1>. QED
  BY <1>8, <1>9, <1>10

LEMMA PreviousBefore ==
    ASSUME NEW m \in Nat \ {0}, Previous(m) # 0
    PROVE  Previous(m) \in 1 .. m - 1 /\ (m - 1 <= MessageWindow => Previous(m) = m - 1)
  BY Constants DEF Previous

\* An absence tells of the meetings since the message it is counted from and of the
\* questions that have gone dormant since: an earlier absence told of neither.
LEMMA ReturnsTold ==
    ASSUME TellingInv, TypeOK', Returns
    PROVE  InOrder' /\ Told' /\ ToldOnce'
<1> DEFINE m == Len(messages)
           p == Previous(m)
           last == Len(absences) + 1
<1>1. /\ phase = "return" /\ phase' = "idle" /\ p # 0
      /\ UNCHANGED <<questions, meetings, messages, now, job>>
  BY DEF Returns, inquiry, Away
<1>2. PICK stored \in SUBSET Facts(p, m) :
          absences' = Append(absences, [until |-> m, facts |-> stored])
  BY DEF Returns
<1>3. /\ m \in Nat \ {0} /\ m \in DOMAIN messages /\ DOMAIN messages = 1 .. m
  BY <1>1, TypeParts, EmptySeq, LenProperties DEF TellingInv, SpeechOK
<1>4. /\ p \in 1 .. m - 1 /\ (m - 1 <= MessageWindow => p = m - 1)
  BY <1>1, <1>3, PreviousBefore
<1>5. Facts(p, m) \subseteq Fact
  BY TypeParts, LenProperties
     DEF TellingInv, Facts, Fact, Met, Died, QuestionsOK, MeetingsOK
<1>6. /\ Len(absences) \in Nat /\ DOMAIN absences = 1 .. Len(absences)
      /\ DOMAIN absences' = 1 .. last
      /\ \A i \in 1 .. Len(absences) : absences'[i] = absences[i]
      /\ absences'[last].until = m /\ absences'[last].facts = stored
  <2> DEFINE new == [until |-> m, facts |-> stored]
  <2>1. new \in Absence
    BY <1>3, <1>5 DEF Absence
  <2>2. absences \in Seq(Absence) /\ absences' = Append(absences, new)
    BY <1>2, TypeParts DEF TellingInv, SpeechOK
  <2> HIDE DEF new
  <2>3. /\ absences' \in Seq(Absence) /\ Len(absences') = last
        /\ \A i \in 1 .. Len(absences) : absences'[i] = absences[i]
        /\ absences'[last] = new
    BY <2>1, <2>2, AppendProperties
  <2>4. Len(absences) \in Nat /\ DOMAIN absences = 1 .. Len(absences)
    BY <2>2, LenProperties
  <2>5. DOMAIN absences' = 1 .. last
    BY <2>3, LenProperties
  <2>. QED
    BY <2>3, <2>4, <2>5 DEF new
<1>7. \A i \in DOMAIN absences : absences[i].until \in 1 .. m - 1
  <2>1. ASSUME NEW i \in DOMAIN absences PROVE absences[i].until \in 1 .. m - 1
    <3>1. absences[i].until < m
      BY <1>1 DEF TellingInv, InOrder
    <3>2. absences[i].until \in 1 .. m
      BY <1>3, TypeParts DEF TellingInv, SpeechOK
    <3>. QED
      BY <1>3, <3>1, <3>2
  <2>. QED
    BY <2>1
<1> HIDE DEF m, p
<1>8. ASSUME NEW f \in stored, f.class = "question_revisited"
      PROVE  /\ f.of \in DOMAIN meetings /\ p <= meetings[f.of].after
             /\ meetings[f.of].after < m
  BY <1>2, <1>8 DEF Facts, Met
<1>9. ASSUME NEW f \in stored, f.class # "question_revisited"
      PROVE  /\ f.of \in DOMAIN questions /\ Dormant(f.of, messages[m])
             /\ ~Dormant(f.of, messages[p])
  BY <1>2, <1>9 DEF Facts, Died
<1>10. InOrder'
  <2>1. \A i, j \in DOMAIN absences' : i < j => absences'[i].until < absences'[j].until
    <3> SUFFICES ASSUME NEW i \in DOMAIN absences', NEW j \in DOMAIN absences', i < j
                 PROVE  absences'[i].until < absences'[j].until
      OBVIOUS
    <3>1. i \in 1 .. Len(absences)
      BY <1>6
    <3>2. CASE j = last
      BY <1>3, <1>6, <1>7, <3>1, <3>2
    <3>3. CASE j \in 1 .. Len(absences)
      BY <1>6, <3>1, <3>3 DEF TellingInv, InOrder
    <3>. QED
      BY <1>6, <3>2, <3>3
  <2>. QED
    BY <1>1, <2>1 DEF TellingInv, InOrder
<1>11. Told'
  <2> SUFFICES ASSUME NEW i \in DOMAIN absences', NEW f \in absences'[i].facts
               PROVE  IF f.class = "question_revisited"
                      THEN MeetingTold(f.of, absences[i].until)'
                      ELSE DeathTold(f.of, absences[i].until)'
    BY DEF Told
  <2>1. ~Opening' /\ UNCHANGED <<questions, meetings, messages>>
    BY <1>1 DEF Opening
  <2>2. LastTouch(f.of)' = LastTouch(f.of)
    BY <2>1 DEF LastTouch
  <2>3. CASE i \in 1 .. Len(absences)
    <3>1. absences'[i] = absences[i] /\ i \in DOMAIN absences
      BY <1>6, <2>3
    <3>2. IF f.class = "question_revisited" THEN MeetingTold(f.of, absences[i].until)
          ELSE DeathTold(f.of, absences[i].until)
      BY <3>1 DEF TellingInv, Told
    <3>. QED
      BY <2>1, <2>2, <3>1, <3>2 DEF MeetingTold, DeathTold, Dormant
  <2>4. CASE i = last
    <3>1. f \in stored /\ absences'[i].until = m
      BY <1>6, <2>4
    <3>2. \A j \in DOMAIN meetings : meetings[j].after < m
      BY <1>1 DEF TellingInv, InOrder, m
    <3>3. CASE f.class = "question_revisited"
      BY <1>8, <2>1, <3>1, <3>3 DEF MeetingTold
    <3>4. CASE f.class # "question_revisited"
      <4>1. f.of \in DOMAIN questions /\ Dormant(f.of, messages[m])
        BY <1>9, <3>1, <3>4
      <4>. QED
        BY <2>1, <2>2, <3>1, <3>2, <3>4, <4>1 DEF DeathTold, Dormant
    <3>. QED
      BY <3>3, <3>4
  <2>. QED
    BY <1>6, <2>3, <2>4
<1>12. ASSUME NEW i \in DOMAIN absences, NEW f \in absences[i].facts, f \in stored,
              m - 1 <= MessageWindow
       PROVE  FALSE
  <2>1. p = m - 1 /\ absences[i].until \in 1 .. p /\ p \in 1 .. m - 1
    BY <1>4, <1>7, <1>12
  <2>2. CASE f.class = "question_revisited"
    <3>1. MeetingTold(f.of, absences[i].until)
      BY <2>2 DEF TellingInv, Told
    <3>2. meetings[f.of] \in Meeting
      BY <3>1, TypeParts, ElementOfSeq, LenProperties DEF TellingInv, MeetingTold, MeetingsOK
    <3>3. meetings[f.of].after < absences[i].until /\ p <= meetings[f.of].after
      BY <1>8, <1>12, <2>2, <3>1 DEF MeetingTold
    <3>. QED
      BY <2>1, <3>2, <3>3 DEF Meeting
  <2>3. CASE f.class # "question_revisited"
    <3> DEFINE u == absences[i].until
    <3>1. DeathTold(f.of, u)
      BY <2>3 DEF TellingInv, Told
    <3>2. u \in DOMAIN messages /\ p \in DOMAIN messages /\ u <= p
      BY <1>3, <1>4, <2>1
    <3>3. messages[u] \in Nat /\ messages[p] \in Nat
      BY <3>2, TypeParts, ElementOfSeq, LenProperties DEF TellingInv, SpeechOK
    <3>4. messages[u] <= messages[p]
      BY <3>2 DEF TellingInv, InOrder
    <3>5. Dormant(f.of, messages[p])
      BY <3>1, <3>3, <3>4, StaysDormant DEF TellingInv, DeathTold
    <3>. QED
      BY <1>9, <1>12, <2>3, <3>5
  <2>. QED
    BY <2>2, <2>3
<1>13. ToldOnce'
  <2> SUFFICES ASSUME NEW i \in DOMAIN absences', NEW j \in DOMAIN absences', i < j,
                      absences'[j].until - 1 <= MessageWindow
               PROVE  absences'[i].facts \cap absences'[j].facts = {}
    BY DEF ToldOnce
  <2>1. i \in 1 .. Len(absences)
    BY <1>6
  <2>2. CASE j = last
    BY <1>6, <1>12, <2>1, <2>2
  <2>3. CASE j \in 1 .. Len(absences)
    BY <1>6, <2>1, <2>3 DEF TellingInv, ToldOnce
  <2>. QED
    BY <1>6, <2>2, <2>3
<1>. QED
  BY <1>10, <1>11, <1>13

LEMMA TellingInit == Init => TellingInv
<1> SUFFICES ASSUME Init PROVE TellingInv
  OBVIOUS
<1>1. messages = <<>> /\ absences = <<>> /\ phase = "idle"
  BY DEF Init
<1>. QED
  BY <1>1, TypeInit DEF TellingInv, InOrder, Told, ToldOnce

LEMMA TellingInductive == TellingInv /\ [Next]_vars => TellingInv'
<1> SUFFICES ASSUME TellingInv, [Next]_vars PROVE TellingInv'
  OBVIOUS
<1>1. TypeOK'
  BY TypeInductive DEF TellingInv
<1>2. InOrder' /\ Told' /\ ToldOnce'
  <2>1. ASSUME NEW topic \in Topics, NEW source \in Sources, Opens(topic, source)
        PROVE  InOrder' /\ Told' /\ ToldOnce'
    BY <1>1, <2>1, OpensTold
  <2>2. CASE Meets
    BY <1>1, <2>2, MeetsTold
  <2>3. CASE AsksOfTension \/ AsksOfGap
    <3>1. PICK evidence : Asks(evidence)
      BY <2>3 DEF AsksOfTension, AsksOfGap
    <3> DEFINE q == [topic |-> job.topic, at |-> now, sources |-> evidence]
    <3>2. /\ questions' = Append(questions, q) /\ ~Opening' /\ phase' # "return"
          /\ UNCHANGED <<messages, absences, meetings>>
      BY <3>1 DEF Asks, Done, Opening, speech
    <3>3. /\ Len(questions) \in Nat /\ DOMAIN questions = 1 .. Len(questions)
          /\ DOMAIN questions' = 1 .. Len(questions')
      BY <1>1, TypeParts, LenProperties DEF TellingInv, TypeOK
    <3>4. /\ Len(questions') = Len(questions) + 1
          /\ \A i \in DOMAIN questions : questions'[i] = questions[i]
      <4> HIDE DEF q
      <4>. QED
        BY <3>2, <3>3
    <3>. QED
      BY <1>1, <3>2, <3>3, <3>4, QuietSteps
  <2>4. CASE OpenEnds \/ Ponders \/ Checks \/ StaysOn \/ Tick \/ Interrupted
    <3>1. /\ UNCHANGED <<messages, absences, meetings, questions>>
          /\ phase' = "return" => phase = "return"
          /\ Opening' => Opening /\ UNCHANGED job
      BY <2>4 DEF OpenEnds, Ponders, Checks, StaysOn, Tick, Interrupted, Done, Opening,
                  inquiry, speech
    <3>. QED
      BY <1>1, <3>1, QuietSteps
  <2>5. CASE Speaks
    BY <1>1, <2>5, SpeaksTold
  <2>6. CASE Returns
    BY <1>1, <2>6, ReturnsTold
  <2>7. CASE UNCHANGED vars
    <3>1. /\ UNCHANGED <<messages, absences, meetings, questions>>
          /\ phase' = "return" => phase = "return"
          /\ Opening' => Opening /\ UNCHANGED job
      BY <2>7 DEF vars, Opening
    <3>. QED
      BY <1>1, <3>1, QuietSteps
  <2>. QED
    BY <2>1, <2>2, <2>3, <2>4, <2>5, <2>6, <2>7 DEF Next
<1>. QED
  BY <1>1, <1>2 DEF TellingInv

\* No two absences tell of the same thing as long as the messages are no more than the
\* absence lists: what an absence tells of lies after the message it is counted from,
\* and what an earlier one told of lies before it.
THEOREM NothingToldTwice == Spec => []ToldOnce
<1>1. TellingInv => ToldOnce
  BY DEF TellingInv
<1>. QED
  BY <1>1, TellingInit, TellingInductive, PTL DEF Spec

\* A question that the owner was told is dormant is never met again: dormancy is derived
\* from the last touch, and no opening lists a dormant question, so the touch stays.
THEOREM DeadStayDead == Spec => []ToldStaysDead
<1>1. TellingInv => ToldStaysDead
  BY DEF TellingInv, Told, DeathTold, ToldStaysDead
<1>. QED
  BY <1>1, TellingInit, TellingInductive, PTL DEF Spec

(***************************************************************************)
(* Projects.                                                               *)
(***************************************************************************)
\* A question's own evidence comes from one source, whichever way it was asked.
OneSource == \A q \in DOMAIN questions : \E source : questions[q].sources = {source}

GenesisInv == OneSource /\ projects = {}

LEMMA AskedOfOne ==
    ASSUME QuestionsOK, OneSource, NEW source, Asks({source})
    PROVE  OneSource'
<1>1. questions' = Append(questions, [topic |-> job.topic, at |-> now, sources |-> {source}])
  BY DEF Asks
<1>2. \A q \in DOMAIN questions' :
         \/ q \in DOMAIN questions /\ questions'[q] = questions[q]
         \/ questions'[q].sources = {source}
  BY <1>1 DEF QuestionsOK
<1>. QED
  BY <1>2 DEF OneSource

LEMMA NothingQualifies ==
    ASSUME OneSource, MinSources > 1
    PROVE  Genesis = {}
<1>1. MinSources \in Nat
  BY QuestionsAssumption
<1>2. ASSUME NEW q \in DOMAIN questions PROVE Cardinality(questions[q].sources) = 1
  <2>1. PICK source : questions[q].sources = {source}
    BY DEF OneSource
  <2>. QED
    BY <2>1, FS_Singleton
<1>. QED
  BY <1>1, <1>2 DEF Genesis, Qualifies

\* The finding at private_projects.py's genesis, for every history: when more than one
\* source is asked for, no project ever comes of a question, however often and in however
\* many sources it is met again, since the chain that is counted is its evidence alone.
THEOREM NoProjectEver ==
    ASSUME MinSources > 1
    PROVE  Spec => [](projects = {})
<1>1. Init => GenesisInv
  BY DEF Init, GenesisInv, OneSource
<1>2. TypeOK /\ GenesisInv /\ [Next]_vars => GenesisInv'
  <2> SUFFICES ASSUME TypeOK, GenesisInv, [Next]_vars PROVE GenesisInv'
    OBVIOUS
  <2>0. QuestionsOK /\ OneSource /\ projects = {}
    BY TypeParts DEF GenesisInv
  <2>1. CASE AsksOfTension \/ AsksOfGap
    <3>1. (\E source : Asks({source})) /\ UNCHANGED projects
      BY <2>1 DEF AsksOfTension, AsksOfGap, Asks
    <3>. QED
      BY <2>0, <3>1, AskedOfOne DEF GenesisInv
  <2>2. CASE Checks
    <3>1. projects' = {} /\ UNCHANGED questions
      BY <2>0, <2>2, NothingQualifies DEF Checks
    <3>. QED
      BY <2>0, <3>1 DEF GenesisInv, OneSource
  <2>3. CASE UNCHANGED <<questions, projects>>
    BY <2>0, <2>3 DEF GenesisInv, OneSource
  <2>4. CASE \E topic \in Topics, source \in Sources : Opens(topic, source)
    <3> PICK topic \in Topics, source \in Sources : Opens(topic, source)
      BY <2>4
    <3>1. UNCHANGED inquiry
      BY DEF Opens
    <3>. QED
      BY <2>3, <3>1 DEF inquiry
  <2>5. CASE Meets \/ OpenEnds \/ Ponders
    BY <2>3, <2>5 DEF Meets, OpenEnds, Ponders, inquiry
  <2>6. CASE Speaks \/ Returns \/ StaysOn
    BY <2>3, <2>6 DEF Speaks, Returns, StaysOn, inquiry
  <2>7. CASE Tick \/ Interrupted \/ UNCHANGED vars
    BY <2>3, <2>7 DEF Tick, Interrupted, inquiry, vars
  <2>. QED
    BY <2>1, <2>2, <2>4, <2>5, <2>6, <2>7 DEF Next
<1>. QED
  BY <1>1, <1>2, TypeCorrect, PTL DEF Spec, GenesisInv
==============================================================================
