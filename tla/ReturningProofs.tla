---------------------------- MODULE ReturningProofs ----------------------------
(***************************************************************************)
(* Theorems about Returning, for all windows and bounds.                   *)
(***************************************************************************)
EXTENDS Returning, ExtremaTheorems, SequenceTheorems

(***************************************************************************)
(* Type correctness.                                                       *)
(***************************************************************************)
PoolOK ==
    /\ pool \in Seq(SUBSET Nat) /\ Len(pool) <= PoolWindow
    /\ \A e \in DOMAIN pool : pool[e] \subseteq 1 .. thoughts

PromotionOK ==
    /\ thoughts \in 0 .. MaxThoughts
    /\ sources \in Seq(Nat) /\ \A c \in DOMAIN sources : sources[c] \in 1 .. thoughts
    /\ picks \subseteq 1 .. thoughts

SpeechOK ==
    /\ messages \in Seq(Nat) /\ Len(messages) <= MaxMessages
    /\ \A m \in DOMAIN messages : messages[m] <= now
    /\ absences \in Seq([since : Nat, until : Nat])
    /\ \A i \in DOMAIN absences : {absences[i].since, absences[i].until}
                                      \subseteq DOMAIN messages
    /\ now \in 0 .. MaxTime

ControlOK ==
    /\ mode \in {"up", "down"}
    /\ phase \in {"idle", "promote", "promoting", "reply", "return", "decide"}
    /\ phase # "promoting" => picks = {}
    /\ phase \in {"reply", "return", "decide"} => messages # <<>>
    /\ interruptions \in 0 .. MaxInterruptions

LEMMA TypeParts == TypeOK <=> PoolOK /\ PromotionOK /\ SpeechOK /\ ControlOK
  BY DEF TypeOK, PoolOK, PromotionOK, SpeechOK, ControlOK

LEMMA Constants ==
    /\ PoolWindow \in Nat /\ Window \in Nat /\ MessageWindow \in Nat \ {0}
    /\ Threshold \in Nat /\ MaxThoughts \in Nat /\ MaxMessages \in Nat
    /\ MaxTime \in Nat /\ MaxInterruptions \in Nat
  BY ReturningAssumption

\* Whatever is stored, the pool stays within its window and cites stored thoughts.
LEMMA StoresKeeps ==
    ASSUME PoolOK, PromotionOK, PromotionOK', thoughts <= thoughts',
           NEW cited \in Seq(SUBSET (1 .. thoughts')), Stores(cited)
    PROVE  PoolOK'
<1> USE Constants
<1>. thoughts \in Nat /\ thoughts' \in Nat
  BY DEF PromotionOK
<1>1. CASE UNCHANGED pool
  <2>1. ASSUME NEW e \in DOMAIN pool PROVE pool[e] \subseteq 1 .. thoughts'
    <3>1. pool[e] \subseteq 1 .. thoughts
      BY DEF PoolOK
    <3> QED
      BY <3>1
  <2> QED
    BY <1>1, <2>1 DEF PoolOK
<1>2. CASE pool' = SubSeq(pool \o cited, 1, Least(PoolWindow, Len(pool \o cited)))
  <2> DEFINE T == SUBSET (1 .. thoughts')
             all == pool \o cited
             n == Least(PoolWindow, Len(all))
  <2>1. pool \in Seq(T)
    <3>1. ASSUME NEW e \in 1 .. Len(pool) PROVE pool[e] \in T
      <4>1. pool[e] \subseteq 1 .. thoughts
        BY DEF PoolOK
      <4> QED
        BY <4>1
    <3>2. pool \in Seq(SUBSET Nat)
      BY DEF PoolOK
    <3> HIDE DEF T
    <3> QED
      BY <3>1, <3>2
  <2>2. all \in Seq(T) /\ Len(all) \in Nat
    <3> HIDE DEF T
    <3> QED
      BY <2>1, ConcatProperties DEF T
  <2>3. n \in Nat /\ n <= PoolWindow /\ n <= Len(all)
    BY <2>2 DEF Least
  <2>4. \A i \in 1 .. n : all[i] \in T
    <3> HIDE DEF T, all, n
    <3> QED
      BY <2>2, <2>3
  <2>5. pool' \in Seq(T) /\ Len(pool') = n
    <3> HIDE DEF T, all
    <3>1. pool' = SubSeq(all, 1, n)
      BY <1>2 DEF all
    <3> HIDE DEF n
    <3> QED
      BY <2>3, <2>4, <3>1, SubSeqProperties
  <2>6. pool' \in Seq(SUBSET Nat)
    <3>1. T \subseteq SUBSET Nat
      OBVIOUS
    <3> QED
      BY <2>5, <3>1, SeqMonotonic
  <2>7. \A e \in DOMAIN pool' : pool'[e] \subseteq 1 .. thoughts'
    BY <2>5, ElementOfSeq
  <2> QED
    BY <2>3, <2>5, <2>6, <2>7 DEF PoolOK
<1> QED
  BY <1>1, <1>2 DEF Stores

\* A stretch of bookkeeping cites nothing.
LEMMA NoteKeeps ==
    ASSUME PoolOK, PromotionOK, PromotionOK', UNCHANGED thoughts, Stores(Note)
    PROVE  PoolOK'
<1>1. Note \in Seq(SUBSET (1 .. thoughts')) /\ thoughts <= thoughts'
  BY DEF Note, PromotionOK
<1> QED
  BY <1>1, StoresKeeps

\* A reflection cites what is stored already.
LEMMA ReflectionKeeps ==
    ASSUME PoolOK, PromotionOK, PromotionOK', thoughts <= thoughts',
           NEW on \in Citable, Stores(Note \o <<on>>)
    PROVE  PoolOK'
<1>1. on \subseteq 1 .. thoughts'
  BY DEF Citable, PromotionOK
<1>2. Note \in Seq(SUBSET (1 .. thoughts')) /\ <<on>> \in Seq(SUBSET (1 .. thoughts'))
  BY <1>1 DEF Note
<1>3. Note \o <<on>> \in Seq(SUBSET (1 .. thoughts'))
  BY <1>2, ConcatProperties
<1> QED
  BY <1>3, StoresKeeps

LEMMA Grows ==
    ASSUME PromotionOK, UNCHANGED <<sources, picks>>,
           thoughts' \in thoughts .. MaxThoughts
    PROVE  PromotionOK' /\ thoughts <= thoughts'
<1>. thoughts \in Nat /\ thoughts' \in Nat /\ thoughts <= thoughts'
  BY Constants DEF PromotionOK
<1>1. ASSUME NEW c \in DOMAIN sources PROVE sources[c] \in 1 .. thoughts'
  BY DEF PromotionOK
<1> QED
  BY <1>1, Constants DEF PromotionOK

LEMMA PromotionUnchanged ==
    ASSUME PromotionOK, UNCHANGED <<thoughts, sources>>, picks' \subseteq picks
    PROVE  PromotionOK'
  BY DEF PromotionOK

LEMMA SpeechUnchanged ==
    ASSUME SpeechOK, UNCHANGED <<speech, now>>
    PROVE  SpeechOK'
  BY DEF SpeechOK, speech

LEMMA PoolUnchanged ==
    ASSUME PoolOK, UNCHANGED <<thoughts, pool>>
    PROVE  PoolOK'
  BY DEF PoolOK

\* The message an absence is counted from comes before the one that ends it.
LEMMA PreviousBefore ==
    ASSUME NEW m \in Nat \ {0}
    PROVE  /\ Previous(m) \in 0 .. m - 1
           /\ Previous(m) = 0 <=> m = 1
           /\ m - 1 <= MessageWindow => Previous(m) = m - 1
  BY Constants DEF Previous, Least

LEMMA LastMessage ==
    ASSUME SpeechOK, messages # <<>>
    PROVE  Len(messages) \in Nat \ {0} /\ DOMAIN messages = 1 .. Len(messages)
  BY DEF SpeechOK

LEMMA TypeInductive == TypeOK /\ [Next]_vars => TypeOK'
<1> SUFFICES ASSUME PoolOK, PromotionOK, SpeechOK, ControlOK, [Next]_vars
             PROVE  PoolOK' /\ PromotionOK' /\ SpeechOK' /\ ControlOK'
  <2>1. TypeOK => PoolOK /\ PromotionOK /\ SpeechOK /\ ControlOK
    BY TypeParts
  <2>2. PoolOK' /\ PromotionOK' /\ SpeechOK' /\ ControlOK' => TypeOK'
    BY TypeParts, PTL
  <2> QED
    BY <2>1, <2>2
<1> USE DEF promotion, speech, Up
<1>1. CASE Wakes
  <2> PICK on \in Citable :
        /\ thoughts < MaxThoughts /\ thoughts' = thoughts + 1
        /\ Stores(Note \o <<on>>) /\ phase = "idle" /\ phase' = "promote"
        /\ UNCHANGED <<sources, picks, speech, now, mode, interruptions>>
    BY <1>1 DEF Wakes
  <2>1. PromotionOK' /\ thoughts <= thoughts'
    BY Grows, Constants DEF PromotionOK
  <2>2. PoolOK'
    BY <2>1, ReflectionKeeps
  <2> QED
    BY <2>1, <2>2, SpeechUnchanged DEF ControlOK
<1>2. CASE WakesManually
  <2> PICK on \in Citable :
        /\ thoughts < MaxThoughts /\ thoughts' = thoughts + 1
        /\ Stores(Note \o <<on>>)
        /\ UNCHANGED <<sources, picks, speech, now, mode, phase, interruptions>>
    BY <1>2 DEF WakesManually
  <2>1. PromotionOK' /\ thoughts <= thoughts'
    BY Grows, Constants DEF PromotionOK
  <2>2. PoolOK'
    BY <2>1, ReflectionKeeps
  <2> QED
    BY <2>1, <2>2, SpeechUnchanged DEF ControlOK
<1>3. CASE Rests
  BY <1>3, NoteKeeps, PromotionUnchanged, SpeechUnchanged DEF Rests, ControlOK
<1>4. CASE Consolidates
  <2> PICK on \in Citable, dreams \in 0 .. 1 :
        /\ thoughts + dreams <= MaxThoughts /\ thoughts' = thoughts + dreams
        /\ Stores(Note \o <<on>>)
        /\ UNCHANGED <<sources, picks, speech, now, mode, phase, interruptions>>
    BY <1>4 DEF Consolidates
  <2>1. PromotionOK' /\ thoughts <= thoughts'
    BY Grows, Constants DEF PromotionOK
  <2>2. PoolOK'
    BY <2>1, ReflectionKeeps
  <2> QED
    BY <2>1, <2>2, SpeechUnchanged DEF ControlOK
<1>5. CASE Speaks
  <2>1. PromotionOK'
    BY <1>5, PromotionUnchanged DEF Speaks
  <2>2. PoolOK'
    BY <1>5, Constants DEF Speaks, PoolOK
  <2>3. SpeechOK'
    <3>1. /\ messages' = Append(messages, now) /\ Len(messages) < MaxMessages
          /\ UNCHANGED <<absences, now>>
      BY <1>5 DEF Speaks
    <3>2. messages \in Seq(Nat) /\ now \in Nat
      BY Constants DEF SpeechOK
    <3>3. /\ messages' \in Seq(Nat) /\ Len(messages') = Len(messages) + 1
          /\ DOMAIN messages' = 1 .. Len(messages) + 1
          /\ DOMAIN messages = 1 .. Len(messages)
          /\ \A m \in DOMAIN messages' :
                messages'[m] = IF m <= Len(messages) THEN messages[m] ELSE now
      BY <3>1, <3>2, AppendProperties, LenProperties
    <3>4. \A m \in DOMAIN messages' : messages'[m] <= now'
      BY <3>1, <3>2, <3>3 DEF SpeechOK
    <3>5. DOMAIN messages \subseteq DOMAIN messages' /\ Len(messages') <= MaxMessages
      BY <3>1, <3>2, <3>3, Constants
    <3> QED
      BY <3>1, <3>3, <3>4, <3>5 DEF SpeechOK
  <2>4. ControlOK'
    <3>1. messages' # <<>>
      BY <1>5 DEF Speaks, SpeechOK
    <3> QED
      BY <1>5, <3>1 DEF Speaks, ControlOK
  <2> QED
    BY <2>1, <2>2, <2>3, <2>4
<1>6. CASE Considers
  <2>1. picks' \subseteq 1 .. thoughts
    BY <1>6 DEF Considers, Promotable, Material
  <2>2. UNCHANGED <<thoughts, sources>>
    BY <1>6 DEF Considers
  <2>3. PromotionOK'
    BY <2>1, <2>2 DEF PromotionOK
  <2> QED
    BY <1>6, <2>3, PoolUnchanged, SpeechUnchanged DEF Considers, ControlOK
<1>7. CASE Promotes
  <2> PICK t \in picks :
        /\ phase = "promoting" /\ picks' = picks \ {t}
        /\ IF AlreadyPromoted(t) THEN UNCHANGED <<sources, pool>>
           ELSE sources' = Append(sources, t) /\ Stores(Note)
        /\ UNCHANGED <<thoughts, speech, now, mode, phase, interruptions>>
    BY <1>7 DEF Promotes
  <2>1. PromotionOK'
    <3>1. t \in 1 .. thoughts /\ t \in Nat
      BY DEF PromotionOK
    <3>2. CASE sources' = Append(sources, t)
      <4>1. sources \in Seq(Nat)
        BY DEF PromotionOK
      <4>2. /\ sources' \in Seq(Nat) /\ DOMAIN sources' = 1 .. Len(sources) + 1
            /\ DOMAIN sources = 1 .. Len(sources)
            /\ \A c \in DOMAIN sources' :
                  sources'[c] = IF c <= Len(sources) THEN sources[c] ELSE t
        BY <3>1, <3>2, <4>1, AppendProperties, LenProperties
      <4>3. \A c \in DOMAIN sources' : sources'[c] \in 1 .. thoughts
        BY <3>1, <4>1, <4>2 DEF PromotionOK
      <4> QED
        BY <4>2, <4>3 DEF PromotionOK
    <3>3. CASE UNCHANGED sources
      BY <3>3 DEF PromotionOK
    <3> QED
      BY <3>2, <3>3
  <2>2. PoolOK'
    BY <2>1, NoteKeeps, PoolUnchanged
  <2> QED
    BY <2>1, <2>2, SpeechUnchanged DEF ControlOK
<1>8. CASE PromoteEnds
  BY <1>8, PoolUnchanged, PromotionUnchanged, SpeechUnchanged DEF PromoteEnds, ControlOK
<1>9. CASE Replies
  BY <1>9, NoteKeeps, PromotionUnchanged, SpeechUnchanged DEF Replies, ControlOK
<1>10. CASE Returns
  <2>1. PromotionOK'
    BY <1>10, PromotionUnchanged DEF Returns
  <2>2. PoolOK'
    BY <1>10, <2>1, NoteKeeps DEF Returns
  <2>3. SpeechOK'
    <3> DEFINE a == [since |-> Previous(Len(messages)), until |-> Len(messages)]
    <3>1. Len(messages) \in Nat \ {0} /\ DOMAIN messages = 1 .. Len(messages)
      BY <1>10, LastMessage DEF Returns, ControlOK
    <3>2. Previous(Len(messages)) \in 1 .. Len(messages)
      BY <1>10, <3>1, PreviousBefore DEF Returns, Away
    <3>3. /\ a \in [since : Nat, until : Nat]
          /\ {a.since, a.until} \subseteq DOMAIN messages
      BY <3>1, <3>2
    <3>4. absences' = Append(absences, a) /\ UNCHANGED <<messages, now>>
      BY <1>10 DEF Returns
    <3> HIDE DEF a
    <3>5. absences \in Seq([since : Nat, until : Nat])
      BY DEF SpeechOK
    <3>6. /\ absences' \in Seq([since : Nat, until : Nat])
          /\ DOMAIN absences' = 1 .. Len(absences) + 1
          /\ DOMAIN absences = 1 .. Len(absences)
          /\ \A i \in DOMAIN absences' :
                absences'[i] = IF i <= Len(absences) THEN absences[i] ELSE a
      BY <3>3, <3>4, <3>5, AppendProperties, LenProperties
    <3>7. \A i \in DOMAIN absences' : {absences'[i].since, absences'[i].until}
                                           \subseteq DOMAIN messages
      <4> TAKE i \in DOMAIN absences'
      <4>1. CASE i \in DOMAIN absences
        <5>1. absences'[i] = absences[i]
          BY <3>5, <3>6, <4>1
        <5> QED
          BY <4>1, <5>1 DEF SpeechOK
      <4>2. CASE i \notin DOMAIN absences
        <5>1. absences'[i] = a
          BY <3>5, <3>6, <4>2
        <5> QED
          BY <3>3, <5>1
      <4> QED
        BY <4>1, <4>2
    <3> QED
      BY <3>4, <3>6, <3>7 DEF SpeechOK
  <2> QED
    BY <1>10, <2>1, <2>2, <2>3 DEF Returns, ControlOK
<1>11. CASE StaysOn
  BY <1>11, PoolUnchanged, PromotionUnchanged, SpeechUnchanged DEF StaysOn, ControlOK
<1>12. CASE Decides
  BY <1>12, NoteKeeps, PromotionUnchanged, SpeechUnchanged DEF Decides, ControlOK
<1>13. CASE Evaluates
  BY <1>13, NoteKeeps, PromotionUnchanged, SpeechUnchanged DEF Evaluates, ControlOK
<1>14. CASE Tick
  <2>1. SpeechOK'
    BY <1>14, Constants DEF Tick, SpeechOK
  <2> QED
    BY <1>14, <2>1, PoolUnchanged, PromotionUnchanged DEF Tick, ControlOK
<1>15. CASE AppendFails
  BY <1>15, PoolUnchanged, PromotionUnchanged, SpeechUnchanged, Constants
     DEF AppendFails, ControlOK
<1>16. CASE Crash
  BY <1>16, PoolUnchanged, PromotionUnchanged, SpeechUnchanged, Constants
     DEF Crash, ControlOK
<1>17. CASE Restart
  BY <1>17, PoolUnchanged, PromotionUnchanged, SpeechUnchanged DEF Restart, ControlOK
<1>18. CASE UNCHANGED vars
  BY <1>18, PoolUnchanged, PromotionUnchanged, SpeechUnchanged DEF vars, ControlOK
<1> QED
  BY <1>1, <1>2, <1>3, <1>4, <1>5, <1>6, <1>7, <1>8, <1>9, <1>10, <1>11, <1>12, <1>13,
     <1>14, <1>15, <1>16, <1>17, <1>18 DEF Next, AtWork

\* The state keeps its shape: what is cited and promoted is stored (reentry.py:265),
\* and an absence lies between messages that were said (continuity.py:173).
THEOREM TypeCorrect == Spec => []TypeOK
<1>1. Init => TypeOK
  BY Constants, EmptySeq DEF Init, TypeOK
<1> QED
  BY <1>1, TypeInductive, PTL DEF Spec

(***************************************************************************)
(* Promotion.  Every source is one of the Window oldest thoughts; sources  *)
(* are distinct, so there are at most Window of them, and the newest       *)
(* Window candidates are all of them: the look-back misses none.           *)
(***************************************************************************)
PromotionInv ==
    /\ TypeOK /\ PromotedOnce
    /\ \A c \in DOMAIN sources : sources[c] <= Window
    /\ \A t \in picks : t <= Window

LEMMA FewCandidates ==
    ASSUME PromotionInv
    PROVE  Len(sources) <= Window
<1>1. sources \in Seq(Nat) /\ DOMAIN sources = 1 .. Len(sources) /\ Len(sources) \in Nat
  BY LenProperties DEF PromotionInv, TypeOK
<1>2. ASSUME NEW c \in DOMAIN sources PROVE sources[c] \in 1 .. Window
  <2>1. sources[c] \in 1 .. thoughts /\ sources[c] <= Window
    BY DEF PromotionInv, TypeOK
  <2> QED
    BY <2>1, Constants DEF PromotionInv, TypeOK
<1>3. sources \in [1 .. Len(sources) -> 1 .. Window]
  BY <1>1, <1>2, LenProperties
<1>4. ASSUME NEW n \in Nat PROVE IsFiniteSet(1 .. n) /\ Cardinality(1 .. n) = n
  <2>1. 1 \in Int /\ n \in Int
    OBVIOUS
  <2>2. /\ IsFiniteSet(1 .. n)
        /\ Cardinality(1 .. n) = IF 1 > n THEN 0 ELSE n - 1 + 1
    BY <2>1, FS_Interval
  <2> QED
    BY <2>2
<1>5. ASSUME Window < Len(sources) PROVE FALSE
  <2>1. \E c, d \in 1 .. Len(sources) : c # d /\ sources[c] = sources[d]
    <3>1. /\ IsFiniteSet(1 .. Window) /\ IsFiniteSet(1 .. Len(sources))
          /\ Cardinality(1 .. Window) < Cardinality(1 .. Len(sources))
      BY <1>1, <1>4, <1>5, Constants
    <3> QED
      BY <1>3, <3>1, FS_PigeonHole
  <2> QED
    BY <1>1, <2>1 DEF PromotionInv, PromotedOnce
<1> QED
  BY <1>1, <1>5, Constants

LEMMA LooksAtAll ==
    ASSUME PromotionInv, NEW t, ~AlreadyPromoted(t)
    PROVE  \A c \in DOMAIN sources : sources[c] # t
<1>1. DOMAIN sources = 1 .. Len(sources) /\ Len(sources) \in Nat
  BY LenProperties DEF PromotionInv, TypeOK
<1>2. \A c \in DOMAIN sources : c + Window > Len(sources)
  BY <1>1, FewCandidates, Constants
<1> QED
  BY <1>2 DEF AlreadyPromoted

LEMMA PromotionInductive == PromotionInv /\ [Next]_vars => PromotionInv'
<1> SUFFICES ASSUME PromotionInv, [Next]_vars PROVE PromotionInv'
  OBVIOUS
<1>1. TypeOK'
  BY TypeInductive DEF PromotionInv
<1>2. CASE Considers
  BY <1>1, <1>2 DEF Considers, Promotable, Material, PromotionInv, PromotedOnce
<1>3. CASE Promotes
  <2> PICK t \in picks :
        /\ picks' = picks \ {t}
        /\ IF AlreadyPromoted(t) THEN UNCHANGED sources ELSE sources' = Append(sources, t)
    BY <1>3 DEF Promotes
  <2>1. CASE AlreadyPromoted(t)
    BY <1>1, <2>1 DEF PromotionInv, PromotedOnce
  <2>2. CASE ~AlreadyPromoted(t)
    <3>1. t \in Nat /\ t <= Window
      <4>1. t \in 1 .. thoughts /\ t <= Window
        BY DEF PromotionInv, TypeOK
      <4> QED
        BY <4>1
    <3>2. /\ sources \in Seq(Nat) /\ Len(sources) \in Nat
          /\ DOMAIN sources = 1 .. Len(sources)
          /\ DOMAIN sources' = 1 .. Len(sources) + 1
      BY <2>2, <3>1, AppendProperties, LenProperties DEF PromotionInv, TypeOK
    <3>3. /\ \A c \in DOMAIN sources : sources'[c] = sources[c]
          /\ sources'[Len(sources) + 1] = t
      BY <2>2, <3>1, <3>2, AppendProperties
    <3>4. \A c \in DOMAIN sources : sources[c] # t
      BY <2>2, LooksAtAll
    <3>5. PromotedOnce'
      <4> SUFFICES ASSUME NEW c \in DOMAIN sources', NEW d \in DOMAIN sources',
                          sources'[c] = sources'[d]
                   PROVE  c = d
        BY DEF PromotedOnce
      <4>1. CASE c \in DOMAIN sources /\ d \in DOMAIN sources
        BY <3>3, <4>1 DEF PromotionInv, PromotedOnce
      <4>2. CASE c \notin DOMAIN sources \/ d \notin DOMAIN sources
        BY <3>2, <3>3, <3>4, <4>2
      <4> QED
        BY <4>1, <4>2
    <3>6. \A c \in DOMAIN sources' : sources'[c] <= Window
      BY <3>1, <3>2, <3>3 DEF PromotionInv
    <3> QED
      BY <1>1, <3>5, <3>6 DEF PromotionInv
  <2> QED
    BY <2>1, <2>2
<1>4. CASE ~(Considers \/ Promotes)
  <2>1. UNCHANGED sources /\ picks' \subseteq picks
    BY <1>4 DEF Next, AtWork, Wakes, WakesManually, Rests, Consolidates, Speaks,
       PromoteEnds, Replies, Returns, StaysOn, Decides, Evaluates, Tick, AppendFails,
       Crash, Restart, vars, promotion
  <2> QED
    BY <1>1, <2>1 DEF PromotionInv, PromotedOnce
<1> QED
  BY <1>2, <1>3, <1>4

\* No thought is promoted twice (reentry.py:195), whatever the windows.
THEOREM NeverPromotedTwice == Spec => []PromotedOnce
<1>1. Init => PromotionInv
  BY Constants, EmptySeq DEF Init, PromotionInv, TypeOK, PromotedOnce
<1>2. PromotionInv => PromotedOnce
  BY DEF PromotionInv
<1> QED
  BY <1>1, <1>2, PromotionInductive, PTL DEF Spec

(***************************************************************************)
(* Absences.                                                               *)
(***************************************************************************)
InOrder == \A i, j \in DOMAIN messages : i <= j => messages[i] <= messages[j]

\* What the search finds, in the window or not.
Bounded == \A i \in DOMAIN absences : LET a == absences[i] IN
    /\ a.until \in 2 .. Len(messages) /\ a.since = Previous(a.until)
    /\ messages[a.until] - messages[a.since] >= Threshold

SpeechInv == TypeOK /\ InOrder /\ Bounded

LEMMA SpeechShape ==
    ASSUME TypeOK
    PROVE  /\ messages \in Seq(Nat) /\ Len(messages) \in Nat
           /\ DOMAIN messages = 1 .. Len(messages)
           /\ \A m \in DOMAIN messages : messages[m] \in Nat /\ messages[m] <= now
           /\ absences \in Seq([since : Nat, until : Nat]) /\ Len(absences) \in Nat
           /\ DOMAIN absences = 1 .. Len(absences)
           /\ now \in Nat
  BY Constants, LenProperties DEF TypeOK

LEMMA SpeaksAppends ==
    ASSUME TypeOK, Speaks
    PROVE  /\ Len(messages') = Len(messages) + 1
           /\ DOMAIN messages' = 1 .. Len(messages) + 1
           /\ \A m \in 1 .. Len(messages) : messages'[m] = messages[m]
           /\ messages'[Len(messages) + 1] = now
           /\ UNCHANGED <<absences, now>>
  BY SpeechShape, AppendProperties, LenProperties DEF Speaks

LEMMA ReturnsAppends ==
    ASSUME TypeOK, Returns
    PROVE  /\ Len(messages) >= 2
           /\ DOMAIN absences' = 1 .. Len(absences) + 1
           /\ \A i \in 1 .. Len(absences) : absences'[i] = absences[i]
           /\ absences'[Len(absences) + 1] =
                  [since |-> Previous(Len(messages)), until |-> Len(messages)]
           /\ UNCHANGED messages
<1> DEFINE a == [since |-> Previous(Len(messages)), until |-> Len(messages)]
<1>1. Len(messages) \in Nat \ {0}
  BY SpeechShape DEF Returns, TypeOK, Up
<1>2. Previous(Len(messages)) \in Nat /\ Len(messages) >= 2
  BY <1>1, PreviousBefore DEF Returns, Away
<1>3. a \in [since : Nat, until : Nat] /\ absences' = Append(absences, a)
      /\ UNCHANGED messages
  BY <1>1, <1>2 DEF Returns
<1> HIDE DEF a
<1>4. /\ DOMAIN absences' = 1 .. Len(absences) + 1
      /\ \A i \in 1 .. Len(absences) : absences'[i] = absences[i]
      /\ absences'[Len(absences) + 1] = a
  BY <1>3, SpeechShape, AppendProperties, LenProperties
<1> QED
  BY <1>2, <1>3, <1>4 DEF a

\* Only these two write what has been said.
LEMMA SpeechSteps ==
    ASSUME [Next]_vars, ~Speaks, ~Returns
    PROVE  UNCHANGED <<messages, absences>>
  BY DEF Next, AtWork, Wakes, WakesManually, Rests, Consolidates, Considers, Promotes,
     PromoteEnds, Replies, StaysOn, Decides, Evaluates, Tick, AppendFails, Crash,
     Restart, vars, speech

LEMMA SpeechInductive == SpeechInv /\ [Next]_vars => SpeechInv'
<1> SUFFICES ASSUME SpeechInv, [Next]_vars PROVE SpeechInv'
  OBVIOUS
<1>1. TypeOK /\ TypeOK'
  BY TypeInductive DEF SpeechInv
<1>2. CASE Speaks
  <2>1. InOrder'
    BY <1>1, <1>2, SpeaksAppends, SpeechShape DEF SpeechInv, InOrder
  <2>2. Bounded'
    <3> SUFFICES ASSUME NEW i \in DOMAIN absences
                 PROVE  LET a == absences[i] IN
                        /\ a.until \in 2 .. Len(messages')
                        /\ a.since = Previous(a.until)
                        /\ messages'[a.until] - messages'[a.since] >= Threshold
      BY <1>1, <1>2, SpeaksAppends DEF Bounded
    <3> DEFINE a == absences[i]
    <3>1. /\ a.until \in 2 .. Len(messages) /\ a.since = Previous(a.until)
          /\ messages[a.until] - messages[a.since] >= Threshold
      BY DEF SpeechInv, Bounded
    <3>2. a.since \in 1 .. Len(messages) /\ a.until \in 1 .. Len(messages)
      <4>1. Len(messages) \in Nat
        BY <1>1, SpeechShape
      <4>2. a.until \in Nat \ {0, 1} /\ a.until <= Len(messages)
        BY <3>1, <4>1
      <4>3. a.since \in 1 .. a.until - 1
        <5>1. Previous(a.until) \in 0 .. a.until - 1 /\ Previous(a.until) # 0
          BY <4>2, PreviousBefore
        <5> QED
          BY <3>1, <5>1
      <4> QED
        BY <4>1, <4>2, <4>3
    <3>3. /\ messages'[a.since] = messages[a.since]
          /\ messages'[a.until] = messages[a.until]
          /\ Len(messages') = Len(messages) + 1 /\ Len(messages) \in Nat
      BY <1>1, <1>2, <3>2, SpeaksAppends, SpeechShape
    <3> QED
      BY <3>1, <3>3
  <2> QED
    BY <1>1, <2>1, <2>2 DEF SpeechInv
<1>3. CASE Returns
  <2>1. InOrder'
    BY <1>1, <1>3, ReturnsAppends DEF SpeechInv, InOrder
  <2>2. Bounded'
    <3> SUFFICES ASSUME NEW i \in 1 .. Len(absences) + 1
                 PROVE  LET a == absences'[i] IN
                        /\ a.until \in 2 .. Len(messages)
                        /\ a.since = Previous(a.until)
                        /\ messages[a.until] - messages[a.since] >= Threshold
      BY <1>1, <1>3, ReturnsAppends DEF Bounded
    <3>1. CASE i \in 1 .. Len(absences)
      BY <1>1, <1>3, <3>1, ReturnsAppends, SpeechShape DEF SpeechInv, Bounded
    <3>2. CASE i = Len(absences) + 1
      BY <1>1, <1>3, <3>2, ReturnsAppends, SpeechShape DEF Returns, Away
    <3> QED
      BY <1>1, <3>1, <3>2, SpeechShape
  <2> QED
    BY <1>1, <2>1, <2>2 DEF SpeechInv
<1>4. CASE ~Speaks /\ ~Returns
  BY <1>1, <1>4, SpeechSteps DEF SpeechInv, InOrder, Bounded
<1> QED
  BY <1>2, <1>3, <1>4

LEMMA SpeechInit == Init => SpeechInv
  BY Constants, EmptySeq DEF Init, SpeechInv, TypeOK, InOrder, Bounded

\* The boundaries of an absence are true as far as the search reaches
\* (continuity.py:243).
THEOREM AbsencesTrue == Spec => []AbsenceTrue
<1>1. SpeechInv => AbsenceTrue
  <2> SUFFICES ASSUME SpeechInv, NEW i \in DOMAIN absences
               PROVE  LET a == absences[i] IN
                      /\ a.since < a.until
                      /\ messages[a.until] - messages[a.since] >= Threshold
                      /\ a.until - 1 <= MessageWindow => a.since = a.until - 1
    BY DEF AbsenceTrue
  <2> DEFINE a == absences[i]
  <2>1. /\ a.until \in 2 .. Len(messages) /\ a.since = Previous(a.until)
        /\ messages[a.until] - messages[a.since] >= Threshold
    BY DEF SpeechInv, Bounded
  <2>2. a.until \in Nat \ {0}
    BY <2>1, SpeechShape DEF SpeechInv
  <2>3. a.since < a.until
    BY <2>1, <2>2, PreviousBefore
  <2>4. a.until - 1 <= MessageWindow => a.since = a.until - 1
    BY <2>1, <2>2, PreviousBefore
  <2> QED
    BY <2>1, <2>3, <2>4
<1> QED
  BY <1>1, SpeechInit, SpeechInductive, PTL DEF Spec

\* A short stay is not an absence: what StaysOn leaves unrecorded is none.
LEMMA ShortGap ==
    ASSUME SpeechInv, ~Away, Len(messages) >= 2
    PROVE  messages[Len(messages)] - messages[Len(messages) - 1] < Threshold
<1> DEFINE m == Len(messages)
<1>1. m \in Nat /\ m - 1 \in 1 .. m /\ m \in 1 .. m
  BY SpeechShape DEF SpeechInv
<1>2. Previous(m) \in 1 .. m - 1
  <2>1. Previous(m) \in 0 .. m - 1 /\ Previous(m) # 0
    BY <1>1, PreviousBefore
  <2> QED
    BY <2>1
<1>3. messages[m] - messages[Previous(m)] < Threshold
  <2>1. messages[m] \in Nat /\ messages[Previous(m)] \in Nat
    BY <1>1, <1>2, SpeechShape DEF SpeechInv
  <2> QED
    BY <1>2, <2>1, Constants DEF Away
<1>4. messages[Previous(m)] <= messages[m - 1]
  <2>1. \A p \in DOMAIN messages : p <= m - 1 => messages[p] <= messages[m - 1]
    <3>1. m - 1 \in DOMAIN messages
      BY <1>1, <1>2, SpeechShape DEF SpeechInv
    <3> QED
      BY <3>1 DEF SpeechInv, InOrder
  <2>2. Previous(m) \in DOMAIN messages /\ Previous(m) <= m - 1
    <3> HIDE DEF m
    <3>1. m \in Nat /\ DOMAIN messages = 1 .. m
      BY SpeechShape DEF SpeechInv, m
    <3> QED
      BY <1>2, <3>1
  <2> QED
    BY <2>1, <2>2
<1>5. /\ messages[m] \in Nat /\ messages[Previous(m)] \in Nat
      /\ messages[m - 1] \in Nat
  BY <1>1, <1>2, SpeechShape DEF SpeechInv
<1> QED
  BY <1>3, <1>4, <1>5, Constants

\* A step leaves no return unrecorded, or is an interruption that leaves the last one.
LEMMA UnrecordedStep ==
    ASSUME SpeechInv, [Next]_vars
    PROVE  \/ Unrecorded' \subseteq Unrecorded /\ interruptions' >= interruptions
           \/ /\ Unrecorded' \subseteq Unrecorded \cup {Len(messages)}
              /\ interruptions' = interruptions + 1
<1> USE DEF Up
<1>1. TypeOK /\ TypeOK'
  BY TypeInductive DEF SpeechInv
<1>2. interruptions \in Nat
  BY <1>1, Constants DEF TypeOK
<1>3. CASE Speaks
  <2>1. UNCHANGED interruptions
    BY <1>3 DEF Speaks
  <2>2. ASSUME NEW m \in Unrecorded' PROVE m \in Unrecorded
    <3>1. m \in 2 .. Len(messages) + 1 /\ m # Len(messages')
      BY <1>1, <1>3, <2>2, SpeaksAppends DEF Unrecorded, Speaks
    <3>2. m \in 2 .. Len(messages) /\ m \in 1 .. Len(messages) /\ m - 1 \in 1 .. Len(messages)
      BY <1>1, <1>3, <3>1, SpeaksAppends, SpeechShape
    <3>3. messages'[m] = messages[m] /\ messages'[m - 1] = messages[m - 1]
      BY <1>1, <1>3, <3>2, SpeaksAppends
    <3>4. phase = "idle" /\ UNCHANGED absences
      BY <1>1, <1>3, SpeaksAppends DEF Speaks
    <3> QED
      BY <2>2, <3>2, <3>3, <3>4 DEF Unrecorded
  <2> QED
    BY <1>2, <2>1, <2>2
<1>4. CASE Returns
  <2>1. UNCHANGED interruptions
    BY <1>4 DEF Returns
  <2>2. ASSUME NEW m \in Unrecorded' PROVE m \in Unrecorded
    <3>1. m # Len(messages)
      <4>1. Len(absences) + 1 \in DOMAIN absences'
        BY <1>1, <1>4, ReturnsAppends, SpeechShape
      <4>2. absences'[Len(absences) + 1].until = Len(messages)
        BY <1>1, <1>4, ReturnsAppends
      <4> QED
        BY <2>2, <4>1, <4>2 DEF Unrecorded
    <3>2. \A i \in DOMAIN absences : i \in DOMAIN absences' /\ absences'[i] = absences[i]
      BY <1>1, <1>4, ReturnsAppends, SpeechShape
    <3>3. UNCHANGED messages
      BY <1>4 DEF Returns
    <3> QED
      BY <2>2, <3>1, <3>2, <3>3 DEF Unrecorded
  <2> QED
    BY <1>2, <2>1, <2>2
<1>5. CASE StaysOn
  <2>1. UNCHANGED <<interruptions, messages, absences>> /\ ~Away
    BY <1>5 DEF StaysOn, speech
  <2>2. ASSUME NEW m \in Unrecorded' PROVE m \in Unrecorded
    <3>1. m \in 2 .. Len(messages) /\ messages[m] - messages[m - 1] >= Threshold
      BY <2>1, <2>2 DEF Unrecorded
    <3>2. CASE m = Len(messages)
      <4>1. Len(messages) >= 2 /\ Len(messages) \in Nat
        BY <1>1, <3>1, SpeechShape
      <4>2. messages[m] - messages[m - 1] < Threshold
        BY <2>1, <3>2, <4>1, ShortGap
      <4>3. messages[m] \in Nat /\ messages[m - 1] \in Nat
        <5>1. m \in 1 .. Len(messages) /\ m - 1 \in 1 .. Len(messages)
          BY <3>1, <4>1
        <5> QED
          BY <1>1, <5>1, SpeechShape
      <4> QED
        BY <3>1, <4>2, <4>3, Constants
    <3>3. CASE m # Len(messages)
      BY <2>1, <2>2, <3>3 DEF Unrecorded
    <3> QED
      BY <3>2, <3>3
  <2> QED
    BY <1>2, <2>1, <2>2
<1>6. CASE AppendFails \/ Crash
  <2>1. UNCHANGED <<messages, absences>> /\ interruptions' = interruptions + 1
    BY <1>6 DEF AppendFails, Crash, speech
  <2>2. ASSUME NEW m \in Unrecorded', m # Len(messages) PROVE m \in Unrecorded
    BY <2>1, <2>2 DEF Unrecorded
  <2> QED
    BY <2>1, <2>2
<1>7. CASE ~(Speaks \/ Returns \/ StaysOn \/ AppendFails \/ Crash)
  <2>1. UNCHANGED <<messages, absences>>
    BY <1>7, SpeechSteps
  <2>2. /\ UNCHANGED interruptions
        /\ phase \in {"reply", "return"} => phase' \in {"reply", "return"}
    BY <1>7 DEF Next, AtWork, Wakes, WakesManually, Rests, Consolidates, Considers,
       Promotes, PromoteEnds, Replies, Decides, Evaluates, Tick, Restart, vars
  <2>3. Unrecorded' \subseteq Unrecorded
    BY <2>1, <2>2 DEF Unrecorded
  <2> QED
    BY <1>2, <2>2, <2>3
<1> QED
  BY <1>3, <1>4, <1>5, <1>6, <1>7

LEMMA RecordedInductive ==
    SpeechInv /\ AbsencesRecorded /\ [Next]_vars => AbsencesRecorded'
<1> SUFFICES ASSUME SpeechInv, AbsencesRecorded, [Next]_vars PROVE AbsencesRecorded'
  OBVIOUS
<1>1. IsFiniteSet(Unrecorded) /\ Cardinality(Unrecorded) \in Nat
  <2>1. IsFiniteSet(2 .. Len(messages))
    <3>1. Len(messages) \in Int /\ 2 \in Int
      BY SpeechShape DEF SpeechInv
    <3> QED
      BY <3>1, FS_Interval
  <2>2. Unrecorded \subseteq 2 .. Len(messages)
    BY DEF Unrecorded
  <2> QED
    BY <2>1, <2>2, FS_Subset, FS_CardinalityType
<1>2. interruptions \in Nat /\ interruptions' \in Nat
  BY TypeInductive, Constants DEF SpeechInv, TypeOK
<1>3. CASE Unrecorded' \subseteq Unrecorded /\ interruptions' >= interruptions
  <2>1. Cardinality(Unrecorded') <= Cardinality(Unrecorded) /\ Cardinality(Unrecorded') \in Nat
    BY <1>1, <1>3, FS_Subset, FS_CardinalityType
  <2> QED
    BY <1>1, <1>2, <1>3, <2>1 DEF AbsencesRecorded
<1>4. CASE /\ Unrecorded' \subseteq Unrecorded \cup {Len(messages)}
           /\ interruptions' = interruptions + 1
  <2> DEFINE U == Unrecorded \cup {Len(messages)}
  <2>1. IsFiniteSet(U) /\ Cardinality(U) \in Nat /\ Cardinality(U) <= Cardinality(Unrecorded) + 1
    BY <1>1, FS_AddElement
  <2>2. Cardinality(Unrecorded') <= Cardinality(U) /\ Cardinality(Unrecorded') \in Nat
    BY <1>4, <2>1, FS_Subset, FS_CardinalityType
  <2> QED
    BY <1>1, <1>2, <1>4, <2>1, <2>2 DEF AbsencesRecorded
<1> QED
  BY <1>3, <1>4, UnrecordedStep

\* Every interruption costs the record of one absence at most (main.py:518, where the
\* continuity layer is called last).
THEOREM AbsencesAreRecorded == Spec => []AbsencesRecorded
<1>1. Init => AbsencesRecorded
  <2> SUFFICES ASSUME Init PROVE AbsencesRecorded
    OBVIOUS
  <2>1. Unrecorded = {} /\ interruptions = 0
    BY DEF Init, Unrecorded
  <2> QED
    BY <2>1, FS_EmptySet DEF AbsencesRecorded
<1> QED
  BY <1>1, SpeechInit, SpeechInductive, RecordedInductive, PTL DEF Spec
(***************************************************************************)
(* What surfaces.  An append changes the pool only after its end, until    *)
(* the owner speaks; so what is due stays due, and while promote works     *)
(* through its picks, the reasons for them and their order do not change.  *)
(***************************************************************************)
HasCandidate(t) == \E c \in DOMAIN sources : sources[c] = t

\* The owner has just been heard.
Heard == messages # <<>> /\ pool = <<>>

LEMMA StoresExtends ==
    ASSUME PoolOK, NEW cited \in Seq(SUBSET Nat), Stores(cited)
    PROVE  /\ DOMAIN pool \subseteq DOMAIN pool'
           /\ \A e \in DOMAIN pool : pool'[e] = pool[e]
           /\ \A e \in DOMAIN pool' \ DOMAIN pool : \E i \in DOMAIN cited : pool'[e] = cited[i]
<1> DEFINE all == pool \o cited
           n == Least(PoolWindow, Len(all))
<1>0. /\ pool \in Seq(SUBSET Nat) /\ Len(pool) \in Nat /\ Len(cited) \in Nat
      /\ DOMAIN pool = 1 .. Len(pool) /\ DOMAIN cited = 1 .. Len(cited) /\ Len(pool) <= PoolWindow
      /\ PoolWindow \in Nat
  BY LenProperties, Constants DEF PoolOK
<1>1. /\ all \in Seq(SUBSET Nat) /\ Len(all) = Len(pool) + Len(cited)
      /\ \A i \in 1 .. Len(all) :
            all[i] = IF i <= Len(pool) THEN pool[i] ELSE cited[i - Len(pool)]
  BY <1>0, ConcatProperties
<1>. HIDE DEF all
<1>2. CASE UNCHANGED pool
  BY <1>2
<1>3. CASE pool' = SubSeq(all, 1, n)
  <2>1. n \in Nat /\ Len(pool) <= n /\ n <= Len(all) /\ Len(all) \in Nat
    BY <1>0, <1>1 DEF Least
  <2>. HIDE DEF n
  <2>2. \A i \in 1 .. n : all[i] \in SUBSET Nat
    BY <1>1, <2>1
  <2>3. /\ Len(pool') = n /\ pool' \in Seq(SUBSET Nat)
        /\ \A i \in 1 .. n : pool'[i] = all[i]
    BY <1>3, <2>1, <2>2, SubSeqProperties
  <2>4. DOMAIN pool' = 1 .. n
    BY <2>3, LenProperties
  <2>5. ASSUME NEW e \in DOMAIN pool' \ DOMAIN pool
        PROVE  \E i \in DOMAIN cited : pool'[e] = cited[i]
    <3>1. e \in 1 .. n /\ e > Len(pool) /\ e - Len(pool) \in 1 .. Len(cited)
      BY <1>0, <1>1, <2>1, <2>4
    <3>2. pool'[e] = cited[e - Len(pool)]
      <4>1. pool'[e] = all[e] /\ e \in 1 .. Len(all) /\ ~(e <= Len(pool))
        BY <1>0, <2>1, <2>3, <3>1
      <4>. QED  BY <1>1, <4>1
    <3>. QED  BY <1>0, <3>1, <3>2
  <2>. QED  BY <1>0, <1>1, <2>1, <2>3, <2>4, <2>5
<1>. QED  BY <1>2, <1>3 DEF Stores, all

\* Bookkeeping reflects on nothing.
LEMMA NoteExtends ==
    ASSUME PoolOK, Stores(Note)
    PROVE  /\ DOMAIN pool \subseteq DOMAIN pool'
           /\ \A e \in DOMAIN pool : pool'[e] = pool[e]
           /\ \A e \in DOMAIN pool' \ DOMAIN pool : pool'[e] = {}
<1>1. Note \in Seq(SUBSET Nat) /\ \A i \in DOMAIN Note : Note[i] = {}
  BY DEF Note
<1>. QED  BY <1>1, StoresExtends

LEMMA PoolStep ==
    ASSUME TypeOK, [Next]_vars, ~Speaks
    PROVE  /\ DOMAIN pool \subseteq DOMAIN pool'
           /\ \A e \in DOMAIN pool : pool'[e] = pool[e]
<1>0. PoolOK
  BY TypeParts
<1>1. ASSUME NEW on \in Citable, Stores(Note \o <<on>>)
      PROVE  /\ DOMAIN pool \subseteq DOMAIN pool'
             /\ \A e \in DOMAIN pool : pool'[e] = pool[e]
  <2>1. on \in SUBSET Nat
    BY DEF Citable, TypeOK
  <2>2. Note \in Seq(SUBSET Nat) /\ <<on>> \in Seq(SUBSET Nat)
    BY <2>1 DEF Note
  <2>3. Note \o <<on>> \in Seq(SUBSET Nat)
    BY <2>2, ConcatProperties
  <2>. QED  BY <1>0, <1>1, <2>3, StoresExtends
<1>2. CASE UNCHANGED pool
  BY <1>2
<1>3. CASE Stores(Note)
  BY <1>0, <1>3, NoteExtends
<1>4. CASE Wakes \/ WakesManually \/ Consolidates
  BY <1>1, <1>4 DEF Wakes, WakesManually, Consolidates
<1>5. CASE ~(Wakes \/ WakesManually \/ Consolidates)
  <2>1. UNCHANGED pool \/ Stores(Note)
    BY <1>5 DEF Next, AtWork, Rests, Considers, Promotes, PromoteEnds, Replies, Returns, StaysOn,
       Decides, Evaluates, Tick, AppendFails, Crash, Restart, vars
  <2>. QED  BY <1>2, <1>3, <2>1
<1>. QED  BY <1>4, <1>5

LEMMA ThoughtsGrow ==
    ASSUME TypeOK, [Next]_vars
    PROVE  thoughts \in Nat /\ thoughts' \in Nat /\ thoughts <= thoughts'
<1>0. thoughts \in Nat
  BY DEF TypeOK
<1>1. CASE Wakes \/ WakesManually
  <2>1. thoughts' = thoughts + 1
    BY <1>1 DEF Wakes, WakesManually
  <2>. QED  BY <1>0, <2>1
<1>2. CASE Consolidates
  <2>1. PICK dreams \in 0 .. 1 : thoughts' = thoughts + dreams
    BY <1>2 DEF Consolidates
  <2>. QED  BY <1>0, <2>1
<1>3. CASE ~(Wakes \/ WakesManually \/ Consolidates)
  <2>1. UNCHANGED thoughts
    BY <1>3 DEF Next, AtWork, Rests, Speaks, Considers, Promotes, PromoteEnds, Replies,
       Returns, StaysOn, Decides, Evaluates, Tick, AppendFails, Crash, Restart, vars, promotion
  <2>. QED  BY <1>0, <2>1
<1>. QED  BY <1>1, <1>2, <1>3

\* What appending does to a sequence of naturals.
LEMMA Appended ==
    ASSUME NEW s \in Seq(Nat), NEW x \in Nat
    PROVE  /\ DOMAIN Append(s, x) = 1 .. Len(s) + 1
           /\ Append(s, x)[Len(s) + 1] = x
           /\ \A c \in 1 .. Len(s) : Append(s, x)[c] = s[c]
  OBVIOUS

\* One candidate at a time, for one of the picks.
LEMMA SourcesStep ==
    ASSUME PromotionInv, [Next]_vars, sources' # sources
    PROVE  \E t \in picks :
              /\ Promotes /\ picks' = picks \ {t} /\ ~AlreadyPromoted(t)
              /\ \A u : HasCandidate(u)' <=> HasCandidate(u) \/ u = t
<1>0. sources \in Seq(Nat) /\ picks \subseteq Nat /\ DOMAIN sources = 1 .. Len(sources)
      /\ Len(sources) \in Nat
  BY LenProperties DEF PromotionInv, TypeOK
<1>1. Promotes
  BY DEF Next, AtWork, Wakes, WakesManually, Rests, Consolidates, Speaks, Considers,
     PromoteEnds, Replies, Returns, StaysOn, Decides, Evaluates, Tick, AppendFails,
     Crash, Restart, vars, promotion
<1>2. PICK t \in picks :
        picks' = picks \ {t} /\ ~AlreadyPromoted(t) /\ sources' = Append(sources, t)
  BY <1>1 DEF Promotes
<1>3. t \in Nat /\ sources' \in Seq(Nat) /\ Len(sources') = Len(sources) + 1
  BY <1>0, <1>2, AppendProperties
<1>4. /\ DOMAIN sources' = 1 .. Len(sources) + 1
      /\ sources'[Len(sources) + 1] = t
      /\ \A c \in 1 .. Len(sources) : sources'[c] = sources[c]
  BY <1>0, <1>2, <1>3, Appended
<1>5. \A u : HasCandidate(u)' <=> HasCandidate(u) \/ u = t
  <2>1. DOMAIN sources' = DOMAIN sources \union {Len(sources) + 1}
    BY <1>0, <1>4
  <2>. QED  BY <1>0, <1>4, <2>1 DEF HasCandidate
<1>. QED  BY <1>1, <1>2, <1>5

LEMMA DueKept ==
    ASSUME PromotionInv, [Next]_vars, NEW t \in Nat, Due(t)
    PROVE  Due(t)' \/ HasCandidate(t)' \/ Heard'
<1>1. CASE Speaks
  <2>1. messages' = Append(messages, now) /\ pool' = <<>> /\ messages \in Seq(Nat) /\ now \in Nat
    BY <1>1 DEF Speaks, PromotionInv, TypeOK
  <2>2. Len(messages') = Len(messages) + 1 /\ Len(messages) \in Nat
    BY <2>1, AppendProperties, LenProperties
  <2>3. messages' # <<>>
    BY <2>2, EmptySeq
  <2>. QED  BY <2>1, <2>3 DEF Heard
<1>2. CASE ~Speaks
  <2>1. /\ DOMAIN pool \subseteq DOMAIN pool' /\ \A e \in DOMAIN pool : pool'[e] = pool[e]
        /\ thoughts' \in Nat /\ thoughts <= thoughts' /\ thoughts \in Nat
    BY <1>2, PoolStep, ThoughtsGrow DEF PromotionInv
  <2>2. (\E e \in DOMAIN pool' : t \in pool'[e]) /\ t <= thoughts' /\ t <= Window
    BY <2>1 DEF Due
  <2>. QED  BY <2>2 DEF Due, HasCandidate
<1>. QED  BY <1>1, <1>2

\* What is due stays due until it surfaces or the owner is heard: no beat, wake, sleep,
\* fault, crash or restart loses it.  (That it surfaces in the end is left to TLC.)
THEOREM DueUntilHeard ==
    Spec => [][\A t \in Nat : Due(t) => Due(t)' \/ HasCandidate(t)' \/ Heard']_vars
<1>1. Init => PromotionInv
  BY Constants, EmptySeq DEF Init, PromotionInv, TypeOK, PromotedOnce
<1>2. PromotionInv /\ [Next]_vars
         => [\A t \in Nat : Due(t) => Due(t)' \/ HasCandidate(t)' \/ Heard']_vars
  BY DueKept
<1> QED
  BY <1>1, <1>2, PromotionInductive, PTL DEF Spec

\* The look-back of promote misses no candidate, and only the oldest thoughts get one.
LookBack ==
    /\ \A t \in Nat : AlreadyPromoted(t) <=> HasCandidate(t)
    /\ Len(sources) <= Window /\ \A c \in DOMAIN sources : sources[c] <= Window

\* Promotion lists the Window oldest thoughts (reentry.py:225), so it is over for good
\* when those have surfaced: a later thought never gets a candidate.  For the same reason
\* the newest Window candidates are all there are.
THEOREM OnlyTheOldestSurface == Spec => []LookBack
<1>1. Init => PromotionInv
  BY Constants, EmptySeq DEF Init, PromotionInv, TypeOK, PromotedOnce
<1>2. PromotionInv => LookBack
  BY FewCandidates, LooksAtAll DEF LookBack, AlreadyPromoted, HasCandidate, PromotionInv
<1> QED
  BY <1>1, <1>2, PromotionInductive, PTL DEF Spec

(***************************************************************************)
(* A promotion at work.  Between the choice of its picks and the append of *)
(* a candidate nothing makes a pick undue, and there is always a next one: *)
(* Precedes orders what is reflected on, and finite sets have a first.     *)
(***************************************************************************)
PicksDue == \A t \in picks : Due(t)

LEMMA ConsidersDue ==
    ASSUME PromotionInv, Considers
    PROVE  PicksDue'
<1>1. ASSUME NEW t \in picks' PROVE t \in Promotable
  BY DEF Considers
<1>2. ASSUME NEW t \in Promotable
      PROVE  /\ t <= thoughts /\ t <= Window /\ ~AlreadyPromoted(t)
             /\ \E e \in DOMAIN pool : t \in pool[e]
  BY DEF Promotable, Material, JustifiedBy, PromotionInv, TypeOK
<1>3. ASSUME NEW t \in Promotable PROVE Due(t)
  BY <1>2, LooksAtAll DEF Due
<1>4. UNCHANGED <<thoughts, pool, sources>>
  BY DEF Considers
<1>. QED  BY <1>1, <1>3, <1>4 DEF PicksDue, Due

\* While there are picks, the owner does not speak.
LEMMA PicksStep ==
    ASSUME TypeOK, [Next]_vars, ~Considers
    PROVE  picks' \subseteq picks /\ (Speaks => picks' = {})
<1>1. picks' \subseteq picks
  BY DEF Next, AtWork, Wakes, WakesManually, Rests, Consolidates, Speaks, Promotes,
     PromoteEnds, Replies, Returns, StaysOn, Decides, Evaluates, Tick, AppendFails,
     Crash, Restart, vars, promotion
<1>2. Speaks => picks = {}
  BY DEF Speaks, Up, TypeOK
<1>. QED  BY <1>1, <1>2

LEMMA PicksKept ==
    ASSUME PromotionInv, PicksDue, [Next]_vars
    PROVE  PicksDue'
<1>0. TypeOK /\ picks \subseteq Nat
  BY DEF PromotionInv, TypeOK
<1>1. CASE Considers
  BY <1>1, ConsidersDue
<1>2. ASSUME ~Considers, NEW t \in picks' PROVE Due(t)'
  <2>1. t \in picks /\ Due(t) /\ ~Speaks
    BY <1>0, <1>2, PicksStep DEF PicksDue
  <2>2. /\ DOMAIN pool \subseteq DOMAIN pool' /\ \A e \in DOMAIN pool : pool'[e] = pool[e]
        /\ thoughts' \in Nat /\ thoughts <= thoughts' /\ thoughts \in Nat /\ t \in Nat
    BY <1>0, <2>1, PoolStep, ThoughtsGrow
  <2>3. ~HasCandidate(t)'
    <3>1. ~HasCandidate(t)
      BY <2>1 DEF Due, HasCandidate
    <3>2. CASE sources' = sources
      BY <3>1, <3>2 DEF HasCandidate
    <3>3. CASE sources' # sources
      BY <1>2, <3>1, <3>3, SourcesStep
    <3>. QED  BY <3>2, <3>3
  <2>4. (\E e \in DOMAIN pool' : t \in pool'[e]) /\ t <= thoughts' /\ t <= Window
    BY <2>1, <2>2 DEF Due
  <2>. QED  BY <2>3, <2>4 DEF Due, HasCandidate
<1>. QED  BY <1>1, <1>2 DEF PicksDue

LEMMA PicksHold == Spec => [](PromotionInv /\ PicksDue)
<1>1. Init => PromotionInv /\ PicksDue
  BY Constants, EmptySeq DEF Init, PromotionInv, TypeOK, PromotedOnce, PicksDue
<1>2. PromotionInv /\ PicksDue /\ [Next]_vars => (PromotionInv /\ PicksDue)'
  BY PromotionInductive, PicksKept
<1> QED
  BY <1>1, <1>2, PTL DEF Spec

\* Nothing private surfaces unprompted: the step that stores a share candidate stores it
\* for a thought that is due in that very step, not only when the beat chose it: with a
\* reflection since the owner's last message (the rule of consider_promotions' docstring,
\* reentry.py:209) and without a candidate so far.
THEOREM SurfacesOnlyTheDue ==
    Spec => [][\A t : HasCandidate(t)' /\ ~HasCandidate(t) => Due(t) /\ Promotes]_vars
<1>1. ASSUME PromotionInv, PicksDue, Next, NEW t, HasCandidate(t)', ~HasCandidate(t)
      PROVE  Due(t) /\ Promotes
  <2>1. sources' # sources
    BY <1>1 DEF HasCandidate
  <2>. QED  BY <1>1, <2>1, SourcesStep DEF PicksDue
<1>2. PromotionInv /\ PicksDue /\ [Next]_vars
         => [\A t : HasCandidate(t)' /\ ~HasCandidate(t) => Due(t) /\ Promotes]_vars
  BY <1>1
<1> QED
  BY <1>2, PicksHold, PTL DEF Spec

\* The reasons for a thought that is due are positions of the pool.
LEMMA ReasonsFacts ==
    ASSUME TypeOK, NEW t, JustifiedBy(t) # {}
    PROVE  /\ JustifiedBy(t) \in SUBSET Nat /\ Max(JustifiedBy(t)) \in JustifiedBy(t)
           /\ Max(JustifiedBy(t)) \in Nat /\ Max(JustifiedBy(t)) <= Len(pool)
           /\ Len(pool) \in Nat
<1>1. DOMAIN pool = 1 .. Len(pool) /\ Len(pool) \in Nat
  BY LenProperties DEF TypeOK
<1>2. JustifiedBy(t) \in SUBSET Nat /\ \A e \in JustifiedBy(t) : e <= Len(pool)
  BY <1>1 DEF JustifiedBy
<1>3. Max(JustifiedBy(t)) \in JustifiedBy(t)
  BY <1>1, <1>2, MaxFacts
<1>. QED  BY <1>1, <1>2, <1>3

LEMMA FirstExists ==
    ASSUME TypeOK, NEW S, S \subseteq 1 .. thoughts, S # {}, \A t \in S : JustifiedBy(t) # {}
    PROVE  \E t \in S : \A u \in S \ {t} : Precedes(t, u) /\ ~Precedes(u, t)
<1> DEFINE latest(t) == Max(JustifiedBy(t))
           L == {latest(t) : t \in S}
<1>0. thoughts \in Nat /\ Len(pool) \in Nat /\ \A t \in S : t \in Nat /\ t <= thoughts
  BY ReasonsFacts DEF TypeOK
<1>1. \A t \in S : latest(t) \in Nat /\ latest(t) <= Len(pool)
  BY ReasonsFacts
<1>2. \A t, u : Precedes(t, u) <=> latest(t) > latest(u) \/ (latest(t) = latest(u) /\ t > u)
  BY DEF Precedes
<1>. HIDE DEF latest
<1>3. L \in SUBSET Nat /\ L # {} /\ \A x \in L : x <= Len(pool)
  BY <1>1
<1>4. PICK m \in L : \A y \in L : m >= y
  BY <1>0, <1>3, GreatestExists
<1> DEFINE T == {t \in S : latest(t) = m}
<1>5. T \in SUBSET Nat /\ T # {} /\ \A t \in T : t <= thoughts
  BY <1>0, <1>4
<1>6. PICK t \in T : \A u \in T : t >= u
  <2>. HIDE DEF T
  <2>. QED  BY <1>0, <1>5, GreatestExists
<1>7. ASSUME NEW u \in S \ {t} PROVE Precedes(t, u) /\ ~Precedes(u, t)
  <2>1. /\ latest(t) = m /\ latest(u) \in L /\ m >= latest(u) /\ latest(u) \in Nat /\ m \in Nat
        /\ t \in Nat /\ u \in Nat /\ t # u
    BY <1>0, <1>1, <1>3, <1>4, <1>6
  <2>2. latest(u) = m => t >= u
    BY <1>6
  <2>. QED  BY <1>2, <2>1, <2>2
<1>. QED  BY <1>6, <1>7

\* No pick is left, or one that Promotes may take.
Onward ==
    phase = "promoting" =>
        picks = {} \/ \E t \in picks : \A u \in picks \ {t} : Precedes(t, u)

\* A promotion at work has a next pick or none left: the order of reentry.py:255 (latest
\* reflection, then newest thought) never leaves two picks waiting for each other.
THEOREM PromotionGoesOn == Spec => []Onward
<1>1. ASSUME PromotionInv, PicksDue PROVE Onward
  <2>1. TypeOK /\ picks \subseteq 1 .. thoughts
    BY <1>1 DEF PromotionInv, TypeOK
  <2>2. \A t \in picks : JustifiedBy(t) # {}
    BY <1>1 DEF PicksDue, Due, JustifiedBy
  <2>. QED  BY <2>1, <2>2, FirstExists DEF Onward
<1> QED
  BY <1>1, PicksHold, PTL

PicksSome == (Considers /\ MaxPromotions # 0 /\ \E t \in Nat \ {0} : Due(t)) => picks' # {}

\* A beat that considers while something is due picks something, whatever the cap:
\* consider_promotions takes at least the first of what is due (reentry.py:255-263).
THEOREM BeatPicksSome == Spec => [][PicksSome]_vars
<1>1. ASSUME PromotionInv, Considers, MaxPromotions # 0, NEW d \in Nat \ {0}, Due(d)
      PROVE  picks' # {}
  <2>1. TypeOK /\ thoughts \in Nat /\ MaxPromotions \in Nat
    <3>1. MaxPromotions \in Nat
      BY ReturningAssumption
    <3>. QED  BY <1>1, <3>1 DEF PromotionInv, TypeOK
  <2>2. d \in Promotable
    <3>1. ~AlreadyPromoted(d)
      BY <1>1 DEF Due, AlreadyPromoted
    <3>. QED  BY <1>1, <2>1, <3>1 DEF Due, Promotable, Material, JustifiedBy
  <2>3. Promotable \subseteq 1 .. thoughts /\ \A t \in Promotable : JustifiedBy(t) # {}
    BY DEF Promotable, Material
  <2>4. PICK t \in Promotable : \A u \in Promotable \ {t} : Precedes(t, u) /\ ~Precedes(u, t)
    BY <2>1, <2>2, <2>3, FirstExists
  <2>5. ~Precedes(t, t)
    <3>1. t \in Nat /\ Max(JustifiedBy(t)) \in Nat
      BY <2>1, <2>3, <2>4, ReasonsFacts
    <3>. QED  BY <3>1 DEF Precedes
  <2>6. {u \in Promotable : Precedes(u, t)} = {}
    BY <2>4, <2>5
  <2>7. Cardinality({u \in Promotable : Precedes(u, t)}) < MaxPromotions
    BY <1>1, <2>1, <2>6, FS_EmptySet
  <2>. QED  BY <1>1, <2>4, <2>7 DEF Considers
<1>2. PromotionInv /\ [Next]_vars => [PicksSome]_vars
  BY <1>1 DEF PicksSome
<1> QED
  BY <1>2, PicksHold, PTL DEF Spec
================================================================================
