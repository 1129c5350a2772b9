------------------------------- MODULE Returning -------------------------------
(***************************************************************************)
(* What the owner finds on coming back: thoughts that a later reflection   *)
(* justified become share candidates (ReentryEngine.promote, called by the *)
(* beat after a wake), and a message after a long silence leaves the fact  *)
(* of the absence (ContinuityEngine.on_user_return, called by the chat).   *)
(* Both read windows of the log, the oldest or the newest so many events   *)
(* of a kind; of the log the model keeps what those windows tell apart.    *)
(*                                                                         *)
(* Beat and chat run on the event loop and await nothing, so they do not   *)
(* interleave; POST /api/reentry runs in a worker thread.                  *)
(***************************************************************************)
EXTENDS Naturals, FiniteSets, FiniteSetsExt, Sequences

CONSTANTS
    Window,            \* thoughts and share candidates that promotion lists (500)
    PoolWindow,        \* events since the last message it looks at (500)
    MessageWindow,     \* messages the absence lists (200)
    MaxPromotions,     \* promotions of one beat (5)
    Threshold,         \* absence_threshold_s, in ticks
    MaxCited,          \* thoughts that one reflection cites
    MaxMessages, MaxThoughts, MaxTime, \* bounds
    MaxInterruptions   \* bound: appends that raise and crashes

ASSUME ReturningAssumption ==
    /\ {Window, PoolWindow, MaxPromotions, Threshold, MaxCited, MaxMessages, MaxThoughts,
        MaxTime, MaxInterruptions} \subseteq Nat
    /\ MessageWindow \in Nat \ {0}

VARIABLES
    thoughts,   \* how many are stored; they are numbered in that order
    pool,       \* thoughts cited by each event since the last message, oldest first
    sources,    \* the thought behind each share candidate, oldest first
    messages,   \* the stamp of each message
    absences,   \* the messages that each absence lies between
    now,        \* the clock
    mode,       \* "up" or "down"
    phase,      \* what the loop does next, "idle" if neither beat nor chat is at work
    picks,      \* thoughts promote has still to store a candidate for
    interruptions

vars == <<thoughts, pool, sources, messages, absences, now, mode, phase, picks,
          interruptions>>
promotion == <<thoughts, sources, picks>>
speech == <<messages, absences>>

Up(p) == mode = "up" /\ phase = p

Least(a, b) == IF a < b THEN a ELSE b

\* Events that cite these thoughts are stored: only those stamped after the last
\* message count, and of those the oldest.
Stores(cited) ==
    IF messages # <<>> /\ now <= messages[Len(messages)] THEN UNCHANGED pool
    ELSE pool' = SubSeq(pool \o cited, 1, Least(PoolWindow, Len(pool \o cited)))

\* A stretch of bookkeeping (wake.started and the like) counts as one event here.
Note == <<{}>>

(***************************************************************************)
(* Thinking.                                                               *)
(***************************************************************************)
\* Mutant: a citation need not be stored yet.
CitesAhead == {on \in SUBSET (1 .. thoughts + 1) : Cardinality(on) <= MaxCited}

Citable == {on \in SUBSET (1 .. thoughts) : Cardinality(on) <= MaxCited}

\* A beat's wake.  What a deliberate route recalled is cited; the citations of another
\* route's thought do not count and are left out, so it cites nothing.
Wakes == \E on \in Citable :
    /\ Up("idle") /\ thoughts < MaxThoughts
    /\ thoughts' = thoughts + 1 /\ Stores(Note \o <<on>>)
    /\ phase' = "promote"
    /\ UNCHANGED <<sources, picks, speech, now, mode, interruptions>>

\* The same from POST /api/wake, which does not promote.
WakesManually == \E on \in Citable :
    /\ Up("idle") /\ thoughts < MaxThoughts
    /\ thoughts' = thoughts + 1 /\ Stores(Note \o <<on>>)
    /\ UNCHANGED <<sources, picks, speech, now, mode, phase, interruptions>>

\* A beat's wake that leaves no thought.
Rests ==
    /\ Up("idle") /\ Stores(Note) /\ phase' = "promote"
    /\ UNCHANGED <<promotion, speech, now, mode, interruptions>>

\* A sleep consolidates memories, and may dream.
Consolidates == \E on \in Citable, dreams \in 0 .. 1 :
    /\ Up("idle") /\ thoughts + dreams <= MaxThoughts
    /\ thoughts' = thoughts + dreams /\ Stores(Note \o <<on>>)
    /\ UNCHANGED <<sources, picks, speech, now, mode, phase, interruptions>>

(***************************************************************************)
(* Promotion.                                                              *)
(***************************************************************************)
\* Only the newest candidates are looked through.
AlreadyPromoted(t) ==
    \E c \in DOMAIN sources : c + Window > Len(sources) /\ sources[c] = t

\* Mutant: what is promoted already takes the place of what is not.
MaterialWithPromoted == {t \in 1 .. thoughts : t <= Window}

\* Mutant: the list of thoughts is not cut.
MaterialOfAll == {t \in 1 .. thoughts : ~AlreadyPromoted(t)}

\* Of the oldest thoughts, those not promoted.
Material == {t \in 1 .. thoughts : t <= Window /\ ~AlreadyPromoted(t)}

\* The events that reflect on t, all of them later.
JustifiedBy(t) == {e \in DOMAIN pool : t \in pool[e]}
Promotable == {t \in Material : JustifiedBy(t) # {}}

\* t comes before u: reflected on more recently, or the newer thought.
Precedes(t, u) ==
    \/ Max(JustifiedBy(t)) > Max(JustifiedBy(u))
    \/ Max(JustifiedBy(t)) = Max(JustifiedBy(u)) /\ t > u

\* consider_promotions.
Considers ==
    /\ Up("promote") /\ phase' = "promoting"
    /\ picks' = {t \in Promotable :
                    Cardinality({u \in Promotable : Precedes(u, t)}) < MaxPromotions}
    /\ UNCHANGED <<thoughts, sources, pool, speech, now, mode, interruptions>>

\* promote appends them one by one, and looks again whether there is one already.
Promotes == \E t \in picks :
    /\ Up("promoting") /\ \A u \in picks \ {t} : Precedes(t, u)
    /\ IF AlreadyPromoted(t) THEN UNCHANGED <<sources, pool>>
       ELSE sources' = Append(sources, t) /\ Stores(Note)
    /\ picks' = picks \ {t}
    /\ UNCHANGED <<thoughts, speech, now, mode, phase, interruptions>>

PromoteEnds ==
    /\ Up("promoting") /\ picks = {} /\ phase' = "idle"
    /\ UNCHANGED <<promotion, pool, speech, now, mode, interruptions>>

(***************************************************************************)
(* Speaking.                                                               *)
(***************************************************************************)
\* The user's message: what came before it is no longer news.
Speaks ==
    /\ Up("idle") /\ Len(messages) < MaxMessages
    /\ messages' = Append(messages, now) /\ pool' = <<>> /\ phase' = "reply"
    /\ UNCHANGED <<promotion, absences, now, mode, interruptions>>

\* conversation.resident_message and experience.created.
Replies ==
    /\ Up("reply") /\ Stores(Note) /\ phase' = "return"
    /\ UNCHANGED <<promotion, speech, now, mode, interruptions>>

\* Mutant: the oldest message of all.
FirstMessage(m) == IF m = 1 THEN 0 ELSE 1

\* The last message before m of the oldest that are listed, 0 if there is none.
Previous(m) == Least(MessageWindow, m - 1)

\* Mutant: the threshold has to be exceeded.
AwayLonger == LET m == Len(messages) IN
    Previous(m) # 0 /\ messages[m] - messages[Previous(m)] > Threshold

Away == LET m == Len(messages) IN
    Previous(m) # 0 /\ messages[m] - messages[Previous(m)] >= Threshold

\* absence.detected.
Returns ==
    /\ Up("return") /\ Away /\ Stores(Note) /\ phase' = "decide"
    /\ absences' = Append(absences, [since |-> Previous(Len(messages)),
                                     until |-> Len(messages)])
    /\ UNCHANGED <<promotion, messages, now, mode, interruptions>>

StaysOn ==
    /\ Up("return") /\ ~Away /\ phase' = "idle"
    /\ UNCHANGED <<promotion, pool, speech, now, mode, interruptions>>

\* The candidates of this return, then reentry.selected or reentry.noop.
Decides ==
    /\ Up("decide") /\ Stores(Note) /\ phase' = "idle"
    /\ UNCHANGED <<promotion, speech, now, mode, interruptions>>

(***************************************************************************)
(* The surroundings.                                                       *)
(***************************************************************************)
\* POST /api/reentry: what it evaluates and proposes.
Evaluates ==
    /\ mode = "up" /\ Stores(Note)
    /\ UNCHANGED <<promotion, speech, now, mode, phase, interruptions>>

Tick ==
    /\ now < MaxTime /\ now' = now + 1
    /\ UNCHANGED <<promotion, pool, speech, mode, phase, interruptions>>

\* The next append raises: the beat or the request ends.
AppendFails ==
    /\ mode = "up" /\ phase # "idle" /\ interruptions < MaxInterruptions
    /\ interruptions' = interruptions + 1 /\ phase' = "idle" /\ picks' = {}
    /\ UNCHANGED <<thoughts, sources, pool, speech, now, mode>>

Crash ==
    /\ mode = "up" /\ interruptions < MaxInterruptions
    /\ interruptions' = interruptions + 1 /\ mode' = "down"
    /\ phase' = "idle" /\ picks' = {}
    /\ UNCHANGED <<thoughts, sources, pool, speech, now>>

Restart ==
    /\ mode = "down" /\ mode' = "up"
    /\ UNCHANGED <<promotion, pool, speech, now, phase, interruptions>>

Init ==
    /\ thoughts = 0 /\ pool = <<>> /\ sources = <<>>
    /\ messages = <<>> /\ absences = <<>> /\ now = 0
    /\ mode = "up" /\ phase = "idle" /\ picks = {} /\ interruptions = 0

AtWork == Considers \/ Promotes \/ PromoteEnds
              \/ Replies \/ Returns \/ StaysOn \/ Decides

Next ==
    \/ Wakes \/ WakesManually \/ Rests \/ Consolidates \/ Speaks \/ AtWork
    \/ Evaluates \/ Tick \/ AppendFails \/ Crash \/ Restart

Spec == Init /\ [][Next]_vars

\* The loop beats again and again, goes on with what it has begun, and a dead process
\* is started again.
FairSpec ==
    Spec /\ WF_vars(Wakes \/ Rests) /\ WF_vars(AtWork) /\ WF_vars(Restart)

(***************************************************************************)
(* Properties.                                                             *)
(***************************************************************************)
TypeOK ==
    /\ thoughts \in 0 .. MaxThoughts
    /\ pool \in Seq(SUBSET Nat) /\ Len(pool) <= PoolWindow
    /\ \A e \in DOMAIN pool : pool[e] \subseteq 1 .. thoughts
    /\ sources \in Seq(Nat) /\ \A c \in DOMAIN sources : sources[c] \in 1 .. thoughts
    /\ messages \in Seq(Nat) /\ Len(messages) <= MaxMessages
    /\ \A m \in DOMAIN messages : messages[m] <= now
    /\ absences \in Seq([since : Nat, until : Nat])
    /\ \A i \in DOMAIN absences : {absences[i].since, absences[i].until}
                                      \subseteq DOMAIN messages
    /\ now \in 0 .. MaxTime
    /\ mode \in {"up", "down"}
    /\ phase \in {"idle", "promote", "promoting", "reply", "return", "decide"}
    /\ picks \subseteq 1 .. thoughts
    /\ phase # "promoting" => picks = {}
    /\ phase \in {"reply", "return", "decide"} => messages # <<>>
    /\ interruptions \in 0 .. MaxInterruptions

\* A thought surfaces once: no two share candidates have the same source, however many
\* there are, although only the newest are looked through for it.
PromotedOnce ==
    \A c, d \in DOMAIN sources : sources[c] = sources[d] => c = d

\* A thought is due when it is among the oldest thoughts, has no candidate, and an
\* event among the first since the last message reflects on it.
Due(t) ==
    /\ t <= thoughts /\ t <= Window
    /\ \A c \in DOMAIN sources : sources[c] # t
    /\ \E e \in DOMAIN pool : t \in pool[e]

\* What is due surfaces, whatever else is, unless the owner speaks first: then nothing
\* that was reflected on before justifies it any more.
Surfaces == \A t \in 1 .. MaxThoughts :
    Due(t) ~> \/ \E c \in DOMAIN sources : sources[c] = t
              \/ messages # <<>> /\ pool = <<>>

\* An absence is a fact: it lies between two messages at least the threshold apart,
\* with none in between as long as the messages are no more than the search lists.
AbsenceTrue == \A i \in DOMAIN absences : LET a == absences[i] IN
    /\ a.since < a.until
    /\ messages[a.until] - messages[a.since] >= Threshold
    /\ a.until - 1 <= MessageWindow => a.since = a.until - 1

\* A return after the threshold goes unrecorded only if an interruption cut it short.
Unrecorded == {m \in 2 .. Len(messages) :
    /\ messages[m] - messages[m - 1] >= Threshold
    /\ \A i \in DOMAIN absences : absences[i].until # m
    /\ ~(phase \in {"reply", "return"} /\ m = Len(messages))}
AbsencesRecorded == Cardinality(Unrecorded) <= interruptions
================================================================================
