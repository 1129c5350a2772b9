------------------------ MODULE PermissionChannelProofs ------------------------
(***************************************************************************)
(* Theorems about PermissionChannel, for any number of asks, owners, runs, *)
(* answers and failing appends, any pipe, chunk and lengths of responses.  *)
(***************************************************************************)
EXTENDS PermissionChannel, SequenceTheorems, TLAPS

(***************************************************************************)
(* Type correctness.                                                       *)
(***************************************************************************)
\* The line of an ask names it.  A long line never gets past the reader.
Kinds == {"noise", "ask", "ok", "error", "empty"}
Requests == [kind : {"ask", "long"}, ask : Asks]
Lines == {l \in [kind : Kinds \union {"long"}, ask : Asks \union {NoAsk}] :
              l.kind = "ask" => l.ask \in Asks}
Read == {l \in [kind : Kinds \union {"eof"}, ask : Asks \union {NoAsk}] :
             l.kind = "ask" => l.ask \in Asks}
Places == [ask : Asks \union {NoAsk}, says : {"-", "allow", "deny"}]
Events == [type : {"asked", "answered"}, ask : Asks,
           what : {"-", "allow", "deny", "auto_deny_expired"}]

ChildOK ==
    /\ child \in {"none", "working", "awaiting", "finished", "exited"}
    /\ sent \in Seq(Requests)
    /\ outbox \in Seq(Lines) /\ pipe \in Seq(Lines)
    /\ stdin \in Seq(Places) /\ buffer \in Seq(Places)
    /\ child = "awaiting" => sent # <<>>
    /\ told \subseteq Asks

HostOK ==
    /\ host \in {"idle", "reading", "asking", "closing"}
    /\ outq \in Seq(Read)
    /\ reader \in {"reads", "stopped"} /\ getter \in {"looks", "looked", "waits"}
    /\ host # "asking" => getter = "looks"
    /\ ask \in Asks \union {NoAsk} /\ live \subseteq Asks
    /\ host = "asking" => ask \in Asks
    /\ trail \in Seq(Events) /\ faults \in Nat

OwnerOK ==
    /\ posts \in Nat /\ accepted \subseteq Asks \X {"allow", "deny"}
    /\ answers \in Seq([ask : Asks, answer : {"allow", "deny"}])
    /\ owner \in [Owners -> [step : {"idle", "checked", "rechecked"},
                             ask : Asks \union {NoAsk}, answer : {"allow", "deny"}]]
    /\ \A o \in Owners : owner[o].step # "idle" => owner[o].ask \in Asks

RunOK ==
    /\ runs \in Nat /\ payload \in {"none", "ok", "error", "empty"}
    /\ outcome \in {"none", "ok", "error", "timeout", "malformed_output",
                    "sandbox_violation", "permission_timeout"}

TypeInv == ChildOK /\ HostOK /\ OwnerOK /\ RunOK

LEMMA SeqSubset ==
    ASSUME NEW S, NEW T, S \subseteq T, NEW s \in Seq(S)
    PROVE  s \in Seq(T)
<1>1. s \in [1 .. Len(s) -> T] /\ Len(s) \in Nat
  BY LenProperties, ElementOfSeq
<1> QED
  BY <1>1, SeqDef

LEMMA TypesHold == TypeInv => TypeOK
<1> SUFFICES ASSUME TypeInv PROVE TypeOK
  OBVIOUS
<1> USE DEF TypeInv, ChildOK, HostOK, OwnerOK, RunOK
<1>1. {outbox, pipe} \subseteq Seq([kind : Kinds \union {"long"}, ask : Asks \union {NoAsk}])
  <2> DEFINE Any == [kind : Kinds \union {"long"}, ask : Asks \union {NoAsk}]
  <2>1. Lines \subseteq Any
    BY DEF Lines
  <2> HIDE DEF Any
  <2>2. outbox \in Seq(Any) /\ pipe \in Seq(Any)
    BY <2>1, SeqSubset
  <2>3. {outbox, pipe} \subseteq Seq(Any)
    BY <2>2
  <2> QED
    BY <2>3 DEF Any
<1>2. outq \in Seq([kind : Kinds \union {"eof"}, ask : Asks \union {NoAsk}])
  <2>1. Read \subseteq [kind : Kinds \union {"eof"}, ask : Asks \union {NoAsk}]
    BY DEF Read
  <2> QED
    BY <2>1, SeqSubset
<1>3. /\ Kinds \union {"eof"} = {"noise", "ask", "ok", "error", "empty", "eof"}
      /\ Kinds \union {"long"} = {"noise", "ask", "ok", "error", "empty", "long"}
  BY DEF Kinds
<1> QED
  BY <1>1, <1>2, <1>3 DEF TypeOK, Requests, Places, Events

LEMMA Sequences ==
    ASSUME NEW S, NEW s \in Seq(S)
    PROVE  /\ \A x \in S : Append(s, x) \in Seq(S)
           /\ s # <<>> => Head(s) \in S /\ Tail(s) \in Seq(S)
           /\ <<>> \in Seq(S)
  BY HeadTailProperties, AppendProperties

LEMMA ConstantsOK ==
    /\ NoAsk \notin Asks /\ PipeSize \in Nat \ {0} /\ Chunk \in Nat \ {0}
    /\ Lengths \subseteq Nat \ {0}
  BY ChannelAssumption

LEMMA ResponseOK ==
    ASSUME NEW says \in {"allow", "deny"}, NEW length \in Nat \ {0}, ask \in Asks
    PROVE  /\ Response(says, length) \in Seq(Places)
           /\ Len(Response(says, length)) = length
           /\ \A i \in 1 .. length :
                Response(says, length)[i].says # "-" =>
                    Response(says, length)[i] = [ask |-> ask, says |-> says]
<1> DEFINE r == Response(says, length)
<1>1. r \in [1 .. length -> Places]
  BY DEF Response, Places
<1>2. r \in Seq(Places)
  BY <1>1, SeqDef
<1>3. Len(r) = length
  BY <1>1, <1>2, LenProperties
<1>4. \A i \in 1 .. length : r[i].says # "-" => r[i] = [ask |-> ask, says |-> says]
  BY DEF Response
<1> QED
  BY <1>2, <1>3, <1>4

\* Whatever becomes of the ask, one event more or an append more that failed.
LEMMA SettleOK ==
    ASSUME HostOK, host = "asking",
           NEW what \in {"allow", "deny", "auto_deny_expired"}, Settle(what)
    PROVE  /\ ask' = NoAsk /\ live' \subseteq Asks /\ getter' = "looks"
           /\ trail' \in Seq(Events) /\ faults' \in Nat
<1>1. Recorded("answered", ask, what) \in Events
  BY DEF HostOK, Recorded, Events
<1>2. ask' = NoAsk /\ live' \subseteq Asks /\ getter' = "looks"
  BY DEF Settle, HostOK
<1>3. CASE UNCHANGED trail
  BY <1>2, <1>3 DEF Settle, HostOK
<1>4. CASE trail' = Append(trail, Recorded("answered", ask, what)) /\ UNCHANGED faults
  BY <1>1, <1>2, <1>4, AppendProperties DEF HostOK
<1> QED
  BY <1>3, <1>4 DEF Settle

LEMMA EndRunOK ==
    ASSUME ChildOK, NEW reason \in {"ok", "error", "timeout", "malformed_output"},
           EndRun(reason)
    PROVE  /\ told' = told => ChildOK'
           /\ runs' \in Nat => RunOK'
           /\ host' = "idle" /\ outq' \in Seq(Read) /\ reader' = "stopped"
<1>1. <<>> \in Seq(Requests) /\ <<>> \in Seq(Lines) /\ <<>> \in Seq(Places) /\ <<>> \in Seq(Read)
  BY EmptySeq
<1> QED
  BY <1>1 DEF EndRun, ChildOK, RunOK

LEMMA RespondOK ==
    ASSUME TypeInv, host = "asking", NEW behavior \in {"allow", "deny"},
           Respond(behavior), UNCHANGED <<runs, told>>
    PROVE  /\ ChildOK' /\ RunOK' /\ outq' \in Seq(Read)
           /\ host' \in {"idle", "reading"} /\ reader' \in {"reads", "stopped"}
<1> USE DEF TypeInv
<1>. ask \in Asks
  BY DEF HostOK
<1>1. CASE child = "exited"
  BY <1>1, EndRunOK DEF Respond, RunOK
<1>2. CASE child # "exited"
  <2> PICK length \in IF behavior = "allow" THEN Lengths ELSE {1} :
        stdin' = stdin \o Response(behavior, length)
    BY <1>2 DEF Respond
  <2>1. length \in Nat \ {0}
    BY ConstantsOK
  <2>2. stdin' \in Seq(Places)
    BY <2>1, ResponseOK, ConcatProperties DEF ChildOK
  <2> QED
    BY <1>2, <2>2 DEF Respond, ChildOK, RunOK, HostOK
<1> QED
  BY <1>1, <1>2

LEMMA TypeInit == Init => TypeInv
<1> SUFFICES ASSUME Init PROVE TypeInv
  OBVIOUS
<1>1. /\ <<>> \in Seq(Requests) /\ <<>> \in Seq(Lines) /\ <<>> \in Seq(Places)
      /\ <<>> \in Seq(Read) /\ <<>> \in Seq(Events)
      /\ <<>> \in Seq([ask : Asks, answer : {"allow", "deny"}])
  BY EmptySeq
<1>2. ChildOK /\ HostOK /\ RunOK
  BY <1>1 DEF Init, ChildOK, HostOK, RunOK
<1>3. OwnerOK
  BY <1>1 DEF Init, OwnerOK, Idle
<1> QED
  BY <1>2, <1>3 DEF TypeInv

LEMMA TypeInductive == TypeInv /\ [Next]_vars => TypeInv'
<1> SUFFICES ASSUME TypeInv, [Next]_vars PROVE TypeInv'
  OBVIOUS
<1> USE DEF TypeInv
<1>a. ASSUME UNCHANGED childVars, UNCHANGED told PROVE ChildOK'
  BY <1>a DEF ChildOK, childVars
<1>h. ASSUME UNCHANGED hostVars PROVE HostOK'
  BY <1>h DEF HostOK, hostVars
<1>o. ASSUME UNCHANGED <<ownerVars, answers>> PROVE OwnerOK'
  BY <1>o DEF OwnerOK, ownerVars
<1>r. ASSUME UNCHANGED runVars PROVE RunOK'
  BY <1>r DEF RunOK, runVars
<1>v. ASSUME UNCHANGED hostVars, UNCHANGED ownerVars, UNCHANGED runVars
      PROVE  HostOK' /\ OwnerOK' /\ RunOK'
  BY <1>h, <1>o, <1>r, <1>v DEF hostVars
<1>1. CASE ChildWrites
  <2>1. Head(outbox) \in Lines /\ Tail(outbox) \in Seq(Lines)
    BY <1>1, Sequences DEF ChildWrites, ChildOK
  <2>2. pipe' \in Seq(Lines) /\ outbox' \in Seq(Lines)
    BY <1>1, <2>1, Sequences DEF ChildWrites, ChildOK
  <2>3. ChildOK'
    BY <1>1, <2>2 DEF ChildWrites, ChildOK
  <2> QED
    BY <1>1, <2>3, <1>v DEF ChildWrites
<1>2. CASE ChildAsks
  <2> PICK a \in Asks, kind \in {"ask", "long"} :
        sent' = Append(sent, Line(kind, a)) /\ outbox' = sent' /\ child' = "awaiting"
    BY <1>2 DEF ChildAsks
  <2>1. Line(kind, a) \in Requests
    BY DEF Line, Requests
  <2>2. sent' \in Seq(Requests) /\ sent' # <<>>
    BY <2>1, AppendProperties DEF ChildOK
  <2>3. outbox' \in Seq(Lines)
    <3>1. Requests \subseteq Lines
      BY DEF Requests, Lines, Kinds
    <3> QED
      BY <2>2, <3>1, SeqSubset
  <2>4. ChildOK'
    BY <1>2, <2>2, <2>3 DEF ChildAsks, ChildOK
  <2> QED
    BY <1>2, <2>4, <1>v DEF ChildAsks
<1>3. CASE ChildFills
  <2> DEFINE n == IF Len(stdin) < Chunk THEN Len(stdin) ELSE Chunk
  <2>1. n \in 0 .. Len(stdin) /\ Len(stdin) \in Nat
    BY ConstantsOK, LenProperties DEF ChildOK
  <2>2. buffer' = buffer \o SubSeq(stdin, 1, n) /\ stdin' = SubSeq(stdin, n + 1, Len(stdin))
    BY <1>3 DEF ChildFills
  <2> HIDE DEF n
  <2>3. SubSeq(stdin, 1, n) \in Seq(Places) /\ SubSeq(stdin, n + 1, Len(stdin)) \in Seq(Places)
    <3>1. \A i \in 1 .. Len(stdin) : stdin[i] \in Places
      BY ElementOfSeq DEF ChildOK
    <3> QED
      BY <2>1, <3>1, SubSeqProperties
  <2>4. buffer' \in Seq(Places) /\ stdin' \in Seq(Places)
    BY <2>2, <2>3, ConcatProperties DEF ChildOK
  <2>5. ChildOK'
    BY <1>3, <2>4 DEF ChildFills, ChildOK
  <2> QED
    BY <1>3, <2>5, <1>v DEF ChildFills
<1>4. CASE ChildHears
  <2> PICK i \in Ends :
        /\ buffer' = SubSeq(buffer, i + 1, Len(buffer))
        /\ \/ /\ buffer[i].ask = sent[Len(sent)].ask /\ child' = "working"
              /\ told' = IF buffer[i].says = "allow" THEN told \cup {buffer[i].ask} ELSE told
           \/ /\ buffer[i].ask # sent[Len(sent)].ask /\ child' \in {"awaiting", "working"}
              /\ UNCHANGED told
    BY <1>4 DEF ChildHears
  <2>1. i \in 1 .. Len(buffer) /\ buffer[i].ask \in Asks /\ Len(buffer) \in Nat
    <3>1. buffer \in [1 .. Len(buffer) -> Places] /\ Len(buffer) \in Nat
      BY LenProperties, ElementOfSeq DEF ChildOK
    <3>2. i \in 1 .. Len(buffer) /\ buffer[i].ask # NoAsk /\ buffer[i] \in Places
      BY <3>1 DEF Ends
    <3> QED
      BY <3>1, <3>2 DEF Places
  <2>2. buffer' \in Seq(Places)
    BY <2>1, SubSeqProperties DEF ChildOK
  <2>3. ChildOK'
    BY <1>4, <2>1, <2>2 DEF ChildHears, ChildOK
  <2> QED
    BY <1>4, <2>3, <1>v DEF ChildHears
<1>5. CASE ChildFinishes
  <2> PICK first \in {"noise", "long"}, last \in {"ok", "error", "empty", "long"} :
        outbox' = <<Line(first, NoAsk), Line(last, NoAsk)>>
    BY <1>5 DEF ChildFinishes
  <2>1. Line(first, NoAsk) \in Lines /\ Line(last, NoAsk) \in Lines
    BY DEF Line, Lines, Kinds
  <2>2. outbox' \in Seq(Lines)
    BY <2>1
  <2>3. ChildOK'
    BY <1>5, <2>2 DEF ChildFinishes, ChildOK
  <2> QED
    BY <1>5, <2>3, <1>v DEF ChildFinishes
<1>6. CASE ChildDies \/ ChildHearsEnd
  <2>1. ChildOK'
    BY <1>6, EmptySeq DEF ChildDies, ChildHearsEnd, ChildOK
  <2> QED
    BY <1>6, <2>1, <1>v DEF ChildDies, ChildHearsEnd
<1>7. CASE ReaderMoves
  <2>1. Eof \in Read
    BY DEF Eof, Line, Read, Kinds
  <2>2. outq' \in Seq(Read) /\ pipe' \in Seq(Lines)
    <3>1. CASE /\ pipe # <<>> /\ Head(pipe).kind # "long"
               /\ outq' = Append(outq, Head(pipe)) /\ pipe' = Tail(pipe)
      <4>1. Head(pipe) \in Lines /\ Tail(pipe) \in Seq(Lines)
        BY <3>1, Sequences DEF ChildOK
      <4>2. Head(pipe) \in Read
        BY <3>1, <4>1 DEF Lines, Read
      <4> QED
        BY <3>1, <4>1, <4>2, Sequences DEF HostOK
    <3>2. CASE ReaderStops
      BY <3>2, <2>1, Sequences DEF ReaderStops, HostOK, ChildOK
    <3> QED
      BY <1>7, <3>1, <3>2 DEF ReaderMoves
  <2>3. ChildOK'
    BY <1>7, <2>2 DEF ReaderMoves, ChildOK
  <2>4. HostOK'
    BY <1>7, <2>2 DEF ReaderMoves, ReaderStops, HostOK
  <2> QED
    BY <1>7, <2>3, <2>4, <1>o, <1>r DEF ReaderMoves
<1>8. CASE BeginRun
  <2>1. <<>> \in Seq(Requests) /\ <<>> \in Seq(Lines) /\ <<>> \in Seq(Places) /\ <<>> \in Seq(Read)
    BY EmptySeq
  <2>2. ChildOK'
    BY <1>8, <2>1 DEF BeginRun, ChildOK
  <2>3. HostOK'
    BY <1>8, <2>1 DEF BeginRun, HostOK
  <2>4. RunOK'
    BY <1>8 DEF BeginRun, RunOK
  <2> QED
    BY <1>8, <2>2, <2>3, <2>4, <1>o DEF BeginRun
<1>9. CASE RunRefused
  <2>1. RunOK'
    BY <1>9 DEF RunRefused, RunOK
  <2>2. UNCHANGED hostVars
    BY <1>9 DEF RunRefused, hostVars
  <2> QED
    BY <1>9, <2>1, <2>2, <1>a, <1>h, <1>o DEF RunRefused, hostVars
<1>10. CASE HostReads
  <2>1. Tail(outq) \in Seq(Read)
    BY <1>10, Sequences DEF HostReads, HostOK
  <2>2. /\ host' \in {"reading", "closing"} /\ outq' \in Seq(Read)
        /\ payload' \in {"none", "ok", "error", "empty"}
    BY <1>10, <2>1 DEF HostReads, HostOK, RunOK
  <2>3. HostOK'
    BY <1>10, <2>2 DEF HostReads, HostOK
  <2>4. RunOK'
    BY <1>10, <2>2 DEF HostReads, RunOK
  <2> QED
    BY <1>10, <2>3, <2>4, <1>a, <1>o DEF HostReads
<1>11. CASE HostAsks
  <2>1. Head(outq) \in Read /\ Tail(outq) \in Seq(Read)
    BY <1>11, Sequences DEF HostAsks, HostOK
  <2>2. Head(outq).ask \in Asks
    BY <1>11, <2>1 DEF HostAsks, Read
  <2>3. Recorded("asked", Head(outq).ask, "-") \in Events
    BY <2>2 DEF Recorded, Events
  <2>4. trail' \in Seq(Events)
    BY <1>11, <2>3, Sequences DEF HostAsks, HostOK
  <2>5. HostOK'
    BY <1>11, <2>1, <2>2, <2>4 DEF HostAsks, HostOK
  <2> QED
    BY <1>11, <2>5, <1>a, <1>o, <1>r DEF HostAsks
<1>12. CASE HostAskFails
  <2>1. Head(outq) \in Read
    BY <1>12, Sequences DEF HostAskFails, HostOK
  <2>2. Head(outq).ask \in Asks
    BY <1>12, <2>1 DEF HostAskFails, Read
  <2>3. /\ ChildOK' /\ RunOK' /\ outq' \in Seq(Read) /\ host' = "idle"
        /\ reader' = "stopped"
    BY <1>12, EndRunOK DEF HostAskFails, RunOK
  <2>4. HostOK'
    BY <1>12, <2>2, <2>3 DEF HostAskFails, HostOK
  <2> QED
    BY <1>12, <2>3, <2>4, <1>o DEF HostAskFails
<1>13. CASE NextAnswer
  <2>1. Head(answers) \in [ask : Asks, answer : {"allow", "deny"}]
        /\ Tail(answers) \in Seq([ask : Asks, answer : {"allow", "deny"}])
    BY <1>13, Sequences DEF NextAnswer, OwnerOK
  <2>2. OwnerOK'
    BY <1>13, <2>1 DEF NextAnswer, OwnerOK, ownerVars
  <2>3. CASE Head(answers).ask = ask
    <3> DEFINE what == Head(answers).answer
    <3>1. Settle(what) /\ Respond(what) /\ what \in {"allow", "deny"} /\ host = "asking"
      BY <1>13, <2>1, <2>3 DEF NextAnswer
    <3>2. /\ ChildOK' /\ RunOK' /\ outq' \in Seq(Read) /\ host' \in {"idle", "reading"}
          /\ reader' \in {"reads", "stopped"}
      BY <1>13, <3>1, RespondOK DEF NextAnswer
    <3>3. /\ ask' = NoAsk /\ live' \subseteq Asks /\ trail' \in Seq(Events) /\ faults' \in Nat
          /\ getter' = "looks"
      BY <3>1, SettleOK
    <3>4. HostOK'
      BY <3>2, <3>3 DEF HostOK
    <3> QED
      BY <2>2, <3>2, <3>4
  <2>4. CASE Head(answers).ask # ask
    BY <1>13, <2>2, <2>4 DEF NextAnswer, ChildOK, childVars, HostOK, RunOK
  <2> QED
    BY <2>3, <2>4
<1>14. CASE AskExpires
  <2>1. /\ ChildOK' /\ RunOK' /\ outq' \in Seq(Read) /\ host' \in {"idle", "reading"}
        /\ reader' \in {"reads", "stopped"}
    BY <1>14, RespondOK DEF AskExpires
  <2>2. /\ ask' = NoAsk /\ live' \subseteq Asks /\ trail' \in Seq(Events) /\ faults' \in Nat
        /\ getter' = "looks"
    BY <1>14, SettleOK DEF AskExpires
  <2>3. HostOK'
    BY <2>1, <2>2 DEF HostOK
  <2> QED
    BY <1>14, <2>1, <2>3, <1>o DEF AskExpires
<1>15. CASE HostReaps
  <2> PICK code \in {"zero", "nonzero"} : EndRun(Classify(code))
    BY <1>15 DEF HostReaps
  <2>1. Classify(code) \in {"ok", "error", "malformed_output"}
    BY DEF Classify, RunOK
  <2>2. /\ ChildOK' /\ RunOK' /\ outq' \in Seq(Read) /\ host' = "idle"
        /\ reader' = "stopped"
    BY <1>15, <2>1, EndRunOK DEF HostReaps, RunOK
  <2>3. HostOK'
    BY <1>15, <2>2 DEF HostReaps, HostOK
  <2> QED
    BY <1>15, <2>2, <2>3, <1>o DEF HostReaps
<1>16. CASE WallClock
  <2>1. /\ ChildOK' /\ RunOK' /\ outq' \in Seq(Read) /\ host' = "idle"
        /\ reader' = "stopped"
    BY <1>16, EndRunOK DEF WallClock, RunOK
  <2>2. /\ ask' \in Asks \union {NoAsk} /\ live' \subseteq Asks /\ getter' = "looks"
        /\ trail' \in Seq(Events) /\ faults' \in Nat
    <3>1. CASE host = "asking"
      BY <1>16, <3>1, SettleOK DEF WallClock
    <3>2. CASE host # "asking"
      BY <1>16, <3>2 DEF WallClock, HostOK
    <3> QED
      BY <3>1, <3>2
  <2>3. HostOK'
    BY <2>1, <2>2 DEF HostOK
  <2> QED
    BY <1>16, <2>1, <2>3, <1>o DEF WallClock
<1>17. CASE \E o \in Owners : Owner(o)
  <2> PICK o \in Owners : Owner(o)
    BY <1>17
  <2>1. /\ ChildOK' /\ RunOK' /\ UNCHANGED <<host, reader, outq, ask, live, trail, faults>>
        /\ getter' \in {getter, "looks"}
    BY <1>a, <1>r DEF Owner, Post, Recheck, Deliver, hostVars
  <2>2. HostOK'
    BY <2>1 DEF HostOK
  <2>3. OwnerOK'
    <3>1. CASE Post(o)
      BY <3>1 DEF Post, OwnerOK, HostOK, hostVars
    <3>2. CASE Recheck(o)
      BY <3>2 DEF Recheck, OwnerOK, Idle, hostVars
    <3>3. CASE Deliver(o)
      <4>1. [ask |-> owner[o].ask, answer |-> owner[o].answer] \in
               [ask : Asks, answer : {"allow", "deny"}]
        BY <3>3 DEF Deliver, OwnerOK
      <4>2. answers' \in Seq([ask : Asks, answer : {"allow", "deny"}])
        BY <3>3, <4>1, AppendProperties DEF Deliver, OwnerOK
      <4> QED
        BY <3>3, <4>1, <4>2 DEF Deliver, OwnerOK, Idle
    <3> QED
      BY <3>1, <3>2, <3>3 DEF Owner
  <2> QED
    BY <2>1, <2>2, <2>3
<1>18. CASE HostLooks
  <2>1. HostOK'
    BY <1>18 DEF HostLooks, HostOK
  <2> QED
    BY <1>18, <2>1, <1>a, <1>o, <1>r DEF HostLooks
<1>19. CASE UNCHANGED vars
  BY <1>19, <1>a, <1>v DEF vars
<1> QED
  BY <1>1, <1>2, <1>3, <1>4, <1>5, <1>6, <1>7, <1>8, <1>9, <1>10, <1>11, <1>12, <1>13,
     <1>14, <1>15, <1>16, <1>17, <1>18, <1>19 DEF Next, Child, ChildListens, Host

\* Every variable always holds a value of its kind; in particular the host waits for an
\* answer only on an ask the child has named.
THEOREM TypeCorrect == Spec => []TypeOK
<1>1. Init => TypeInv
  BY TypeInit
<1>2. TypeInv /\ [Next]_vars => TypeInv'
  BY TypeInductive
<1> QED
  BY <1>1, <1>2, TypesHold, PTL DEF Spec

(***************************************************************************)
(* What a run leaves behind.                                               *)
(***************************************************************************)
LeavesInv == TypeInv /\ RunLeavesNothing

LEMMA LeavesInductive == LeavesInv /\ [Next]_vars => RunLeavesNothing'
<1> SUFFICES ASSUME LeavesInv, [Next]_vars PROVE RunLeavesNothing'
  OBVIOUS
<1> USE DEF LeavesInv
<1>t. /\ HostOK /\ ChildOK
  BY DEF TypeInv
<1>s. ASSUME host' # "asking", host = "asking", NEW what, Settle(what)
      PROVE  faults' = 0 => live' = {}
  <2>1. faults' = 0 => faults = 0
    BY <1>s, <1>t DEF Settle, HostOK
  <2> QED
    BY <1>s, <2>1 DEF Settle, RunLeavesNothing
<1>e. ASSUME NEW reason, EndRun(reason) PROVE host' = "idle" /\ ~Alive'
  BY <1>e DEF EndRun, Alive
<1>p. ASSUME host = "asking", NEW behavior, Respond(behavior)
      PROVE  host' # "asking" /\ (host' = "idle" => ~Alive')
  BY <1>p, <1>e DEF Respond
<1>1. CASE Child
  BY <1>1 DEF Child, ChildListens, ChildWrites, ChildFills, ChildHears, ChildAsks,
              ChildHearsEnd, ChildFinishes, ChildDies, RunLeavesNothing, Alive, hostVars
<1>2. CASE ReaderMoves \/ HostReads \/ HostLooks
  BY <1>2 DEF ReaderMoves, HostReads, HostLooks, RunLeavesNothing, Alive, childVars
<1>3. CASE BeginRun
  BY <1>3 DEF BeginRun, RunLeavesNothing, Alive
<1>4. CASE RunRefused
  BY <1>4 DEF RunRefused, RunLeavesNothing, Alive, childVars, hostVars
<1>5. CASE HostAsks
  BY <1>5 DEF HostAsks, RunLeavesNothing
<1>6. CASE HostAskFails
  <2>1. faults' # 0
    BY <1>6, <1>t DEF HostAskFails, HostOK
  <2> QED
    BY <1>6, <2>1, <1>e DEF HostAskFails, RunLeavesNothing
<1>7. CASE NextAnswer
  <2>1. CASE Head(answers).ask = ask
    <3>1. host = "asking" /\ Settle(Head(answers).answer) /\ Respond(Head(answers).answer)
      BY <1>7, <2>1 DEF NextAnswer
    <3> QED
      BY <3>1, <1>p, <1>s DEF RunLeavesNothing
  <2>2. CASE Head(answers).ask # ask
    BY <1>7, <2>2 DEF NextAnswer, RunLeavesNothing, Alive, childVars
  <2> QED
    BY <2>1, <2>2
<1>8. CASE AskExpires
  <2>1. host = "asking" /\ Settle("auto_deny_expired") /\ Respond("deny")
    BY <1>8 DEF AskExpires
  <2> QED
    BY <2>1, <1>p, <1>s DEF RunLeavesNothing
<1>9. CASE HostReaps
  BY <1>9, <1>e DEF HostReaps, RunLeavesNothing
<1>10. CASE WallClock
  <2>1. host' = "idle" /\ ~Alive'
    BY <1>10, <1>e DEF WallClock
  <2>2. CASE host = "asking"
    BY <1>10, <2>1, <2>2, <1>s DEF WallClock, RunLeavesNothing
  <2>3. CASE host # "asking"
    BY <1>10, <2>1, <2>3 DEF WallClock, RunLeavesNothing
  <2> QED
    BY <2>2, <2>3
<1>11. CASE \E o \in Owners : Owner(o)
  BY <1>11 DEF Owner, Post, Recheck, Deliver, RunLeavesNothing, Alive, childVars, hostVars
<1>12. CASE UNCHANGED vars
  BY <1>12 DEF vars, childVars, hostVars, RunLeavesNothing, Alive
<1> QED
  BY <1>1, <1>2, <1>3, <1>4, <1>5, <1>6, <1>7, <1>8, <1>9, <1>10, <1>11, <1>12
  DEF Next, Host

\* However a run ends, its child is gone with it, and the asks listed to the owner are
\* exactly the one the host loop waits on, as long as no append fails.
THEOREM NothingLeft == Spec => []RunLeavesNothing
<1>1. Init => LeavesInv
  BY TypeInit DEF LeavesInv, Init, RunLeavesNothing, Alive
<1>2. LeavesInv /\ [Next]_vars => LeavesInv'
  BY TypeInductive, LeavesInductive DEF LeavesInv
<1>3. LeavesInv => RunLeavesNothing
  BY DEF LeavesInv
<1> QED
  BY <1>1, <1>2, <1>3, PTL DEF Spec

(***************************************************************************)
(* The record: every answer directly follows its asking.                   *)
(***************************************************************************)
InPairs ==
    /\ \A j \in DOMAIN trail : trail[j].type = "answered" =>
           /\ j - 1 \in DOMAIN trail
           /\ trail[j - 1].type = "asked" /\ trail[j - 1].ask = trail[j].ask
    /\ host = "asking" =>
           /\ Len(trail) \in DOMAIN trail
           /\ trail[Len(trail)].type = "asked" /\ trail[Len(trail)].ask = ask
    /\ faults = 0 =>
           \A i \in DOMAIN trail : trail[i].type = "asked" =>
               \/ i = Len(trail) /\ host = "asking"
               \/ /\ i + 1 \in DOMAIN trail
                  /\ trail[i + 1].type = "answered" /\ trail[i + 1].ask = trail[i].ask

PairsInv == TypeInv /\ InPairs

LEMMA Grown ==
    ASSUME NEW S, NEW s \in Seq(S), NEW e \in S, NEW t, t = Append(s, e)
    PROVE  /\ Len(s) \in Nat /\ Len(t) = Len(s) + 1
           /\ DOMAIN s = 1 .. Len(s) /\ DOMAIN t = 1 .. Len(s) + 1
           /\ t[Len(s) + 1] = e /\ \A i \in 1 .. Len(s) : t[i] = s[i]
  BY AppendProperties, LenProperties

LEMMA SettlePairs ==
    ASSUME PairsInv, host = "asking", NEW what \in {"allow", "deny", "auto_deny_expired"},
           Settle(what), host' # "asking"
    PROVE  InPairs'
<1> USE DEF PairsInv, TypeInv
<1>1. Recorded("answered", ask, what) \in Events
  BY DEF HostOK, Recorded, Events
<1>2. CASE UNCHANGED trail /\ faults' = faults + 1
  <2>1. faults' # 0
    BY <1>2 DEF HostOK
  <2> QED
    BY <1>2, <2>1 DEF InPairs
<1>3. CASE trail' = Append(trail, Recorded("answered", ask, what)) /\ UNCHANGED faults
  <2> DEFINE n == Len(trail)
  <2>1. /\ n \in Nat /\ Len(trail') = n + 1
        /\ DOMAIN trail = 1 .. n /\ DOMAIN trail' = 1 .. n + 1
        /\ trail'[n + 1] = Recorded("answered", ask, what)
        /\ \A i \in 1 .. n : trail'[i] = trail[i]
    BY <1>1, <1>3, Grown DEF HostOK
  <2>2. trail'[n + 1].type = "answered" /\ trail'[n + 1].ask = ask
    BY <2>1 DEF Recorded
  <2>3. n \in 1 .. n /\ trail[n].type = "asked" /\ trail[n].ask = ask
    BY <2>1 DEF InPairs
  <2>4. ASSUME NEW j \in DOMAIN trail', trail'[j].type = "answered"
        PROVE  /\ j - 1 \in DOMAIN trail'
               /\ trail'[j - 1].type = "asked" /\ trail'[j - 1].ask = trail'[j].ask
    <3>1. CASE j = n + 1
      BY <2>1, <2>2, <2>3, <3>1
    <3>2. CASE j \in 1 .. n
      BY <2>1, <2>4, <3>2 DEF InPairs
    <3> QED
      BY <2>1, <3>1, <3>2
  <2>5. ASSUME faults' = 0, NEW i \in DOMAIN trail', trail'[i].type = "asked"
        PROVE  /\ i + 1 \in DOMAIN trail'
               /\ trail'[i + 1].type = "answered" /\ trail'[i + 1].ask = trail'[i].ask
    <3>1. i \in 1 .. n /\ trail[i].type = "asked" /\ faults = 0
      BY <2>1, <2>2, <2>5, <1>3
    <3>2. CASE i = n
      BY <2>1, <2>2, <2>3, <3>2
    <3>3. CASE i # n
      BY <2>1, <3>1, <3>3 DEF InPairs
    <3> QED
      BY <3>2, <3>3
  <2> QED
    BY <2>4, <2>5 DEF InPairs
<1> QED
  BY <1>2, <1>3 DEF Settle

LEMMA PairsInductive == PairsInv /\ [Next]_vars => InPairs'
<1> SUFFICES ASSUME PairsInv, [Next]_vars PROVE InPairs'
  OBVIOUS
<1> USE DEF PairsInv
<1>t. HostOK /\ OwnerOK
  BY DEF TypeInv
<1>u. ASSUME UNCHANGED <<trail, faults>>, host' = "asking" <=> host = "asking",
             host = "asking" => UNCHANGED ask
      PROVE  InPairs'
  BY <1>u DEF InPairs
<1>r. ASSUME NEW behavior, Respond(behavior) PROVE host' # "asking"
  BY <1>r DEF Respond, EndRun
<1>1. CASE Child
  BY <1>1, <1>u DEF Child, ChildListens, ChildWrites, ChildFills, ChildHears, ChildAsks,
                    ChildHearsEnd, ChildFinishes, ChildDies, hostVars
<1>2. CASE ReaderMoves \/ HostReads \/ HostLooks \/ BeginRun \/ RunRefused
  BY <1>2, <1>u DEF ReaderMoves, HostReads, HostLooks, BeginRun, RunRefused, hostVars
<1>3. CASE HostAsks
  <2> DEFINE n == Len(trail)
             a == Head(outq).ask
  <2>1. a \in Asks
    <3>1. Head(outq) \in Read /\ Head(outq).kind = "ask"
      BY <1>3, <1>t, Sequences DEF HostAsks, HostOK
    <3> QED
      BY <3>1 DEF Read
  <2>2. Recorded("asked", a, "-") \in Events
    BY <2>1 DEF Recorded, Events
  <2>3. trail' = Append(trail, Recorded("asked", a, "-"))
    BY <1>3 DEF HostAsks
  <2> HIDE DEF a
  <2>4. /\ n \in Nat /\ Len(trail') = n + 1
        /\ DOMAIN trail = 1 .. n /\ DOMAIN trail' = 1 .. n + 1
        /\ trail'[n + 1] = Recorded("asked", a, "-")
        /\ \A i \in 1 .. n : trail'[i] = trail[i]
    BY <1>t, <2>2, <2>3, Grown DEF HostOK
  <2>5. /\ host = "reading" /\ host' = "asking" /\ ask' = a /\ faults' = faults
        /\ trail'[n + 1].type = "asked" /\ trail'[n + 1].ask = a
    BY <1>3, <2>4 DEF HostAsks, Recorded, a
  <2>6. ASSUME NEW j \in DOMAIN trail', trail'[j].type = "answered"
        PROVE  /\ j - 1 \in DOMAIN trail'
               /\ trail'[j - 1].type = "asked" /\ trail'[j - 1].ask = trail'[j].ask
    <3>1. j \in 1 .. n
      BY <2>4, <2>5, <2>6
    <3> QED
      BY <2>4, <2>6, <3>1 DEF InPairs
  <2>7. ASSUME faults' = 0, NEW i \in 1 .. n, trail'[i].type = "asked"
        PROVE  /\ i + 1 \in DOMAIN trail'
               /\ trail'[i + 1].type = "answered" /\ trail'[i + 1].ask = trail'[i].ask
    BY <2>4, <2>5, <2>7 DEF InPairs
  <2> QED
    BY <2>4, <2>5, <2>6, <2>7 DEF InPairs
<1>4. CASE HostAskFails
  <2>1. faults' # 0 /\ UNCHANGED trail /\ host' = "idle"
    BY <1>4, <1>t DEF HostAskFails, EndRun, HostOK
  <2> QED
    BY <2>1 DEF InPairs
<1>5. CASE NextAnswer
  <2>1. CASE Head(answers).ask = ask
    <3>1. Head(answers) \in [ask : Asks, answer : {"allow", "deny"}]
      BY <1>5, <1>t, Sequences DEF NextAnswer, OwnerOK
    <3> QED
      BY <1>5, <2>1, <3>1, <1>r, SettlePairs DEF NextAnswer
  <2>2. CASE Head(answers).ask # ask
    BY <1>5, <2>2, <1>u DEF NextAnswer
  <2> QED
    BY <2>1, <2>2
<1>6. CASE AskExpires
  BY <1>6, <1>r, SettlePairs DEF AskExpires
<1>7. CASE HostReaps
  BY <1>7, <1>u DEF HostReaps, EndRun
<1>8. CASE WallClock
  <2>1. host' = "idle"
    BY <1>8 DEF WallClock, EndRun
  <2>2. CASE host = "asking"
    BY <1>8, <2>1, <2>2, SettlePairs DEF WallClock
  <2>3. CASE host # "asking"
    BY <1>8, <2>1, <2>3, <1>u DEF WallClock
  <2> QED
    BY <2>2, <2>3
<1>9. CASE \E o \in Owners : Owner(o)
  BY <1>9, <1>u DEF Owner, Post, Recheck, Deliver, hostVars
<1>10. CASE UNCHANGED vars
  BY <1>10, <1>u DEF vars, hostVars
<1> QED
  BY <1>1, <1>2, <1>3, <1>4, <1>5, <1>6, <1>7, <1>8, <1>9, <1>10 DEF Next, Host

\* Answers directly after their askings make the two kinds of event pair up.
LEMMA PairsEnough == PairsInv => AsksPairUp
<1> SUFFICES ASSUME PairsInv PROVE AsksPairUp
  OBVIOUS
<1> USE DEF PairsInv
<1> DEFINE n == Len(trail)
           Before(j) == {i \in 1 .. j - 1 : trail[i].ask = trail[j].ask}
           After(i) == {j \in DOMAIN trail : j > i /\ trail[j].ask = trail[i].ask}
<1>1. n \in Nat /\ DOMAIN trail = 1 .. n
  BY LenProperties DEF TypeInv, HostOK
<1>2. ASSUME NEW j \in DOMAIN trail, trail[j].type = "answered"
      PROVE  \E i \in Before(j) : \A k \in Before(j) : k <= i /\ trail[i].type = "asked"
  <2>1. /\ j \in 1 .. n /\ j - 1 \in 1 .. n
        /\ trail[j - 1].type = "asked" /\ trail[j - 1].ask = trail[j].ask
    BY <1>1, <1>2 DEF InPairs
  <2>2. j - 1 \in Before(j) /\ \A k \in Before(j) : k <= j - 1
    BY <1>1, <2>1
  <2> QED
    BY <2>1, <2>2
<1>3. ASSUME faults = 0, NEW i \in DOMAIN trail, NEW j \in DOMAIN trail,
             i \in Before(j), trail[i].type = "asked", trail[j].type = "asked"
      PROVE  \E k \in Before(j) : i < k /\ trail[k].type = "answered"
  <2>1. i \in 1 .. n /\ j \in 1 .. n /\ i < j /\ trail[i].ask = trail[j].ask
    BY <1>1, <1>3
  <2>2. /\ i + 1 \in 1 .. n
        /\ trail[i + 1].type = "answered" /\ trail[i + 1].ask = trail[i].ask
    BY <1>1, <1>3, <2>1 DEF InPairs
  <2>3. i + 1 # j
    BY <1>3, <2>2
  <2>4. i + 1 \in Before(j)
    BY <2>1, <2>2, <2>3
  <2> QED
    BY <2>1, <2>2, <2>4
<1>4. ASSUME faults = 0, host # "asking", NEW i \in DOMAIN trail, trail[i].type = "asked"
      PROVE  \E j \in After(i) : trail[j].type = "answered"
  <2>1. /\ i + 1 \in 1 .. n
        /\ trail[i + 1].type = "answered" /\ trail[i + 1].ask = trail[i].ask
    BY <1>1, <1>4 DEF InPairs
  <2>2. i + 1 \in After(i)
    BY <1>1, <2>1
  <2> QED
    BY <2>1, <2>2
<1> QED
  BY <1>2, <1>3, <1>4 DEF AsksPairUp

\* The events of one ask alternate, beginning with the asking, and a run leaves no ask
\* unanswered: _answer_can_use_tool's finally, over any number of runs and resendings.
THEOREM AsksArePaired == Spec => []AsksPairUp
<1>1. Init => PairsInv
  BY TypeInit DEF PairsInv, InPairs, Init
<1>2. PairsInv /\ [Next]_vars => PairsInv'
  BY TypeInductive, PairsInductive DEF PairsInv
<1> QED
  BY <1>1, <1>2, PairsEnough, PTL DEF Spec

(***************************************************************************)
(* Fail closed.                                                            *)
(***************************************************************************)
Warranted == {a \in Asks :
    /\ <<a, "allow">> \in accepted
    /\ faults = 0 => \E i \in DOMAIN trail : trail[i] = Recorded("answered", a, "allow")}
OnlyWarranted(s) == \A i \in DOMAIN s : s[i].says = "allow" => s[i].ask \in Warranted
Answered == \A i \in DOMAIN answers : <<answers[i].ask, answers[i].answer>> \in accepted

\* An allow on its way to the child, or acted on, is an owner's.
AllowInv ==
    /\ TypeInv /\ Answered
    /\ OnlyWarranted(stdin) /\ OnlyWarranted(buffer)
    /\ told \subseteq Warranted

\* Nothing accepted or recorded is lost, and a failure is not undone.
Keeps ==
    /\ accepted \subseteq accepted'
    /\ trail' = trail \/ \E e \in Events : trail' = Append(trail, e)
    /\ faults' = 0 => faults = 0

LEMMA SettleKeepsRecord ==
    ASSUME HostOK, host = "asking", NEW what \in {"allow", "deny", "auto_deny_expired"},
           Settle(what)
    PROVE  /\ trail' = trail \/ \E e \in Events : trail' = Append(trail, e)
           /\ faults' = 0 => faults = 0
           /\ faults' = 0 => trail' = Append(trail, Recorded("answered", ask, what))
<1>1. Recorded("answered", ask, what) \in Events
  BY DEF HostOK, Recorded, Events
<1>2. faults \in Nat
  BY DEF HostOK
<1> QED
  BY <1>1, <1>2 DEF Settle

LEMMA EveryStepKeeps == TypeInv /\ [Next]_vars => Keeps
<1> SUFFICES ASSUME TypeInv, [Next]_vars PROVE Keeps
  OBVIOUS
<1>t. HostOK /\ OwnerOK
  BY DEF TypeInv
<1>1. CASE Child
  BY <1>1 DEF Child, ChildListens, ChildWrites, ChildFills, ChildHears, ChildAsks,
              ChildHearsEnd, ChildFinishes, ChildDies, hostVars, ownerVars, Keeps
<1>2. CASE ReaderMoves \/ HostReads \/ HostLooks \/ BeginRun \/ RunRefused \/ HostReaps
  BY <1>2 DEF ReaderMoves, HostReads, HostLooks, BeginRun, RunRefused, HostReaps, hostVars,
              ownerVars, Keeps
<1>3. CASE HostAsks
  <2>1. Head(outq) \in Read /\ Head(outq).kind = "ask"
    BY <1>3, <1>t, Sequences DEF HostAsks, HostOK
  <2>2. Head(outq).ask \in Asks
    BY <2>1 DEF Read
  <2>3. Recorded("asked", Head(outq).ask, "-") \in Events
    BY <2>2 DEF Recorded, Events
  <2> QED
    BY <1>3, <2>3 DEF HostAsks, Keeps, ownerVars
<1>4. CASE HostAskFails
  <2>1. faults' # 0
    BY <1>4, <1>t DEF HostAskFails, HostOK
  <2> QED
    BY <1>4, <2>1 DEF HostAskFails, Keeps, ownerVars
<1>5. CASE NextAnswer
  <2>1. CASE Head(answers).ask = ask
    <3>1. Head(answers) \in [ask : Asks, answer : {"allow", "deny"}]
      BY <1>5, <1>t, Sequences DEF NextAnswer, OwnerOK
    <3>2. Head(answers).answer \in {"allow", "deny", "auto_deny_expired"}
      BY <3>1
    <3> QED
      BY <1>5, <2>1, <3>2, <1>t, SettleKeepsRecord DEF NextAnswer, Keeps, ownerVars
  <2>2. CASE Head(answers).ask # ask
    BY <1>5, <2>2 DEF NextAnswer, Keeps, ownerVars
  <2> QED
    BY <2>1, <2>2
<1>6. CASE AskExpires
  BY <1>6, <1>t, SettleKeepsRecord DEF AskExpires, Keeps, ownerVars
<1>7. CASE WallClock
  <2>1. CASE host = "asking"
    BY <1>7, <2>1, <1>t, SettleKeepsRecord DEF WallClock, Keeps, ownerVars
  <2>2. CASE host # "asking"
    BY <1>7, <2>2 DEF WallClock, Keeps, ownerVars
  <2> QED
    BY <2>1, <2>2
<1>8. CASE \E o \in Owners : Owner(o)
  BY <1>8 DEF Owner, Post, Recheck, Deliver, hostVars, Keeps
<1>9. CASE UNCHANGED vars
  BY <1>9 DEF vars, hostVars, ownerVars, Keeps
<1> QED
  BY <1>1, <1>2, <1>3, <1>4, <1>5, <1>6, <1>7, <1>8, <1>9 DEF Next, Host

LEMMA StaysWarranted ==
    ASSUME TypeInv, Keeps
    PROVE  Warranted \subseteq Warranted'
<1>1. ASSUME NEW a \in Warranted, faults' = 0
      PROVE  \E i \in DOMAIN trail' : trail'[i] = Recorded("answered", a, "allow")
  <2> PICK i \in DOMAIN trail : trail[i] = Recorded("answered", a, "allow")
    BY <1>1 DEF Warranted, Keeps
  <2>1. CASE trail' = trail
    BY <2>1
  <2>2. CASE \E e \in Events : trail' = Append(trail, e)
    <3> PICK e \in Events : trail' = Append(trail, e)
      BY <2>2
    <3>1. i \in DOMAIN trail' /\ trail'[i] = trail[i]
      BY Grown DEF TypeInv, HostOK
    <3> QED
      BY <3>1
  <2> QED
    BY <2>1, <2>2 DEF Keeps
<1> QED
  BY <1>1 DEF Warranted, Keeps

\* What the child is sent when the ask is resolved.
LEMMA RespondsWarranted ==
    ASSUME AllowInv, Keeps, host = "asking", NEW behavior \in {"allow", "deny"},
           Respond(behavior), behavior = "allow" => ask \in Warranted'
    PROVE  OnlyWarranted(stdin)' /\ OnlyWarranted(buffer)'
<1> USE DEF AllowInv
<1>t. ask \in Asks /\ stdin \in Seq(Places)
  BY DEF TypeInv, HostOK, ChildOK
<1>k. Warranted \subseteq Warranted'
  BY StaysWarranted
<1>1. CASE child = "exited"
  BY <1>1 DEF Respond, EndRun, OnlyWarranted
<1>2. CASE child # "exited"
  <2> PICK length \in IF behavior = "allow" THEN Lengths ELSE {1} :
        stdin' = stdin \o Response(behavior, length)
    BY <1>2 DEF Respond
  <2> DEFINE r == Response(behavior, length)
             n == Len(stdin)
  <2>1. length \in Nat \ {0}
    BY ConstantsOK
  <2>2. /\ r \in Seq(Places) /\ Len(r) = length
        /\ \A i \in 1 .. length : r[i].says # "-" => r[i] = [ask |-> ask, says |-> behavior]
    BY <1>t, <2>1, ResponseOK
  <2>3. stdin' = stdin \o r
    OBVIOUS
  <2> HIDE DEF r
  <2>4. n \in Nat /\ DOMAIN stdin = 1 .. n
    BY <1>t, LenProperties
  <2>5. /\ stdin' \in Seq(Places) /\ Len(stdin') = n + length
        /\ \A i \in 1 .. n + length :
              stdin'[i] = IF i <= n THEN stdin[i] ELSE r[i - n]
    <3>1. /\ stdin \o r \in Seq(Places) /\ Len(stdin \o r) = n + Len(r)
          /\ \A i \in 1 .. n + Len(r) :
                (stdin \o r)[i] = IF i <= n THEN stdin[i] ELSE r[i - n]
      BY <1>t, <2>2, ConcatProperties
    <3> QED
      BY <2>2, <2>3, <3>1
  <2>6. DOMAIN stdin' = 1 .. n + length
    BY <2>5, LenProperties
  <2>7. ASSUME NEW i \in DOMAIN stdin', stdin'[i].says = "allow"
        PROVE  stdin'[i].ask \in Warranted'
    <3>1. CASE i <= n
      BY <1>k, <2>1, <2>4, <2>5, <2>6, <2>7, <3>1 DEF OnlyWarranted
    <3>2. CASE i > n
      <4>1. i - n \in 1 .. length /\ stdin'[i] = r[i - n]
        BY <2>1, <2>4, <2>5, <2>6, <3>2
      <4>2. r[i - n] = [ask |-> ask, says |-> behavior]
        BY <2>2, <2>7, <4>1
      <4> QED
        BY <2>7, <4>1, <4>2
    <3> QED
      BY <2>1, <2>4, <2>6, <3>1, <3>2
  <2>8. OnlyWarranted(buffer)'
    BY <1>2, <1>k DEF Respond, OnlyWarranted
  <2> QED
    BY <2>7, <2>8 DEF OnlyWarranted
<1> QED
  BY <1>1, <1>2

\* An ask an owner's accepted allow has settled is warranted from then on.
LEMMA SettlesWarranted ==
    ASSUME TypeInv, Keeps, host = "asking", Settle("allow"), <<ask, "allow">> \in accepted
    PROVE  ask \in Warranted'
<1>1. ask \in Asks /\ <<ask, "allow">> \in accepted'
  BY DEF TypeInv, HostOK, Keeps
<1>2. ASSUME faults' = 0
      PROVE  \E i \in DOMAIN trail' : trail'[i] = Recorded("answered", ask, "allow")
  <2>1. Recorded("answered", ask, "allow") \in Events
    BY <1>1 DEF Recorded, Events
  <2>2. trail' = Append(trail, Recorded("answered", ask, "allow"))
    BY <1>2, SettleKeepsRecord DEF TypeInv
  <2>3. trail \in Seq(Events)
    BY DEF TypeInv, HostOK
  <2> QED
    BY <2>1, <2>2, <2>3, Grown
<1> QED
  BY <1>1, <1>2 DEF Warranted

LEMMA AllowInductive == AllowInv /\ TypeInv' /\ [Next]_vars => AllowInv'
<1> SUFFICES ASSUME AllowInv, TypeInv', [Next]_vars PROVE AllowInv'
  OBVIOUS
<1> USE DEF AllowInv
<1>e. Keeps
  BY EveryStepKeeps
<1>k. Warranted \subseteq Warranted'
  BY <1>e, StaysWarranted
<1>t. ChildOK /\ HostOK /\ OwnerOK
  BY DEF TypeInv
<1>s. ASSUME UNCHANGED stdin, UNCHANGED buffer
      PROVE  OnlyWarranted(stdin)' /\ OnlyWarranted(buffer)'
  BY <1>s, <1>k DEF OnlyWarranted
<1>z. ASSUME stdin' = <<>>, buffer' = <<>>
      PROVE  OnlyWarranted(stdin)' /\ OnlyWarranted(buffer)'
  BY <1>z DEF OnlyWarranted
<1>a. ASSUME UNCHANGED answers PROVE Answered'
  BY <1>a, <1>e DEF Answered, Keeps
<1>l. ASSUME UNCHANGED told PROVE (told \subseteq Warranted)'
  BY <1>l, <1>k
<1>1. CASE ChildWrites \/ ChildAsks \/ ChildHearsEnd \/ ChildFinishes \/ ChildDies
  BY <1>1, <1>s, <1>a, <1>l DEF ChildWrites, ChildAsks, ChildHearsEnd, ChildFinishes,
                                ChildDies, hostVars
<1>2. CASE ChildFills
  <2> DEFINE n == Len(stdin)
             m == Len(buffer)
             c == IF Len(stdin) < Chunk THEN Len(stdin) ELSE Chunk
             taken == SubSeq(stdin, 1, c)
             left == SubSeq(stdin, c + 1, n)
  <2>1. /\ n \in Nat /\ m \in Nat /\ c \in Nat /\ c <= n
        /\ DOMAIN stdin = 1 .. n /\ DOMAIN buffer = 1 .. m
        /\ stdin \in Seq(Places) /\ buffer \in Seq(Places)
    BY <1>t, ConstantsOK, LenProperties DEF ChildOK
  <2>5. buffer' = buffer \o taken /\ stdin' = left
    BY <1>2 DEF ChildFills
  <2> HIDE DEF c
  <2>2. \A i \in 1 .. n : stdin[i] \in Places
    BY <2>1, ElementOfSeq
  <2>3. /\ taken \in Seq(Places) /\ Len(taken) = c
        /\ \A i \in 1 .. c : taken[i] = stdin[i]
    <3>1. /\ taken \in Seq(Places)
          /\ Len(taken) = IF 1 <= c THEN c - 1 + 1 ELSE 0
          /\ \A i \in 1 .. c - 1 + 1 : taken[i] = stdin[1 + i - 1]
      BY <2>1, <2>2, SubSeqProperties
    <3> QED
      BY <2>1, <3>1
  <2>4. /\ left \in Seq(Places) /\ Len(left) = n - c
        /\ \A i \in 1 .. n - c : left[i] = stdin[c + i]
    <3>1. /\ left \in Seq(Places)
          /\ Len(left) = IF c + 1 <= n THEN n - (c + 1) + 1 ELSE 0
          /\ \A i \in 1 .. n - (c + 1) + 1 : left[i] = stdin[c + 1 + i - 1]
      BY <2>1, <2>2, SubSeqProperties
    <3> HIDE DEF n, left
    <3> QED
      BY <2>1, <3>1
  <2> HIDE DEF taken, left
  <2>6. /\ DOMAIN buffer' = 1 .. m + c
        /\ \A i \in 1 .. m + c :
              buffer'[i] = IF i <= m THEN buffer[i] ELSE taken[i - m]
    <3>1. buffer' \in Seq(Places) /\ Len(buffer') = m + c
      BY <2>1, <2>3, <2>5, ConcatProperties
    <3> QED
      BY <2>1, <2>3, <2>5, <3>1, ConcatProperties, LenProperties
  <2>7. ASSUME NEW i \in DOMAIN buffer', buffer'[i].says = "allow"
        PROVE  buffer'[i].ask \in Warranted'
    <3>1. CASE i <= m
      BY <1>k, <2>1, <2>6, <2>7, <3>1 DEF OnlyWarranted
    <3>2. CASE i > m
      <4>1. i - m \in 1 .. c /\ buffer'[i] = stdin[i - m]
        BY <2>1, <2>3, <2>6, <3>2
      <4> QED
        BY <1>k, <2>1, <2>7, <4>1 DEF OnlyWarranted
    <3> QED
      BY <2>1, <2>6, <3>1, <3>2
  <2>8. ASSUME NEW i \in DOMAIN stdin', stdin'[i].says = "allow"
        PROVE  stdin'[i].ask \in Warranted'
    <3>1. i \in 1 .. n - c
      BY <2>4, <2>5, LenProperties
    <3>2. c + i \in 1 .. n /\ stdin'[i] = stdin[c + i]
      BY <2>1, <2>4, <2>5, <3>1
    <3> QED
      BY <1>k, <2>1, <2>8, <3>2 DEF OnlyWarranted
  <2> QED
    BY <1>2, <1>a, <1>l, <2>7, <2>8 DEF ChildFills, hostVars, OnlyWarranted
<1>3. CASE ChildHears
  <2> DEFINE m == Len(buffer)
  <2> PICK i \in Ends :
        /\ buffer' = SubSeq(buffer, i + 1, m)
        /\ \/ told' = IF buffer[i].says = "allow" THEN told \cup {buffer[i].ask} ELSE told
           \/ UNCHANGED told
    BY <1>3 DEF ChildHears
  <2>1. /\ m \in Nat /\ DOMAIN buffer = 1 .. m /\ i \in 1 .. m
        /\ \A j \in 1 .. m : buffer[j] \in Places
    BY <1>t, LenProperties, ElementOfSeq DEF ChildOK, Ends
  <2>2. /\ buffer' \in Seq(Places)
        /\ Len(buffer') = IF i + 1 <= m THEN m - (i + 1) + 1 ELSE 0
        /\ \A j \in 1 .. m - (i + 1) + 1 : buffer'[j] = buffer[i + 1 + j - 1]
    BY <2>1, SubSeqProperties
  <2>3. ASSUME NEW j \in DOMAIN buffer', buffer'[j].says = "allow"
        PROVE  buffer'[j].ask \in Warranted'
    <3>1. j \in 1 .. m - (i + 1) + 1
      BY <2>1, <2>2, LenProperties
    <3>2. i + j \in 1 .. m /\ buffer'[j] = buffer[i + j]
      BY <2>1, <2>2, <3>1
    <3> QED
      BY <1>k, <2>1, <2>3, <3>2 DEF OnlyWarranted
  <2>4. told' \subseteq Warranted'
    BY <1>k, <2>1 DEF OnlyWarranted
  <2>5. OnlyWarranted(stdin)'
    BY <1>3, <1>k DEF ChildHears, OnlyWarranted
  <2> QED
    BY <1>3, <1>a, <2>3, <2>4, <2>5 DEF ChildHears, hostVars, OnlyWarranted
<1>4. CASE ReaderMoves \/ HostReads \/ HostAsks \/ HostLooks \/ RunRefused
  BY <1>4, <1>s, <1>a, <1>l
  DEF ReaderMoves, HostReads, HostAsks, HostLooks, RunRefused, childVars, hostVars
<1>5. CASE BeginRun \/ HostAskFails \/ HostReaps \/ WallClock
  BY <1>5, <1>z, <1>a, <1>l DEF BeginRun, HostAskFails, HostReaps, WallClock, EndRun
<1>6. CASE NextAnswer
  <2>1. /\ answers # <<>> /\ answers' = Tail(answers) /\ UNCHANGED told
        /\ answers \in Seq([ask : Asks, answer : {"allow", "deny"}])
    BY <1>6, <1>t DEF NextAnswer, OwnerOK
  <2>2. Head(answers) \in [ask : Asks, answer : {"allow", "deny"}]
    BY <2>1, Sequences
  <2>3. <<Head(answers).ask, Head(answers).answer>> \in accepted
    <3>1. 1 \in DOMAIN answers /\ Head(answers) = answers[1]
      BY <2>1, LenProperties, EmptySeq
    <3> QED
      BY <3>1 DEF Answered
  <2>4. Answered'
    <3>1. ASSUME NEW i \in DOMAIN answers'
          PROVE  i + 1 \in DOMAIN answers /\ answers'[i] = answers[i + 1]
      BY <2>1, HeadTailProperties, LenProperties
    <3> QED
      BY <1>e, <3>1 DEF Answered, Keeps
  <2>5. OnlyWarranted(stdin)' /\ OnlyWarranted(buffer)'
    <3>1. CASE Head(answers).ask = ask
      <4> DEFINE what == Head(answers).answer
      <4>1. /\ host = "asking" /\ Settle(what) /\ Respond(what)
            /\ what \in {"allow", "deny"} /\ <<ask, what>> \in accepted
        BY <1>6, <2>2, <2>3, <3>1 DEF NextAnswer
      <4> HIDE DEF what
      <4>2. what = "allow" => ask \in Warranted'
        BY <1>e, <4>1, SettlesWarranted
      <4> QED
        BY <1>e, <4>1, <4>2, RespondsWarranted
    <3>2. CASE Head(answers).ask # ask
      BY <1>6, <3>2, <1>s DEF NextAnswer, childVars
    <3> QED
      BY <3>1, <3>2
  <2> QED
    BY <2>1, <2>4, <2>5, <1>l
<1>7. CASE AskExpires
  BY <1>7, <1>e, <1>a, <1>l, RespondsWarranted DEF AskExpires
<1>8. CASE \E o \in Owners : Owner(o)
  <2> PICK o \in Owners : Owner(o)
    BY <1>8
  <2>1. UNCHANGED <<stdin, buffer, told>>
    BY DEF Owner, Post, Recheck, Deliver, childVars
  <2>2. Answered'
    <3>1. CASE Post(o) \/ Recheck(o)
      BY <3>1, <1>a DEF Post, Recheck, hostVars
    <3>2. CASE Deliver(o)
      <4> DEFINE e == [ask |-> owner[o].ask, answer |-> owner[o].answer]
      <4>1. /\ e \in [ask : Asks, answer : {"allow", "deny"}]
            /\ answers' = Append(answers, e) /\ <<e.ask, e.answer>> \in accepted'
        BY <3>2, <1>t DEF Deliver, OwnerOK
      <4> HIDE DEF e
      <4>2. /\ Len(answers) \in Nat /\ DOMAIN answers = 1 .. Len(answers)
            /\ DOMAIN answers' = 1 .. Len(answers) + 1
            /\ answers'[Len(answers) + 1] = e
            /\ \A i \in 1 .. Len(answers) : answers'[i] = answers[i]
        BY <1>t, <4>1, Grown DEF OwnerOK
      <4>3. ASSUME NEW i \in DOMAIN answers'
            PROVE  <<answers'[i].ask, answers'[i].answer>> \in accepted'
        BY <1>e, <4>1, <4>2 DEF Answered, Keeps
      <4> QED
        BY <4>3 DEF Answered
    <3> QED
      BY <3>1, <3>2 DEF Owner
  <2> QED
    BY <2>1, <2>2, <1>s, <1>l
<1>9. CASE UNCHANGED vars
  BY <1>9, <1>s, <1>a, <1>l DEF vars, childVars, hostVars
<1> QED
  BY <1>1, <1>2, <1>3, <1>4, <1>5, <1>6, <1>7, <1>8, <1>9
  DEF Next, Child, ChildListens, Host

\* ADR-0024: the child acts on the host's allow only when an owner answered that very
\* ask with allow, and unless an append failed the store says so.
THEOREM FailClosed == Spec => []AllowIsOwners
<1>1. Init => AllowInv
  BY TypeInit DEF AllowInv, Answered, OnlyWarranted, Init
<1>2. AllowInv /\ [Next]_vars => AllowInv'
  BY TypeInductive, AllowInductive DEF AllowInv
<1>3. AllowInv => AllowIsOwners
  BY DEF AllowInv, Warranted, AllowIsOwners
<1> QED
  BY <1>1, <1>2, <1>3, PTL DEF Spec

(***************************************************************************)
(* Short responses are not heard.                                          *)
(***************************************************************************)
\* No response is as long as what the child's read asks for.
Short == 1 < Chunk /\ \A length \in Lengths : length < Chunk

One(b) == IF b THEN 1 ELSE 0

\* What the child writes is under way only as long as the reader reads.
Written == IF reader = "reads" THEN Len(outbox) + Len(pipe) ELSE 0

\* A child at work has not asked yet.  One that waits has asked once, and what is on the
\* way is one thing: its request, the end of the stream that a dead reader announces in its
\* stead, the host's question to the owner, or the response.  So when the host closes the
\* child's stdin before the child has finished, there is nothing left in it to hear.
Unheard ==
    /\ told = {}
    /\ child \in {"working", "awaiting"} =>
          buffer = <<>> /\ (host = "closing" => stdin = <<>>)
    /\ child = "working" /\ host # "closing" =>
          /\ sent = <<>> /\ outbox = <<>> /\ pipe = <<>> /\ outq = <<>> /\ stdin = <<>>
          /\ host # "asking"
    /\ child = "awaiting" /\ host # "closing" =>
          /\ Len(stdin) < Chunk
          /\ Written + Len(outq) + One(host = "asking") + One(stdin # <<>>) <= 1

\* The child stops waiting by its death or, its stdin closed, because it gives up.
WaitsOn == child = "awaiting" /\ host # "closing" => child' \in {"awaiting", "exited"}

LEMMA Lengthens ==
    ASSUME NEW S, NEW s \in Seq(S)
    PROVE  /\ Len(s) \in Nat /\ (s = <<>> <=> Len(s) = 0)
           /\ \A x \in S : Len(Append(s, x)) = Len(s) + 1
           /\ s # <<>> => Len(Tail(s)) = Len(s) - 1
<1>1. Len(s) \in Nat /\ (s = <<>> <=> Len(s) = 0)
  BY LenProperties, EmptySeq
<1> QED
  BY <1>1, AppendProperties, HeadTailProperties

\* A run that ends leaves no child that could hear.
LEMMA EndedUnheard ==
    ASSUME Unheard, told' = told, NEW reason, EndRun(reason)
    PROVE  Unheard'
  BY DEF Unheard, EndRun

\* The response to the one ask is all there is in the stdin pipe, and it is short.
LEMMA RespondUnheard ==
    ASSUME LeavesInv, Unheard, Short, host = "asking", told' = told,
           NEW what \in {"allow", "deny"}, Respond(what)
    PROVE  Unheard'
<1>1. CASE child = "exited"
  BY <1>1, EndedUnheard DEF Respond
<1>2. CASE child # "exited"
  <2>1. PICK length \in Lengths \union {1} : stdin' = stdin \o Response(what, length)
    BY <1>2 DEF Respond
  <2>2. host' = "reading" /\ UNCHANGED <<child, sent, outbox, pipe, buffer, reader, outq>>
    BY <1>2 DEF Respond
  <2>3. length \in Nat \ {0} /\ length < Chunk
    BY ConstantsOK DEF Short
  <2>4. CASE child = "awaiting"
    <3>1. /\ outbox \in Seq(Lines) /\ pipe \in Seq(Lines) /\ outq \in Seq(Read)
          /\ stdin \in Seq(Places) /\ ask \in Asks
      BY DEF LeavesInv, TypeInv, ChildOK, HostOK
    <3>2. stdin = <<>> /\ Written = 0 /\ Len(outq) = 0
      <4>1. Written \in Nat /\ Len(outq) \in Nat
        BY <3>1, Lengthens DEF Written
      <4> QED
        BY <2>4, <4>1 DEF Unheard, One
    <3>3. /\ Response(what, length) \in Seq(Places)
          /\ Len(Response(what, length)) = length
      BY <2>3, <3>1, ResponseOK
    <3>4. Len(stdin') = length
      BY <2>1, <3>1, <3>2, <3>3, ConcatProperties, EmptySeq
    <3>5. Written' = Written
      BY <2>2 DEF Written
    <3> QED
      BY <2>2, <2>3, <2>4, <3>2, <3>4, <3>5 DEF Unheard, One
  <2>5. CASE child # "awaiting"
    BY <2>2, <2>5 DEF Unheard
  <2> QED
    BY <2>4, <2>5
<1> QED
  BY <1>1, <1>2

LEMMA UnheardChild ==
    ASSUME LeavesInv, Unheard, Short, Child
    PROVE  Unheard' /\ WaitsOn
<1>t. /\ outbox \in Seq(Lines) /\ pipe \in Seq(Lines) /\ outq \in Seq(Read)
      /\ stdin \in Seq(Places) /\ host \in {"idle", "reading", "asking", "closing"}
      /\ sent \in Seq(Requests)
  BY DEF LeavesInv, TypeInv, ChildOK, HostOK
<1>l. Len(outbox) \in Nat /\ Len(pipe) \in Nat /\ Len(outq) \in Nat
  BY <1>t, Lengthens
<1>1. CASE ChildWrites
  <2>1. Head(outbox) \in Lines
    BY <1>1, <1>t, Sequences DEF ChildWrites
  <2>2. Len(outbox') = Len(outbox) - 1 /\ Len(pipe') = Len(pipe) + 1
    BY <1>1, <1>t, <2>1, Lengthens DEF ChildWrites
  <2>3. /\ outbox # <<>>
        /\ UNCHANGED <<child, sent, stdin, buffer, host, reader, outq, told>>
    BY <1>1 DEF ChildWrites, hostVars
  <2>4. Written' = Written
    BY <1>l, <2>2, <2>3 DEF Written
  <2> QED
    BY <2>3, <2>4 DEF Unheard, WaitsOn
<1>2. CASE ChildAsks
  <2>1. PICK a \in Asks, kind \in {"ask", "long"} :
          /\ child = "working" /\ child' = "awaiting"
          /\ sent' = Append(sent, Line(kind, a)) /\ outbox' = sent'
          /\ UNCHANGED <<pipe, stdin, buffer, host, reader, outq, told>>
    BY <1>2 DEF ChildAsks, hostVars
  <2>2. CASE host = "closing"
    BY <2>1, <2>2 DEF Unheard, WaitsOn
  <2>3. CASE host # "closing"
    <3>1. /\ sent = <<>> /\ Len(pipe) = 0 /\ Len(outq) = 0 /\ Len(stdin) = 0
          /\ stdin = <<>> /\ host # "asking" /\ buffer = <<>> /\ told = {}
      BY <2>1, <2>3 DEF Unheard
    <3>2. Len(outbox') = 1
      <4>1. Line(kind, a) \in Requests
        BY DEF Line, Requests
      <4> QED
        BY <1>t, <2>1, <3>1, <4>1, Lengthens
    <3>3. 0 < Chunk
      BY ConstantsOK
    <3>4. Written' \in {0, 1}
      BY <2>1, <3>1, <3>2 DEF Written
    <3>5. /\ Len(stdin') < Chunk
          /\ Written' + Len(outq') + One(host' = "asking") + One(stdin' # <<>>) <= 1
      <4>1. Len(stdin') = 0 /\ Len(outq') = 0 /\ host' # "asking" /\ stdin' = <<>>
        BY <2>1, <3>1
      <4>2. One(host' = "asking") = 0 /\ One(stdin' # <<>>) = 0
        BY <4>1 DEF One
      <4> QED
        BY <3>3, <3>4, <4>1, <4>2, ConstantsOK
    <3> QED
      BY <2>1, <2>3, <3>1, <3>5 DEF Unheard, WaitsOn
  <2> QED
    BY <2>2, <2>3
<1>3. ~ChildFills
  <2> SUFFICES ASSUME child = "awaiting",
                      Len(stdin) >= Chunk \/ (host = "closing" /\ stdin # <<>>)
               PROVE  FALSE
    BY DEF ChildFills
  <2>1. Chunk \in Nat \ {0} /\ Len(stdin) \in Nat /\ (stdin = <<>> => Len(stdin) = 0)
    BY <1>t, ConstantsOK, Lengthens
  <2> QED
    BY <2>1 DEF Unheard
<1>4. ~ChildHears
  BY EmptySeq DEF ChildHears, Ends, Unheard
<1>5. CASE ChildHearsEnd
  <2>1. /\ child' = "working" /\ child = "awaiting" /\ host = "closing"
        /\ UNCHANGED <<stdin, buffer, host, told>>
    BY <1>5 DEF ChildHearsEnd, hostVars
  <2> QED
    BY <2>1 DEF Unheard, WaitsOn
<1>6. CASE ChildFinishes \/ ChildDies
  BY <1>6 DEF ChildFinishes, ChildDies, Unheard, WaitsOn
<1> QED
  BY <1>1, <1>2, <1>3, <1>4, <1>5, <1>6 DEF Child, ChildListens

LEMMA UnheardElse ==
    ASSUME LeavesInv, Unheard, Short, [Next]_vars, ~Child
    PROVE  Unheard' /\ WaitsOn
<1>t. /\ outbox \in Seq(Lines) /\ pipe \in Seq(Lines) /\ outq \in Seq(Read)
      /\ stdin \in Seq(Places) /\ host \in {"idle", "reading", "asking", "closing"}
      /\ answers \in Seq([ask : Asks, answer : {"allow", "deny"}])
  BY DEF LeavesInv, TypeInv, ChildOK, HostOK, OwnerOK
<1>l. Len(outbox) \in Nat /\ Len(pipe) \in Nat /\ Len(outq) \in Nat /\ Written \in Nat
  BY <1>t, Lengthens DEF Written
<1>1. CASE ReaderMoves
  <2>1. /\ UNCHANGED <<child, sent, outbox, stdin, buffer, host, told>>
        /\ host # "closing" /\ reader = "reads"
    BY <1>1 DEF ReaderMoves
  <2>2. CASE pipe # <<>>
    <3>1. child # "working" /\ Len(pipe) # 0
      BY <1>t, <2>1, <2>2, Lengthens DEF Unheard
    <3>2. Written' + Len(outq') <= Written + Len(outq) /\ Written' \in Nat /\ Len(outq') \in Nat
      <4>1. CASE ReaderStops
        <5>1. Len(outq') = Len(outq) + 1 /\ reader' = "stopped"
          <6>1. Eof \in Read
            BY DEF Eof, Line, Read, Kinds
          <6> QED
            BY <1>t, <4>1, <6>1, Lengthens DEF ReaderStops
        <5> QED
          BY <1>l, <2>1, <3>1, <5>1 DEF Written
      <4>2. CASE ~ReaderStops
        <5>1. /\ Head(pipe).kind # "long" /\ outq' = Append(outq, Head(pipe))
              /\ pipe' = Tail(pipe) /\ reader' = "reads"
          BY <1>1, <2>1, <4>2 DEF ReaderMoves
        <5>2. Head(pipe) \in Read
          <6>1. Head(pipe) \in Lines
            BY <1>t, <2>2, Sequences
          <6> QED
            BY <5>1, <6>1 DEF Lines, Read
        <5>3. Len(outq') = Len(outq) + 1 /\ Len(pipe') = Len(pipe) - 1
          BY <1>t, <2>2, <5>1, <5>2, Lengthens
        <5> QED
          BY <1>l, <2>1, <3>1, <5>1, <5>3 DEF Written
      <4> QED
        BY <4>1, <4>2
    <3> QED
      BY <1>l, <2>1, <3>1, <3>2 DEF Unheard, WaitsOn, One
  <2>3. CASE pipe = <<>>
    <3>1. child = "exited"
      BY <1>1, <2>3 DEF ReaderMoves, ReaderStops
    <3> QED
      BY <2>1, <3>1 DEF Unheard, WaitsOn
  <2> QED
    BY <2>2, <2>3
<1>2. CASE HostReads
  <2>1. /\ UNCHANGED <<child, sent, outbox, pipe, stdin, buffer, reader, told>>
        /\ host = "reading" /\ host' \in {"reading", "closing"} /\ outq # <<>>
    BY <1>2 DEF HostReads, childVars
  <2>2. Len(outq') <= Len(outq) /\ Len(outq') \in Nat /\ Len(outq) > 0 /\ Written' = Written
    <3>1. outq' = outq \/ outq' = Tail(outq)
      BY <1>2 DEF HostReads
    <3> QED
      BY <1>t, <1>l, <2>1, <3>1, Lengthens DEF Written
  <2>3. child = "awaiting" => stdin = <<>>
    BY <1>l, <2>1, <2>2 DEF Unheard, One
  <2> QED
    BY <1>l, <2>1, <2>2, <2>3 DEF Unheard, WaitsOn, One
<1>3. CASE HostAsks
  <2>1. /\ UNCHANGED <<child, sent, outbox, pipe, stdin, buffer, reader, told>>
        /\ host = "reading" /\ host' = "asking" /\ outq # <<>> /\ outq' = Tail(outq)
    BY <1>3 DEF HostAsks, childVars
  <2>2. Len(outq') = Len(outq) - 1 /\ Written' = Written
    BY <1>t, <2>1, Lengthens DEF Written
  <2> QED
    BY <1>l, <2>1, <2>2 DEF Unheard, WaitsOn, One
<1>4. CASE NextAnswer
  <2>1. told' = told /\ host = "asking" /\ answers # <<>>
    BY <1>4 DEF NextAnswer
  <2>2. Head(answers).answer \in {"allow", "deny"}
    <3>1. Head(answers) \in [ask : Asks, answer : {"allow", "deny"}]
      BY <1>t, <2>1, Sequences
    <3> QED
      BY <3>1
  <2>3. CASE Respond(Head(answers).answer)
    <3>1. Unheard'
      BY <2>1, <2>2, <2>3, RespondUnheard
    <3> QED
      BY <2>3, <3>1 DEF Respond, EndRun, WaitsOn
  <2>4. CASE UNCHANGED <<host, reader, childVars, outq>>
    BY <2>1, <2>4 DEF Unheard, WaitsOn, Written, childVars
  <2> QED
    BY <1>4, <2>3, <2>4 DEF NextAnswer
<1>5. CASE AskExpires
  <2>1. Unheard'
    BY <1>5, RespondUnheard DEF AskExpires
  <2> QED
    BY <1>5, <2>1 DEF AskExpires, Respond, EndRun, WaitsOn
<1>6. CASE BeginRun
  <2>1. child # "awaiting"
    BY <1>6 DEF BeginRun, LeavesInv, RunLeavesNothing, Alive
  <2> QED
    BY <1>6, <2>1 DEF BeginRun, Unheard, WaitsOn
<1>7. CASE HostAskFails \/ HostReaps \/ WallClock
  <2>1. told' = told /\ \E reason : EndRun(reason)
    BY <1>7 DEF HostAskFails, HostReaps, WallClock
  <2> QED
    BY <2>1, EndedUnheard DEF EndRun, WaitsOn
<1>8. CASE HostLooks \/ RunRefused \/ (\E o \in Owners : Owner(o)) \/ UNCHANGED vars
  <2>1. UNCHANGED <<childVars, host, reader, outq, told>>
    BY <1>8 DEF HostLooks, RunRefused, Owner, Post, Recheck, Deliver, vars, hostVars
  <2> QED
    BY <2>1 DEF Unheard, WaitsOn, Written, childVars
<1> QED
  BY <1>1, <1>2, <1>3, <1>4, <1>5, <1>6, <1>7, <1>8 DEF Next, Host

LEMMA UnheardHolds ==
    ASSUME Short
    PROVE  Spec => [](LeavesInv /\ Unheard)
<1>1. Init => LeavesInv /\ Unheard
  BY TypeInit DEF Init, LeavesInv, RunLeavesNothing, Alive, Unheard
<1>2. LeavesInv /\ Unheard /\ [Next]_vars => (LeavesInv /\ Unheard)'
  BY TypeInductive, LeavesInductive, UnheardChild, UnheardElse DEF LeavesInv
<1> QED
  BY <1>1, <1>2, PTL DEF Spec

\* The finding at the read of cli/main.py:331, for every run: as long as no response is as
\* long as what the read asks for, no allow of any owner ever reaches a tool.
THEOREM NoAllowHeard ==
    ASSUME Short
    PROVE  Spec => [](told = {})
<1>1. Unheard => told = {}
  BY DEF Unheard
<1> QED
  BY <1>1, UnheardHolds, PTL

\* And a child that has asked leaves off waiting only by dying, as long as the host has not
\* closed its stdin: answered or denied, by the owner, the ask's timeout or its own
\* deadline, it waits until it is killed or the stream ends.
THEOREM WaitsUntilKilled ==
    ASSUME Short
    PROVE  Spec => [][WaitsOn]_vars
<1>1. LeavesInv /\ Unheard /\ [Next]_vars => [WaitsOn]_vars
  BY UnheardChild, UnheardElse
<1> QED
  BY <1>1, UnheardHolds, PTL DEF Spec

(***************************************************************************)
(* An owner's answer is not lost on its way to the loop that waits for it. *)
(***************************************************************************)
AnswerKept ==
    \A i \in DOMAIN answers :
        (host = "asking" /\ answers[i].ask = ask /\ ask' = ask)
            => \E j \in DOMAIN answers' : j <= i /\ answers'[j] = answers[i]

\* The queue changes at its ends.
LEMMA AnswersStep ==
    ASSUME TypeInv, [Next]_vars
    PROVE  \/ UNCHANGED answers
           \/ NextAnswer
           \/ \E e \in [ask : Asks, answer : {"allow", "deny"}] : answers' = Append(answers, e)
<1>1. ASSUME NEW o \in Owners, Owner(o)
      PROVE  \/ UNCHANGED answers
             \/ \E e \in [ask : Asks, answer : {"allow", "deny"}] : answers' = Append(answers, e)
  <2>1. CASE Deliver(o)
    <3>1. owner[o].ask \in Asks /\ owner[o].answer \in {"allow", "deny"}
      BY <2>1 DEF Deliver, TypeInv, OwnerOK
    <3>2. [ask |-> owner[o].ask, answer |-> owner[o].answer]
             \in [ask : Asks, answer : {"allow", "deny"}]
      BY <3>1
    <3>. QED  BY <2>1, <3>2 DEF Deliver
  <2>2. CASE Post(o) \/ Recheck(o)
    BY <2>2 DEF Post, Recheck, hostVars
  <2>. QED  BY <1>1, <2>1, <2>2 DEF Owner
<1>2. CASE ~(NextAnswer \/ \E o \in Owners : Owner(o))
  BY <1>2 DEF Next, Child, ChildListens, ChildWrites, ChildAsks, ChildFills, ChildHears,
     ChildHearsEnd, ChildFinishes, ChildDies, ReaderMoves, Host, HostReads, HostAsks,
     HostLooks, HostReaps, BeginRun, RunRefused, HostAskFails, AskExpires, WallClock, vars, hostVars
<1> QED
  BY <1>1, <1>2

LEMMA KeepsAnswer == TypeInv /\ [Next]_vars => AnswerKept
<1> SUFFICES ASSUME TypeInv, [Next]_vars, NEW i \in DOMAIN answers,
                    host = "asking", answers[i].ask = ask, ask' = ask
             PROVE  \E j \in DOMAIN answers' : j <= i /\ answers'[j] = answers[i]
  BY DEF AnswerKept
<1> DEFINE A == [ask : Asks, answer : {"allow", "deny"}]
<1>0. /\ answers \in Seq(A) /\ Len(answers) \in Nat /\ DOMAIN answers = 1 .. Len(answers)
      /\ i \in Nat
  BY LenProperties DEF TypeInv, OwnerOK
<1>1. CASE NextAnswer
  <2>1. Head(answers).ask # ask
    <3>1. ASSUME NEW what, Settle(what) PROVE FALSE
      <4>1. ask' = NoAsk
        BY <3>1 DEF Settle
      <4>. QED  BY <4>1, ConstantsOK DEF TypeInv, HostOK
    <3>. QED  BY <1>1, <3>1 DEF NextAnswer
  <2>2. answers # <<>> /\ answers' = Tail(answers)
    BY <1>1 DEF NextAnswer
  <2>3. i # 1
    BY <2>1
  <2>4. /\ DOMAIN Tail(answers) = 1 .. Len(answers) - 1
        /\ \A j \in 1 .. Len(answers) - 1 : Tail(answers)[j] = answers[j + 1]
    <3>. HIDE DEF A
    <3>. QED  BY <1>0, <2>2
  <2>5. i - 1 \in 1 .. Len(answers) - 1 /\ (i - 1) + 1 = i /\ i - 1 <= i
    BY <1>0, <2>3
  <2>6. i - 1 \in DOMAIN answers' /\ answers'[i - 1] = answers[i]
    BY <2>2, <2>4, <2>5
  <2>. QED  BY <2>5, <2>6
<1>2. ASSUME NEW e \in A, answers' = Append(answers, e)
      PROVE  \E j \in DOMAIN answers' : j <= i /\ answers'[j] = answers[i]
  <2>1. i \in DOMAIN answers' /\ answers'[i] = answers[i]
    <3>. HIDE DEF A
    <3>. QED  BY <1>0, <1>2, Grown
  <2>. QED  BY <1>0, <2>1
<1>3. CASE UNCHANGED answers
  BY <1>0, <1>3
<1> QED
  BY <1>1, <1>2, <1>3, AnswersStep

\* While the loop waits on an ask, an answer to that ask stays in the queue and never
\* falls back, whatever stale answers stand before it and whoever delivers more: it is
\* taken out only to settle the ask (_next_answer).  With a fair loop that makes it reach
\* the ask, which is left to TLC (AnswerReaches).
THEOREM AnswerNotLost == Spec => [][AnswerKept]_vars
<1>1. Init => TypeInv
  BY TypeInit
<1>2. TypeInv /\ [Next]_vars => TypeInv'
  BY TypeInductive
<1>3. TypeInv /\ [Next]_vars => [AnswerKept]_vars
  BY KeepsAnswer
<1> QED
  BY <1>1, <1>2, <1>3, PTL DEF Spec
=============================================================================
