-------------------------- MODULE PermissionChannel --------------------------
(***************************************************************************)
(* The ask -> authorization channel, both ends of it.  The host: the loop  *)
(* of agency/runner.py for one py-claw session after another, the task     *)
(* that drains its stdout, the asyncio queue through which owners' answers *)
(* arrive, and the owner's POSTs, which main.py serves from the            *)
(* worker-thread pool (the endpoint is a plain `def') and which therefore  *)
(* interleave with the event loop between their two checks and the put,    *)
(* and between the steps of the loop's get().                              *)
(* The child: py-claw's _StreamJsonPermissionChannel (cli/main.py) over    *)
(* StructuredIO, asked by the query engine for one tool call after another.*)
(*                                                                         *)
(* Request ids are fresh (py-claw draws a uuid for each).  Timers may fire *)
(* at any moment, and the child may die at any moment.  A line of the      *)
(* child may be "long": over the 64 KiB at which readline raises.          *)
(***************************************************************************)
EXTENDS Integers, Sequences

CONSTANTS
    Asks,       \* can_use_tool request ids
    NoAsk,
    Owners,     \* worker threads serving POST permission-asks/answer
    PipeSize,   \* lines the child's stdout holds, the StreamReader's buffer included
    Chunk,      \* _RECV_CHUNK: what the child's read asks for (65536 characters)
    Lengths,    \* of an allow, which echoes the tool's input; a deny has length 1
    MaxRuns,    \* bound: runs
    MaxPosts,   \* bound: answers posted
    MaxFaults   \* bound: store appends of the ask observer that raise

ASSUME ChannelAssumption ==
    /\ NoAsk \notin Asks /\ {PipeSize, Chunk} \subseteq Nat \ {0}
    /\ Lengths \subseteq Nat \ {0}
    /\ MaxRuns \in Nat /\ MaxPosts \in Nat /\ MaxFaults \in Nat

VARIABLES
    runs,      \* runs begun
    host,      \* the host loop: "idle" (no run), "reading", "asking", "closing"
    child,     \* py-claw: "none", "working", "awaiting", "finished", "exited"
    sent,      \* the requests among its StructuredIO's _stdout_messages
    outbox,    \* lines it is about to write
    pipe,      \* its stdout
    stdin,     \* its stdin: a response is as many places as it is long, its last one
               \* tells which it is
    buffer,    \* its _stdin_buffer
    reader,    \* the reader task: "reads" or "stopped"
    outq,      \* the lines it has taken from the pipe, and its sentinel
    payload,   \* the result message read, if any
    outcome,   \* RunResult: "none" while running, "ok", or the failure reason
    ask,       \* the ask the host loop waits on
    live,      \* runner._live_asks
    answers,   \* runner._answer_queue; it outlives a run
    getter,    \* its get() under the ask: "looks" whether the queue is empty, has
               \* "looked" and found it so, or "waits" on the getter it registered
    owner,     \* where each owner's POST stands
    posts,     \* answers posted so far
    trail,     \* action.permission_asked / _answered events, in order
    told,      \* history: the asks whose "allow" the child has acted on
    accepted,  \* history: the answers acknowledged to an owner
    faults

childVars == <<child, sent, outbox, pipe, stdin, buffer>>
hostVars == <<host, reader, outq, ask, live, answers, getter, trail, faults>>
ownerVars == <<owner, posts, accepted>>
runVars == <<runs, payload, outcome>>
vars == <<childVars, hostVars, ownerVars, runVars, told>>

Line(kind, a) == [kind |-> kind, ask |-> a]
Eof == Line("eof", NoAsk)
Idle == [step |-> "idle", ask |-> NoAsk, answer |-> "deny"]
Recorded(type, a, what) == [type |-> type, ask |-> a, what |-> what]

(***************************************************************************)
(* The child.                                                              *)
(***************************************************************************)
Alive == child \notin {"none", "exited"}

ChildWrites ==
    /\ Alive /\ outbox # <<>> /\ Len(pipe) < PipeSize
    /\ pipe' = Append(pipe, Head(outbox)) /\ outbox' = Tail(outbox)
    /\ UNCHANGED <<child, sent, stdin, buffer, hostVars, ownerVars, runVars, told>>

\* Fresh: an id no event, live ask or line in flight has.
Fresh(a) ==
    /\ a \notin live
    /\ \A i \in DOMAIN sent : sent[i].ask # a
    /\ \A i \in DOMAIN trail : trail[i].ask # a

\* A tool call that needs the host: send queues the request, with the tool's whole input,
\* behind those before it, and its flush writes them all, the ones it has written before
\* too.  Nothing else is in the queue: what the turn puts out is written after it.
ChildAsks == \E a \in Asks, kind \in {"ask", "long"} :
    /\ child = "working" /\ Fresh(a)
    /\ sent' = Append(sent, Line(kind, a)) /\ outbox' = sent'
    /\ child' = "awaiting"
    /\ UNCHANGED <<pipe, stdin, buffer, hostVars, ownerVars, runVars, told>>

\* The responses of which the end is in the buffer.
Ends == {i \in DOMAIN buffer : buffer[i].ask # NoAsk}

\* _read_line without a line: read(65536) returns when it has that many characters, or
\* what is left when the host has closed the stream.
ChildFills == LET n == IF Len(stdin) < Chunk THEN Len(stdin) ELSE Chunk IN
    /\ child = "awaiting" /\ outbox = <<>> /\ Ends = {}
    /\ Len(stdin) >= Chunk \/ (host = "closing" /\ stdin # <<>>)
    /\ buffer' = buffer \o SubSeq(stdin, 1, n)
    /\ stdin' = SubSeq(stdin, n + 1, Len(stdin))
    /\ UNCHANGED <<child, sent, outbox, pipe, hostVars, ownerVars, runVars, told>>

\* At the end of a stream the host has closed, wait gives up: the tool is denied.
ChildHearsEnd ==
    /\ child = "awaiting" /\ outbox = <<>> /\ Ends = {}
    /\ host = "closing" /\ stdin = <<>>
    /\ child' = "working"
    /\ UNCHANGED <<sent, outbox, pipe, stdin, buffer, hostVars, ownerVars, runVars, told>>

\* wait takes a line.  The response to another ask is swallowed, and only then the
\* deadline may be found to have passed: the tool is denied.
ChildHears == \E i \in Ends :
    /\ child = "awaiting" /\ outbox = <<>> /\ \A j \in Ends : i <= j
    /\ buffer' = SubSeq(buffer, i + 1, Len(buffer))
    /\ \/ /\ buffer[i].ask = sent[Len(sent)].ask /\ child' = "working"
          /\ told' = IF buffer[i].says = "allow" THEN told \cup {buffer[i].ask} ELSE told
       \/ /\ buffer[i].ask # sent[Len(sent)].ask /\ child' \in {"awaiting", "working"}
          /\ UNCHANGED told
    /\ UNCHANGED <<sent, outbox, pipe, stdin, hostVars, ownerVars, runVars>>

\* The turn is over: its messages, the result among the last.
ChildFinishes == \E first \in {"noise", "long"}, last \in {"ok", "error", "empty", "long"} :
    /\ child = "working" /\ child' = "finished"
    /\ outbox' = <<Line(first, NoAsk), Line(last, NoAsk)>>
    /\ UNCHANGED <<sent, pipe, stdin, buffer, hostVars, ownerVars, runVars, told>>

ChildDies ==
    /\ Alive /\ child' = "exited" /\ outbox' = <<>>
    /\ UNCHANGED <<sent, pipe, stdin, buffer, hostVars, ownerVars, runVars, told>>

(***************************************************************************)
(* The reader task (_stdout_reader) drains the pipe at all times, until it *)
(* stops: at the end of the stream, or for good on a line readline refuses.*)
(***************************************************************************)
\* Mutant: the host loop reads the pipe itself, between two asks.
ReaderInline ==
    /\ host = "reading" /\ pipe # <<>>
    /\ outq' = Append(outq, Head(pipe)) /\ pipe' = Tail(pipe)
    /\ UNCHANGED <<child, sent, outbox, stdin, buffer, host, reader, ask, live, answers,
                   getter, trail, told, faults, ownerVars, runVars>>

\* The finally of the reader puts the sentinel, dead child or not.  A long line is dropped
\* by the readline that raises, or its first part is and the rest stays.
ReaderStops ==
    /\ \/ pipe = <<>> /\ child = "exited" /\ UNCHANGED pipe
       \/ pipe # <<>> /\ Head(pipe).kind = "long" /\ pipe' \in {pipe, Tail(pipe)}
    /\ outq' = Append(outq, Eof) /\ reader' = "stopped"

ReaderMoves ==
    /\ host \in {"reading", "asking"} /\ reader = "reads"
    /\ \/ /\ pipe # <<>> /\ Head(pipe).kind # "long"
          /\ outq' = Append(outq, Head(pipe)) /\ pipe' = Tail(pipe)
          /\ UNCHANGED reader
       \/ ReaderStops
    /\ UNCHANGED <<child, sent, outbox, stdin, buffer, host, ask, live, answers, getter,
                   trail, told, faults, ownerVars, runVars>>

(***************************************************************************)
(* The host loop (run, _host_loop, _answer_can_use_tool).                  *)
(***************************************************************************)
BeginRun ==
    /\ host = "idle" /\ runs < MaxRuns
    /\ runs' = runs + 1
    /\ host' = "reading" /\ child' = "working" /\ outcome' = "none"
    /\ sent' = <<>> /\ outbox' = <<>> /\ stdin' = <<>> /\ buffer' = <<>>
    /\ pipe' = <<>> /\ outq' = <<>> /\ reader' = "reads"
    /\ UNCHANGED <<payload, ask, live, answers, getter, trail, told, faults, ownerVars>>

\* A sandbox violation, or no py-claw binary: nothing is spawned.
RunRefused == \E reason \in {"sandbox_violation", "error"} :
    /\ host = "idle" /\ runs < MaxRuns
    /\ runs' = runs + 1
    /\ outcome' = reason
    /\ UNCHANGED <<payload, childVars, hostVars, told, ownerVars>>

\* The run is over; every path kills or has reaped the child.
EndRun(reason) ==
    /\ host' = "idle" /\ outcome' = reason
    /\ child' = "exited" /\ outbox' = <<>>
    /\ sent' = <<>> /\ stdin' = <<>> /\ buffer' = <<>>
    /\ pipe' = <<>> /\ outq' = <<>> /\ reader' = "stopped" /\ payload' = "none"

HostReads ==
    /\ host = "reading" /\ outq # <<>>
    /\ LET line == Head(outq) IN
       \/ /\ line.kind = "noise" /\ outq' = Tail(outq)
          /\ UNCHANGED <<host, payload>>
       \/ /\ line.kind \in {"ok", "error", "empty"}
          /\ payload' = line.kind /\ host' = "closing" /\ UNCHANGED outq
       \/ /\ line.kind = "eof" /\ host' = "closing"
          /\ UNCHANGED <<outq, payload>>
    /\ UNCHANGED <<runs, outcome, childVars, reader, ask, live, answers, getter, trail,
                   told, faults, ownerVars>>

HostAsks ==
    /\ host = "reading" /\ outq # <<>> /\ Head(outq).kind = "ask"
    /\ ask' = Head(outq).ask
    /\ live' = live \union {Head(outq).ask}
    /\ trail' = Append(trail, Recorded("asked", Head(outq).ask, "-"))
    /\ outq' = Tail(outq)
    /\ host' = "asking"
    /\ UNCHANGED <<childVars, reader, answers, getter, told, faults, ownerVars, runVars>>

\* The ask is registered, then the observer's append raises: the host loop
\* dies before the try whose finally would unregister it.
HostAskFails ==
    /\ host = "reading" /\ outq # <<>> /\ Head(outq).kind = "ask"
    /\ faults < MaxFaults
    /\ faults' = faults + 1
    /\ live' = live \union {Head(outq).ask}
    /\ EndRun("error")
    /\ UNCHANGED <<runs, ask, answers, getter, trail, told, ownerVars>>

\* Mutant: an answered ask stays listed.
SettleKeeps(what) ==
    /\ ask' = NoAsk /\ getter' = "looks"
    /\ trail' = Append(trail, Recorded("answered", ask, what))
    /\ UNCHANGED <<live, faults>>

\* The finally of _answer_can_use_tool: unregister, then record the answer;
\* an append that raises here is swallowed.  A get() still under way was cancelled.
Settle(what) ==
    /\ live' = live \ {ask}
    /\ ask' = NoAsk /\ getter' = "looks"
    /\ \/ /\ trail' = Append(trail, Recorded("answered", ask, what))
          /\ UNCHANGED faults
       \/ /\ faults < MaxFaults /\ faults' = faults + 1
          /\ UNCHANGED trail

\* The line of a response, `length' places long.
Response(says, length) ==
    [i \in 1 .. length |-> IF i = length THEN [ask |-> ask, says |-> says]
                                        ELSE [ask |-> NoAsk, says |-> "-"]]

\* Write the control_response and read on; on a dead child the write raises.
Respond(behavior) ==
    IF child = "exited" THEN EndRun("error")
    ELSE /\ \E length \in IF behavior = "allow" THEN Lengths ELSE {1} :
                stdin' = stdin \o Response(behavior, length)
         /\ host' = "reading"
         /\ UNCHANGED <<child, sent, outbox, pipe, buffer, reader, outq, outcome, payload>>

\* Mutants of NextAnswer: any answer resolves the ask; a stale one blocks it.
NextAnswerAny ==
    /\ host = "asking" /\ getter = "looks" /\ answers # <<>>
    /\ answers' = Tail(answers)
    /\ Settle(Head(answers).answer)
    /\ Respond(Head(answers).answer)
    /\ UNCHANGED <<runs, ownerVars, told>>

NextAnswerOnly ==
    /\ host = "asking" /\ getter = "looks" /\ answers # <<>>
    /\ Head(answers).ask = ask
    /\ answers' = Tail(answers)
    /\ Settle(Head(answers).answer)
    /\ Respond(Head(answers).answer)
    /\ UNCHANGED <<runs, ownerVars, told>>

\* get() on an empty queue, and the registration of its getter.  The answer a worker
\* thread puts between the two finds nobody to wake.
HostLooks ==
    /\ host = "asking"
    /\ \/ getter = "looks" /\ answers = <<>> /\ getter' = "looked"
       \/ getter = "looked" /\ getter' = "waits"
    /\ UNCHANGED <<childVars, host, reader, outq, ask, live, answers, trail, faults,
                   ownerVars, runVars, told>>

\* _next_answer: an answer to another ask is discarded.
NextAnswer ==
    /\ host = "asking" /\ getter = "looks" /\ answers # <<>>
    /\ answers' = Tail(answers)
    /\ IF Head(answers).ask = ask
       THEN Settle(Head(answers).answer) /\ Respond(Head(answers).answer)
       ELSE UNCHANGED <<host, reader, live, ask, getter, trail, faults, childVars, outq,
                        outcome, payload>>
    /\ UNCHANGED <<runs, ownerVars, told>>

\* The ask's own timeout: deny, recorded as the policy's.
AskExpires ==
    /\ host = "asking"
    /\ Settle("auto_deny_expired")
    /\ Respond("deny")
    /\ UNCHANGED <<runs, answers, ownerVars, told>>

\* Mutant: a child that died gets a reason of its own.
ClassifyKilled(code) ==
    CASE payload = "none"  -> IF code = "nonzero" THEN "killed" ELSE "malformed_output"
      [] payload = "error" -> "error"
      [] payload = "empty" -> "malformed_output"
      [] payload = "ok"    -> "ok"

Classify(code) ==
    CASE payload = "none"  -> IF code = "nonzero" THEN "error" ELSE "malformed_output"
      [] payload = "error" -> "error"
      [] payload = "empty" -> "malformed_output"
      [] payload = "ok"    -> "ok"

\* The child exits (with a code of its own) once its stdin is closed, or is
\* killed after the grace.
HostReaps == \E code \in {"zero", "nonzero"} :
    /\ host = "closing"
    /\ EndRun(Classify(code))
    /\ UNCHANGED <<runs, ask, live, answers, getter, trail, told, faults, ownerVars>>

\* Mutant: the cancelled host loop forgets the ask it was waiting on.
WallClockForgets ==
    /\ host # "idle"
    /\ EndRun("timeout")
    /\ live' = live \ {ask} /\ ask' = NoAsk /\ getter' = "looks"
    /\ UNCHANGED <<runs, answers, trail, told, faults, ownerVars>>

\* The wall-clock budget of run(): the loop is cancelled, its finally settles
\* an open ask, the child is killed.
WallClock ==
    /\ host # "idle"
    /\ EndRun("timeout")
    /\ IF host = "asking" THEN Settle("auto_deny_expired")
                          ELSE UNCHANGED <<live, ask, getter, trail, faults>>
    /\ UNCHANGED <<runs, answers, told, ownerVars>>

(***************************************************************************)
(* The owner's POST (service.answer_permission_ask, then                   *)
(* runner.submit_permission_answer), in a worker thread.                   *)
(***************************************************************************)
Post(o) == \E a \in live, w \in {"allow", "deny"} :
    /\ owner[o].step = "idle"
    /\ posts < MaxPosts /\ posts' = posts + 1
    /\ owner' = [owner EXCEPT ![o] = [step |-> "checked", ask |-> a, answer |-> w]]
    /\ UNCHANGED <<childVars, hostVars, told, accepted, runVars>>

\* The second check; when it fails the call returns silently.
Recheck(o) ==
    /\ owner[o].step = "checked"
    /\ IF owner[o].ask \in live
       THEN /\ owner' = [owner EXCEPT ![o].step = "rechecked"]
            /\ UNCHANGED accepted
       ELSE /\ owner' = [owner EXCEPT ![o] = Idle]
            /\ accepted' = accepted \union {<<owner[o].ask, owner[o].answer>>}
    /\ UNCHANGED <<posts, childVars, hostVars, told, runVars>>

\* put_nowait: the append, and the wake of the getter that is registered by then, if one
\* is.  (The two can be one step: what matters is where they fall between get()'s steps.)
Deliver(o) ==
    /\ owner[o].step = "rechecked"
    /\ answers' = Append(answers, [ask |-> owner[o].ask, answer |-> owner[o].answer])
    /\ accepted' = accepted \union {<<owner[o].ask, owner[o].answer>>}
    /\ owner' = [owner EXCEPT ![o] = Idle]
    /\ getter' = IF getter = "waits" THEN "looks" ELSE getter
    /\ UNCHANGED <<childVars, host, reader, outq, ask, live, trail, told, faults, posts,
                   runVars>>

Init ==
    /\ runs = 0 /\ host = "idle" /\ child = "none"
    /\ sent = <<>> /\ outbox = <<>> /\ stdin = <<>> /\ buffer = <<>>
    /\ pipe = <<>> /\ outq = <<>> /\ payload = "none" /\ outcome = "none"
    /\ reader = "stopped" /\ ask = NoAsk /\ live = {}
    /\ answers = <<>> /\ getter = "looks"
    /\ owner = [o \in Owners |-> Idle] /\ posts = 0
    /\ trail = <<>> /\ told = {} /\ accepted = {} /\ faults = 0

ChildListens == ChildWrites \/ ChildFills \/ ChildHears \/ ChildHearsEnd
Child == ChildListens \/ ChildAsks \/ ChildFinishes \/ ChildDies
Host == HostReads \/ HostAsks \/ HostLooks \/ NextAnswer \/ HostReaps
Owner(o) == Post(o) \/ Recheck(o) \/ Deliver(o)

Next ==
    \/ Child \/ ReaderMoves \/ Host
    \/ BeginRun \/ RunRefused \/ HostAskFails \/ AskExpires \/ WallClock
    \/ \E o \in Owners : Owner(o)

Spec == Init /\ [][Next]_vars

\* proc.wait() after the kill returns when the child's pipes have been read to their end
\* (asyncio of Python 3.11), and the transport of a full one is paused.
Reapable == Alive /\ reader = "stopped" => Len(pipe) < PipeSize

\* Only the event loop is fair: no timer fires, no owner answers and the child
\* does nothing unless it happens to.
FairSpec ==
    /\ Spec /\ WF_vars(ReaderMoves)
    /\ WF_vars(Host /\ (host = "closing" => Reapable))

\* A child that is able to write, or to read its stdin, does.
HeedfulSpec == FairSpec /\ WF_vars(ChildListens)

(***************************************************************************)
(* Properties.                                                             *)
(***************************************************************************)
\* Every variable holds a value of its kind.
TypeOK ==
    /\ runs \in Nat /\ posts \in Nat /\ faults \in Nat
    /\ host \in {"idle", "reading", "asking", "closing"}
    /\ child \in {"none", "working", "awaiting", "finished", "exited"}
    /\ sent \in Seq([kind : {"ask", "long"}, ask : Asks])
    /\ {outbox, pipe} \subseteq Seq([kind : {"noise", "ask", "ok", "error", "empty", "long"},
                                    ask : Asks \union {NoAsk}])
    /\ {stdin, buffer} \subseteq Seq([ask : Asks \union {NoAsk},
                                      says : {"-", "allow", "deny"}])
    /\ outq \in Seq([kind : {"noise", "ask", "ok", "error", "empty", "eof"},
                     ask : Asks \union {NoAsk}])
    /\ reader \in {"reads", "stopped"} /\ getter \in {"looks", "looked", "waits"}
    /\ host # "asking" => getter = "looks"
    /\ payload \in {"none", "ok", "error", "empty"}
    /\ outcome \in {"none", "ok", "error", "timeout", "malformed_output",
                    "sandbox_violation", "permission_timeout"}
    /\ ask \in Asks \union {NoAsk} /\ live \subseteq Asks
    /\ host = "asking" => ask \in Asks
    /\ child = "awaiting" => sent # <<>>
    /\ answers \in Seq([ask : Asks, answer : {"allow", "deny"}])
    /\ owner \in [Owners -> [step : {"idle", "checked", "rechecked"},
                             ask : Asks \union {NoAsk}, answer : {"allow", "deny"}]]
    /\ \A o \in Owners : owner[o].step # "idle" => owner[o].ask \in Asks
    /\ trail \in Seq([type : {"asked", "answered"}, ask : Asks,
                      what : {"-", "allow", "deny", "auto_deny_expired"}])
    /\ told \subseteq Asks
    /\ accepted \subseteq Asks \X {"allow", "deny"}

\* ADR-0024, fail closed: the child runs a tool on the host's "allow" only if an
\* owner answered that very ask with allow, and the store says so unless that
\* append failed; an answer left over from an earlier ask or run, or from an earlier
\* sending of the same ask, never counts for another.
AllowIsOwners ==
    \A a \in told :
        /\ <<a, "allow">> \in accepted
        /\ faults = 0 => \E i \in DOMAIN trail : trail[i] = Recorded("answered", a, "allow")

\* The two kinds of permission event pair up, although the child sends its asks again
\* and again: the events of one ask alternate, beginning with the asking, and a run
\* leaves no ask unanswered, however it ends (no append failing).
AsksPairUp ==
    LET Before(j) == {i \in 1 .. j - 1 : trail[i].ask = trail[j].ask}
        After(i) == {j \in DOMAIN trail : j > i /\ trail[j].ask = trail[i].ask}
    IN /\ \A j \in DOMAIN trail : trail[j].type = "answered" =>
              \E i \in Before(j) : \A k \in Before(j) : k <= i /\ trail[i].type = "asked"
       /\ faults = 0 =>
              \A i, j \in DOMAIN trail :
                  /\ i \in Before(j) /\ trail[i].type = "asked" /\ trail[j].type = "asked"
                  => \E k \in Before(j) : i < k /\ trail[k].type = "answered"
       /\ faults = 0 /\ host # "asking" =>
              \A i \in DOMAIN trail : trail[i].type = "asked" =>
                  \E j \in After(i) : trail[j].type = "answered"

\* run()'s "a kill is never orphaned" and pending_permission_asks: however a run ends,
\* answered, expired, dead or killed, its child is gone with it; and the asks the WebUI
\* lists are exactly those the host loop waits on, as long as no append fails.
RunLeavesNothing ==
    /\ host = "idle" => ~Alive
    /\ faults = 0 => live = (IF host = "asking" THEN {ask} ELSE {})

\* The reader's comment in _host_loop: the child's stdout is drained even while the loop
\* waits for an owner who never answers.  Only a reader that has stopped leaves it full:
\* one that a long line has killed, and then nothing drains it to the end of the run.
PipeDrains == (Len(pipe) = PipeSize) ~> (Len(pipe) < PipeSize \/ reader = "stopped")

\* An answer in the queue for the ask the loop waits on resolves it, whatever stale answers
\* are ahead of it and whether or not a timer ever fires, unless the loop sleeps on a queue
\* that is not empty: what was put between the look and the registration wakes nobody, and
\* waits for another put or for the ask's timer.
Overslept == getter = "waits" /\ answers # <<>>
AnswerReaches ==
    \A a \in Asks :
        (ask = a /\ \E i \in DOMAIN answers : answers[i].ask = a) ~> (ask # a \/ Overslept)

\* py-claw's engine: "a prompt the host never answers must not block the turn".  A child
\* whose ask the host has even answered waits no longer, sooner or later, by itself: no
\* wall clock has to kill it.
Responded == \E i \in DOMAIN stdin : stdin[i].ask = sent[Len(sent)].ask
WaitEnds == (child = "awaiting" /\ Responded) ~> (child # "awaiting")

=============================================================================
