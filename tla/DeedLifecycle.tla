---------------------------- MODULE DeedLifecycle ----------------------------
(***************************************************************************)
(* What the agency promises about one deed (docs/ADR-0020 and the          *)
(* docstring of AgencyService.intake), with no store, lock or process:     *)
(* a deed is proposed, then either rejected or started, and ends once; a   *)
(* restart may end it without a start.  Only an executed or abandoned deed *)
(* is remembered, once, after it ended.                                    *)
(***************************************************************************)
EXTENDS Naturals

CONSTANT Deeds
VARIABLE life    \* the deeds proposed so far, each with its status

Ended == {"intent.rejected", "action.completed", "action.failed"}
LifeRecord ==
    [status : Ended \union {"intent.proposed", "action.started"}, remembered : BOOLEAN]

Init == life = << >>

Propose(d) ==
    /\ d \notin DOMAIN life
    /\ life' = [f \in DOMAIN life \union {d} |->
                  IF f = d THEN [status |-> "intent.proposed", remembered |-> FALSE]
                           ELSE life[f]]

Become(d, from, to) ==
    /\ d \in DOMAIN life
    /\ life[d].status \in from
    /\ life' = [life EXCEPT ![d].status = to]

Reject(d)   == Become(d, {"intent.proposed"}, "intent.rejected")
Start(d)    == Become(d, {"intent.proposed"}, "action.started")
Complete(d) == Become(d, {"action.started"}, "action.completed")
Fail(d)     == Become(d, {"action.started"}, "action.failed")
Abandon(d)  == Become(d, {"intent.proposed", "action.started"}, "action.failed")

Remember(d) ==
    /\ d \in DOMAIN life
    /\ life[d].status \in {"action.completed", "action.failed"}
    /\ ~life[d].remembered
    /\ life' = [life EXCEPT ![d].remembered = TRUE]

Next == \E d \in Deeds :
    \/ Propose(d) \/ Reject(d) \/ Start(d) \/ Complete(d)
    \/ Fail(d) \/ Abandon(d) \/ Remember(d)

Spec == Init /\ [][Next]_life
=============================================================================
