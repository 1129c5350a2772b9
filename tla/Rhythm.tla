--------------------------------- MODULE Rhythm ---------------------------------
(***************************************************************************)
(* The rhythm ADR-0007 and the docstring of circadian.py promise, with no  *)
(* evidence, clock or log: awake, the mind drifts between activity and     *)
(* quiet; it falls asleep only from there; asleep, it consolidates and     *)
(* stays asleep; it comes back through "wake" and from there to activity.  *)
(***************************************************************************)
VARIABLE rhythm

Engaged == {"active", "quiet", "drowsy"}
Asleep == {"sleep", "consolidating"}

Init == rhythm = "active"

Drift == rhythm \in Engaged /\ rhythm' \in Engaged
FallAsleep == rhythm \in Engaged /\ rhythm' = "sleep"
Consolidate == rhythm \in Asleep /\ rhythm' \in Asleep
Rouse == rhythm \in Asleep /\ rhythm' = "wake"
Reopen == rhythm = "wake" /\ rhythm' = "active"

Next == Drift \/ FallAsleep \/ Consolidate \/ Rouse \/ Reopen

Spec == Init /\ [][Next]_rhythm
================================================================================
