------------------------------- MODULE InnerLife -------------------------------
(***************************************************************************)
(* What the mind promises of its own material (docstrings of sleep.py,     *)
(* mental_state.py and world.py), with no log, engine, clock or process: a *)
(* thread is created, becomes active, and may rest and come back; the      *)
(* world's threads stay within their cap; an impression is formed, is      *)
(* spent at most once, and is thought on at most once, when it is spent.   *)
(***************************************************************************)
EXTENDS Naturals, FiniteSets, Sequences

CONSTANTS SelfThreads, Topics, MaxWorldThreads
VARIABLES life, impressions

material == <<life, impressions>>

\* t moves from one of the states `from' to another.
Moves(t, from, to) ==
    /\ life[t] \in from
    /\ life' = [life EXCEPT ![t] = to]
    /\ UNCHANGED impressions

Create(t) ==
    /\ t \in Topics => Cardinality({u \in Topics : life[u] # "none"}) < MaxWorldThreads
    /\ Moves(t, {"none"}, "created")

Activate(t) == Moves(t, {"created", "dormant"}, "activated")
Rest(t) == Moves(t, {"activated"}, "dormant")

Form(topic) ==
    /\ impressions' = Append(impressions, [topic |-> topic, status |-> "formed"])
    /\ UNCHANGED life

\* Impression i moves from one state to the next.
Marks(i, from, to) ==
    /\ impressions[i].status = from
    /\ impressions' = [impressions EXCEPT ![i].status = to]
    /\ UNCHANGED life

Spend(i) == Marks(i, "formed", "promoted")
ThinkOn(i) == Marks(i, "promoted", "thought")

Init == life = [t \in SelfThreads \cup Topics |-> "none"] /\ impressions = <<>>

Next ==
    \/ \E t \in SelfThreads \cup Topics : Create(t) \/ Activate(t) \/ Rest(t)
    \/ \E topic \in Topics : Form(topic)
    \/ \E i \in DOMAIN impressions : Spend(i) \/ ThinkOn(i)

Spec == Init /\ [][Next]_material
================================================================================
