---- MODULE OrderTracking ----
(* What a subscriber may rely on about the orders of the projection: an order *)
(* is unknown, then open, then closed, never back; a step concerns one order; *)
(* and an order's end is announced exactly once, when it closes.              *)
EXTENDS Naturals

CONSTANT Ids

VARIABLES phase,    \* id -> where the order is in its life, as the rows show it
          closes    \* id -> how many OrderClosed deltas have named it

vars == <<phase, closes>>

Phases == {"untracked", "open", "closed"}

TypeOK == phase \in [Ids -> Phases] /\ closes \in [Ids -> Nat]

Init == phase = [i \in Ids |-> "untracked"] /\ closes = [i \in Ids |-> 0]

Track(i) == /\ phase[i] = "untracked"
            /\ phase' = [phase EXCEPT ![i] = "open"]
            /\ UNCHANGED closes

\* An order may already be closed when it is first seen.
Close(i) == /\ phase[i] \in {"untracked", "open"}
            /\ phase' = [phase EXCEPT ![i] = "closed"]
            /\ closes' = [closes EXCEPT ![i] = @ + 1]

Next == \E i \in Ids : Track(i) \/ Close(i)

Spec == Init /\ [][Next]_vars
====
