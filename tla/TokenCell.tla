---- MODULE TokenCell ----
(* What TokenManager promises its callers: a cell that holds a token or none, *)
(* filled by one renewal at a time, begun only while the cell is empty.       *)
CONSTANTS Callers, Tokens, None

VARIABLES cell,      \* the token a caller is given at once, or None
          renewing,  \* the caller whose request for a token is out, or None
          held       \* caller -> the token it was given and still uses, or None

vars == <<cell, renewing, held>>

Init == cell = None /\ renewing = None /\ held = [t \in Callers |-> None]

HandOut(t) ==
    /\ cell # None
    /\ held' = [held EXCEPT ![t] = cell]
    /\ UNCHANGED <<cell, renewing>>

Begin(t) ==
    /\ cell = None /\ renewing = None
    /\ renewing' = t
    /\ UNCHANGED <<cell, held>>

\* A token too short-lived to be kept is given to the caller all the same.
Finish(t) ==
    /\ renewing = t
    /\ renewing' = None
    /\ \E k \in Tokens : cell' \in {k, None} /\ held' = [held EXCEPT ![t] = k]

\* The request failed, or its caller is gone.
Fail(t) == renewing = t /\ renewing' = None /\ UNCHANGED <<cell, held>>

Empty == cell' = None /\ UNCHANGED <<renewing, held>>

\* A caller is through with its token; the server may have rejected it.
Return(t) ==
    /\ held' = [held EXCEPT ![t] = None]
    /\ cell' \in {cell, None}
    /\ UNCHANGED renewing

\* The process starts anew; its token may have been persisted.
Restart == cell' \in {cell, None} /\ renewing' = None /\ held' = [t \in Callers |-> None]

Next == \/ \E t \in Callers : HandOut(t) \/ Begin(t) \/ Finish(t) \/ Fail(t) \/ Return(t)
        \/ Empty \/ Restart

Spec == Init /\ [][Next]_vars
====
