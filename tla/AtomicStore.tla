---- MODULE AtomicStore ----
(* The store as its readers are promised it: each change replaces the snapshot *)
(* by the next generation in one step, its deltas follow before the next       *)
(* change, and a delta is sent while the snapshot it tells of is the current   *)
(* one ("publish-before-notify, seq == snapshot.generation").                  *)
EXTENDS Naturals, Sequences

VARIABLES snapshot,   \* generation of the snapshot a reader loads
          stream      \* every delta sent, as the generation of its change

vars == <<snapshot, stream>>

Init == snapshot = 0 /\ stream = <<>>

Announced == snapshot = 0 \/ (stream # <<>> /\ stream[Len(stream)] = snapshot)

Commit == /\ Announced
          /\ snapshot' = snapshot + 1
          /\ UNCHANGED stream

Announce == /\ snapshot > 0
            /\ stream' = Append(stream, snapshot)
            /\ UNCHANGED snapshot

Next == Commit \/ Announce

Spec == Init /\ [][Next]_vars
====
