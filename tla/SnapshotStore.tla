---- MODULE SnapshotStore ----
(* `Store` of runtime.rs as the tasks that call `Store::apply` interleave:    *)
(* the fold and the clone happen under the `write` mutex, the snapshot swap   *)
(* and the sends happen after it is released. The pump is one writer; the     *)
(* tasks of spawn_refresh and spawn_holdings are others. A folded state is    *)
(* its generation, a delta the generation of the change it tells of. A fold   *)
(* without deltas returns early, moves no generation and publishes nothing:   *)
(* it is a stuttering step here. Actions under "Fault" are plausible bugs,    *)
(* each a variant of the action defined after it.                             *)
EXTENDS Naturals, Sequences

CONSTANTS Writers,      \* tasks that call Store::apply
          MaxChanges,   \* bound on the changes TLC explores
          MaxDeltas,    \* most deltas of one change (3: fill, upsert, close)
          Capacity      \* deltas the broadcast channel retains (256 in the code)

ASSUME MaxChangesAssumption == MaxChanges \in Nat
ASSUME MaxDeltasAssumption == MaxDeltas \in Nat \ {0}
ASSUME CapacityAssumption == Capacity \in Nat \ {0}

VARIABLES canon,      \* generation of the canonical copy behind the mutex
          published,  \* generation of the snapshot in the ArcSwap
          pc,         \* writer -> the next step of its apply
          clone,      \* writer -> generation of the clone its apply took
          outbox,     \* writer -> deltas its apply has still to send
          stream,     \* every delta sent so far, oldest first
          cursor,     \* deltas the subscriber has consumed or lagged past
          reading,    \* the subscriber was woken and has yet to load the snapshot
          seen        \* generation of the snapshot the subscriber last loaded

writerVars == <<canon, published, pc, clone, outbox, stream>>
subscriberVars == <<cursor, reading, seen>>
vars == <<canon, published, pc, clone, outbox, stream, cursor, reading, seen>>

TypeOK ==
    /\ canon \in 0..MaxChanges
    /\ published \in 0..MaxChanges
    /\ pc \in [Writers -> {"idle", "publish", "notify"}]
    /\ clone \in [Writers -> 0..MaxChanges]
    /\ outbox \in [Writers -> 0..MaxDeltas]
    /\ stream \in Seq(1..MaxChanges)
    /\ cursor \in Nat
    /\ reading \in BOOLEAN
    /\ seen \in 0..MaxChanges

Init ==
    /\ canon = 0
    /\ published = 0
    /\ pc = [w \in Writers |-> "idle"]
    /\ clone = [w \in Writers |-> 0]
    /\ outbox = [w \in Writers |-> 0]
    /\ stream = <<>>
    /\ cursor = 0
    /\ reading = FALSE
    /\ seen = 0

\* Fault: a fold without deltas does not return early.
Fold_NoEarlyReturn(w) ==
    /\ pc[w] = "idle"
    /\ canon < MaxChanges
    /\ canon' = canon + 1
    /\ clone' = [clone EXCEPT ![w] = canon + 1]
    /\ \E n \in 0..MaxDeltas : outbox' = [outbox EXCEPT ![w] = n]
    /\ pc' = [pc EXCEPT ![w] = "publish"]
    /\ UNCHANGED <<published, stream, subscriberVars>>

\* Under the mutex: fold (one more change), clone, release.
Fold(w) ==
    /\ pc[w] = "idle"
    /\ canon < MaxChanges
    /\ canon' = canon + 1
    /\ clone' = [clone EXCEPT ![w] = canon + 1]
    /\ \E n \in 1..MaxDeltas : outbox' = [outbox EXCEPT ![w] = n]
    /\ pc' = [pc EXCEPT ![w] = "publish"]
    /\ UNCHANGED <<published, stream, subscriberVars>>

\* Fault: the snapshot is not stored.
Publish_Skipped(w) ==
    /\ pc[w] = "publish"
    /\ pc' = [pc EXCEPT ![w] = "notify"]
    /\ UNCHANGED <<canon, published, clone, outbox, stream, subscriberVars>>

Publish(w) ==
    /\ pc[w] = "publish"
    /\ published' = clone[w]
    /\ pc' = [pc EXCEPT ![w] = "notify"]
    /\ UNCHANGED <<canon, clone, outbox, stream, subscriberVars>>

\* Fault: the deltas are sent before the snapshot is stored.
Notify_BeforePublish(w) ==
    /\ pc[w] \in {"publish", "notify"}
    /\ outbox[w] > 0
    /\ stream' = Append(stream, clone[w])
    /\ outbox' = [outbox EXCEPT ![w] = @ - 1]
    /\ pc' = [pc EXCEPT ![w] = IF outbox[w] = 1 /\ pc[w] = "notify" THEN "idle" ELSE pc[w]]
    /\ UNCHANGED <<canon, published, clone, subscriberVars>>

\* Fault: off by one, the last delta of a change is not sent.
Notify_LastUnsent(w) ==
    /\ pc[w] = "notify"
    /\ stream' = IF outbox[w] = 1 THEN stream ELSE Append(stream, clone[w])
    /\ outbox' = [outbox EXCEPT ![w] = @ - 1]
    /\ pc' = [pc EXCEPT ![w] = IF outbox[w] = 1 THEN "idle" ELSE "notify"]
    /\ UNCHANGED <<canon, published, clone, subscriberVars>>

Notify(w) ==
    /\ pc[w] = "notify"
    /\ stream' = Append(stream, clone[w])
    /\ outbox' = [outbox EXCEPT ![w] = @ - 1]
    /\ pc' = [pc EXCEPT ![w] = IF outbox[w] = 1 THEN "idle" ELSE "notify"]
    /\ UNCHANGED <<canon, published, clone, subscriberVars>>

\* A receive returns the next delta, or Lagged when the channel has dropped it:
\* the cursor then moves to the oldest delta retained.
Receive ==
    /\ ~reading
    /\ cursor < Len(stream)
    /\ cursor' = IF Len(stream) - cursor > Capacity THEN Len(stream) - Capacity
                                                    ELSE cursor + 1
    /\ reading' = TRUE
    /\ UNCHANGED <<writerVars, seen>>

\* The subscriber's reaction to a delta, or to Lagged, is to load the snapshot.
LoadSnapshot ==
    /\ reading
    /\ seen' = published
    /\ reading' = FALSE
    /\ UNCHANGED <<writerVars, cursor>>

Next == \/ \E w \in Writers : Fold(w) \/ Publish(w) \/ Notify(w)
        \/ Receive
        \/ LoadSnapshot

Spec == Init /\ [][Next]_vars

\* An apply has no await: once folded it runs to its end. Whether another change
\* comes is up to the program's users.
Fairness == /\ \A w \in Writers : WF_vars(Publish(w)) /\ WF_vars(Notify(w))
            /\ WF_vars(Receive) /\ WF_vars(LoadSnapshot)

FairSpec == Spec /\ Fairness

----------------------------------------------------------------------------
(* Properties. *)

\* "The snapshot is updated before it is sent" (core/event.rs:35): a subscriber
\* that has a delta in hand finds its change in the snapshot, now and later.
SentIsPublished == \A n \in DOMAIN stream : stream[n] <= published

\* A subscriber with nothing left to receive, lagged or not, has loaded the state
\* the store is in ("a lagged delta consumer just re-pulls snapshot() and is
\* exactly consistent").
Quiescent == \A w \in Writers : pc[w] = "idle"
CaughtUpIsCurrent ==
    Quiescent /\ cursor = Len(stream) /\ ~reading => seen = canon

\* Every change reaches the subscriber's eyes.
EveryChangeIsSeen == \A g \in 1..MaxChanges : canon >= g ~> seen >= g

\* The store its readers are promised.
Atomic == INSTANCE AtomicStore WITH snapshot <- published
ImplementsAtomicStore == Atomic!Spec
====
