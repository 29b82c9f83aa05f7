---- MODULE SnapshotStoreProofs ----
(* Proofs about SnapshotStore for any number of changes, deltas and retained  *)
(* deltas. Types hold for any set of writers. What readers are promised holds *)
(* when only one task applies changes, the assumption SingleWriter: runtime.rs*)
(* states it of itself, and its spawn_refresh and spawn_holdings break it.    *)
EXTENDS SnapshotStore, TLAPS

SingleWriter == \A v, w \in Writers : v = w

\* An apply under way holds a clone of a state folded before, and deltas to send.
ApplyInv == \A w \in Writers :
    pc[w] # "idle" => clone[w] \in 1..canon /\ outbox[w] >= 1

\* Types, strengthened by what an apply under way holds: without it the clone
\* that is published or announced could be generation 0.
TypeInv == TypeOK /\ ApplyInv

LEMMA TypeInvInit == Init => TypeInv
<1> SUFFICES ASSUME Init PROVE TypeInv
  OBVIOUS
<1>1. 0 \in 0..MaxChanges /\ 0 \in 0..MaxDeltas
  BY MaxChangesAssumption, MaxDeltasAssumption
<1>2. stream \in Seq(1..MaxChanges)
  BY DEF Init
<1>3. pc \in [Writers -> {"idle", "publish", "notify"}]
  BY DEF Init
<1>4. /\ clone \in [Writers -> 0..MaxChanges]
      /\ outbox \in [Writers -> 0..MaxDeltas]
  BY <1>1 DEF Init
<1>5. TypeOK
  BY <1>1, <1>2, <1>3, <1>4 DEF Init, TypeOK
<1>6. ApplyInv
  BY DEF Init, ApplyInv
<1> QED BY <1>5, <1>6 DEF TypeInv

LEMMA TypeInvStep == TypeInv /\ [Next]_vars => TypeInv'
<1> SUFFICES ASSUME TypeInv, [Next]_vars PROVE TypeInv'
  OBVIOUS
<1> USE MaxChangesAssumption, MaxDeltasAssumption, CapacityAssumption
    DEF TypeInv, TypeOK, ApplyInv
<1>1. ASSUME NEW w \in Writers, Fold(w) PROVE TypeInv'
  <2>1. PICK n \in 1..MaxDeltas : outbox' = [outbox EXCEPT ![w] = n]
    BY <1>1 DEF Fold
  <2>2. TypeOK'
    BY <1>1, <2>1 DEF Fold, subscriberVars
  <2>3. ApplyInv'
    BY <1>1, <2>1 DEF Fold
  <2> QED BY <2>2, <2>3
<1>2. ASSUME NEW w \in Writers, Publish(w) PROVE TypeInv'
  BY <1>2 DEF Publish, subscriberVars
<1>3. ASSUME NEW w \in Writers, Notify(w) PROVE TypeInv'
  <2>1. stream' \in Seq(1..MaxChanges)
    <3>1. clone[w] \in 1..MaxChanges
      BY <1>3 DEF Notify
    <3> QED BY <3>1, <1>3 DEF Notify
  <2>2. TypeOK'
    BY <1>3, <2>1 DEF Notify, subscriberVars
  <2>3. ApplyInv'
    BY <1>3 DEF Notify
  <2> QED BY <2>2, <2>3
<1>4. CASE Receive
  <2>1. Len(stream) \in Nat
    OBVIOUS
  <2>2. cursor' \in Nat
    BY <1>4, <2>1 DEF Receive
  <2> QED BY <1>4, <2>2 DEF Receive, writerVars
<1>5. CASE LoadSnapshot
  BY <1>5 DEF LoadSnapshot, writerVars
<1>6. CASE UNCHANGED vars
  BY <1>6 DEF vars
<1> QED BY <1>1, <1>2, <1>3, <1>4, <1>5, <1>6 DEF Next

\* Types are right whatever tasks write, however many.
THEOREM TypeCorrect == Spec => []TypeOK
<1>1. TypeInv => TypeOK
  BY DEF TypeInv
<1> QED BY <1>1, TypeInvInit, TypeInvStep, PTL DEF Spec

----------------------------------------------------------------------------
(* One writer: the snapshot lags the canonical copy only between its fold and *)
(* its publication, and the last delta sent is the snapshot's except between  *)
(* its publication and its first send.                                        *)

WriterInv ==
    /\ \A w \in Writers : /\ pc[w] = "publish" => clone[w] = canon /\ canon = published + 1
                          /\ pc[w] = "notify" => clone[w] = canon
    /\ (\A w \in Writers : pc[w] # "publish") => published = canon
    /\ (\A w \in Writers : pc[w] # "notify") => Atomic!Announced

SubscriberInv ==
    /\ cursor <= Len(stream)
    /\ seen <= published
    /\ ~reading => \A n \in 1..cursor : stream[n] <= seen

StoreInv == TypeInv /\ WriterInv /\ SentIsPublished /\ SubscriberInv

LEMMA StoreInvInit == Init => StoreInv
<1> SUFFICES ASSUME Init PROVE StoreInv
  OBVIOUS
<1>1. TypeInv
  BY TypeInvInit
<1>2. WriterInv /\ SentIsPublished /\ SubscriberInv
  BY DEF Init, WriterInv, SentIsPublished, SubscriberInv, Atomic!Announced
<1> QED BY <1>1, <1>2 DEF StoreInv

LEMMA StoreInvStep == ASSUME SingleWriter, StoreInv, [Next]_vars PROVE StoreInv'
<1> USE MaxChangesAssumption, MaxDeltasAssumption, CapacityAssumption
<1>0. TypeInv /\ TypeInv'
  BY TypeInvStep DEF StoreInv
<1> USE <1>0
<1> SUFFICES (WriterInv /\ SentIsPublished /\ SubscriberInv)'
  BY DEF StoreInv
<1> USE DEF StoreInv, SingleWriter, WriterInv, SentIsPublished, SubscriberInv,
            TypeInv, TypeOK, ApplyInv, Atomic!Announced
<1>1. ASSUME NEW w \in Writers, Fold(w) PROVE (WriterInv /\ SentIsPublished /\ SubscriberInv)'
  <2>1. published = canon /\ (published = 0 \/ (stream # <<>> /\ stream[Len(stream)] = published))
    BY <1>1 DEF Fold
  <2> QED BY <1>1, <2>1 DEF Fold, subscriberVars
<1>2. ASSUME NEW w \in Writers, Publish(w) PROVE (WriterInv /\ SentIsPublished /\ SubscriberInv)'
  <2>1. published' = published + 1 /\ published' = canon
    BY <1>2 DEF Publish
  <2>2. WriterInv'
    BY <1>2, <2>1 DEF Publish, subscriberVars
  <2>3. (SentIsPublished /\ SubscriberInv)'
    BY <1>2, <2>1 DEF Publish, subscriberVars
  <2> QED BY <2>2, <2>3
<1>3. ASSUME NEW w \in Writers, Notify(w) PROVE (WriterInv /\ SentIsPublished /\ SubscriberInv)'
  <2>1. clone[w] = published /\ published = canon /\ published' = published /\ canon' = canon
    BY <1>3 DEF Notify
  <2>2. /\ stream' = Append(stream, published)
        /\ Len(stream') = Len(stream) + 1
        /\ stream'[Len(stream')] = published
        /\ \A n \in 1..Len(stream) : stream'[n] = stream[n]
    BY <1>3, <2>1 DEF Notify
  <2>3. WriterInv'
    BY <1>3, <2>1, <2>2 DEF Notify, subscriberVars
  <2>4. SentIsPublished'
    BY <2>1, <2>2
  <2>5. SubscriberInv'
    BY <1>3, <2>1, <2>2 DEF Notify, subscriberVars
  <2> QED BY <2>3, <2>4, <2>5
<1>4. CASE Receive
  <2>1. Len(stream) \in Nat
    OBVIOUS
  <2>2. cursor' <= Len(stream)
    BY <1>4, <2>1 DEF Receive
  <2> QED BY <1>4, <2>2 DEF Receive, writerVars
<1>5. CASE LoadSnapshot
  BY <1>5 DEF LoadSnapshot, writerVars
<1>6. CASE UNCHANGED vars
  BY <1>6 DEF vars
<1> QED BY <1>1, <1>2, <1>3, <1>4, <1>5, <1>6 DEF Next

\* Publish before notify: with one writer no subscriber ever holds a delta whose
\* change the snapshot lacks.
THEOREM PublishBeforeNotify == ASSUME SingleWriter PROVE Spec => []SentIsPublished
<1>1. StoreInv /\ [Next]_vars => StoreInv'
  BY StoreInvStep
<1>2. StoreInv => SentIsPublished
  BY DEF StoreInv
<1> QED BY <1>1, <1>2, StoreInvInit, PTL DEF Spec

\* A subscriber that has nothing left to receive, after any lag, has loaded the
\* latest state.
THEOREM CaughtUp == ASSUME SingleWriter PROVE Spec => []CaughtUpIsCurrent
<1>1. StoreInv /\ [Next]_vars => StoreInv'
  BY StoreInvStep
<1>2. StoreInv => CaughtUpIsCurrent
  BY DEF StoreInv, TypeInv, TypeOK, WriterInv, SubscriberInv, CaughtUpIsCurrent, Quiescent,
         Atomic!Announced
<1> QED BY <1>1, <1>2, StoreInvInit, PTL DEF Spec

\* With one writer the three steps of an apply are one to a reader: the store
\* implements the atomic one.
THEOREM Refinement == ASSUME SingleWriter PROVE Spec => ImplementsAtomicStore
<1>1. Init => Atomic!Init
  BY DEF Init, Atomic!Init
<1>2. StoreInv /\ [Next]_vars => StoreInv'
  BY StoreInvStep
<1>3. StoreInv /\ [Next]_vars => [Atomic!Next]_(Atomic!vars)
  <2> SUFFICES ASSUME StoreInv, [Next]_vars PROVE [Atomic!Next]_(Atomic!vars)
    OBVIOUS
  <2> USE DEF Atomic!vars
  <2>1. ASSUME NEW w \in Writers, Fold(w) PROVE UNCHANGED Atomic!vars
    BY <2>1 DEF Fold
  <2>2. ASSUME NEW w \in Writers, Publish(w) PROVE Atomic!Commit
    BY <2>2 DEF Publish, Atomic!Commit, StoreInv, WriterInv, SingleWriter
  <2>3. ASSUME NEW w \in Writers, Notify(w) PROVE Atomic!Announce
    BY <2>3 DEF Notify, Atomic!Announce, StoreInv, WriterInv, TypeInv, TypeOK, ApplyInv,
                SingleWriter
  <2>4. CASE Receive
    BY <2>4 DEF Receive, writerVars
  <2>5. CASE LoadSnapshot
    BY <2>5 DEF LoadSnapshot, writerVars
  <2>6. CASE UNCHANGED vars
    BY <2>6 DEF vars
  <2> QED BY <2>1, <2>2, <2>3, <2>4, <2>5, <2>6 DEF Next, Atomic!Next
<1> QED BY <1>1, <1>2, <1>3, StoreInvInit, PTL DEF Spec, ImplementsAtomicStore, Atomic!Spec
====
