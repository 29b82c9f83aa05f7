---- MODULE ReconcilerProofs ----
(* Proofs about Reconciler for any sets of orders and submissions, any        *)
(* quantity, and any number of sweeps, cancels, refreshes and requests for    *)
(* prices and holdings at once.                                               *)
EXTENDS Reconciler, ProjectedStateProofs, SequenceTheorems

----------------------------------------------------------------------------
(* What is true of an order stays true: the broker only goes forward. Each    *)
(* record the program holds, wherever it is on its way and however old, is    *)
(* one of Reached, a set that only grows.                                     *)

Reached == {o \in Orders : /\ broker[o.id] # None
                           /\ o.filled <= broker[o.id].filled
                           /\ is_terminal(o.status) => /\ o.status = broker[o.id].status
                                                       /\ o.filled = broker[o.id].filled}

RecordOf(i, v) == [id |-> i, status |-> v.status, filled |-> v.filled]

\* Every order the rows show has reached what they show of it.
Truthful(rows, reached) == \A i \in Ids : rows[i] # NoRow => RecordOf(i, rows[i]) \in reached

TrueSnapshots(reached) == {s \in Snapshots : WellFormedRows(s.orders) /\ Truthful(s.orders, reached)}

(* The states of tasks and the commands, by what they may carry.              *)
SweepStates(reached, known) ==
    [stage : {"idle"}] \cup [stage : {"list"}, before : SUBSET known]
    \cup [stage : {"fetch"}, page : SUBSET reached, dropped : SUBSET reached, todo : SUBSET known]

CreateStates(known) ==
    [stage : {"idle", "queued", "folded", "sent", "answered", "failed"}]
    \cup [stage : {"accepted", "answered", "confirmed", "failed"}, id : known]

CancelStates(reached, known) ==
    [stage : {"idle", "done"}] \cup [stage : {"queued", "folded", "sent", "get"}, id : known]
    \cup [stage : {"reply"}, order : reached]

RefreshStates(reached, known) ==
    [stage : {"idle", "done"}]
    \cup [stage : {"queued", "read"}, target : known \cup Lots]
    \cup [stage : {"apply"}, all : BOOLEAN, todo : SUBSET reached]
    \cup [stage : {"publish"}, all : BOOLEAN, todo : SUBSET reached, clone : TrueSnapshots(reached)]

FetchStates(reached) ==
    [stage : {"idle", "prices", "holdings"}]
    \cup [stage : {"publish"}, clone : TrueSnapshots(reached)]

Commands(reached, known) ==
    [command : {"StartSweep", "Prices"}] \cup [command : {"Submit"}, local : LocalIds]
    \cup [command : {"SubmitResult"}, local : LocalIds, result : known \cup {NoKey}]
    \cup [command : {"Cancel"}, call : Cancels] \cup [command : {"Refresh"}, call : Refreshes]
    \cup [command : {"Observed"}, order : reached]
    \cup [command : {"SweepDone"}, orders : SUBSET reached, dropped : SUBSET reached]

BrokerInv == broker \in [Ids -> Market!BrokerRecords \cup {None}]

TableInv == WellFormed(orders, index) /\ Truthful(orders, Reached)

PublishedInv == published \in TrueSnapshots(Reached)

\* The pump handles nothing once it is stopping.
PumpInv ==
    /\ stopped \in BOOLEAN /\ cancelled \in BOOLEAN
    /\ pump \in {"running", "stopping", "stopped"}
    /\ batch \in [page : SUBSET Reached, dropped : SUBSET Reached]
    /\ pumpClone \in TrueSnapshots(Reached) \cup {None}
    /\ pump # "running" => batch = NoBatch
    /\ pump = "stopped" => pumpClone = None

SweepInv == sweep \in [Sweepers -> SweepStates(Reached, Known)]
CreateInv == create \in [LocalIds -> CreateStates(Known)]
CancelInv == cancel \in [Cancels -> CancelStates(Reached, Known)]
RefreshInv == refresh \in [Refreshes -> RefreshStates(Reached, Known)]
FetchInv == fetch \in [Fetches -> FetchStates(Reached)]

\* SubmissionKeepsARow, but for the tier, which the form of provisional rows gives.
SubmissionInv ==
    \A l \in LocalIds :
        /\ create[l].stage \in {"folded", "sent", "accepted", "answered"} =>
               orders[l] # NoRow /\ orders[l].lifecycle = "SubmittingPending"
        /\ create[l].stage = "confirmed" => orders[l] = NoRow /\ orders[create[l].id] # NoRow
        /\ create[l].stage = "failed" => orders[l].lifecycle = "SubmitRejected"

\* A command about a task is in the queue once, and only while the task awaits it. The
\* answer of a submission has the id the broker gave it.
Awaited(x, creates, cancels, refreshes) ==
    /\ x.command = "Submit" => creates[x.local].stage = "queued"
    /\ x.command = "SubmitResult" =>
           /\ creates[x.local].stage = "answered"
           /\ x.result # NoKey => creates[x.local] = [stage |-> "answered", id |-> x.result]
    /\ x.command = "Cancel" => cancels[x.call].stage = "queued"
    /\ x.command = "Refresh" => refreshes[x.call].stage = "queued"

SameTask(x, y) ==
    \/ /\ {x.command, y.command} \subseteq {"Submit", "SubmitResult"}
       /\ x.local = y.local
    \/ /\ x.command = y.command /\ x.command \in {"Cancel", "Refresh"}
       /\ x.call = y.call

QueueInv ==
    /\ queue \in Seq(Commands(Reached, Known))
    /\ \A n \in 1..Len(queue) : Awaited(queue[n], create, cancel, refresh)
    /\ \A m, n \in 1..Len(queue) : SameTask(queue[m], queue[n]) => m = n

IInv == /\ BrokerInv /\ TableInv /\ PublishedInv /\ PumpInv
        /\ SweepInv /\ CreateInv /\ CancelInv /\ RefreshInv /\ FetchInv
        /\ QueueInv /\ SubmissionInv

----------------------------------------------------------------------------
(* The broker goes forward. *)

\* Both instances of the vocabulary have the same statuses.
LEMMA BrokerFields ==
    ASSUME NEW b \in Market!BrokerRecords
    PROVE  /\ b.status \in OrderStatuses /\ b.filled \in 0..Qty
           /\ b = [status |-> b.status, filled |-> b.filled]
BY DEF Market!BrokerRecords, Market!OrderStatuses, Market!OpenStatuses, Market!TerminalStatuses,
       OrderStatuses, OpenStatuses, TerminalStatuses

LEMMA BrokerEntry == Market!Entries \subseteq Market!BrokerRecords
BY QtyAssumption DEF Market!Entries, Market!BrokerRecords, Market!OrderStatuses,
                     Market!OpenStatuses, Market!TerminalStatuses

\* No move lowers a fill or leaves a terminal status.
LEMMA BrokerMove ==
    ASSUME NEW b \in Market!BrokerRecords, NEW o \in Market!BrokerMoves(b)
    PROVE  o \in Market!BrokerRecords /\ b.filled <= o.filled /\ ~is_terminal(b.status)
<1>1. b.status \in OrderStatuses /\ b.filled \in 0..Qty /\ b.filled \in Nat /\ b.filled <= Qty
  BY BrokerFields, QtyAssumption
<1>2. \A s \in {"CANCELED", "REPLACED"} :
         [b EXCEPT !.status = s] \in Market!BrokerRecords /\ [b EXCEPT !.status = s].filled = b.filled
  BY DEF Market!BrokerRecords, Market!OrderStatuses, Market!OpenStatuses, Market!TerminalStatuses
<1>3. /\ [b EXCEPT !.status = Market!WorkingAgain(b.filled)] \in Market!BrokerRecords
      /\ [b EXCEPT !.status = Market!WorkingAgain(b.filled)].filled = b.filled
  BY DEF Market!BrokerRecords, Market!OrderStatuses, Market!OpenStatuses,
         Market!TerminalStatuses, Market!WorkingAgain
<1>4. [status |-> "FILLED", filled |-> Qty] \in Market!BrokerRecords
  BY QtyAssumption DEF Market!BrokerRecords, Market!OrderStatuses, Market!OpenStatuses,
                       Market!TerminalStatuses
<1>5. CASE b.status \in Market!WorkingStatuses
  <2>1. o \in Market!Fills(b) \/ o = [b EXCEPT !.status = "CANCELED"]
    BY <1>5 DEF Market!BrokerMoves, Market!WorkingStatuses
  <2>2. CASE o \in Market!Fills(b)
    <3>1. PICK f \in (b.filled + 1)..Qty :
              o = [status |-> IF f = Qty THEN "FILLED" ELSE "PARTIAL_FILLED", filled |-> f]
      BY <2>2 DEF Market!Fills
    <3>2. f \in 0..Qty /\ b.filled <= f
      BY <1>1, QtyAssumption
    <3> QED BY <1>5, <3>1, <3>2 DEF Market!BrokerRecords, Market!OrderStatuses, Market!OpenStatuses,
              Market!TerminalStatuses, Market!WorkingStatuses, is_terminal, TerminalStatuses
  <2>3. CASE o = [b EXCEPT !.status = "CANCELED"]
    BY <1>1, <1>2, <1>5, <2>3 DEF Market!WorkingStatuses, is_terminal, TerminalStatuses
  <2> QED BY <2>1, <2>2, <2>3
<1>6. CASE b.status = "PENDING_CANCEL"
  <2>1. o \in {[b EXCEPT !.status = "CANCELED"], [b EXCEPT !.status = Market!WorkingAgain(b.filled)],
               [status |-> "FILLED", filled |-> Qty]}
    BY <1>6 DEF Market!BrokerMoves, Market!WorkingStatuses
  <2>2. o \in Market!BrokerRecords /\ o.filled \in {b.filled, Qty}
    <3>1. CASE o = [b EXCEPT !.status = "CANCELED"]
      BY <1>2, <3>1
    <3>2. CASE o = [b EXCEPT !.status = Market!WorkingAgain(b.filled)]
      BY <1>3, <3>2
    <3>3. CASE o = [status |-> "FILLED", filled |-> Qty]
      BY <1>4, <3>3
    <3> QED BY <2>1, <3>1, <3>2, <3>3
  <2>3. b.filled <= o.filled
    BY <1>1, <2>2, QtyAssumption
  <2> QED BY <1>6, <2>2, <2>3 DEF is_terminal, TerminalStatuses
<1>7. CASE b.status = "PENDING_REPLACE"
  <2>1. o \in {[b EXCEPT !.status = "REPLACED"], [b EXCEPT !.status = Market!WorkingAgain(b.filled)]}
    BY <1>7 DEF Market!BrokerMoves, Market!WorkingStatuses
  <2>2. o \in Market!BrokerRecords /\ o.filled = b.filled
    BY <1>1, <1>2, <1>3, <2>1
  <2>3. b.filled <= o.filled
    BY <1>1, <2>2
  <2> QED BY <1>7, <2>2, <2>3 DEF is_terminal, TerminalStatuses
<1> QED BY <1>5, <1>6, <1>7 DEF Market!BrokerMoves

LEMMA CancelMove ==
    ASSUME NEW b \in Market!BrokerRecords, Market!TakesCancel(b)
    PROVE  /\ Market!CancelTaken(b) \in Market!BrokerRecords
           /\ Market!CancelTaken(b).filled = b.filled
           /\ ~is_terminal(b.status)
BY DEF Market!BrokerRecords, Market!OrderStatuses, Market!OpenStatuses, Market!TerminalStatuses,
       Market!TakesCancel, Market!CancelTaken, Market!WorkingStatuses, is_terminal, TerminalStatuses

\* One order enters or moves; or none does.
BrokerMovesOnce ==
    \/ broker' = broker
    \/ \E i \in Ids, o \in Market!BrokerRecords :
          /\ broker' = [broker EXCEPT ![i] = o]
          /\ broker[i] # None => broker[i].filled <= o.filled /\ ~is_terminal(broker[i].status)

LEMMA SomeStepsMoveTheBroker ==
    ASSUME IInv, [Next]_vars PROVE BrokerMovesOnce
<1>1. CASE BrokerStep
  BY <1>1, BrokerEntry, BrokerMove DEF BrokerStep, IInv, BrokerInv, BrokerMovesOnce
<1>2. ASSUME NEW l \in LocalIds, NEW i \in Ids, CreateAccepted(l, i) PROVE BrokerMovesOnce
  BY <1>2, BrokerEntry DEF CreateAccepted, BrokerMovesOnce
<1>3. ASSUME NEW c \in Cancels, CancelAccepted(c) PROVE BrokerMovesOnce
  <2> DEFINE i == cancel[c].id
             o == Market!CancelTaken(broker[i])
  <2>1. i \in Known
    BY <1>3 DEF CancelAccepted, IInv, CancelInv, CancelStates
  <2>2. i \in Ids /\ broker[i] \in Market!BrokerRecords
    BY <2>1 DEF IInv, BrokerInv, Known
  <2>3. broker' = [broker EXCEPT ![i] = o] /\ Market!TakesCancel(broker[i])
    BY <1>3 DEF CancelAccepted
  <2>4. broker[i].filled \in Nat
    BY <2>2, BrokerFields, QtyAssumption
  <2>5. o \in Market!BrokerRecords /\ o.filled = broker[i].filled /\ ~is_terminal(broker[i].status)
    BY <2>2, <2>3, CancelMove
  <2>6. broker[i].filled <= o.filled
    BY <2>4, <2>5
  <2> HIDE DEF i, o
  <2> QED BY <2>2, <2>3, <2>5, <2>6 DEF BrokerMovesOnce
<1>4. CASE Users \/ Tick
  BY <1>4 DEF Users, Tick, create_order, cancel_order, request_refresh, shutdown, BrokerMovesOnce
<1>5. CASE PumpStep
  BY <1>5 DEF PumpStep, PumpPublish, PumpStop, PumpObserve, HandleCommand, StartSweep,
              ReceiveSweepDone, ReceiveObserved, ReceivePrices, ReceiveSubmit, ReceiveSubmitResult,
              ReceiveCancel, ReceiveRefresh, BrokerMovesOnce
<1>6. ASSUME NEW s \in Sweepers, SweepNext(s) PROVE BrokerMovesOnce
  BY <1>6 DEF SweepNext, SweepListOk, SweepListError, SweepReply, SweepFetchOk, SweepFetchError,
              SweepStep, BrokerMovesOnce
<1>7. ASSUME NEW l \in LocalIds, CreateOk(l) \/ CreateError(l) PROVE BrokerMovesOnce
  BY <1>7 DEF CreateOk, CreateError, BrokerMovesOnce
<1>8. ASSUME NEW c \in Cancels, CancelError(c) \/ CancelGetOk(c) \/ CancelGetError(c) \/ CancelReply(c)
      PROVE  BrokerMovesOnce
  BY <1>8 DEF CancelError, CancelGetOk, CancelGetError, CancelReply, BrokerMovesOnce
<1>9. ASSUME NEW r \in Refreshes, RefreshNext(r) PROVE BrokerMovesOnce
  BY <1>9 DEF RefreshNext, RefreshReadOk, RefreshReadError, RefreshHoldings, RefreshPublish,
              RefreshReply, RefreshFold, RefreshStep, BrokerMovesOnce
<1>10. CASE UNCHANGED vars
  BY <1>10 DEF vars, BrokerMovesOnce
<1>11. ASSUME NEW f \in Fetches, FetchNext(f) PROVE BrokerMovesOnce
  BY <1>11 DEF FetchNext, PricesReply, update_holdings, HoldingsPublish, FetchError, FetchStep,
               BrokerMovesOnce
<1> QED BY <1>1, <1>2, <1>3, <1>4, <1>5, <1>6, <1>7, <1>8, <1>9, <1>10, <1>11
        DEF Next, CreateNext, CancelNext

\* What has been reached stays reached.
Forward == BrokerInv' /\ Reached \subseteq Reached' /\ Known \subseteq Known'

LEMMA BrokerGoesForward == ASSUME IInv, [Next]_vars PROVE Forward
<1>1. broker \in [Ids -> Market!BrokerRecords \cup {None}]
  BY DEF IInv, BrokerInv
<1>2. CASE broker' = broker
  BY <1>1, <1>2 DEF Forward, BrokerInv, Reached, Known
<1>3. ASSUME NEW i \in Ids, NEW o \in Market!BrokerRecords,
             broker' = [broker EXCEPT ![i] = o],
             broker[i] # None => broker[i].filled <= o.filled /\ ~is_terminal(broker[i].status)
      PROVE  Forward
  <2>1. BrokerInv' /\ o # None
    BY <1>1, <1>3, NoneAssumption DEF BrokerInv
  <2>2. broker'[i] = o /\ \A j \in Ids \ {i} : broker'[j] = broker[j]
    BY <1>1, <1>3
  <2>3. Known \subseteq Known'
    BY <2>1, <2>2 DEF Known
  <2>4. ASSUME NEW x \in Reached PROVE x \in Reached'
    <3>1. /\ x \in Orders /\ x.id \in Ids /\ x.filled \in Nat /\ broker[x.id] # None
          /\ x.filled <= broker[x.id].filled
          /\ is_terminal(x.status) => x.status = broker[x.id].status /\ x.filled = broker[x.id].filled
      BY QtyAssumption DEF Reached, Orders
    <3>2. CASE x.id # i
      BY <2>2, <3>1, <3>2 DEF Reached
    <3>3. CASE x.id = i
      <4>1. broker[i] \in Market!BrokerRecords /\ broker[i].filled \in Nat /\ o.filled \in Nat
        BY <1>1, <3>1, <3>3, BrokerFields, QtyAssumption
      <4>2. x.filled <= o.filled /\ ~is_terminal(x.status)
        BY <1>3, <3>1, <3>3, <4>1
      <4> QED BY <2>1, <2>2, <3>1, <3>3, <4>2 DEF Reached
    <3> QED BY <3>2, <3>3
  <2> QED BY <2>1, <2>3, <2>4 DEF Forward
<1> QED BY <1>2, <1>3, SomeStepsMoveTheBroker DEF BrokerMovesOnce

----------------------------------------------------------------------------
(* What may be carried may be carried on. *)

LEMMA StatesGrow ==
    ASSUME NEW P, NEW Q, P \subseteq Q, NEW K, NEW L, K \subseteq L
    PROVE  /\ \A rows : Truthful(rows, P) => Truthful(rows, Q)
           /\ TrueSnapshots(P) \subseteq TrueSnapshots(Q)
           /\ SweepStates(P, K) \subseteq SweepStates(Q, L)
           /\ CreateStates(K) \subseteq CreateStates(L)
           /\ CancelStates(P, K) \subseteq CancelStates(Q, L)
           /\ RefreshStates(P, K) \subseteq RefreshStates(Q, L)
           /\ FetchStates(P) \subseteq FetchStates(Q)
           /\ Commands(P, K) \subseteq Commands(Q, L)
<1>1. \A rows : Truthful(rows, P) => Truthful(rows, Q)
  BY DEF Truthful
<1>2. TrueSnapshots(P) \subseteq TrueSnapshots(Q)
  BY <1>1 DEF TrueSnapshots
<1>3. SweepStates(P, K) \subseteq SweepStates(Q, L)
  BY DEF SweepStates
<1>4. CreateStates(K) \subseteq CreateStates(L)
  BY DEF CreateStates
<1>5. CancelStates(P, K) \subseteq CancelStates(Q, L)
  BY DEF CancelStates
<1>6. RefreshStates(P, K) \subseteq RefreshStates(Q, L)
  BY <1>2 DEF RefreshStates
<1>7. Commands(P, K) \subseteq Commands(Q, L)
  BY DEF Commands
<1>8. FetchStates(P) \subseteq FetchStates(Q)
  BY <1>2 DEF FetchStates
<1> QED BY <1>1, <1>2, <1>3, <1>4, <1>5, <1>6, <1>7, <1>8

\* A step keeps the invariants of the variables it leaves alone.
LEMMA Frame ==
    ASSUME IInv, Forward
    PROVE  /\ UNCHANGED <<orders, index>> => TableInv'
           /\ UNCHANGED published => PublishedInv'
           /\ UNCHANGED <<stopped, pumpVars>> => PumpInv'
           /\ UNCHANGED sweep => SweepInv'
           /\ UNCHANGED create => CreateInv'
           /\ UNCHANGED cancel => CancelInv'
           /\ UNCHANGED refresh => RefreshInv'
           /\ UNCHANGED fetch => FetchInv'
           /\ UNCHANGED <<orders, create>> => SubmissionInv'
<1>1. Reached \subseteq Reached' /\ Known \subseteq Known'
  BY DEF Forward
<1>2. /\ \A rows : Truthful(rows, Reached) => Truthful(rows, Reached')
      /\ TrueSnapshots(Reached) \subseteq TrueSnapshots(Reached')
      /\ SweepStates(Reached, Known) \subseteq SweepStates(Reached', Known')
      /\ CreateStates(Known) \subseteq CreateStates(Known')
      /\ CancelStates(Reached, Known) \subseteq CancelStates(Reached', Known')
      /\ RefreshStates(Reached, Known) \subseteq RefreshStates(Reached', Known')
      /\ FetchStates(Reached) \subseteq FetchStates(Reached')
  BY <1>1, StatesGrow
<1>3. UNCHANGED <<orders, index>> => TableInv'
  BY <1>2 DEF IInv, TableInv
<1>4. UNCHANGED published => PublishedInv'
  BY <1>2 DEF IInv, PublishedInv
<1>5. UNCHANGED <<stopped, pumpVars>> => PumpInv'
  BY <1>1, <1>2 DEF IInv, PumpInv, pumpVars, NoBatch
<1>6. UNCHANGED sweep => SweepInv'
  BY <1>2 DEF IInv, SweepInv
<1>7. UNCHANGED create => CreateInv'
  BY <1>2 DEF IInv, CreateInv
<1>8. UNCHANGED cancel => CancelInv'
  BY <1>2 DEF IInv, CancelInv
<1>9. UNCHANGED refresh => RefreshInv'
  BY <1>2 DEF IInv, RefreshInv
<1>10. UNCHANGED <<orders, create>> => SubmissionInv'
  BY DEF IInv, SubmissionInv
<1>11. UNCHANGED fetch => FetchInv'
  BY <1>2 DEF IInv, FetchInv
<1> QED BY <1>3, <1>4, <1>5, <1>6, <1>7, <1>8, <1>9, <1>10, <1>11

\* What is read at the broker now has been reached.
LEMMA ObservedIsReached ==
    ASSUME IInv
    PROVE  /\ \A i \in Known : Observed(i) \in Reached /\ Observed(i).id = i
           /\ OpenPage \subseteq Reached
<1>1. ASSUME NEW i \in Known PROVE Observed(i) \in Reached /\ Observed(i).id = i
  <2>1. i \in Ids /\ broker[i] # None /\ broker[i] \in Market!BrokerRecords
    BY DEF Known, IInv, BrokerInv
  <2>2. broker[i].status \in OrderStatuses /\ broker[i].filled \in 0..Qty
        /\ broker[i].filled <= broker[i].filled
    BY <2>1, BrokerFields, QtyAssumption
  <2> QED BY <2>1, <2>2 DEF Observed, Reached, Orders
<1>2. OpenPage \subseteq Reached
  BY <1>1 DEF OpenPage
<1> QED BY <1>1, <1>2

----------------------------------------------------------------------------
(* The queue. *)

LEMMA Queued ==
    ASSUME IInv
    PROVE  \A n \in 1..Len(queue) : /\ queue[n] \in Commands(Reached, Known)
                                    /\ Awaited(queue[n], create, cancel, refresh)
BY ElementOfSeq DEF IInv, QueueInv

\* No task stops awaiting its command.
Patient ==
    /\ \A l \in LocalIds : create[l].stage \in {"queued", "answered"} => create'[l] = create[l]
    /\ \A c \in Cancels : cancel[c].stage = "queued" => cancel'[c].stage = "queued"
    /\ \A r \in Refreshes : refresh[r].stage = "queued" => refresh'[r].stage = "queued"

LEMMA StillAwaited ==
    ASSUME IInv, Patient, NEW n \in 1..Len(queue)
    PROVE  Awaited(queue[n], create', cancel', refresh')
<1>1. Awaited(queue[n], create, cancel, refresh) /\ queue[n] \in Commands(Reached, Known)
  BY Queued
<1> QED BY <1>1 DEF Awaited, Commands, Patient

\* Nothing is put in or taken out.
LEMMA QueueKept == ASSUME IInv, Forward, Patient, UNCHANGED queue PROVE QueueInv'
<1>1. Commands(Reached, Known) \subseteq Commands(Reached', Known')
  BY StatesGrow DEF Forward
<1>2. queue \in Seq(Commands(Reached, Known))
  BY DEF IInv, QueueInv
<1>3. queue' \in Seq(Commands(Reached', Known'))
  BY <1>1, <1>2, SeqMonotonic
<1>4. \A n \in 1..Len(queue') : Awaited(queue'[n], create', cancel', refresh')
  BY StillAwaited
<1>5. \A m, n \in 1..Len(queue') : SameTask(queue'[m], queue'[n]) => m = n
  BY DEF IInv, QueueInv
<1> QED BY <1>3, <1>4, <1>5 DEF QueueInv

\* A command is put in about a task that awaits no other, or about none.
LEMMA QueueSent ==
    ASSUME IInv, Forward, Patient, NEW x, Send(x), x \in Commands(Reached', Known'),
           Awaited(x, create', cancel', refresh'),
           \A n \in 1..Len(queue) : ~SameTask(queue[n], x)
    PROVE  QueueInv'
<1> DEFINE S == Commands(Reached', Known')
<1>1. queue \in Seq(S)
  <2>1. Commands(Reached, Known) \subseteq S
    BY StatesGrow DEF Forward
  <2>2. queue \in Seq(Commands(Reached, Known))
    BY DEF IInv, QueueInv
  <2> HIDE DEF S
  <2> QED BY <2>1, <2>2, SeqMonotonic
<1>2. CASE queue' = queue
  BY <1>2, QueueKept
<1>3. CASE queue' = Append(queue, x)
  <2> HIDE DEF S
  <2>1. /\ queue' \in Seq(S) /\ Len(queue) \in Nat /\ Len(queue') = Len(queue) + 1
        /\ \A n \in 1..Len(queue') : queue'[n] = IF n = Len(queue) + 1 THEN x ELSE queue[n]
    BY <1>1, <1>3 DEF S
  <2>2. ASSUME NEW n \in 1..Len(queue') PROVE Awaited(queue'[n], create', cancel', refresh')
    <3>1. CASE n = Len(queue) + 1
      BY <2>1, <3>1
    <3>2. CASE n \in 1..Len(queue)
      BY <2>1, <3>2, StillAwaited
    <3> QED BY <2>1, <3>1, <3>2
  <2>3. ASSUME NEW m \in 1..Len(queue'), NEW n \in 1..Len(queue'), SameTask(queue'[m], queue'[n])
        PROVE  m = n
    <3>1. CASE m \in 1..Len(queue) /\ n \in 1..Len(queue)
      BY <2>1, <2>3, <3>1 DEF IInv, QueueInv
    <3>2. CASE m \in 1..Len(queue) /\ n = Len(queue) + 1
      BY <2>1, <2>3, <3>2
    <3>3. CASE m = Len(queue) + 1 /\ n \in 1..Len(queue)
      BY <2>1, <2>3, <3>3 DEF SameTask
    <3> QED BY <2>1, <3>1, <3>2, <3>3
  <2> QED BY <2>1, <2>2, <2>3 DEF QueueInv, S
<1> QED BY <1>2, <1>3 DEF Send

\* The command at the head is taken out; its task, and no other, goes on.
PatientBut(x) ==
    /\ \A l \in LocalIds :
          create[l].stage \in {"queued", "answered"}
          /\ ~(x.command \in {"Submit", "SubmitResult"} /\ x.local = l)
          => create'[l] = create[l]
    /\ \A c \in Cancels : cancel[c].stage = "queued" /\ ~(x.command = "Cancel" /\ x.call = c)
                             => cancel'[c].stage = "queued"
    /\ \A r \in Refreshes : refresh[r].stage = "queued" /\ ~(x.command = "Refresh" /\ x.call = r)
                             => refresh'[r].stage = "queued"

LEMMA QueueReceived ==
    ASSUME IInv, Forward, queue # <<>>, queue' = Tail(queue), PatientBut(Head(queue))
    PROVE  QueueInv'
<1> DEFINE S == Commands(Reached', Known')
<1>1. queue \in Seq(S)
  <2>1. Commands(Reached, Known) \subseteq S
    BY StatesGrow DEF Forward
  <2>2. queue \in Seq(Commands(Reached, Known))
    BY DEF IInv, QueueInv
  <2> HIDE DEF S
  <2> QED BY <2>1, <2>2, SeqMonotonic
<1> HIDE DEF S
<1>2. /\ queue' \in Seq(S) /\ Len(queue) \in Nat \ {0} /\ Len(queue') = Len(queue) - 1
      /\ \A n \in 1..Len(queue') : queue'[n] = queue[n + 1]
  BY <1>1, HeadTailProperties, EmptySeq
<1>3. Head(queue) = queue[1]
  BY <1>1
<1>4. ASSUME NEW n \in 1..Len(queue') PROVE Awaited(queue'[n], create', cancel', refresh')
  <2> DEFINE y == queue[n + 1]
  <2>1. n + 1 \in 1..Len(queue) /\ 1 \in 1..Len(queue) /\ n + 1 # 1
    BY <1>2
  <2>2. y \in Commands(Reached, Known) /\ Awaited(y, create, cancel, refresh)
    BY <2>1, Queued
  <2>3. ~SameTask(Head(queue), y)
    BY <1>3, <2>1 DEF IInv, QueueInv
  <2>4. queue'[n] = y
    BY <1>2
  <2> HIDE DEF y
  <2>5. Awaited(y, create', cancel', refresh')
    BY <2>2, <2>3 DEF Awaited, Commands, SameTask, PatientBut
  <2> QED BY <2>4, <2>5
<1>5. ASSUME NEW m \in 1..Len(queue'), NEW n \in 1..Len(queue'), SameTask(queue'[m], queue'[n])
      PROVE  m = n
  <2>1. m + 1 \in 1..Len(queue) /\ n + 1 \in 1..Len(queue)
    BY <1>2
  <2>2. m + 1 = n + 1
    BY <1>2, <1>5, <2>1 DEF IInv, QueueInv
  <2> QED BY <2>2
<1> QED BY <1>2, <1>4, <1>5 DEF QueueInv, S

----------------------------------------------------------------------------
(* A fold keeps the rows truthful. *)

LEMMA TableFields ==
    IInv => /\ table.orders = orders /\ table.index = index
            /\ WellFormed(orders, index) /\ Truthful(orders, Reached)
            /\ orders \in [Keys -> OrderView \cup {NoRow}]
BY DEF table, IInv, TableInv, WellFormed, WellFormedRows

LEMMA ServerRowPut ==
    ASSUME IInv, Forward, NEW i \in Ids, NEW v, ServerRow(i, v), RecordOf(i, v) \in Reached,
           orders' = [orders EXCEPT ![i] = v], index' = [index EXCEPT ![i] = i]
    PROVE  TableInv' /\ orders'[i] = v /\ \A k \in Keys \ {i} : orders'[k] = orders[k]
<1>1. WellFormed(orders, index) /\ Truthful(orders, Reached)
  BY TableFields
<1>2. WellFormed(orders', index')
  BY <1>1, PutServerRow
<1>3. orders'[i] = v /\ \A k \in Keys \ {i} : orders'[k] = orders[k]
  BY TableFields, Distinct
<1>4. Truthful(orders', Reached')
  BY <1>1, <1>3, Distinct DEF Truthful, Forward
<1> QED BY <1>2, <1>3, <1>4 DEF TableInv

LEMMA LocalRowPut ==
    ASSUME IInv, Forward, NEW l \in LocalIds, NEW v, v = NoRow \/ ProvisionalRow(v),
           orders' = [orders EXCEPT ![l] = v], index' = index
    PROVE  TableInv' /\ orders'[l] = v /\ \A k \in Keys \ {l} : orders'[k] = orders[k]
<1>1. WellFormed(orders, index) /\ Truthful(orders, Reached)
  BY TableFields
<1>2. WellFormed(orders', index')
  BY <1>1, PutLocalRow
<1>3. orders'[l] = v /\ \A k \in Keys \ {l} : orders'[k] = orders[k]
  BY TableFields, Distinct
<1>4. Truthful(orders', Reached')
  BY <1>1, <1>3, Distinct DEF Truthful, Forward
<1> QED BY <1>2, <1>3, <1>4 DEF TableInv

\* No row of an order is lost, a closed one stays as it is, and at most one changes.
OneRowMoves ==
    \/ \A i \in Ids : orders'[i] = orders[i]
    \/ \E i \in Ids : /\ orders'[i] # NoRow
                      /\ orders[i] # NoRow => ~is_terminal_row(orders[i])
                      /\ \A j \in Ids \ {i} : orders'[j] = orders[j]

\* Provisional rows are as they were.
RowsKept == OneRowMoves /\ \A l \in LocalIds : orders'[l] = orders[l]

LEMMA SubmissionsKept == ASSUME IInv, RowsKept, UNCHANGED create PROVE SubmissionInv'
<1>1. \A i \in Ids : orders[i] # NoRow => orders'[i] # NoRow
  BY DEF RowsKept, OneRowMoves
<1>2. ASSUME NEW l \in LocalIds, create[l].stage = "confirmed" PROVE create[l].id \in Ids
  <2>1. create[l] \in CreateStates(Known)
    BY DEF IInv, CreateInv
  <2> QED BY <1>2, <2>1 DEF CreateStates, Known
<1> QED BY <1>1, <1>2 DEF SubmissionInv, RowsKept, IInv

LEMMA ObserveFold ==
    ASSUME IInv, Forward, NEW o \in Reached,
           orders' = observe_order(table, o).orders, index' = observe_order(table, o).index
    PROVE  TableInv' /\ RowsKept
<1>1. o \in Orders /\ o.id \in Ids /\ RecordOf(o.id, o) = o
  BY DEF Reached, Orders, RecordOf
<1>2. Observes(table, o, observe_order(table, o))
  BY <1>1, TableFields, ObserveOrderEffect
<1>3. CASE orders' = orders /\ index' = index
  BY <1>3, Frame DEF RowsKept, OneRowMoves
<1>4. ASSUME NEW v, ServerRow(o.id, v), v.status = o.status, v.filled = o.filled,
             orders[o.id] # NoRow => ~is_terminal_row(orders[o.id]),
             orders' = [orders EXCEPT ![o.id] = v], index' = [index EXCEPT ![o.id] = o.id]
      PROVE  TableInv' /\ RowsKept
  <2>1. RecordOf(o.id, v) \in Reached
    BY <1>1, <1>4 DEF RecordOf
  <2>2. TableInv' /\ orders'[o.id] = v /\ \A k \in Keys \ {o.id} : orders'[k] = orders[k]
    BY <1>1, <1>4, <2>1, ServerRowPut
  <2>3. v # NoRow
    BY <1>4, Distinct DEF ServerRow
  <2> QED BY <1>1, <1>4, <2>2, <2>3, Distinct DEF RowsKept, OneRowMoves
<1> QED BY <1>2, <1>3, <1>4, TableFields DEF Observes

LEMMA OpSubmittedFold ==
    ASSUME IInv, Forward, NEW i \in Ids,
           orders' = op_submitted(table, i, "ClosingCancel").orders,
           index' = op_submitted(table, i, "ClosingCancel").index
    PROVE  TableInv' /\ RowsKept
<1>1. MarksClosing(table, i, op_submitted(table, i, "ClosingCancel"))
  BY TableFields, OpSubmittedEffect
<1>2. index' = index
  BY <1>1, TableFields DEF MarksClosing
<1>3. CASE orders' = orders
  BY <1>2, <1>3, Frame DEF RowsKept, OneRowMoves
<1>4. ASSUME NEW v, orders[i] # NoRow, ~is_terminal_row(orders[i]), ServerRow(i, v),
             v.status = orders[i].status, v.filled = orders[i].filled,
             orders' = [orders EXCEPT ![i] = v]
      PROVE  TableInv' /\ RowsKept
  <2>1. RecordOf(i, v) \in Reached
    BY <1>4, TableFields DEF RecordOf, Truthful
  <2>2. index[i] = i /\ index \in [Ids -> Keys \cup {NoKey}]
    BY <1>4, TableFields DEF WellFormed
  <2>3. index' = [index EXCEPT ![i] = i]
    BY <1>2, <2>2
  <2>4. TableInv' /\ orders'[i] = v /\ \A k \in Keys \ {i} : orders'[k] = orders[k]
    BY <1>4, <2>1, <2>3, ServerRowPut
  <2>5. v # NoRow
    BY <1>4, Distinct DEF ServerRow
  <2> QED BY <1>4, <2>4, <2>5, Distinct DEF RowsKept, OneRowMoves
<1> QED BY <1>1, <1>3, <1>4, TableFields DEF MarksClosing

\* The answer to a create takes the provisional row away and lowers no fill.
LEMMA ConfirmFold ==
    ASSUME IInv, Forward, NEW l \in LocalIds, NEW i \in Known, ProvisionalRow(orders[l]),
           orders' = confirm(table, l, i).orders, index' = confirm(table, l, i).index
    PROVE  /\ TableInv' /\ orders'[l] = NoRow
           /\ \A m \in LocalIds \ {l} : orders'[m] = orders[m]
           /\ \A j \in Ids \ {i} : orders'[j] = orders[j]
           /\ orders'[i] # NoRow /\ (orders'[i] = orders[i] \/ orders[i] = NoRow)
<1>1. i \in Ids /\ l \in Keys /\ i \in Keys /\ l # i /\ broker[i] # None
  BY Distinct DEF Known
<1>2. Confirms(table, l, i, confirm(table, l, i))
  BY <1>1, TableFields, ConfirmEffect
<1>3. CASE orders[i] # NoRow /\ orders' = [orders EXCEPT ![l] = NoRow] /\ index' = index
  <2>1. TableInv' /\ orders'[l] = NoRow /\ \A k \in Keys \ {l} : orders'[k] = orders[k]
    BY <1>3, LocalRowPut
  <2> QED BY <1>1, <1>3, <2>1, Distinct
<1>4. ASSUME NEW v, orders[i] = NoRow, ServerRow(i, v), v.status = "PENDING", v.filled = 0,
             orders' = [orders EXCEPT ![l] = NoRow, ![i] = v],
             index' = [index EXCEPT ![i] = i]
      PROVE  /\ TableInv' /\ orders'[l] = NoRow
             /\ \A m \in LocalIds \ {l} : orders'[m] = orders[m]
             /\ \A j \in Ids \ {i} : orders'[j] = orders[j]
             /\ orders'[i] # NoRow /\ (orders'[i] = orders[i] \/ orders[i] = NoRow)
  <2>0. WellFormed(orders, index) /\ orders \in [Keys -> OrderView \cup {NoRow}]
    BY TableFields
  <2> PICK rows : rows = [orders EXCEPT ![l] = NoRow]
    OBVIOUS
  <2>1. WellFormed(rows, index)
    BY <2>0, PutLocalRow
  <2>2. WellFormed(orders', index')
    <3>1. orders' = [rows EXCEPT ![i] = v] /\ index' = [index EXCEPT ![i] = i]
      BY <1>4
    <3>2. ServerRow(i, v) /\ i \in Ids
      BY <1>1, <1>4
    <3>3. ASSUME NEW rows2, NEW index2, rows2 = [rows EXCEPT ![i] = v], index2 = [index EXCEPT ![i] = i]
          PROVE  WellFormed(rows2, index2)
      BY <2>1, <3>2, <3>3, PutServerRow
    <3> QED BY <3>1, <3>3
  <2>3. /\ orders'[l] = NoRow /\ orders'[i] = v
        /\ \A k \in Keys \ {l, i} : orders'[k] = orders[k]
    BY <1>1, <1>4, <2>0
  <2>4. RecordOf(i, v) \in Reached
    <3>1. broker[i] \in Market!BrokerRecords
      BY <1>1 DEF IInv, BrokerInv
    <3>2. broker[i].filled \in Nat /\ 0 <= broker[i].filled /\ 0 \in 0..Qty
      BY <3>1, BrokerFields, QtyAssumption
    <3>3. "PENDING" \in OrderStatuses
      BY DEF OrderStatuses, OpenStatuses
    <3> QED BY <1>1, <1>4, <3>2, <3>3, PendingIsOpen DEF RecordOf, Reached, Orders
  <2>5. Truthful(orders', Reached')
    BY <1>1, <2>3, <2>4, TableFields, Distinct DEF Truthful, Forward
  <2>6. v # NoRow
    BY <1>4, Distinct DEF ServerRow
  <2> QED BY <1>1, <1>4, <2>2, <2>3, <2>5, <2>6, Distinct DEF TableInv
<1> QED BY <1>2, <1>3, <1>4, TableFields DEF Confirms

\* A snapshot cloned from a truthful table is one readers may be shown.
LEMMA CloneIsTrue ==
    ASSUME TableInv', NEW flag \in BOOLEAN
    PROVE  /\ [orders |-> orders', stopped |-> flag] \in TrueSnapshots(Reached')
           /\ [orders |-> orders', stopped |-> flag] # None
<1>1. WellFormedRows(orders') /\ Truthful(orders', Reached')
  BY DEF TableInv, WellFormed
<1>2. [orders |-> orders', stopped |-> flag] \in Snapshots
  BY <1>1 DEF Snapshots, WellFormedRows
<1> QED BY <1>1, <1>2, NoneAssumption DEF TrueSnapshots

\* So is one of a table nobody folds into.
LEMMA CurrentIsTrue ==
    ASSUME IInv, Forward, UNCHANGED <<orders, index, stopped>>
    PROVE  CurrentState \in TrueSnapshots(Reached') /\ CurrentState # None
<1>1. TableInv' /\ stopped \in BOOLEAN /\ orders' = orders
  BY Frame DEF IInv, PumpInv
<1> QED BY <1>1, CloneIsTrue DEF CurrentState

----------------------------------------------------------------------------
(* Every step keeps the invariant, one lemma per action or family of them.    *)

\* A task in a state it may be in keeps its own invariant.
LEMMA TaskMoved ==
    ASSUME IInv, Forward
    PROVE  /\ \A s \in Sweepers, x \in SweepStates(Reached', Known') :
                 sweep' = [sweep EXCEPT ![s] = x] => SweepInv'
           /\ \A l \in LocalIds, x \in CreateStates(Known') :
                 create' = [create EXCEPT ![l] = x] => CreateInv'
           /\ \A c \in Cancels, x \in CancelStates(Reached', Known') :
                 cancel' = [cancel EXCEPT ![c] = x] => CancelInv'
           /\ \A r \in Refreshes, x \in RefreshStates(Reached', Known') :
                 refresh' = [refresh EXCEPT ![r] = x] => RefreshInv'
           /\ \A f \in Fetches, x \in FetchStates(Reached') :
                 fetch' = [fetch EXCEPT ![f] = x] => FetchInv'
<1> DEFINE SS == SweepStates(Reached', Known')
           CS == CreateStates(Known')
           KS == CancelStates(Reached', Known')
           RS == RefreshStates(Reached', Known')
           FS == FetchStates(Reached')
<1>1. /\ SweepStates(Reached, Known) \subseteq SS /\ CreateStates(Known) \subseteq CS
      /\ CancelStates(Reached, Known) \subseteq KS /\ RefreshStates(Reached, Known) \subseteq RS
      /\ FetchStates(Reached) \subseteq FS
  BY StatesGrow DEF Forward
<1>2. /\ SweepInv' <=> sweep' \in [Sweepers -> SS]
      /\ CreateInv' <=> create' \in [LocalIds -> CS]
      /\ CancelInv' <=> cancel' \in [Cancels -> KS]
      /\ RefreshInv' <=> refresh' \in [Refreshes -> RS]
      /\ FetchInv' <=> fetch' \in [Fetches -> FS]
  BY DEF SweepInv, CreateInv, CancelInv, RefreshInv, FetchInv
<1> HIDE DEF SS, CS, KS, RS, FS
<1>3. /\ sweep \in [Sweepers -> SS] /\ create \in [LocalIds -> CS]
      /\ cancel \in [Cancels -> KS] /\ refresh \in [Refreshes -> RS]
      /\ fetch \in [Fetches -> FS]
  BY <1>1 DEF IInv, SweepInv, CreateInv, CancelInv, RefreshInv, FetchInv
<1>4. \A s \in Sweepers, x \in SS : sweep' = [sweep EXCEPT ![s] = x] => SweepInv'
  BY <1>2, <1>3
<1>5. \A l \in LocalIds, x \in CS : create' = [create EXCEPT ![l] = x] => CreateInv'
  BY <1>2, <1>3
<1>6. \A c \in Cancels, x \in KS : cancel' = [cancel EXCEPT ![c] = x] => CancelInv'
  BY <1>2, <1>3
<1>7. \A r \in Refreshes, x \in RS : refresh' = [refresh EXCEPT ![r] = x] => RefreshInv'
  BY <1>2, <1>3
<1>8. \A f \in Fetches, x \in FS : fetch' = [fetch EXCEPT ![f] = x] => FetchInv'
  BY <1>2, <1>3
<1> QED BY <1>4, <1>5, <1>6, <1>7, <1>8 DEF SS, CS, KS, RS, FS

\* The tables of tasks are functions on their calls.
LEMMA TaskTables ==
    IInv => /\ sweep = [s \in Sweepers |-> sweep[s]] /\ create = [l \in LocalIds |-> create[l]]
            /\ cancel = [c \in Cancels |-> cancel[c]] /\ refresh = [r \in Refreshes |-> refresh[r]]
            /\ fetch = [f \in Fetches |-> fetch[f]]
            /\ \A s \in Sweepers : sweep[s] \in SweepStates(Reached, Known)
            /\ \A l \in LocalIds : create[l] \in CreateStates(Known)
            /\ \A c \in Cancels : cancel[c] \in CancelStates(Reached, Known)
            /\ \A r \in Refreshes : refresh[r] \in RefreshStates(Reached, Known)
            /\ \A f \in Fetches : fetch[f] \in FetchStates(Reached)
BY DEF IInv, SweepInv, CreateInv, CancelInv, RefreshInv, FetchInv

\* The broker moves on its own, or nothing happens.
LEMMA ProgramIdle ==
    ASSUME IInv, Forward, UNCHANGED <<canonVars, published, pumpVars, queue, taskVars>>
    PROVE  IInv'
<1>1. UNCHANGED <<orders, index, stopped, published, pumpVars, queue,
                 sweep, create, cancel, refresh, fetch>>
  BY DEF canonVars, taskVars
<1>2. Patient
  BY <1>1 DEF Patient
<1>3. QueueInv'
  BY <1>1, <1>2, QueueKept
<1> QED BY <1>1, <1>3, Frame DEF IInv, Forward

LEMMA UsersKeep == ASSUME IInv, Forward, Users PROVE IInv'
<1>1. ASSUME NEW l \in LocalIds, create_order(l) PROVE IInv'
  <2> DEFINE x == [stage |-> "queued"]
             y == [command |-> "Submit", local |-> l]
  <2>1. /\ UNCHANGED <<orders, index, stopped, published, pumpVars, sweep, cancel, refresh, fetch>>
        /\ create[l].stage = "idle" /\ create' = [create EXCEPT ![l] = x] /\ Send(y)
    BY <1>1 DEF create_order, canonVars, Idle
  <2>2. CreateInv'
    BY <2>1, TaskMoved DEF CreateStates
  <2>3. create'[l] = x /\ \A m \in LocalIds \ {l} : create'[m] = create[m]
    BY <2>1, TaskTables
  <2>4. Patient
    BY <2>1, <2>3 DEF Patient
  <2>5. \A n \in 1..Len(queue) : ~SameTask(queue[n], y)
    BY <2>1, Queued DEF Awaited, SameTask
  <2>6. y \in Commands(Reached', Known') /\ Awaited(y, create', cancel', refresh') /\ Send(y)
    BY <2>1, <2>3 DEF Commands, Awaited
  <2> HIDE DEF y
  <2>8. QueueInv'
    BY <2>4, <2>5, <2>6, QueueSent
  <2>7. SubmissionInv'
    BY <2>1, <2>3 DEF SubmissionInv, IInv
  <2> QED BY <2>1, <2>2, <2>7, <2>8, Frame DEF IInv, Forward
<1>2. ASSUME NEW c \in Cancels, NEW i \in Ids, cancel_order(c, i) PROVE IInv'
  <2> DEFINE x == [stage |-> "queued", id |-> i]
             y == [command |-> "Cancel", call |-> c]
  <2>1. /\ UNCHANGED <<orders, index, stopped, published, pumpVars, sweep, create, refresh, fetch>>
        /\ cancel[c].stage = "idle" /\ cancel' = [cancel EXCEPT ![c] = x] /\ Send(y)
        /\ i \in Known'
    BY <1>2 DEF cancel_order, canonVars, Idle, Known
  <2>2. CancelInv'
    BY <2>1, TaskMoved DEF CancelStates
  <2>3. cancel'[c] = x /\ \A m \in Cancels \ {c} : cancel'[m] = cancel[m]
    BY <2>1, TaskTables
  <2>4. Patient
    BY <2>1, <2>3 DEF Patient
  <2>5. \A n \in 1..Len(queue) : ~SameTask(queue[n], y)
    BY <2>1, Queued DEF Awaited, SameTask
  <2>6. y \in Commands(Reached', Known') /\ Awaited(y, create', cancel', refresh') /\ Send(y)
    BY <2>1, <2>3 DEF Commands, Awaited
  <2> HIDE DEF y
  <2>8. QueueInv'
    BY <2>4, <2>5, <2>6, QueueSent
  <2> QED BY <2>1, <2>2, <2>8, Frame DEF IInv, Forward
<1>3. ASSUME NEW r \in Refreshes, NEW t \in Ids \cup Lots, request_refresh(r, t)
      PROVE  IInv'
  <2> DEFINE x == [stage |-> "queued", target |-> t]
             y == [command |-> "Refresh", call |-> r]
  <2>1. /\ UNCHANGED <<orders, index, stopped, published, pumpVars, sweep, create, cancel, fetch>>
        /\ refresh[r].stage = "idle" /\ refresh' = [refresh EXCEPT ![r] = x] /\ Send(y)
        /\ t \in Known' \cup Lots
    BY <1>3 DEF request_refresh, canonVars, Idle, Known
  <2>2. RefreshInv'
    BY <2>1, TaskMoved DEF RefreshStates
  <2>3. refresh'[r] = x /\ \A m \in Refreshes \ {r} : refresh'[m] = refresh[m]
    BY <2>1, TaskTables
  <2>4. Patient
    BY <2>1, <2>3 DEF Patient
  <2>5. \A n \in 1..Len(queue) : ~SameTask(queue[n], y)
    BY <2>1, Queued DEF Awaited, SameTask
  <2>6. y \in Commands(Reached', Known') /\ Awaited(y, create', cancel', refresh') /\ Send(y)
    BY <2>1, <2>3 DEF Commands, Awaited
  <2> HIDE DEF y
  <2>8. QueueInv'
    BY <2>4, <2>5, <2>6, QueueSent
  <2> QED BY <2>1, <2>2, <2>8, Frame DEF IInv, Forward
<1>4. CASE shutdown
  <2>1. /\ UNCHANGED <<orders, index, stopped, published, pump, batch, pumpClone, queue,
                       sweep, create, cancel, refresh, fetch>>
        /\ cancelled' = TRUE
    BY <1>4 DEF shutdown, canonVars, taskVars
  <2>2. QueueInv'
    BY <2>1, QueueKept DEF Patient
  <2>3. PumpInv'
    <3>1. Reached \subseteq Reached' /\ TrueSnapshots(Reached) \subseteq TrueSnapshots(Reached')
      BY StatesGrow DEF Forward
    <3> QED BY <2>1, <3>1 DEF IInv, PumpInv, NoBatch
  <2> QED BY <2>1, <2>2, <2>3, Frame DEF IInv, Forward
<1> QED BY <1>1, <1>2, <1>3, <1>4 DEF Users

LEMMA SweepsKeep == ASSUME IInv, Forward, NEW s \in Sweepers, SweepNext(s) PROVE IInv'
<1>1. SweepStates(Reached, Known) \subseteq SweepStates(Reached', Known')
      /\ Reached \subseteq Reached' /\ Known \subseteq Known'
  BY StatesGrow DEF Forward
<1>2. sweep[s] \in SweepStates(Reached, Known)
  BY TaskTables
<1>3. ASSUME NEW x \in SweepStates(Reached', Known'), SweepStep(s, x), QueueInv' PROVE IInv'
  <2>1. /\ UNCHANGED <<orders, index, stopped, published, pumpVars, create, cancel, refresh, fetch>>
        /\ sweep' = [sweep EXCEPT ![s] = x]
    BY <1>3 DEF SweepStep, canonVars
  <2>2. SweepInv'
    BY <2>1, TaskMoved
  <2> QED BY <1>3, <2>1, <2>2, Frame DEF IInv, Forward
<1>4. ASSUME NEW x, SweepStep(s, x), UNCHANGED queue PROVE QueueInv'
  BY <1>4, QueueKept DEF SweepStep, Patient
<1>5. CASE SweepListOk(s)
  <2> DEFINE x == [stage |-> "fetch", page |-> OpenPage, dropped |-> {},
                   todo |-> sweep[s].before \ {o.id : o \in OpenPage}]
  <2>1. sweep[s].before \subseteq Known /\ OpenPage \subseteq Reached
    BY <1>2, <1>5, ObservedIsReached DEF SweepListOk, SweepStates
  <2>2. SweepStep(s, x) /\ UNCHANGED queue
    BY <1>5 DEF SweepListOk
  <2>3. x \in SweepStates(Reached', Known')
    BY <1>1, <2>1 DEF SweepStates
  <2> HIDE DEF x
  <2> QED BY <1>3, <1>4, <2>2, <2>3
<1>6. CASE SweepListError(s)
  <2>1. SweepStep(s, Idle) /\ UNCHANGED queue /\ Idle \in SweepStates(Reached', Known')
    BY <1>6 DEF SweepListError, Idle, SweepStates
  <2> QED BY <1>3, <1>4, <2>1
<1>7. ASSUME NEW i \in Ids, SweepFetchOk(s, i) PROVE IInv'
  <2> DEFINE x == [sweep[s] EXCEPT !.todo = @ \ {i}, !.dropped = @ \cup {Observed(i)}]
  <2>1. sweep[s].stage = "fetch" /\ i \in sweep[s].todo /\ SweepStep(s, x) /\ UNCHANGED queue
    BY <1>7 DEF SweepFetchOk
  <2>2. sweep[s] \in [stage : {"fetch"}, page : SUBSET Reached, dropped : SUBSET Reached,
                      todo : SUBSET Known]
    BY <1>2, <2>1 DEF SweepStates
  <2>3. Observed(i) \in Reached
    BY <2>1, <2>2, ObservedIsReached
  <2>4. x \in SweepStates(Reached, Known)
    BY <2>2, <2>3 DEF SweepStates
  <2> HIDE DEF x
  <2> QED BY <1>1, <1>3, <1>4, <2>1, <2>4
<1>8. ASSUME NEW i \in Ids, SweepFetchError(s, i) PROVE IInv'
  <2> DEFINE x == [sweep[s] EXCEPT !.todo = @ \ {i}]
  <2>1. sweep[s].stage = "fetch" /\ i \in sweep[s].todo /\ SweepStep(s, x) /\ UNCHANGED queue
    BY <1>8 DEF SweepFetchError
  <2>2. x \in SweepStates(Reached, Known)
    BY <1>2, <2>1 DEF SweepStates
  <2> HIDE DEF x
  <2> QED BY <1>1, <1>3, <1>4, <2>1, <2>2
<1>9. CASE SweepReply(s)
  <2> DEFINE y == [command |-> "SweepDone", orders |-> sweep[s].page, dropped |-> sweep[s].dropped]
  <2>1. sweep[s].stage = "fetch" /\ SweepStep(s, Idle) /\ Send(y)
    BY <1>9 DEF SweepReply
  <2>2. sweep[s].page \subseteq Reached' /\ sweep[s].dropped \subseteq Reached'
    BY <1>1, <1>2, <2>1 DEF SweepStates
  <2>3. y \in Commands(Reached', Known')
    BY <2>2 DEF Commands
  <2>4. Awaited(y, create', cancel', refresh') /\ \A n \in 1..Len(queue) : ~SameTask(queue[n], y)
    BY DEF Awaited, SameTask
  <2>5. Patient
    BY <2>1 DEF SweepStep, Patient
  <2>6. Idle \in SweepStates(Reached', Known')
    BY DEF Idle, SweepStates
  <2> HIDE DEF y
  <2> QED BY <1>3, <2>1, <2>3, <2>4, <2>5, <2>6, QueueSent
<1> QED BY <1>5, <1>6, <1>7, <1>8, <1>9 DEF SweepNext

LEMMA CreatesKeep == ASSUME IInv, Forward, NEW l \in LocalIds, CreateNext(l) PROVE IInv'
<1>1. Known \subseteq Known'
  BY DEF Forward
<1>2. create[l] \in CreateStates(Known)
  BY TaskTables
<1>3. ASSUME NEW x \in CreateStates(Known'), CreateStep(l, x), QueueInv',
             create[l].stage \in {"sent", "accepted"}, x.stage \in {"accepted", "answered"}
      PROVE  IInv'
  <2>1. /\ UNCHANGED <<orders, index, stopped, published, pumpVars, sweep, cancel, refresh, fetch>>
        /\ create' = [create EXCEPT ![l] = x]
    BY <1>3 DEF CreateStep, canonVars
  <2>2. CreateInv'
    BY <2>1, TaskMoved
  <2>3. create'[l] = x /\ \A m \in LocalIds \ {l} : create'[m] = create[m]
    BY <2>1, TaskTables
  <2>4. SubmissionInv'
    BY <1>3, <2>1, <2>3 DEF SubmissionInv, IInv
  <2> QED BY <1>3, <2>1, <2>2, <2>4, Frame DEF IInv, Forward
<1>4. ASSUME NEW x, CreateStep(l, x), create[l].stage \in {"sent", "accepted"} PROVE Patient
  <2>1. \A m \in LocalIds \ {l} : create'[m] = create[m]
    BY <1>4, TaskTables DEF CreateStep
  <2> QED BY <1>4, <2>1 DEF Patient, CreateStep
<1>5. ASSUME NEW id \in Known \cup {NoKey}, create[l].stage \in {"sent", "accepted"},
             id # NoKey => create[l].stage = "accepted" /\ create[l].id = id,
             CreateStep(l, [create[l] EXCEPT !.stage = "answered"]),
             Send([command |-> "SubmitResult", local |-> l, result |-> id])
      PROVE  IInv'
  <2> DEFINE x == [create[l] EXCEPT !.stage = "answered"]
             y == [command |-> "SubmitResult", local |-> l, result |-> id]
  <2>1. x \in CreateStates(Known') /\ x.stage = "answered" /\ CreateStep(l, x)
    BY <1>1, <1>2, <1>5 DEF CreateStates
  <2>2. create'[l] = x
    BY <2>1, TaskTables DEF CreateStep
  <2>7. id # NoKey => x = [stage |-> "answered", id |-> id]
    BY <1>2, <1>5 DEF CreateStates
  <2>3. y \in Commands(Reached', Known') /\ Awaited(y, create', cancel', refresh')
    BY <1>1, <2>1, <2>2, <2>7 DEF Commands, Awaited
  <2>4. \A n \in 1..Len(queue) : ~SameTask(queue[n], y)
    BY <1>5, Queued DEF Awaited, SameTask
  <2>5. Send(y)
    BY <1>5
  <2> HIDE DEF x, y
  <2>6. QueueInv'
    BY <1>4, <1>5, <2>1, <2>3, <2>4, <2>5, QueueSent
  <2> QED BY <1>3, <1>5, <2>1, <2>6
<1>6. ASSUME NEW i \in Ids, CreateAccepted(l, i) PROVE IInv'
  <2> DEFINE x == [stage |-> "accepted", id |-> i]
  <2>1. create[l].stage = "sent" /\ CreateStep(l, x) /\ UNCHANGED queue
    BY <1>6 DEF CreateAccepted
  <2>2. PICK o \in Market!Entries : broker' = [broker EXCEPT ![i] = o]
    BY <1>6 DEF CreateAccepted
  <2>3. i \in Known'
    BY <2>2, BrokerEntry, NoneAssumption DEF IInv, BrokerInv, Known
  <2>4. x \in CreateStates(Known')
    BY <2>3 DEF CreateStates
  <2>5. x.stage = "accepted"
    OBVIOUS
  <2> HIDE DEF x
  <2>6. QueueInv'
    BY <1>4, <2>1, QueueKept
  <2> QED BY <1>3, <2>1, <2>4, <2>5, <2>6
<1>7. CASE CreateOk(l)
  <2>1. create[l].stage = "accepted"
    BY <1>7 DEF CreateOk
  <2>2. create[l].id \in Known
    BY <1>2, <2>1 DEF CreateStates
  <2> QED BY <1>5, <1>7, <2>1, <2>2 DEF CreateOk
<1>8. CASE CreateError(l)
  BY <1>5, <1>8 DEF CreateError
<1> QED BY <1>6, <1>7, <1>8 DEF CreateNext

LEMMA CancelsKeep == ASSUME IInv, Forward, NEW c \in Cancels, CancelNext(c) PROVE IInv'
<1>1. CancelStates(Reached, Known) \subseteq CancelStates(Reached', Known') /\ Reached \subseteq Reached'
  BY StatesGrow DEF Forward
<1>2. cancel[c] \in CancelStates(Reached, Known)
  BY TaskTables
<1>3. ASSUME NEW x \in CancelStates(Reached, Known), CancelStep(c, x), QueueInv' PROVE IInv'
  <2>1. /\ UNCHANGED <<orders, index, stopped, published, pumpVars, sweep, create, refresh, fetch>>
        /\ cancel' = [cancel EXCEPT ![c] = x]
    BY <1>3 DEF CancelStep, canonVars
  <2>2. CancelInv'
    BY <1>1, <2>1, TaskMoved
  <2> QED BY <1>3, <2>1, <2>2, Frame DEF IInv, Forward
<1>4. ASSUME NEW x, CancelStep(c, x), cancel[c].stage # "queued" PROVE Patient
  <2>1. \A d \in Cancels \ {c} : cancel'[d] = cancel[d]
    BY <1>4, TaskTables DEF CancelStep
  <2> QED BY <1>4, <2>1 DEF Patient, CancelStep
<1>5. ASSUME NEW x \in CancelStates(Reached, Known), CancelStep(c, x), cancel[c].stage # "queued",
             UNCHANGED queue
      PROVE  IInv'
  BY <1>3, <1>4, <1>5, QueueKept
<1>6. [stage |-> "done"] \in CancelStates(Reached, Known)
  BY DEF CancelStates
<1>7. CASE CancelAccepted(c)
  <2>1. [cancel[c] EXCEPT !.stage = "get"] \in CancelStates(Reached, Known)
    BY <1>2, <1>7 DEF CancelAccepted, CancelStates
  <2> QED BY <1>5, <1>6, <1>7, <2>1 DEF CancelAccepted
<1>8. CASE CancelError(c) \/ CancelGetError(c)
  BY <1>5, <1>6, <1>8 DEF CancelError, CancelGetError
<1>9. CASE CancelGetOk(c)
  <2> DEFINE x == [stage |-> "reply", order |-> Observed(cancel[c].id)]
  <2>1. cancel[c].stage = "get" /\ CancelStep(c, x) /\ UNCHANGED queue
    BY <1>9 DEF CancelGetOk
  <2>2. cancel[c].id \in Known
    BY <1>2, <2>1 DEF CancelStates
  <2>3. Observed(cancel[c].id) \in Reached
    BY <2>2, ObservedIsReached
  <2>4. x \in CancelStates(Reached, Known)
    BY <2>3 DEF CancelStates
  <2> HIDE DEF x
  <2> QED BY <1>5, <2>1, <2>4
<1>10. CASE CancelReply(c)
  <2> DEFINE y == [command |-> "Observed", order |-> cancel[c].order]
  <2>1. cancel[c].stage = "reply" /\ Send(y) /\ CancelStep(c, [stage |-> "done"])
    BY <1>10 DEF CancelReply
  <2>2. cancel[c].order \in Reached'
    BY <1>1, <1>2, <2>1 DEF CancelStates
  <2>3. y \in Commands(Reached', Known')
    BY <2>2 DEF Commands
  <2>4. Awaited(y, create', cancel', refresh') /\ \A n \in 1..Len(queue) : ~SameTask(queue[n], y)
    BY DEF Awaited, SameTask
  <2> HIDE DEF y
  <2>5. QueueInv'
    BY <1>4, <2>1, <2>3, <2>4, QueueSent
  <2> QED BY <1>3, <1>6, <2>1, <2>5
<1> QED BY <1>7, <1>8, <1>9, <1>10 DEF CancelNext

LEMMA RefreshesKeep == ASSUME IInv, Forward, NEW r \in Refreshes, RefreshNext(r) PROVE IInv'
<1>1. /\ RefreshStates(Reached, Known) \subseteq RefreshStates(Reached', Known')
      /\ TrueSnapshots(Reached) \subseteq TrueSnapshots(Reached') /\ Reached \subseteq Reached'
  BY StatesGrow DEF Forward
<1>2. refresh[r] \in RefreshStates(Reached, Known)
  BY TaskTables
<1>3. ASSUME NEW x \in RefreshStates(Reached', Known'), RefreshStep(r, x),
             refresh[r].stage # "queued", UNCHANGED stopped
      PROVE  RefreshInv' /\ QueueInv' /\ PumpInv' /\ SweepInv' /\ CreateInv' /\ CancelInv' /\ FetchInv'
  <2>1. /\ refresh' = [refresh EXCEPT ![r] = x]
        /\ UNCHANGED <<stopped, pumpVars, queue, sweep, create, cancel, fetch>>
    BY <1>3 DEF RefreshStep
  <2>2. \A q \in Refreshes \ {r} : refresh'[q] = refresh[q]
    BY <2>1, TaskTables
  <2>3. Patient
    BY <1>3, <2>1, <2>2 DEF Patient
  <2> QED BY <2>1, <2>3, TaskMoved, QueueKept, Frame
<1>4. ASSUME NEW x \in RefreshStates(Reached', Known'), RefreshStep(r, x),
             refresh[r].stage # "queued", UNCHANGED <<canonVars, published>>
      PROVE  IInv'
  <2>1. UNCHANGED <<orders, index, stopped, published, create>>
    BY <1>4 DEF canonVars, RefreshStep
  <2> QED BY <1>3, <1>4, <2>1, Frame DEF IInv, Forward
<1>5. CASE RefreshReadOk(r)
  <2> DEFINE all == refresh[r].target = "All"
             todo == IF refresh[r].target \in Ids THEN {Observed(refresh[r].target)} ELSE OpenPage
             x == [stage |-> "apply", all |-> all, todo |-> todo]
  <2>1. refresh[r].stage = "read" /\ RefreshStep(r, x) /\ UNCHANGED <<canonVars, published>>
    BY <1>5 DEF RefreshReadOk
  <2>2. refresh[r].target \in Known \cup Lots
    BY <1>2, <2>1 DEF RefreshStates
  <2>3. OpenPage \subseteq Reached /\ \A i \in Known : Observed(i) \in Reached
    BY ObservedIsReached
  <2>4. refresh[r].target \in Ids /\ refresh[r].target \notin Known => OpenPage \cup todo \subseteq Reached
    BY <2>2, <2>3, LotsAssumption
  <2>5. todo \subseteq Reached /\ all \in BOOLEAN
    BY <2>2, <2>3, <2>4
  <2> HIDE DEF todo, all
  <2>6. x \in RefreshStates(Reached', Known')
    BY <1>1, <2>5 DEF RefreshStates
  <2> HIDE DEF x
  <2> QED BY <1>4, <2>1, <2>6
<1>6. \A all \in BOOLEAN : AfterOrders(all) \in RefreshStates(Reached', Known')
  BY DEF AfterOrders, RefreshStates, Lots
<1>7. CASE RefreshReadError(r)
  <2>1. (refresh[r].target = "All") \in BOOLEAN
    OBVIOUS
  <2>2. refresh[r].stage = "read"
    BY <1>7 DEF RefreshReadError
  <2> QED BY <1>4, <1>6, <1>7, <2>1, <2>2 DEF RefreshReadError
<1>8. CASE RefreshReply(r)
  <2>1. refresh[r].stage = "apply"
    BY <1>8 DEF RefreshReply
  <2>2. refresh[r].all \in BOOLEAN
    BY <1>2, <2>1 DEF RefreshStates
  <2> QED BY <1>4, <1>6, <1>8, <2>1, <2>2 DEF RefreshReply
<1>9. CASE RefreshHoldings(r)
  <2> DEFINE x == [stage |-> "publish", all |-> FALSE, todo |-> {}, clone |-> CurrentState]
  <2>1. refresh[r].stage = "read" /\ RefreshStep(r, x) /\ UNCHANGED <<canonVars, published>>
    BY <1>9 DEF RefreshHoldings
  <2>2. CurrentState \in TrueSnapshots(Reached')
    BY <2>1, CurrentIsTrue DEF canonVars
  <2>3. x \in RefreshStates(Reached', Known')
    BY <2>2 DEF RefreshStates
  <2> HIDE DEF x
  <2> QED BY <1>4, <2>1, <2>3
<1>10. CASE RefreshPublish(r)
  <2> DEFINE x == [stage |-> "apply", all |-> refresh[r].all, todo |-> refresh[r].todo]
  <2>1. /\ refresh[r].stage = "publish" /\ published' = refresh[r].clone /\ RefreshStep(r, x)
        /\ UNCHANGED <<orders, index, stopped, create>>
    BY <1>10 DEF RefreshPublish, canonVars, RefreshStep
  <2>2. /\ refresh[r].all \in BOOLEAN /\ refresh[r].todo \subseteq Reached
        /\ refresh[r].clone \in TrueSnapshots(Reached)
    BY <1>2, <2>1 DEF RefreshStates
  <2>3. x \in RefreshStates(Reached', Known') /\ PublishedInv'
    BY <1>1, <2>1, <2>2 DEF RefreshStates, PublishedInv
  <2> HIDE DEF x
  <2> QED BY <1>3, <2>1, <2>3, Frame DEF IInv, Forward
<1>11. ASSUME NEW o \in refresh[r].todo, refresh[r].stage = "apply", RefreshFold(r, o) PROVE IInv'
  <2> DEFINE result == observe_order(table, o)
             rest == refresh[r].todo \ {o}
             clone == [orders |-> orders', stopped |-> stopped]
             x == IF result.deltas = {}
                  THEN [stage |-> "apply", all |-> refresh[r].all, todo |-> rest]
                  ELSE [stage |-> "publish", all |-> refresh[r].all, todo |-> rest, clone |-> clone]
  <2>1. orders' = result.orders /\ index' = result.index /\ UNCHANGED <<stopped, published>>
    BY <1>11 DEF RefreshFold
  <2>2. RefreshStep(r, x)
    BY <1>11, <2>1 DEF RefreshFold
  <2>3. o \in Reached /\ rest \subseteq Reached /\ refresh[r].all \in BOOLEAN
    BY <1>2, <1>11 DEF RefreshStates
  <2>4. TableInv' /\ RowsKept
    BY <2>1, <2>3, ObserveFold
  <2>5. stopped \in BOOLEAN
    BY DEF IInv, PumpInv
  <2>6. clone \in TrueSnapshots(Reached')
    BY <2>4, <2>5, CloneIsTrue
  <2> HIDE DEF clone, rest, result
  <2>7. x \in RefreshStates(Reached', Known')
    BY <1>1, <2>3, <2>6 DEF RefreshStates
  <2> HIDE DEF x
  <2>8. SubmissionInv'
    BY <2>2, <2>4, SubmissionsKept DEF RefreshStep
  <2> QED BY <1>3, <1>11, <2>1, <2>2, <2>4, <2>7, <2>8, Frame DEF IInv, Forward
<1> QED BY <1>5, <1>7, <1>8, <1>9, <1>10, <1>11 DEF RefreshNext

LEMMA FetchesKeep == ASSUME IInv, Forward, NEW f \in Fetches, FetchNext(f) PROVE IInv'
<1>1. TrueSnapshots(Reached) \subseteq TrueSnapshots(Reached')
  BY StatesGrow DEF Forward
<1>2. fetch[f] \in FetchStates(Reached)
  BY TaskTables
<1>3. ASSUME NEW x \in FetchStates(Reached'), FetchStep(f, x), PublishedInv', QueueInv' PROVE IInv'
  <2>1. /\ UNCHANGED <<orders, index, stopped, pumpVars, sweep, create, cancel, refresh>>
        /\ fetch' = [fetch EXCEPT ![f] = x]
    BY <1>3 DEF FetchStep, canonVars
  <2>2. FetchInv'
    BY <2>1, TaskMoved
  <2> QED BY <1>3, <2>1, <2>2, Frame DEF IInv, Forward
<1>4. ASSUME NEW x, FetchStep(f, x) PROVE Patient
  BY <1>4 DEF FetchStep, Patient
<1>5. Idle \in FetchStates(Reached')
  BY DEF Idle, FetchStates
<1>6. CASE PricesReply(f)
  <2> DEFINE y == [command |-> "Prices"]
  <2>1. Send(y) /\ FetchStep(f, Idle) /\ UNCHANGED published
    BY <1>6 DEF PricesReply
  <2>2. /\ y \in Commands(Reached', Known') /\ Awaited(y, create', cancel', refresh')
        /\ \A n \in 1..Len(queue) : ~SameTask(queue[n], y)
    BY DEF Commands, Awaited, SameTask
  <2> HIDE DEF y
  <2>3. QueueInv'
    BY <1>4, <2>1, <2>2, QueueSent
  <2>4. PublishedInv'
    BY <2>1, Frame
  <2> QED BY <1>3, <1>5, <2>1, <2>3, <2>4
<1>7. CASE update_holdings(f)
  <2> DEFINE x == [stage |-> "publish", clone |-> CurrentState]
  <2>1. FetchStep(f, x) /\ UNCHANGED <<published, queue>>
    BY <1>7 DEF update_holdings
  <2>2. CurrentState \in TrueSnapshots(Reached')
    BY <2>1, CurrentIsTrue DEF FetchStep, canonVars
  <2>3. x \in FetchStates(Reached')
    BY <2>2 DEF FetchStates
  <2> HIDE DEF x
  <2>4. PublishedInv' /\ QueueInv'
    BY <1>4, <2>1, Frame, QueueKept
  <2> QED BY <1>3, <2>1, <2>3, <2>4
<1>8. CASE HoldingsPublish(f)
  <2>1. /\ fetch[f].stage = "publish" /\ published' = fetch[f].clone
        /\ FetchStep(f, Idle) /\ UNCHANGED queue
    BY <1>8 DEF HoldingsPublish
  <2>2. PublishedInv'
    BY <1>1, <1>2, <2>1 DEF FetchStates, PublishedInv
  <2>3. QueueInv'
    BY <1>4, <2>1, QueueKept
  <2> QED BY <1>3, <1>5, <2>1, <2>2, <2>3
<1>9. CASE FetchError(f)
  <2>1. FetchStep(f, Idle) /\ UNCHANGED <<published, queue>>
    BY <1>9 DEF FetchError
  <2>2. PublishedInv' /\ QueueInv'
    BY <1>4, <2>1, Frame, QueueKept
  <2> QED BY <1>3, <1>5, <2>1, <2>2
<1> QED BY <1>6, <1>7, <1>8, <1>9 DEF FetchNext

\* What the pump has when it takes up a command.
LEMMA Received ==
    ASSUME IInv, NEW x, Receive(x)
    PROVE  /\ pump = "running" /\ batch = NoBatch /\ pumpClone = None
           /\ queue # <<>> /\ queue' = Tail(queue)
           /\ Head(queue) \in Commands(Reached, Known)
           /\ Head(queue).command = x
           /\ Awaited(Head(queue), create, cancel, refresh)
<1>1. /\ pump = "running" /\ batch = NoBatch /\ pumpClone = None
      /\ queue # <<>> /\ queue' = Tail(queue) /\ Head(queue).command = x
  BY DEF Receive, Selecting
<1>2. queue \in Seq(Commands(Reached, Known))
  BY DEF IInv, QueueInv
<1>3. Head(queue) = queue[1] /\ 1 \in 1..Len(queue)
  BY <1>1, <1>2, EmptySeq
<1> QED BY <1>1, <1>3, Queued

\* After a fold the pump has nothing, or a snapshot of the new rows, to publish.
LEMMA PumpFolded ==
    ASSUME IInv, Forward, NEW r, Fold(r), TableInv', pump = "running",
           UNCHANGED <<stopped, pump, cancelled>>,
           batch' \in [page : SUBSET Reached', dropped : SUBSET Reached']
    PROVE  PumpInv'
<1>1. pumpClone' \in {None, [orders |-> orders', stopped |-> stopped]}
  BY DEF Fold
<1>2. stopped \in BOOLEAN /\ cancelled \in BOOLEAN
  BY DEF IInv, PumpInv
<1>3. [orders |-> orders', stopped |-> stopped] \in TrueSnapshots(Reached')
  BY <1>2, CloneIsTrue
<1> QED BY <1>1, <1>2, <1>3 DEF PumpInv

LEMMA BatchGrows == IInv /\ Forward => batch \in [page : SUBSET Reached', dropped : SUBSET Reached']
BY DEF IInv, PumpInv, Forward

LEMMA PublishKeeps == ASSUME IInv, Forward, PumpPublish PROVE IInv'
<1>1. /\ UNCHANGED <<orders, index, stopped, batch, queue, cancelled, sweep, refresh, fetch>>
      /\ published' = pumpClone /\ pumpClone' = None /\ pumpClone # None
      /\ pump' = IF pump = "stopping" THEN "stopped" ELSE pump
      /\ create' = [l \in LocalIds |-> Released(create[l])]
      /\ cancel' = [c \in Cancels |-> Released(cancel[c])]
  BY DEF PumpPublish, canonVars
<1>2. Known \subseteq Known' /\ TrueSnapshots(Reached) \subseteq TrueSnapshots(Reached')
      /\ CreateStates(Known) \subseteq CreateStates(Known')
      /\ CancelStates(Reached, Known) \subseteq CancelStates(Reached', Known')
  BY StatesGrow DEF Forward
<1>3. PublishedInv'
  BY <1>1, <1>2 DEF PublishedInv, IInv, PumpInv
<1>4. PumpInv'
  BY <1>1, BatchGrows DEF PumpInv, IInv
<1>5. CreateInv'
  <2>1. ASSUME NEW l \in LocalIds PROVE Released(create[l]) \in CreateStates(Known)
    <3>1. create[l] \in CreateStates(Known)
      BY TaskTables
    <3> QED BY <3>1 DEF CreateStates, Released
  <2> QED BY <1>1, <1>2, <2>1 DEF CreateInv
<1>6. CancelInv'
  <2>1. ASSUME NEW c \in Cancels PROVE Released(cancel[c]) \in CancelStates(Reached, Known)
    <3>1. cancel[c] \in CancelStates(Reached, Known)
      BY TaskTables
    <3> QED BY <3>1 DEF CancelStates, Released
  <2> QED BY <1>1, <1>2, <2>1 DEF CancelInv
<1>7. \A l \in LocalIds : create'[l].stage =
         IF create[l].stage = "folded" THEN "sent" ELSE create[l].stage
  <2>1. ASSUME NEW l \in LocalIds
        PROVE  create'[l].stage = IF create[l].stage = "folded" THEN "sent" ELSE create[l].stage
    <3>1. create[l] \in CreateStates(Known) /\ create'[l] = Released(create[l])
      BY <1>1, TaskTables
    <3> QED BY <3>1 DEF CreateStates, Released
  <2> QED BY <2>1
<1>8. Patient
  BY <1>1 DEF Patient, Released
<1>9. SubmissionInv'
  <2>1. \A l \in LocalIds : create[l].stage = "confirmed" => create'[l] = create[l]
    BY <1>1 DEF Released
  <2> QED BY <1>1, <1>7, <2>1 DEF SubmissionInv, IInv
<1> QED BY <1>1, <1>3, <1>4, <1>5, <1>6, <1>8, <1>9, QueueKept, Frame DEF IInv, Forward

LEMMA StopKeeps == ASSUME IInv, Forward, PumpStop PROVE IInv'
<1>1. /\ UNCHANGED <<broker, orders, index, published, batch, queue, cancelled,
                     sweep, create, cancel, refresh, fetch>>
      /\ batch = NoBatch /\ pump' = "stopping" /\ stopped' = TRUE
      /\ pumpClone' = [orders |-> orders, stopped |-> TRUE]
  BY DEF PumpStop, Selecting, taskVars
<1>2. TableInv'
  BY <1>1, Frame
<1>3. pumpClone' \in TrueSnapshots(Reached') \cup {None}
  BY <1>1, <1>2, CloneIsTrue
<1>4. PumpInv'
  BY <1>1, <1>3, BatchGrows DEF PumpInv, IInv, NoBatch
<1>5. QueueInv'
  BY <1>1, QueueKept DEF Patient
<1> QED BY <1>1, <1>2, <1>4, <1>5, Frame DEF IInv, Forward

\* The timer is silent while a command waits, so its own is the only one.
LEMMA TickKeeps == ASSUME IInv, Forward, Tick PROVE IInv'
<1> DEFINE y == [command |-> "StartSweep"]
<1>1. /\ UNCHANGED <<orders, index, stopped, published, pumpVars, sweep, create, cancel, refresh,
                     fetch>>
      /\ queue = <<>> /\ pump = "running" /\ queue' = <<y>>
  BY DEF Tick, Selecting, canonVars, taskVars
<1>2. Send(y)
  BY <1>1 DEF Send
<1>3. y \in Commands(Reached', Known') /\ Awaited(y, create', cancel', refresh')
      /\ \A n \in 1..Len(queue) : ~SameTask(queue[n], y)
  BY DEF Commands, Awaited, SameTask
<1>4. Patient
  BY <1>1 DEF Patient
<1> HIDE DEF y
<1>5. QueueInv'
  BY <1>2, <1>3, <1>4, QueueSent
<1> QED BY <1>1, <1>5, Frame DEF IInv, Forward

\* A sweep sets out to find again only orders the broker has.
LEMMA OpenServerIdsAreKnown == IInv => open_server_ids(published.orders) \subseteq Known
<1> SUFFICES ASSUME IInv, NEW k \in Keys, published.orders[k] # NoRow,
                    ~published.orders[k].optimistic
             PROVE  published.orders[k].server_id \in Known
  BY DEF open_server_ids
<1>1. WellFormedRows(published.orders) /\ Truthful(published.orders, Reached)
  BY DEF IInv, PublishedInv, TrueSnapshots
<1>2. k \in Ids
  BY <1>1, Distinct DEF WellFormedRows, ProvisionalRow, Keys
<1>3. published.orders[k].server_id = k /\ RecordOf(k, published.orders[k]) \in Reached
  BY <1>1, <1>2 DEF WellFormedRows, ServerRow, Truthful
<1> QED BY <1>2, <1>3 DEF Reached, RecordOf, Known

\* A submission shows as submitting, and its failure as rejected; no other row moves.
LEMMA SubmitFold ==
    ASSUME IInv, Forward, NEW l \in LocalIds,
           orders' = submit_optimistic(table, l).orders, index' = submit_optimistic(table, l).index
    PROVE  /\ TableInv' /\ orders'[l] # NoRow /\ orders'[l].lifecycle = "SubmittingPending"
           /\ \A k \in Keys \ {l} : orders'[k] = orders[k]
<1>1. PICK v : /\ ProvisionalRow(v) /\ v.lifecycle = "SubmittingPending"
               /\ submit_optimistic(table, l).orders = [table.orders EXCEPT ![l] = v]
  BY SubmitOptimisticEffect
<1>2. orders' = [orders EXCEPT ![l] = v] /\ index' = index
  BY <1>1, SubmitOptimisticEffect, TableFields
<1>3. TableInv' /\ orders'[l] = v /\ \A k \in Keys \ {l} : orders'[k] = orders[k]
  BY <1>1, <1>2, LocalRowPut
<1>4. v # NoRow
  BY <1>1, Distinct DEF ProvisionalRow
<1> QED BY <1>1, <1>3, <1>4

LEMMA FailFold ==
    ASSUME IInv, Forward, NEW l \in LocalIds, ProvisionalRow(orders[l]),
           orders' = submit_failed(table, l).orders, index' = submit_failed(table, l).index
    PROVE  /\ TableInv' /\ orders'[l].lifecycle = "SubmitRejected"
           /\ \A k \in Keys \ {l} : orders'[k] = orders[k]
<1>1. ProvisionalRow(table.orders[l])
  BY TableFields
<1>2. PICK v : /\ ProvisionalRow(v) /\ v.lifecycle = "SubmitRejected"
               /\ submit_failed(table, l).orders = [table.orders EXCEPT ![l] = v]
  BY <1>1, SubmitFailedEffect
<1>3. orders' = [orders EXCEPT ![l] = v] /\ index' = index
  BY <1>1, <1>2, SubmitFailedEffect, TableFields
<1>4. TableInv' /\ orders'[l] = v /\ \A k \in Keys \ {l} : orders'[k] = orders[k]
  BY <1>2, <1>3, LocalRowPut
<1> QED BY <1>2, <1>4

\* An answer finds the provisional row of its submission.
LEMMA AnsweredRow ==
    ASSUME IInv, NEW l \in LocalIds, create[l].stage = "answered" PROVE ProvisionalRow(orders[l])
BY TableFields DEF IInv, SubmissionInv, WellFormed, WellFormedRows

\* The answer to a create settles its submission, and lowers no fill.
LEMMA AnswerFold ==
    ASSUME IInv, Forward, ReceiveSubmitResult
    PROVE  /\ TableInv' /\ CreateInv' /\ SubmissionInv' /\ QueueInv' /\ OneRowMoves
           /\ \A i \in Ids : orders[i] # NoRow => orders'[i] = orders[i]
<1> DEFINE h == Head(queue)
           l == h.local
           id == h.result
           st == IF id = NoKey THEN "failed" ELSE "confirmed"
<1>1. /\ queue # <<>> /\ queue' = Tail(queue) /\ h \in Commands(Reached, Known)
      /\ h.command = "SubmitResult" /\ Awaited(h, create, cancel, refresh)
  BY Received DEF ReceiveSubmitResult
<1>2. l \in LocalIds /\ id \in Known \cup {NoKey} /\ create[l].stage = "answered"
  BY <1>1 DEF Commands, Awaited
<1>3. /\ orders' = (IF id = NoKey THEN submit_failed(table, l) ELSE confirm(table, l, id)).orders
      /\ index' = (IF id = NoKey THEN submit_failed(table, l) ELSE confirm(table, l, id)).index
      /\ create' = [create EXCEPT ![l].stage = st]
      /\ UNCHANGED <<cancel, refresh, fetch>>
  BY DEF ReceiveSubmitResult, Fold
<1>4. ProvisionalRow(orders[l])
  BY <1>2, AnsweredRow
<1> HIDE DEF id, l, h
<1>5. /\ TableInv' /\ \A m \in LocalIds \ {l} : orders'[m] = orders[m]
      /\ OneRowMoves /\ \A i \in Ids : orders[i] # NoRow => orders'[i] = orders[i]
      /\ st = "confirmed" => orders'[l] = NoRow /\ orders'[id] # NoRow
      /\ st = "failed" => orders'[l].lifecycle = "SubmitRejected"
  <2>1. CASE id = NoKey
    <3>1. /\ TableInv' /\ orders'[l].lifecycle = "SubmitRejected"
          /\ \A k \in Keys \ {l} : orders'[k] = orders[k]
      BY <1>2, <1>3, <1>4, <2>1, FailFold
    <3> QED BY <1>2, <2>1, <3>1, Distinct DEF OneRowMoves
  <2>2. CASE id # NoKey
    <3>1. /\ TableInv' /\ orders'[l] = NoRow
          /\ \A m \in LocalIds \ {l} : orders'[m] = orders[m]
          /\ \A j \in Ids \ {id} : orders'[j] = orders[j]
          /\ orders'[id] # NoRow /\ (orders'[id] = orders[id] \/ orders[id] = NoRow)
      BY <1>2, <1>3, <1>4, <2>2, ConfirmFold
    <3>2. id \in Ids
      BY <1>2, <2>2 DEF Known
    <3> QED BY <2>2, <3>1, <3>2 DEF OneRowMoves
  <2> QED BY <2>1, <2>2
<1>6. create[l] \in CreateStates(Known) /\ (id # NoKey => create[l] = [stage |-> "answered", id |-> id])
  BY <1>1, <1>2, TaskTables DEF Awaited, l, id
<1>7. create'[l].stage = st /\ (id # NoKey => create'[l].id = id) /\ \A m \in LocalIds \ {l} : create'[m] = create[m]
  <2>1. create = [m \in LocalIds |-> create[m]]
    BY TaskTables
  <2>2. create'[l] = [create[l] EXCEPT !.stage = st] /\ \A m \in LocalIds \ {l} : create'[m] = create[m]
    BY <1>2, <1>3, <2>1
  <2> QED BY <1>2, <1>6, <2>2 DEF CreateStates
<1>8. CreateInv'
  <2> DEFINE x == [create[l] EXCEPT !.stage = st]
  <2>1. x \in CreateStates(Known')
    BY <1>2, <1>6 DEF CreateStates, Forward
  <2>2. create' = [create EXCEPT ![l] = x]
    BY <1>3
  <2> HIDE DEF x
  <2> QED BY <1>2, <2>1, <2>2, TaskMoved
<1>9. SubmissionInv'
  <2>1. ASSUME NEW m \in LocalIds \ {l}, create[m].stage = "confirmed"
        PROVE  create[m].id \in Ids
    <3>1. create[m] \in CreateStates(Known)
      BY TaskTables
    <3> QED BY <2>1, <3>1 DEF CreateStates, Known
  <2>2. \A i \in Ids : orders[i] # NoRow => orders'[i] # NoRow
    BY <1>5
  <2> QED BY <1>5, <1>7, <2>1, <2>2 DEF SubmissionInv, IInv
<1>10. QueueInv'
  <2>1. PatientBut(h)
    BY <1>1, <1>3, <1>7 DEF PatientBut, l
  <2> QED BY <1>1, <2>1, QueueReceived DEF h
<1> QED BY <1>5, <1>8, <1>9, <1>10

LEMMA SubmitKeeps ==
    ASSUME IInv, Forward, ReceiveSubmit
    PROVE  /\ IInv' /\ \A i \in Ids : orders'[i] = orders[i]
<1> DEFINE h == Head(queue)
           l == h.local
           x == [stage |-> "folded"]
<1>1. /\ queue # <<>> /\ queue' = Tail(queue) /\ h \in Commands(Reached, Known)
      /\ h.command = "Submit" /\ pump = "running"
  BY Received DEF ReceiveSubmit
<1>2. l \in LocalIds
  BY <1>1 DEF Commands
<1>3. /\ Fold(submit_optimistic(table, l)) /\ create' = [create EXCEPT ![l] = x]
      /\ UNCHANGED <<stopped, published, pump, batch, cancelled, sweep, cancel, refresh, fetch>>
  BY DEF ReceiveSubmit
<1> HIDE DEF l, h
<1>4. /\ TableInv' /\ orders'[l] # NoRow /\ orders'[l].lifecycle = "SubmittingPending"
      /\ \A k \in Keys \ {l} : orders'[k] = orders[k]
  BY <1>2, <1>3, SubmitFold DEF Fold
<1>5. create'[l] = x /\ \A m \in LocalIds \ {l} : create'[m] = create[m]
  BY <1>2, <1>3, TaskTables
<1>6. CreateInv'
  BY <1>2, <1>3, TaskMoved DEF CreateStates
<1>7. SubmissionInv'
  <2>1. ASSUME NEW m \in LocalIds \ {l}, create[m].stage = "confirmed"
        PROVE  create[m].id \in Keys \ {l}
    <3>1. create[m] \in CreateStates(Known)
      BY TaskTables
    <3> QED BY <1>2, <2>1, <3>1, Distinct DEF CreateStates, Known
  <2> QED BY <1>4, <1>5, <2>1, Distinct DEF SubmissionInv, IInv
<1>8. QueueInv'
  <2>1. PatientBut(h)
    BY <1>1, <1>3, <1>5 DEF PatientBut, l
  <2> QED BY <1>1, <2>1, QueueReceived DEF h
<1>9. PumpInv'
  BY <1>1, <1>3, <1>4, BatchGrows, PumpFolded
<1> QED BY <1>2, <1>3, <1>4, <1>6, <1>7, <1>8, <1>9, Frame, Distinct DEF IInv, Forward

LEMMA SubmitResultKeeps == ASSUME IInv, Forward, ReceiveSubmitResult PROVE IInv'
<1>1. pump = "running"
  BY Received DEF ReceiveSubmitResult
<1>2. /\ \E r : Fold(r)
      /\ UNCHANGED <<stopped, published, pump, batch, cancelled, sweep, cancel, refresh, fetch>>
  BY DEF ReceiveSubmitResult
<1>3. TableInv' /\ CreateInv' /\ SubmissionInv' /\ QueueInv'
  BY AnswerFold
<1>4. PumpInv'
  BY <1>1, <1>2, <1>3, BatchGrows, PumpFolded
<1> QED BY <1>2, <1>3, <1>4, Frame DEF IInv, Forward

\* An observation, and an operation taken for an order, are about no submission.
LEMMA FoldKeeps ==
    ASSUME IInv, Forward, NEW r, Fold(r), TableInv', RowsKept, pump = "running",
           UNCHANGED <<stopped, published, pump, cancelled, sweep, create, refresh, fetch>>,
           batch' \in [page : SUBSET Reached', dropped : SUBSET Reached'],
           CancelInv', QueueInv'
    PROVE  IInv'
<1>1. PumpInv'
  BY PumpFolded
<1>2. SubmissionInv'
  BY SubmissionsKept
<1> QED BY <1>1, <1>2, Frame DEF IInv, Forward

LEMMA ObserveKeeps ==
    ASSUME IInv, Forward, NEW o \in batch.page \cup batch.dropped, PumpObserve(o)
    PROVE  IInv' /\ TableInv' /\ RowsKept
<1>1. batch \in [page : SUBSET Reached, dropped : SUBSET Reached]
      /\ (pump # "running" => batch = NoBatch)
  BY DEF IInv, PumpInv
<1>2. /\ batch # NoBatch /\ Fold(observe_order(table, o))
      /\ UNCHANGED <<stopped, published, pump, queue, cancelled, sweep, create, cancel, refresh,
                     fetch>>
      /\ \/ batch' = [batch EXCEPT !.page = @ \ {o}]
         \/ batch' = [batch EXCEPT !.dropped = @ \ {o}]
  BY DEF PumpObserve, taskVars
<1>3. o \in Reached
  BY <1>1
<1>4. TableInv' /\ RowsKept
  BY <1>2, <1>3, ObserveFold DEF Fold
<1>5. batch' \in [page : SUBSET Reached', dropped : SUBSET Reached']
  BY <1>1, <1>2 DEF Forward
<1>6. QueueInv' /\ CancelInv'
  BY <1>2, QueueKept, Frame DEF Patient
<1> QED BY <1>1, <1>2, <1>4, <1>5, <1>6, FoldKeeps

LEMMA ObservedKeeps ==
    ASSUME IInv, Forward, ReceiveObserved PROVE IInv' /\ TableInv' /\ RowsKept
<1>1. /\ queue # <<>> /\ queue' = Tail(queue) /\ Head(queue) \in Commands(Reached, Known)
      /\ Head(queue).command = "Observed" /\ pump = "running"
  BY Received DEF ReceiveObserved
<1>2. /\ Fold(observe_order(table, Head(queue).order))
      /\ UNCHANGED <<stopped, published, pump, batch, cancelled, sweep, create, cancel, refresh,
                     fetch>>
  BY DEF ReceiveObserved, taskVars
<1>3. Head(queue).order \in Reached
  BY <1>1 DEF Commands
<1>4. TableInv' /\ RowsKept
  BY <1>2, <1>3, ObserveFold DEF Fold
<1>5. QueueInv'
  BY <1>1, <1>2, QueueReceived DEF PatientBut
<1>6. CancelInv'
  BY <1>2, Frame
<1>7. batch' \in [page : SUBSET Reached', dropped : SUBSET Reached']
  BY <1>2, BatchGrows
<1> QED BY <1>1, <1>2, <1>4, <1>5, <1>6, <1>7, FoldKeeps

LEMMA CancelKeeps ==
    ASSUME IInv, Forward, ReceiveCancel PROVE IInv' /\ TableInv' /\ RowsKept
<1> DEFINE h == Head(queue)
           c == h.call
           r == op_submitted(table, cancel[c].id, "ClosingCancel")
           st == IF r.deltas = {} THEN "sent" ELSE "folded"
           x == [cancel[c] EXCEPT !.stage = st]
<1>1. /\ queue # <<>> /\ queue' = Tail(queue) /\ h \in Commands(Reached, Known)
      /\ h.command = "Cancel" /\ pump = "running" /\ Awaited(h, create, cancel, refresh)
  BY Received DEF ReceiveCancel
<1>2. c \in Cancels /\ cancel[c].stage = "queued" /\ cancel[c] \in CancelStates(Reached, Known)
  BY <1>1, TaskTables DEF Commands, Awaited
<1>3. cancel[c].id \in Known /\ cancel[c].id \in Ids
  BY <1>2 DEF CancelStates, Known
<1>4. /\ Fold(r) /\ cancel' = [cancel EXCEPT ![c] = x]
      /\ UNCHANGED <<stopped, published, pump, batch, cancelled, sweep, create, refresh, fetch>>
  BY DEF ReceiveCancel
<1>5. TableInv' /\ RowsKept
  BY <1>3, <1>4, OpSubmittedFold DEF Fold
<1>6. x \in CancelStates(Reached', Known')
  BY <1>2 DEF CancelStates, Forward
<1> HIDE DEF x, r, c, h
<1>7. CancelInv'
  BY <1>2, <1>4, <1>6, TaskMoved
<1>8. \A d \in Cancels \ {c} : cancel'[d] = cancel[d]
  BY <1>4, TaskTables
<1>9. QueueInv'
  <2>1. PatientBut(h)
    BY <1>1, <1>4, <1>8 DEF PatientBut, c
  <2> QED BY <1>1, <2>1, QueueReceived DEF h
<1>10. batch' \in [page : SUBSET Reached', dropped : SUBSET Reached']
  BY <1>4, BatchGrows
<1> QED BY <1>1, <1>4, <1>5, <1>7, <1>9, <1>10, FoldKeeps

LEMMA RefreshKeeps == ASSUME IInv, Forward, ReceiveRefresh PROVE IInv'
<1> DEFINE h == Head(queue)
           r == h.call
           x == [refresh[r] EXCEPT !.stage = "read"]
<1>1. /\ queue # <<>> /\ queue' = Tail(queue) /\ h \in Commands(Reached, Known)
      /\ h.command = "Refresh" /\ Awaited(h, create, cancel, refresh)
  BY Received DEF ReceiveRefresh
<1>2. r \in Refreshes /\ refresh[r].stage = "queued" /\ refresh[r] \in RefreshStates(Reached, Known)
  BY <1>1, TaskTables DEF Commands, Awaited
<1>3. /\ refresh' = [refresh EXCEPT ![r] = x]
      /\ UNCHANGED <<orders, index, stopped, published, pumpVars, sweep, create, cancel, fetch>>
  BY DEF ReceiveRefresh, canonVars
<1>4. x \in RefreshStates(Reached', Known')
  BY <1>2 DEF RefreshStates, Forward
<1> HIDE DEF x, r, h
<1>5. RefreshInv'
  BY <1>2, <1>3, <1>4, TaskMoved
<1>6. \A q \in Refreshes \ {r} : refresh'[q] = refresh[q]
  BY <1>3, TaskTables
<1>7. QueueInv'
  <2>1. PatientBut(h)
    BY <1>1, <1>3, <1>6 DEF PatientBut, r
  <2> QED BY <1>1, <2>1, QueueReceived DEF h
<1> QED BY <1>3, <1>5, <1>7, Frame DEF IInv, Forward

LEMMA SweepsStart == ASSUME IInv, Forward, NEW s \in Sweepers, StartSweep(s) PROVE IInv'
<1> DEFINE x == [stage |-> "list", before |-> open_server_ids(published.orders)]
<1>1. /\ UNCHANGED <<orders, index, stopped, published, pumpVars, create, cancel, refresh>>
      /\ sweep' = [sweep EXCEPT ![s] = x] /\ spawn_prices_and_holdings
  BY DEF StartSweep, spawn_sweep, canonVars
<1>2. queue # <<>> /\ queue' = Tail(queue)
  BY Received DEF StartSweep
<1>3. x \in SweepStates(Reached', Known')
  <2> HIDE DEF open_server_ids
  <2>1. open_server_ids(published.orders) \subseteq Known'
    BY OpenServerIdsAreKnown DEF Forward
  <2> QED BY <2>1 DEF SweepStates
<1> HIDE DEF x
<1>4. SweepInv'
  BY <1>1, <1>3, TaskMoved
<1>5. QueueInv'
  BY <1>1, <1>2, QueueReceived DEF PatientBut
<1>6. FetchInv'
  <2>1. PICK p, h \in {f \in Fetches : fetch[f] = Idle} \cup {None} :
            fetch' = [f \in Fetches |-> CASE f = p -> [stage |-> "prices"]
                                          [] f = h -> [stage |-> "holdings"]
                                          [] OTHER -> fetch[f]]
    BY <1>1 DEF spawn_prices_and_holdings
  <2>2. \A f \in Fetches : fetch[f] \in FetchStates(Reached')
    BY TaskTables, StatesGrow DEF Forward
  <2>3. /\ [stage |-> "prices"] \in FetchStates(Reached')
        /\ [stage |-> "holdings"] \in FetchStates(Reached')
    BY DEF FetchStates
  <2> HIDE DEF FetchStates
  <2> QED BY <2>1, <2>2, <2>3 DEF FetchInv
<1> QED BY <1>1, <1>4, <1>5, <1>6, Frame DEF IInv, Forward

\* A tick of prices publishes the orders as they stand.
LEMMA PricesKeep == ASSUME IInv, Forward, ReceivePrices PROVE IInv'
<1>1. /\ queue # <<>> /\ queue' = Tail(queue) /\ pump = "running"
      /\ batch = NoBatch /\ pumpClone' = CurrentState
      /\ UNCHANGED <<orders, index, stopped, published, pump, batch, cancelled, sweep, create,
                     cancel, refresh, fetch>>
  BY Received DEF ReceivePrices, canonVars, taskVars
<1>2. CurrentState \in TrueSnapshots(Reached')
  BY <1>1, CurrentIsTrue
<1>3. PumpInv'
  BY <1>1, <1>2, BatchGrows DEF PumpInv, IInv
<1>4. QueueInv'
  BY <1>1, QueueReceived DEF PatientBut
<1> QED BY <1>1, <1>3, <1>4, Frame DEF IInv, Forward

LEMMA SweepDoneKeeps == ASSUME IInv, Forward, ReceiveSweepDone PROVE IInv'
<1> DEFINE h == Head(queue)
<1>1. /\ queue # <<>> /\ queue' = Tail(queue) /\ h \in Commands(Reached, Known)
      /\ h.command = "SweepDone" /\ pump = "running" /\ pumpClone = None
  BY Received DEF ReceiveSweepDone
<1>2. /\ batch' = [page |-> h.orders, dropped |-> h.dropped]
      /\ UNCHANGED <<orders, index, stopped, published, pump, pumpClone, cancelled,
                     sweep, create, cancel, refresh, fetch>>
  BY DEF ReceiveSweepDone, canonVars, taskVars
<1>3. h.orders \subseteq Reached' /\ h.dropped \subseteq Reached'
  BY <1>1 DEF Commands, Forward
<1>4. QueueInv'
  BY <1>1, <1>2, QueueReceived DEF PatientBut
<1>5. PumpInv'
  BY <1>1, <1>2, <1>3 DEF PumpInv, IInv
<1> QED BY <1>2, <1>4, <1>5, Frame DEF IInv, Forward

----------------------------------------------------------------------------
(* The invariant is inductive. *)

LEMMA IInvInit == Init => IInv
<1> SUFFICES ASSUME Init PROVE IInv
  OBVIOUS
<1>1. BrokerInv /\ Known = {} /\ Reached = {}
  BY DEF Init, BrokerInv, Known, Reached, Orders
<1>2. TableInv /\ WellFormedRows(orders) /\ Truthful(orders, Reached)
  BY Distinct DEF Init, TableInv, WellFormed, WellFormedRows, Truthful
<1>3. PublishedInv
  BY <1>2 DEF Init, PublishedInv, TrueSnapshots, Snapshots, WellFormedRows
<1>4. PumpInv
  BY DEF Init, PumpInv, NoBatch
<1>5. SweepInv /\ CreateInv /\ CancelInv /\ RefreshInv /\ FetchInv
  BY DEF Init, Idle, SweepInv, CreateInv, CancelInv, RefreshInv, FetchInv, SweepStates,
         CreateStates, CancelStates, RefreshStates, FetchStates
<1>6. QueueInv
  BY EmptySeq DEF Init, QueueInv
<1>7. SubmissionInv
  BY DEF Init, Idle, SubmissionInv
<1> QED BY <1>1, <1>2, <1>3, <1>4, <1>5, <1>6, <1>7 DEF IInv

LEMMA IInvStep == IInv /\ [Next]_vars => IInv'
<1> SUFFICES ASSUME IInv, [Next]_vars PROVE IInv'
  OBVIOUS
<1> USE BrokerGoesForward
<1>1. CASE BrokerStep \/ UNCHANGED vars
  <2>1. UNCHANGED <<canonVars, published, pumpVars, queue, taskVars>>
    BY <1>1 DEF BrokerStep, vars, canonVars, pumpVars, taskVars
  <2> QED BY <2>1, ProgramIdle
<1>2. CASE Users
  BY <1>2, UsersKeep
<1>3. CASE Tick
  BY <1>3, TickKeeps
<1>4. CASE PumpStep
  <2>1. CASE PumpPublish \/ PumpStop
    BY <2>1, PublishKeeps, StopKeeps
  <2>2. ASSUME NEW o \in batch.page \cup batch.dropped, PumpObserve(o) PROVE IInv'
    BY <2>2, ObserveKeeps
  <2>3. ASSUME NEW s \in Sweepers, StartSweep(s) PROVE IInv'
    BY <2>3, SweepsStart
  <2>4. CASE ReceiveSweepDone \/ ReceiveObserved \/ ReceiveSubmit \/ ReceiveSubmitResult
             \/ ReceiveCancel \/ ReceiveRefresh \/ ReceivePrices
    BY <2>4, SweepDoneKeeps, ObservedKeeps, SubmitKeeps, SubmitResultKeeps, CancelKeeps, RefreshKeeps,
       PricesKeep
  <2> QED BY <1>4, <2>1, <2>2, <2>3, <2>4 DEF PumpStep, HandleCommand
<1>5. CASE \E s \in Sweepers : SweepNext(s)
  BY <1>5, SweepsKeep
<1>6. CASE \E l \in LocalIds : CreateNext(l)
  BY <1>6, CreatesKeep
<1>7. CASE \E c \in Cancels : CancelNext(c)
  BY <1>7, CancelsKeep
<1>8. CASE \E r \in Refreshes : RefreshNext(r)
  BY <1>8, RefreshesKeep
<1>9. CASE \E f \in Fetches : FetchNext(f)
  BY <1>9, FetchesKeep
<1> QED BY <1>1, <1>2, <1>3, <1>4, <1>5, <1>6, <1>7, <1>8, <1>9 DEF Next

\* What is true of the broker, the rows, the tasks and the queue at every moment.
THEOREM Inductive == Spec => []IInv
BY IInvInit, IInvStep, PTL DEF Spec

----------------------------------------------------------------------------
(* The theorems. *)

\* Broker records, rows, snapshots, the pump and every task keep their types.
THEOREM TypeCorrect == Spec => []TypeOK
<1>1. ASSUME IInv PROVE TypeOK
  <2>1. table \in Tables
    BY <1>1, TableFields DEF table, Tables, WellFormed, WellFormedRows
  <2>2. /\ published \in Snapshots /\ pumpClone \in Snapshots \cup {None}
        /\ batch.page \subseteq Orders /\ batch.dropped \subseteq Orders
        /\ stopped \in BOOLEAN /\ cancelled \in BOOLEAN /\ pump \in {"running", "stopping", "stopped"}
    BY <1>1 DEF IInv, PublishedInv, PumpInv, TrueSnapshots, Reached
  <2>3. \A s \in Sweepers : sweep[s].stage \in Stages
    BY <1>1, TaskTables DEF SweepStates, Stages
  <2>4. \A l \in LocalIds : create[l].stage \in Stages
    BY <1>1, TaskTables DEF CreateStates, Stages
  <2>5. \A c \in Cancels : cancel[c].stage \in Stages
    BY <1>1, TaskTables DEF CancelStates, Stages
  <2>6. \A r \in Refreshes : refresh[r].stage \in Stages
    BY <1>1, TaskTables DEF RefreshStates, Stages
  <2>7. \A f \in Fetches : fetch[f].stage \in Stages
    BY <1>1, TaskTables DEF FetchStates, Stages
  <2> QED BY <1>1, <2>1, <2>2, <2>3, <2>4, <2>5, <2>6, <2>7 DEF TypeOK, IInv, BrokerInv
<1> QED BY <1>1, Inductive, PTL

\* A row that closed, from whichever answer and however late, is the broker's final
\* record of its order, with any number of sweeps, cancels and refreshes under way.
THEOREM ClosedRows == Spec => []ClosedRowsAreFinal
<1>1. ASSUME IInv, NEW i \in Ids, HasRow(i), is_terminal_row(Row(i))
      PROVE  broker[i] # None /\ Row(i).status = broker[i].status /\ Row(i).filled = broker[i].filled
  <2>1. ServerRow(i, orders[i]) /\ RecordOf(i, orders[i]) \in Reached
    BY <1>1, TableFields DEF HasRow, WellFormed, WellFormedRows, Truthful
  <2> QED BY <1>1, <2>1 DEF Row, ServerRow, RecordOf, Reached
<1>2. IInv => ClosedRowsAreFinal
  BY <1>1 DEF ClosedRowsAreFinal
<1> QED BY <1>2, Inductive, PTL

\* Neither the canonical rows nor those readers see show an order the broker never
\* had or a fill it has not made.
THEOREM NoPhantom == Spec => []NoPhantomFills
<1>1. IInv => Truthful(orders, Reached) /\ Truthful(published.orders, Reached)
  BY TableFields DEF IInv, PublishedInv, TrueSnapshots
<1>2. IInv => NoPhantomFills
  BY <1>1 DEF NoPhantomFills, Truthful, RecordOf, Reached
<1> QED BY <1>2, Inductive, PTL

\* A submission the pump has picked up has a row until its answer is handled, a
\* provisional one that calls for the hot tier; then the row is under the id of the
\* answer alone, or shows the rejection.
THEOREM SubmissionRow == Spec => []SubmissionKeepsARow
<1>1. ASSUME IInv, NEW l \in LocalIds, orders[l] # NoRow PROVE compute_cadence(orders) = "hot"
  <2>1. l \in Keys /\ orders[l].optimistic
    BY <1>1, TableFields, Distinct DEF WellFormed, WellFormedRows, ProvisionalRow
  <2>2. \E v \in {orders[k] : k \in {j \in Keys : orders[j] # NoRow}} : v.optimistic
    BY <1>1, <2>1
  <2> QED BY <2>2 DEF compute_cadence
<1>2. IInv => SubmissionKeepsARow
  BY <1>1 DEF IInv, SubmissionInv, SubmissionKeepsARow
<1> QED BY <1>2, Inductive, PTL

\* No step of a submission lowers a fill, whatever the sweeps have shown of its order.
THEOREM AnswerKeeps == Spec => AnswerKeepsFills
<1> DEFINE Kept == create' # create => \A i \in Ids : HasRow(i) =>
                      orders'[i] # NoRow /\ orders'[i].filled >= Row(i).filled
<1>1. ASSUME IInv, [Next]_vars, create' # create
      PROVE  \A i \in Ids : orders[i] # NoRow => orders'[i] = orders[i]
  <2>1. Forward
    BY <1>1, BrokerGoesForward
  <2>2. CASE orders' = orders
    BY <2>2
  <2>3. CASE ReceiveSubmit
    BY <1>1, <2>1, <2>3, SubmitKeeps
  <2>4. CASE ReceiveSubmitResult
    BY <1>1, <2>1, <2>4, AnswerFold
  <2>5. CASE BrokerStep \/ Users \/ Tick \/ UNCHANGED vars
    BY <2>2, <2>5 DEF BrokerStep, Users, create_order, cancel_order, request_refresh, shutdown,
                      Tick, canonVars, vars
  <2>6. CASE PumpStep
    BY <1>1, <2>2, <2>3, <2>4, <2>6
       DEF PumpStep, PumpPublish, PumpStop, PumpObserve, HandleCommand, StartSweep, ReceivePrices,
           ReceiveSweepDone, ReceiveObserved, ReceiveCancel, ReceiveRefresh, canonVars, taskVars
  <2>7. CASE \E s \in Sweepers : SweepNext(s)
    BY <1>1, <2>7 DEF SweepNext, SweepListOk, SweepListError, SweepReply, SweepFetchOk,
                      SweepFetchError, SweepStep
  <2>8. CASE \E l \in LocalIds : CreateNext(l)
    BY <2>2, <2>8 DEF CreateNext, CreateAccepted, CreateOk, CreateError, CreateStep, canonVars
  <2>9. CASE \E c \in Cancels : CancelNext(c)
    BY <1>1, <2>9 DEF CancelNext, CancelAccepted, CancelError, CancelGetOk, CancelGetError,
                      CancelReply, CancelStep
  <2>10. CASE \E r \in Refreshes : RefreshNext(r)
    BY <1>1, <2>10 DEF RefreshNext, RefreshReadOk, RefreshReadError, RefreshHoldings,
                       RefreshPublish, RefreshReply, RefreshFold, RefreshStep
  <2>11. CASE \E f \in Fetches : FetchNext(f)
    BY <1>1, <2>11 DEF FetchNext, PricesReply, update_holdings, HoldingsPublish, FetchError, FetchStep
  <2> QED BY <1>1, <2>5, <2>6, <2>7, <2>8, <2>9, <2>10, <2>11 DEF Next
<1>2. ASSUME IInv, NEW i \in Ids, orders[i] # NoRow PROVE orders[i].filled >= orders[i].filled
  <2>1. orders[i] \in OrderView
    BY <1>2, TableFields, Distinct
  <2>2. orders[i].filled \in Nat
    BY <2>1, QtyAssumption DEF OrderView
  <2> QED BY <2>2
<1>3. IInv /\ [Next]_vars => [Kept]_vars
  BY <1>1, <1>2 DEF HasRow, Row
<1> QED BY <1>3, Inductive, PTL DEF Spec, AnswerKeepsFills

----------------------------------------------------------------------------
(* The reconciler, with its two writers, its overlapping sweeps and its late   *)
(* answers, keeps the abstract life of an order: unknown, then open, then      *)
(* closed, an order at a time. Deltas are no part of Reconciler, so an end     *)
(* counts as announced once the row is closed.                                 *)

PhaseOf(view) == IF view = NoRow THEN "untracked"
                 ELSE IF is_terminal_row(view) THEN "closed" ELSE "open"

Tracking == INSTANCE OrderTracking
                WITH phase <- [i \in Ids |-> PhaseOf(orders[i])],
                     closes <- [i \in Ids |-> IF PhaseOf(orders[i]) = "closed" THEN 1 ELSE 0]

LEMMA StepMovesOneRow == ASSUME IInv, [Next]_vars PROVE OneRowMoves
<1>1. Forward
  BY BrokerGoesForward
<1>2. CASE UNCHANGED orders
  BY <1>2 DEF OneRowMoves
<1>3. CASE BrokerStep \/ Users \/ Tick \/ UNCHANGED vars
  BY <1>2, <1>3 DEF BrokerStep, Users, create_order, cancel_order, request_refresh, shutdown,
                    Tick, canonVars, vars
<1>4. CASE PumpStep
  <2>1. CASE \/ PumpPublish \/ PumpStop \/ ReceiveSweepDone \/ ReceiveRefresh \/ ReceivePrices
             \/ \E s \in Sweepers : StartSweep(s)
    BY <1>2, <2>1 DEF PumpPublish, PumpStop, ReceiveSweepDone, ReceiveRefresh, ReceivePrices,
                      StartSweep, canonVars
  <2>2. ASSUME NEW o \in batch.page \cup batch.dropped, PumpObserve(o) PROVE OneRowMoves
    BY <1>1, <2>2, ObserveKeeps DEF RowsKept
  <2>3. CASE ReceiveObserved \/ ReceiveCancel
    BY <1>1, <2>3, ObservedKeeps, CancelKeeps DEF RowsKept
  <2>4. CASE ReceiveSubmit
    BY <1>1, <2>4, SubmitKeeps DEF OneRowMoves
  <2>5. CASE ReceiveSubmitResult
    BY <1>1, <2>5, AnswerFold
  <2> QED BY <1>4, <2>1, <2>2, <2>3, <2>4, <2>5 DEF PumpStep, HandleCommand
<1>5. CASE \E s \in Sweepers : SweepNext(s)
  BY <1>2, <1>5 DEF SweepNext, SweepListOk, SweepListError, SweepReply, SweepFetchOk,
                    SweepFetchError, SweepStep, canonVars
<1>6. CASE \E l \in LocalIds : CreateNext(l)
  BY <1>2, <1>6 DEF CreateNext, CreateAccepted, CreateOk, CreateError, CreateStep, canonVars
<1>7. CASE \E c \in Cancels : CancelNext(c)
  BY <1>2, <1>7 DEF CancelNext, CancelAccepted, CancelError, CancelGetOk, CancelGetError,
                    CancelReply, CancelStep, canonVars
<1>8. ASSUME NEW r \in Refreshes, RefreshNext(r) PROVE OneRowMoves
  <2>1. CASE \/ RefreshReadOk(r) \/ RefreshReadError(r) \/ RefreshHoldings(r)
             \/ RefreshPublish(r) \/ RefreshReply(r)
    BY <1>2, <2>1 DEF RefreshReadOk, RefreshReadError, RefreshHoldings, RefreshPublish,
                      RefreshReply, canonVars
  <2>2. ASSUME NEW o \in refresh[r].todo, refresh[r].stage = "apply", RefreshFold(r, o)
        PROVE  OneRowMoves
    <3>1. o \in Reached
      BY <2>2, TaskTables DEF RefreshStates
    <3>2. orders' = observe_order(table, o).orders /\ index' = observe_order(table, o).index
      BY <2>2 DEF RefreshFold
    <3> QED BY <1>1, <3>1, <3>2, ObserveFold DEF RowsKept
  <2> QED BY <1>8, <2>1, <2>2 DEF RefreshNext
<1>9. CASE \E f \in Fetches : FetchNext(f)
  BY <1>2, <1>9 DEF FetchNext, PricesReply, update_holdings, HoldingsPublish, FetchError, FetchStep,
                    canonVars
<1> QED BY <1>3, <1>4, <1>5, <1>6, <1>7, <1>8, <1>9 DEF Next

LEMMA RowMoveIsTracking ==
    ASSUME OneRowMoves PROVE [Tracking!Next]_(Tracking!vars)
<1> DEFINE phase == [i \in Ids |-> PhaseOf(orders[i])]
           closes == [i \in Ids |-> IF PhaseOf(orders[i]) = "closed" THEN 1 ELSE 0]
<1>1. CASE \A i \in Ids : orders'[i] = orders[i]
  <2>1. phase' = phase /\ closes' = closes
    BY <1>1 DEF PhaseOf, is_terminal_row
  <2> QED BY <2>1 DEF Tracking!vars
<1>2. ASSUME NEW i \in Ids, orders'[i] # NoRow, orders[i] # NoRow => ~is_terminal_row(orders[i]),
             \A j \in Ids \ {i} : orders'[j] = orders[j]
      PROVE  [Tracking!Next]_(Tracking!vars)
  <2> DEFINE after == PhaseOf(orders'[i])
  <2>1. phase[i] \in {"untracked", "open"} /\ after \in {"open", "closed"}
    BY <1>2 DEF PhaseOf
  <2>2. PhaseOf(orders[i])' = after /\ \A j \in Ids \ {i} : PhaseOf(orders[j])' = PhaseOf(orders[j])
    BY <1>2 DEF PhaseOf, is_terminal_row
  <2> HIDE DEF after
  <2>3. phase' = [phase EXCEPT ![i] = after]
    BY <2>2
  <2>4. closes[i] = 0
    <3>1. PhaseOf(orders[i]) # "closed"
      BY <1>2 DEF PhaseOf
    <3> QED BY <3>1
  <2>5. closes' = [closes EXCEPT ![i] = IF after = "closed" THEN 1 ELSE 0]
    BY <2>2
  <2>6. CASE after = "closed"
    <3>1. closes' = [closes EXCEPT ![i] = @ + 1]
      <4>1. closes[i] + 1 = 1 /\ closes' = [closes EXCEPT ![i] = 1]
        BY <2>4, <2>5, <2>6
      <4> HIDE DEF closes
      <4> QED BY <4>1
    <3>2. Tracking!Close(i)
      BY <2>1, <2>3, <2>6, <3>1 DEF Tracking!Close
    <3> QED BY <3>2 DEF Tracking!Next
  <2>7. CASE after = "open"
    <3>1. closes' = closes
      BY <2>4, <2>5, <2>7
    <3>2. CASE phase[i] = "untracked"
      BY <2>3, <2>7, <3>1, <3>2 DEF Tracking!Next, Tracking!Track
    <3>3. CASE phase[i] = "open"
      <4>1. phase' = phase
        BY <2>3, <2>7, <3>3
      <4> QED BY <3>1, <4>1 DEF Tracking!vars
    <3> QED BY <2>1, <3>2, <3>3
  <2> QED BY <2>1, <2>6, <2>7
<1> QED BY <1>1, <1>2 DEF OneRowMoves

\* In the rows of the running reconciler an order is unknown, then open, then closed,
\* never back, whoever folds what, and however late.
THEOREM Refinement == Spec => Tracking!Spec
<1>1. Init => Tracking!Init
  <2> SUFFICES ASSUME Init PROVE Tracking!Init
    OBVIOUS
  <2>1. \A i \in Ids : PhaseOf(orders[i]) = "untracked"
    BY Distinct DEF Init, PhaseOf
  <2> QED BY <2>1 DEF Tracking!Init
<1>2. IInv /\ [Next]_vars => [Tracking!Next]_(Tracking!vars)
  BY StepMovesOneRow, RowMoveIsTracking
<1> QED BY <1>1, <1>2, Inductive, PTL DEF Spec, Tracking!Spec
====
