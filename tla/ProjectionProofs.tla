---- MODULE ProjectionProofs ----
(* Proofs about Projection for any sets of orders, submissions, symbols and   *)
(* payloads and any quantity: what an action does to the rows, by the lemmas  *)
(* of ProjectedStateProofs, the inductive invariant IInv, and the theorems.   *)
EXTENDS Projection, ProjectedStateProofs

----------------------------------------------------------------------------
(* The inductive invariant: rows and index are in step, a submission has the  *)
(* row its history says, and every fill was announced.                        *)

RowsInv == \A i \in Ids : /\ index[i] \in {NoKey, i}
                          /\ index[i] = i <=> orders[i] # NoRow
                          /\ orders[i] # NoRow => ServerRow(i, orders[i])

SubmissionsInv ==
    \A l \in LocalIds :
        /\ submission[l] \in Ids => orders[l] = NoRow /\ orders[submission[l]] # NoRow
        /\ submission[l] = "none" => orders[l] = NoRow
        /\ submission[l] \in {"submitted", "failed"} => ProvisionalRow(orders[l])

IInv == TypeOK /\ RowsInv /\ SubmissionsInv /\ NoFillUnannounced

\* What became of a submission is told apart from an id.
LEMMA SubmissionStates == "none" \notin Ids /\ "submitted" \notin Ids /\ "failed" \notin Ids
BY SubmissionStatesAreNoIds

\* The types of the table, variable by variable.
LEMMA TableTypes == TypeOK => /\ table \in Tables
                              /\ table.orders = orders /\ table.index = index
                              /\ orders \in [Keys -> OrderView \cup {NoRow}]
                              /\ index \in [Ids -> Keys \cup {NoKey}]
BY DEF TypeOK, Tables, table

\* The rows of submissions are provisional or gone, so the table is well formed.
LEMMA TableWellFormed == IInv => WellFormed(orders, index)
<1> SUFFICES ASSUME IInv PROVE WellFormed(orders, index)
  OBVIOUS
<1>1. \A l \in LocalIds : orders[l] # NoRow => ProvisionalRow(orders[l])
  BY DEF IInv, TypeOK, SubmissionsInv
<1> QED BY <1>1, TableTypes DEF IInv, RowsInv, WellFormed, WellFormedRows

LEMMA InitIInv == Init => IInv
<1> SUFFICES ASSUME Init PROVE IInv
  OBVIOUS
<1>1. table \in Tables
  BY DEF Init, table, Tables
<1>2. 0 \in 0..Qty
  BY QtyAssumption
<1>3. TypeOK
  BY <1>1, <1>2 DEF Init, TypeOK
<1>4. RowsInv
  BY Distinct DEF Init, RowsInv
<1>5. SubmissionsInv
  BY Distinct, SubmissionStates DEF Init, SubmissionsInv
<1>6. NoFillUnannounced
  BY Distinct DEF Init, NoFillUnannounced
<1> QED BY <1>3, <1>4, <1>5, <1>6 DEF IInv

----------------------------------------------------------------------------
(* What a step does to the rows. *)

\* An observation is ignored by a closed row; any other row it leaves is a server
\* row that shows the record, and its fill is accounted for.
Latched(i) == /\ orders[i] # NoRow /\ is_terminal_row(orders[i])
              /\ UNCHANGED <<orders, index, closes, seenAt, gains>>

Shown(i, o, v) ==
    /\ ServerRow(i, v) /\ v.status = o.status /\ v.filled = o.filled
    /\ orders[i] # NoRow => ~is_terminal_row(orders[i])
    /\ orders' = [orders EXCEPT ![i] = v]
    /\ index' = [index EXCEPT ![i] = i]
    /\ closes' = [closes EXCEPT ![i] = @ + (IF is_terminal(o.status) THEN 1 ELSE 0)]
    /\ seenAt' \in [Ids -> 0..Qty] /\ gains' \in [Ids -> Nat]
    /\ o.filled <= seenAt'[i] + gains'[i]
    /\ \A j \in Ids \ {i} : seenAt'[j] = seenAt[j] /\ gains'[j] = gains[j]

LEMMA ObserveEffect ==
    ASSUME IInv, NEW o \in Orders, ObserveOrder(o)
    PROVE  Latched(o.id) \/ \E v \in OrderView : Shown(o.id, o, v)
<1> DEFINE i == o.id
           r == observe_order(table, o)
<1>1. i \in Ids /\ i \in Keys /\ o.status \in OrderStatuses /\ o.filled \in 0..Qty
  BY Distinct DEF Orders
<1>2. /\ orders \in [Keys -> OrderView \cup {NoRow}] /\ index \in [Ids -> Keys \cup {NoKey}]
      /\ table.orders = orders /\ table.index = index
  BY TableTypes DEF IInv
<1>3. /\ closes \in [Ids -> Nat] /\ seenAt \in [Ids -> 0..Qty] /\ gains \in [Ids -> Nat]
  BY DEF IInv, TypeOK
<1>4. /\ orders' = r.orders /\ index' = r.index
      /\ closes' = [closes EXCEPT ![i] = @ + (IF "OrderClosed" \in r.deltas THEN 1 ELSE 0)]
      /\ seenAt' = IF index[i] = NoKey THEN [seenAt EXCEPT ![i] = o.filled] ELSE seenAt
      /\ gains' = [gains EXCEPT ![i] = @ + r.gained]
  BY DEF ObserveOrder, Commit
<1>5. CASE index[i] # NoKey
  <2>1. index[i] = i /\ orders[i] # NoRow /\ ServerRow(i, orders[i]) /\ orders[i] \in OrderView
    BY <1>1, <1>2, <1>5 DEF IInv, RowsInv
  <2>2. r = observe_tracked(table, i, o)
    BY <1>2, <1>5, <2>1 DEF observe_order
  <2>3. orders[i].filled <= seenAt[i] + gains[i] /\ orders[i].filled \in Nat
    BY <1>1, <2>1, QtyAssumption DEF IInv, NoFillUnannounced, OrderView
  <2>4. CASE is_terminal_row(orders[i])
    <3>1. r = [orders |-> orders, index |-> index, deltas |-> {}, gained |-> 0]
      BY <1>2, <2>2, <2>4 DEF observe_tracked, Ignored
    <3>2. UNCHANGED <<orders, index>>
      BY <1>4, <3>1
    <3>3. UNCHANGED <<closes, seenAt, gains>>
      BY <1>3, <1>4, <1>5, <3>1
    <3> QED BY <2>1, <2>4, <3>2, <3>3 DEF Latched
  <2>5. CASE ~is_terminal_row(orders[i])
    <3> DEFINE v == absorb(orders[i], o)
               g == IF o.filled > orders[i].filled THEN o.filled - orders[i].filled ELSE 0
               ds == (IF o.filled > orders[i].filled THEN {"FillAdded"} ELSE {})
                     \cup (IF o.status # orders[i].status THEN {"OrderUpserted"} ELSE {})
                     \cup (IF o.status # orders[i].status /\ is_terminal(o.status)
                           THEN {"OrderClosed"} ELSE {})
    <3>1. r = [orders |-> [orders EXCEPT ![i] = v], index |-> index, gained |-> g, deltas |-> ds]
      BY <1>2, <2>2, <2>5 DEF observe_tracked
    <3>2. r.orders = [orders EXCEPT ![i] = v] /\ r.index = index /\ r.gained = g /\ r.deltas = ds
      BY <3>1
    <3>3. /\ v \in OrderView /\ ServerRow(i, v) /\ v.status = o.status /\ v.filled = o.filled
      BY <2>1, Absorb DEF ServerRow
    <3>4. g \in Nat /\ o.filled <= orders[i].filled + g
      BY <1>1, <2>3, QtyAssumption
    <3>5. "OrderClosed" \in ds <=> is_terminal(o.status)
      BY <2>1, <2>5 DEF ServerRow
    <3> HIDE DEF v, g, ds, r
    <3>6. index' = [index EXCEPT ![i] = i]
      BY <1>1, <1>2, <1>4, <2>1, <3>2
    <3>7. closes' = [closes EXCEPT ![i] = @ + (IF is_terminal(o.status) THEN 1 ELSE 0)]
      BY <1>4, <3>2, <3>5
    <3>8. seenAt' = seenAt /\ gains' = [gains EXCEPT ![i] = @ + g]
      BY <1>4, <1>5, <3>2
    <3>9. /\ gains' \in [Ids -> Nat] /\ gains'[i] = gains[i] + g
          /\ \A j \in Ids \ {i} : gains'[j] = gains[j]
      BY <1>1, <1>3, <3>4, <3>8
    <3>10. o.filled <= seenAt'[i] + gains'[i]
      <4>1. seenAt[i] \in Nat /\ gains[i] \in Nat /\ o.filled \in Nat
        BY <1>1, <1>3, QtyAssumption
      <4> QED BY <2>3, <3>4, <3>8, <3>9, <4>1
    <3>11. orders' = [orders EXCEPT ![i] = v]
      BY <1>4, <3>2
    <3> QED BY <1>3, <2>5, <3>3, <3>6, <3>7, <3>8, <3>9, <3>10, <3>11 DEF Shown
  <2> QED BY <2>4, <2>5
<1>6. CASE index[i] = NoKey
  <2> DEFINE v == from_order(o)
             ds == {"OrderUpserted"} \cup (IF is_terminal_row(v) THEN {"OrderClosed"} ELSE {})
  <2>1. r = [orders |-> [orders EXCEPT ![i] = v], index |-> [index EXCEPT ![i] = i],
             gained |-> 0, deltas |-> ds]
    BY <1>2, <1>6 DEF observe_order, observe_new
  <2>2. /\ r.orders = [orders EXCEPT ![i] = v] /\ r.index = [index EXCEPT ![i] = i]
        /\ r.gained = 0 /\ r.deltas = ds
    BY <2>1
  <2>3. /\ v \in OrderView /\ ServerRow(i, v) /\ v.status = o.status /\ v.filled = o.filled
    BY FromOrder DEF ServerRow
  <2>4. "OrderClosed" \in ds <=> is_terminal(o.status)
    BY <2>3 DEF ServerRow
  <2>5. orders[i] = NoRow
    BY <1>1, <1>6, Distinct DEF IInv, RowsInv
  <2> HIDE DEF v, ds, r
  <2>6. closes' = [closes EXCEPT ![i] = @ + (IF is_terminal(o.status) THEN 1 ELSE 0)]
    BY <1>4, <2>2, <2>4
  <2>7. gains' = gains /\ seenAt' = [seenAt EXCEPT ![i] = o.filled]
    BY <1>1, <1>3, <1>4, <1>6, <2>2
  <2>8. /\ seenAt' \in [Ids -> 0..Qty] /\ o.filled <= seenAt'[i] + gains'[i]
        /\ \A j \in Ids \ {i} : seenAt'[j] = seenAt[j]
    BY <1>1, <1>3, <2>7, QtyAssumption
  <2> QED BY <1>3, <1>4, <2>2, <2>3, <2>5, <2>6, <2>7, <2>8 DEF Shown
<1> QED BY <1>5, <1>6

\* The effects of the other operations are those of the fold.
LEMMA ConfirmMoves ==
    ASSUME IInv, NEW l \in LocalIds, NEW i \in Ids, Confirm(l, i)
    PROVE  \/ /\ orders[i] # NoRow
              /\ orders' = [orders EXCEPT ![l] = NoRow] /\ index' = index
           \/ \E v \in OrderView :
                 /\ orders[i] = NoRow /\ ServerRow(i, v) /\ v.filled = 0 /\ ~is_terminal_row(v)
                 /\ orders' = [orders EXCEPT ![l] = NoRow, ![i] = v]
                 /\ index' = [index EXCEPT ![i] = i]
<1>1. table.orders = orders /\ table.index = index /\ WellFormed(orders, index)
  BY TableTypes, TableWellFormed DEF IInv
<1>2. orders' = confirm(table, l, i).orders /\ index' = confirm(table, l, i).index
  BY DEF Confirm, Commit
<1>3. ProvisionalRow(orders[l])
  BY DEF IInv, SubmissionsInv, Confirm
<1>4. Confirms(table, l, i, confirm(table, l, i))
  BY <1>1, <1>3, ConfirmEffect
<1> QED BY <1>1, <1>2, <1>4 DEF Confirms, ServerRow

LEMMA OpSubmittedMoves ==
    ASSUME IInv, NEW i \in Ids, NEW c \in {"ClosingCancel", "ClosingModify"}, OpSubmitted(i, c)
    PROVE  /\ index' = index
           /\ \/ orders' = orders
              \/ \E v \in OrderView :
                    /\ orders[i] # NoRow /\ ~is_terminal_row(orders[i])
                    /\ ServerRow(i, v) /\ ~is_terminal_row(v) /\ v.filled = orders[i].filled
                    /\ orders' = [orders EXCEPT ![i] = v]
<1>1. table.orders = orders /\ table.index = index /\ WellFormed(orders, index)
  BY TableTypes, TableWellFormed DEF IInv
<1>2. orders' = op_submitted(table, i, c).orders /\ index' = op_submitted(table, i, c).index
  BY DEF OpSubmitted, Commit
<1>3. MarksClosing(table, i, op_submitted(table, i, c))
  BY <1>1, OpSubmittedEffect
<1> QED BY <1>1, <1>2, <1>3 DEF MarksClosing, ServerRow

LEMMA SubmitMoves ==
    ASSUME IInv, NEW l \in LocalIds, SubmitOptimistic(l) \/ SubmitFailed(l)
    PROVE  /\ index' = index
           /\ \E v \in OrderView : ProvisionalRow(v) /\ orders' = [orders EXCEPT ![l] = v]
<1>1. table.orders = orders /\ table.index = index
  BY TableTypes DEF IInv
<1>2. CASE SubmitOptimistic(l)
  <2>1. orders' = submit_optimistic(table, l).orders /\ index' = submit_optimistic(table, l).index
    BY <1>2 DEF SubmitOptimistic, Commit
  <2>2. PICK v : ProvisionalRow(v) /\ submit_optimistic(table, l).orders = [table.orders EXCEPT ![l] = v]
    BY SubmitOptimisticEffect
  <2>3. submit_optimistic(table, l).index = table.index
    BY SubmitOptimisticEffect
  <2> QED BY <1>1, <2>1, <2>2, <2>3 DEF ProvisionalRow
<1>3. CASE SubmitFailed(l)
  <2>1. ProvisionalRow(orders[l])
    BY <1>3 DEF IInv, SubmissionsInv, SubmitFailed
  <2>2. orders' = submit_failed(table, l).orders /\ index' = submit_failed(table, l).index
    BY <1>3 DEF SubmitFailed, Commit
  <2>3. PICK v : ProvisionalRow(v) /\ submit_failed(table, l).orders = [table.orders EXCEPT ![l] = v]
    BY <1>1, <2>1, SubmitFailedEffect
  <2>4. submit_failed(table, l).index = table.index
    BY <1>1, <2>1, SubmitFailedEffect
  <2> QED BY <1>1, <2>2, <2>3, <2>4 DEF ProvisionalRow
<1> QED BY <1>2, <1>3

----------------------------------------------------------------------------
(* Every step preserves the invariant. *)

\* A table made of typed orders and a typed index is a typed table.
LEMMA TableTyped == ASSUME orders' \in [Keys -> OrderView \cup {NoRow}],
                           index' \in [Ids -> Keys \cup {NoKey}]
                    PROVE  table' \in Tables
BY DEF table, Tables

\* The generation counts.
LEMMA BumpTyped == ASSUME generation \in Nat, NEW d, bump(d) PROVE generation' \in Nat
BY DEF bump

LEMMA ObservePreserves ==
    ASSUME IInv, NEW o \in Orders, ObserveOrder(o) PROVE IInv'
<1> DEFINE i == o.id
<1>1. i \in Ids /\ i \in Keys
  BY Distinct DEF Orders
<1>2. /\ orders \in [Keys -> OrderView \cup {NoRow}] /\ index \in [Ids -> Keys \cup {NoKey}]
  BY TableTypes DEF IInv
<1>3. /\ UNCHANGED <<holdings, prices, stopped, submission>> /\ generation' \in Nat
  BY BumpTyped DEF ObserveOrder, Commit, IInv, TypeOK
<1>4. CASE Latched(i)
  BY <1>3, <1>4 DEF Latched, IInv, TypeOK, RowsInv, SubmissionsInv, NoFillUnannounced, table
<1>5. ASSUME NEW v \in OrderView, Shown(i, o, v) PROVE IInv'
  <2>1. /\ orders' = [orders EXCEPT ![i] = v] /\ index' = [index EXCEPT ![i] = i]
        /\ ServerRow(i, v) /\ v # NoRow /\ v.filled = o.filled
    BY <1>5, Distinct DEF Shown
  <2>2. /\ orders' \in [Keys -> OrderView \cup {NoRow}] /\ index' \in [Ids -> Keys \cup {NoKey}]
    BY <1>1, <1>2, <2>1
  <2>3. /\ closes' \in [Ids -> Nat] /\ seenAt' \in [Ids -> 0..Qty] /\ gains' \in [Ids -> Nat]
    BY <1>1, <1>5 DEF Shown, IInv, TypeOK
  <2>4. TypeOK'
    BY <1>3, <2>2, <2>3, TableTyped DEF IInv, TypeOK
  <2>5. RowsInv'
    BY <1>1, <1>2, <2>1, Distinct DEF IInv, RowsInv
  <2>6. SubmissionsInv'
    BY <1>1, <1>2, <1>3, <2>1, Distinct DEF IInv, SubmissionsInv, TypeOK
  <2>7. NoFillUnannounced'
    <3>1. o.filled <= seenAt'[i] + gains'[i]
          /\ \A j \in Ids \ {i} : seenAt'[j] = seenAt[j] /\ gains'[j] = gains[j]
      BY <1>5 DEF Shown
    <3> QED BY <1>1, <1>2, <2>1, <3>1, Distinct DEF IInv, NoFillUnannounced
  <2> QED BY <2>4, <2>5, <2>6, <2>7 DEF IInv
<1> QED BY <1>4, <1>5, ObserveEffect

LEMMA ConfirmPreserves ==
    ASSUME IInv, NEW l \in LocalIds, NEW i \in Ids, Confirm(l, i) PROVE IInv'
<1>1. l \in Keys /\ i \in Keys /\ l \notin Ids
  BY Distinct
<1>2. /\ orders \in [Keys -> OrderView \cup {NoRow}] /\ index \in [Ids -> Keys \cup {NoKey}]
  BY TableTypes DEF IInv
<1>3. /\ UNCHANGED <<holdings, prices, stopped, closes, seenAt, gains>> /\ generation' \in Nat
      /\ submission' = [submission EXCEPT ![l] = i]
      /\ submission \in [LocalIds -> {"none", "submitted", "failed"} \cup Ids]
      /\ \A m \in LocalIds : submission[m] # i
  BY BumpTyped DEF Confirm, Commit, IInv, TypeOK
<1>4. submission' \in [LocalIds -> {"none", "submitted", "failed"} \cup Ids]
  BY <1>3
<1>5. CASE orders[i] # NoRow /\ orders' = [orders EXCEPT ![l] = NoRow] /\ index' = index
  <2>1. orders' \in [Keys -> OrderView \cup {NoRow}]
    BY <1>1, <1>2, <1>5
  <2>2. TypeOK'
    BY <1>2, <1>3, <1>4, <1>5, <2>1, TableTyped DEF IInv, TypeOK
  <2>3. RowsInv'
    BY <1>1, <1>2, <1>5, Distinct DEF IInv, RowsInv
  <2>4. SubmissionsInv'
    BY <1>1, <1>2, <1>3, <1>5, Distinct, SubmissionStates DEF IInv, SubmissionsInv
  <2>5. NoFillUnannounced'
    BY <1>1, <1>2, <1>3, <1>5, Distinct DEF IInv, NoFillUnannounced
  <2> QED BY <2>2, <2>3, <2>4, <2>5 DEF IInv
<1>6. ASSUME NEW v \in OrderView, orders[i] = NoRow, ServerRow(i, v), v.filled = 0,
             orders' = [orders EXCEPT ![l] = NoRow, ![i] = v], index' = [index EXCEPT ![i] = i]
      PROVE  IInv'
  <2>0. v # NoRow
    BY Distinct
  <2>1. orders' \in [Keys -> OrderView \cup {NoRow}] /\ index' \in [Ids -> Keys \cup {NoKey}]
    BY <1>1, <1>2, <1>6
  <2>2. TypeOK'
    BY <1>3, <1>4, <2>1, TableTyped DEF IInv, TypeOK
  <2>3. RowsInv'
    BY <1>1, <1>2, <1>6, <2>0, Distinct DEF IInv, RowsInv
  <2>4. SubmissionsInv'
    BY <1>1, <1>2, <1>3, <1>6, <2>0, Distinct, SubmissionStates DEF IInv, SubmissionsInv
  <2>5. NoFillUnannounced'
    <3>1. \A j \in Ids : seenAt[j] \in Nat /\ gains[j] \in Nat
      BY QtyAssumption DEF IInv, TypeOK
    <3> QED BY <1>1, <1>2, <1>3, <1>6, <3>1, Distinct DEF IInv, NoFillUnannounced
  <2> QED BY <2>2, <2>3, <2>4, <2>5 DEF IInv
<1> QED BY <1>5, <1>6, ConfirmMoves

LEMMA OpSubmittedPreserves ==
    ASSUME IInv, NEW i \in Ids, NEW c \in {"ClosingCancel", "ClosingModify"}, OpSubmitted(i, c)
    PROVE  IInv'
<1>1. i \in Keys
  BY Distinct
<1>2. /\ orders \in [Keys -> OrderView \cup {NoRow}] /\ index \in [Ids -> Keys \cup {NoKey}]
  BY TableTypes DEF IInv
<1>3. /\ UNCHANGED <<holdings, prices, stopped, submission, closes, seenAt, gains>>
      /\ generation' \in Nat
  BY BumpTyped DEF OpSubmitted, Commit, history, IInv, TypeOK
<1>4. index' = index
  BY OpSubmittedMoves
<1>5. CASE orders' = orders
  BY <1>3, <1>4, <1>5 DEF IInv, TypeOK, RowsInv, SubmissionsInv, NoFillUnannounced, table
<1>6. ASSUME NEW v \in OrderView, orders[i] # NoRow, ServerRow(i, v),
             v.filled = orders[i].filled, orders' = [orders EXCEPT ![i] = v]
      PROVE  IInv'
  <2>0. v # NoRow
    BY Distinct
  <2>1. orders' \in [Keys -> OrderView \cup {NoRow}] /\ index' \in [Ids -> Keys \cup {NoKey}]
    BY <1>1, <1>2, <1>4, <1>6
  <2>2. TypeOK'
    BY <1>3, <2>1, TableTyped DEF IInv, TypeOK
  <2>3. RowsInv'
    BY <1>1, <1>2, <1>4, <1>6, <2>0, Distinct DEF IInv, RowsInv
  <2>4. SubmissionsInv'
    BY <1>1, <1>2, <1>3, <1>6, <2>0, Distinct DEF IInv, SubmissionsInv
  <2>5. NoFillUnannounced'
    BY <1>1, <1>2, <1>3, <1>6, <2>0, Distinct DEF IInv, NoFillUnannounced
  <2> QED BY <2>2, <2>3, <2>4, <2>5 DEF IInv
<1> QED BY <1>5, <1>6, OpSubmittedMoves

LEMMA SubmitPreserves ==
    ASSUME IInv, NEW l \in LocalIds, SubmitOptimistic(l) \/ SubmitFailed(l) PROVE IInv'
<1>1. l \in Keys /\ l \notin Ids
  BY Distinct
<1>2. /\ orders \in [Keys -> OrderView \cup {NoRow}] /\ index \in [Ids -> Keys \cup {NoKey}]
  BY TableTypes DEF IInv
<1>3. /\ UNCHANGED <<holdings, prices, stopped, closes, seenAt, gains>> /\ generation' \in Nat
      /\ submission \in [LocalIds -> {"none", "submitted", "failed"} \cup Ids]
      /\ \/ submission' = [submission EXCEPT ![l] = "submitted"]
         \/ submission' = [submission EXCEPT ![l] = "failed"]
  BY BumpTyped DEF SubmitOptimistic, SubmitFailed, Commit, IInv, TypeOK
<1>4. PICK v \in OrderView : ProvisionalRow(v) /\ orders' = [orders EXCEPT ![l] = v]
  BY SubmitMoves
<1>5. index' = index /\ v # NoRow
  BY SubmitMoves, Distinct
<1>6. orders' \in [Keys -> OrderView \cup {NoRow}] /\ index' \in [Ids -> Keys \cup {NoKey}]
  BY <1>1, <1>2, <1>4, <1>5
<1>7. submission' \in [LocalIds -> {"none", "submitted", "failed"} \cup Ids]
  BY <1>3
<1>8. TypeOK'
  BY <1>3, <1>6, <1>7, TableTyped DEF IInv, TypeOK
<1>9. RowsInv'
  BY <1>1, <1>2, <1>4, <1>5, Distinct DEF IInv, RowsInv
<1>10. SubmissionsInv'
  BY <1>1, <1>2, <1>3, <1>4, <1>5, Distinct, SubmissionStates DEF IInv, SubmissionsInv
<1>11. NoFillUnannounced'
  BY <1>1, <1>2, <1>3, <1>4, <1>5, Distinct DEF IInv, NoFillUnannounced
<1> QED BY <1>8, <1>9, <1>10, <1>11 DEF IInv

\* Holdings, prices and the stop leave the rows alone.
LEMMA MarketPreserves ==
    ASSUME IInv,
           \/ \E h \in Payloads : UpdateHoldings(h)
           \/ \E s \in Symbols, p \in Payloads : PriceTick(s, p)
           \/ Stop
    PROVE  IInv' /\ UNCHANGED <<orders, index, closes>>
<1>1. UNCHANGED <<orders, index, submission, closes, seenAt, gains>>
  BY DEF UpdateHoldings, PriceTick, Stop, history
<1>2. generation' \in Nat
  BY BumpTyped DEF UpdateHoldings, PriceTick, Stop, IInv, TypeOK
<1>3. holdings' \in Payloads \cup {NoRow} /\ prices' \in [Symbols -> Payloads \cup {NoRow}]
      /\ stopped' \in BOOLEAN
  BY DEF UpdateHoldings, PriceTick, Stop, marketVars, IInv, TypeOK
<1> QED BY <1>1, <1>2, <1>3 DEF IInv, TypeOK, RowsInv, SubmissionsInv, NoFillUnannounced, table

LEMMA IInvStep == ASSUME IInv, [Next]_vars PROVE IInv'
<1>1. ASSUME NEW o \in {x \in Orders : Reportable(x)}, ObserveOrder(o) PROVE IInv'
  BY <1>1, ObservePreserves
<1>2. ASSUME NEW l \in LocalIds, SubmitOptimistic(l) \/ SubmitFailed(l) PROVE IInv'
  BY <1>2, SubmitPreserves
<1>3. ASSUME NEW l \in LocalIds, NEW id \in Ids, Confirm(l, id) PROVE IInv'
  BY <1>3, ConfirmPreserves
<1>4. ASSUME NEW id \in Ids, NEW closing \in {"ClosingCancel", "ClosingModify"},
             OpSubmitted(id, closing)
      PROVE  IInv'
  BY <1>4, OpSubmittedPreserves
<1>5. CASE \/ \E h \in Payloads : UpdateHoldings(h)
           \/ \E s \in Symbols, p \in Payloads : PriceTick(s, p)
           \/ Stop
  BY <1>5, MarketPreserves
<1>6. CASE UNCHANGED vars
  BY <1>6 DEF vars, IInv, TypeOK, RowsInv, SubmissionsInv, NoFillUnannounced, table
<1> QED BY <1>1, <1>2, <1>3, <1>4, <1>5, <1>6 DEF Next

THEOREM Inductive == Spec => []IInv
<1>1. IInv /\ [Next]_vars => IInv'
  BY IInvStep
<1> QED BY <1>1, InitIInv, PTL DEF Spec

----------------------------------------------------------------------------
(* The theorems. *)

\* Every row, index entry and counter keeps its type.
THEOREM TypeCorrect == Spec => []TypeOK
<1>1. IInv => TypeOK
  BY DEF IInv
<1> QED BY <1>1, Inductive, PTL

\* The server index always leads to the row that carries the id, and that row
\* exists: the `expect` of observe_order cannot panic.
THEOREM IndexCorrect == Spec => []IndexRoutesToItsRow
<1>1. IInv => IndexRoutesToItsRow
  BY Distinct DEF IInv, RowsInv, IndexRoutesToItsRow, ServerRow
<1> QED BY <1>1, Inductive, PTL

\* A submission has one row, before and after its answer, in whatever order the
\* answer and the observations of its order come.
THEOREM OneRow == Spec => []OneRowPerSubmission
<1>1. IInv => OneRowPerSubmission
  BY Distinct DEF IInv, SubmissionsInv, OneRowPerSubmission, ProvisionalRow
<1> QED BY <1>1, Inductive, PTL

\* The OPEN set a sweep is compared with misses no tracked order that is open.
THEOREM OpenSet == Spec => []OpenSetIsComplete
<1>1. ASSUME IInv PROVE OpenSetIsComplete
  <2> DEFINE Open == {i \in Ids : index[i] # NoKey /\ ~is_terminal(orders[i].status)}
  <2>1. \A l \in LocalIds : orders[l] # NoRow => orders[l].optimistic
    BY <1>1, Distinct DEF IInv, SubmissionsInv, TypeOK, ProvisionalRow
  <2>2. \A i \in Ids : orders[i] # NoRow =>
            /\ index[i] # NoKey /\ orders[i].server_id = i /\ ~orders[i].optimistic
            /\ is_terminal_row(orders[i]) <=> is_terminal(orders[i].status)
    BY <1>1, Distinct DEF IInv, RowsInv, ServerRow
  <2>3. \A i \in Ids : index[i] # NoKey => orders[i] # NoRow
    BY <1>1 DEF IInv, RowsInv
  <2>4. open_server_ids(orders) \subseteq Open
    BY <2>1, <2>2, Distinct DEF open_server_ids, Keys
  <2>5. Open \subseteq open_server_ids(orders)
    BY <2>2, <2>3, Distinct DEF open_server_ids, Keys
  <2> QED BY <2>4, <2>5 DEF OpenSetIsComplete
<1> QED BY <1>1, Inductive, PTL

\* No fill is shown that no delta told of, for any quantity and any order of
\* observations.
THEOREM FillsAnnounced == Spec => []NoFillUnannounced
<1>1. IInv => NoFillUnannounced
  BY DEF IInv
<1> QED BY <1>1, Inductive, PTL

----------------------------------------------------------------------------
(* The life of an order. *)

\* A step changes the row of at most one order, and never the row of a closed one.
\* That order was not closed; it stays what it was, opens, or closes with one
\* more OrderClosed delta.
OneOrderMoves ==
    \/ closes' = closes /\ \A j \in Ids : orders'[j] = orders[j]
    \/ \E i \in Ids : /\ \A j \in Ids \ {i} : orders'[j] = orders[j]
                      /\ orders[i] # NoRow => ~is_terminal_row(orders[i])
                      /\ orders'[i] # NoRow
                      /\ closes' = [closes EXCEPT ![i] =
                                     @ + (IF is_terminal_row(orders'[i]) THEN 1 ELSE 0)]

LEMMA StepMovesOneOrder == ASSUME IInv, [Next]_vars PROVE OneOrderMoves
<1>1. /\ orders \in [Keys -> OrderView \cup {NoRow}] /\ closes \in [Ids -> Nat]
  BY TableTypes DEF IInv, TypeOK
<1>2. ASSUME NEW o \in {x \in Orders : Reportable(x)}, ObserveOrder(o) PROVE OneOrderMoves
  <2>1. o.id \in Ids /\ o.id \in Keys
    BY Distinct DEF Orders
  <2>2. CASE Latched(o.id)
    BY <2>2 DEF Latched, OneOrderMoves
  <2>3. ASSUME NEW v \in OrderView, Shown(o.id, o, v) PROVE OneOrderMoves
    <3>1. /\ orders' = [orders EXCEPT ![o.id] = v] /\ v # NoRow
          /\ is_terminal_row(v) <=> is_terminal(o.status)
          /\ closes' = [closes EXCEPT ![o.id] = @ + (IF is_terminal(o.status) THEN 1 ELSE 0)]
          /\ orders[o.id] # NoRow => ~is_terminal_row(orders[o.id])
      BY <2>3, Distinct DEF Shown, ServerRow
    <3>2. orders'[o.id] = v /\ \A j \in Ids \ {o.id} : orders'[j] = orders[j]
      BY <1>1, <2>1, <3>1, Distinct
    <3> QED BY <2>1, <3>1, <3>2 DEF OneOrderMoves
  <2> QED BY <1>2, <2>2, <2>3, ObserveEffect
<1>3. ASSUME NEW l \in LocalIds, SubmitOptimistic(l) \/ SubmitFailed(l) PROVE OneOrderMoves
  <2>1. closes' = closes
    BY <1>3 DEF SubmitOptimistic, SubmitFailed
  <2> QED BY <1>1, <1>3, <2>1, SubmitMoves, Distinct DEF OneOrderMoves
<1>4. ASSUME NEW l \in LocalIds, NEW id \in Ids, Confirm(l, id) PROVE OneOrderMoves
  <2>0. closes' = closes /\ l \in Keys /\ id \in Keys /\ l \notin Ids
    BY <1>4, Distinct DEF Confirm
  <2>1. CASE orders' = [orders EXCEPT ![l] = NoRow]
    BY <1>1, <2>0, <2>1, Distinct DEF OneOrderMoves
  <2>2. ASSUME NEW v \in OrderView, orders[id] = NoRow, ~is_terminal_row(v),
               orders' = [orders EXCEPT ![l] = NoRow, ![id] = v]
        PROVE  OneOrderMoves
    <3>1. orders'[id] = v /\ v # NoRow /\ \A j \in Ids \ {id} : orders'[j] = orders[j]
      BY <1>1, <2>0, <2>2, Distinct
    <3>2. closes' = [closes EXCEPT ![id] = @ + 0]
      BY <1>1, <2>0
    <3> QED BY <2>2, <3>1, <3>2 DEF OneOrderMoves
  <2> QED BY <1>4, <2>1, <2>2, ConfirmMoves
<1>5. ASSUME NEW id \in Ids, NEW closing \in {"ClosingCancel", "ClosingModify"},
             OpSubmitted(id, closing)
      PROVE  OneOrderMoves
  <2>0. closes' = closes /\ id \in Keys
    BY <1>5, Distinct DEF OpSubmitted, history
  <2>1. CASE orders' = orders
    BY <2>0, <2>1 DEF OneOrderMoves
  <2>2. ASSUME NEW v \in OrderView, ~is_terminal_row(orders[id]), ~is_terminal_row(v),
               orders' = [orders EXCEPT ![id] = v]
        PROVE  OneOrderMoves
    <3>1. orders'[id] = v /\ v # NoRow /\ \A j \in Ids \ {id} : orders'[j] = orders[j]
      BY <1>1, <2>0, <2>2, Distinct
    <3>2. closes' = [closes EXCEPT ![id] = @ + 0]
      BY <1>1, <2>0
    <3> QED BY <2>2, <3>1, <3>2 DEF OneOrderMoves
  <2> QED BY <1>5, <2>1, <2>2, OpSubmittedMoves
<1>6. CASE \/ \E h \in Payloads : UpdateHoldings(h)
           \/ \E s \in Symbols, p \in Payloads : PriceTick(s, p)
           \/ Stop
  BY <1>6, MarketPreserves DEF OneOrderMoves
<1>7. CASE UNCHANGED vars
  BY <1>7 DEF vars, OneOrderMoves
<1> QED BY <1>2, <1>3, <1>4, <1>5, <1>6, <1>7 DEF Next

\* The row of a closed order never changes again.
THEOREM LatchHolds == Spec => TerminalLatch
<1>1. OneOrderMoves =>
          \A i \in Ids : orders[i] # NoRow /\ is_terminal_row(orders[i]) => orders'[i] = orders[i]
  BY DEF OneOrderMoves
<1>2. IInv /\ [Next]_vars =>
          [\A i \in Ids : orders[i] # NoRow /\ is_terminal_row(orders[i])
                             => orders'[i] = orders[i]]_vars
  BY <1>1, StepMovesOneOrder
<1> QED BY <1>2, Inductive, PTL DEF Spec, TerminalLatch

LEMMA MovesAreTrackings ==
    ASSUME IInv, OneOrderMoves PROVE [Tracking!Next]_(Tracking!vars)
<1> DEFINE phase == [i \in Ids |-> PhaseOf(orders[i])]
<1>1. closes \in [Ids -> Nat]
  BY DEF IInv, TypeOK
<1>2. CASE closes' = closes /\ \A j \in Ids : orders'[j] = orders[j]
  <2>1. phase' = phase
    BY <1>2 DEF PhaseOf
  <2> QED BY <1>2, <2>1 DEF Tracking!vars
<1>3. ASSUME NEW i \in Ids,
             \A j \in Ids \ {i} : orders'[j] = orders[j],
             orders[i] # NoRow => ~is_terminal_row(orders[i]),
             orders'[i] # NoRow,
             closes' = [closes EXCEPT ![i] = @ + (IF is_terminal_row(orders'[i]) THEN 1 ELSE 0)]
      PROVE  [Tracking!Next]_(Tracking!vars)
  <2>1. phase' = [phase EXCEPT ![i] = PhaseOf(orders'[i])]
    <3>1. PhaseOf(orders[i])' = PhaseOf(orders'[i])
      BY DEF PhaseOf, is_terminal_row
    <3>2. \A j \in Ids \ {i} : PhaseOf(orders[j])' = PhaseOf(orders[j])
      BY <1>3 DEF PhaseOf, is_terminal_row
    <3> QED BY <3>1, <3>2
  <2>2. phase[i] \in {"untracked", "open"}
    BY <1>3 DEF PhaseOf
  <2>3. CASE is_terminal_row(orders'[i])
    <3>1. phase' = [phase EXCEPT ![i] = "closed"] /\ closes' = [closes EXCEPT ![i] = @ + 1]
      BY <1>3, <2>1, <2>3 DEF PhaseOf
    <3>2. Tracking!Close(i)
      BY <2>2, <3>1 DEF Tracking!Close
    <3> QED BY <3>2 DEF Tracking!Next
  <2>4. CASE ~is_terminal_row(orders'[i])
    <3>1. phase' = [phase EXCEPT ![i] = "open"] /\ closes' = closes
      BY <1>1, <1>3, <2>1, <2>4 DEF PhaseOf
    <3>2. CASE phase[i] = "untracked"
      BY <3>1, <3>2 DEF Tracking!Next, Tracking!Track
    <3>3. CASE phase[i] = "open"
      <4>1. phase' = phase
        BY <3>1, <3>3
      <4> QED BY <3>1, <4>1 DEF Tracking!vars
    <3> QED BY <2>2, <3>2, <3>3
  <2> QED BY <2>3, <2>4
<1> QED BY <1>2, <1>3 DEF OneOrderMoves

\* The projection implements the life of an order: unknown, open, closed, each
\* end announced exactly once.
THEOREM Refinement == Spec => ImplementsTracking
<1>1. Init => Tracking!Init
  <2> SUFFICES ASSUME Init PROVE Tracking!Init
    OBVIOUS
  <2>1. \A i \in Ids : PhaseOf(orders[i]) = "untracked"
    BY Distinct DEF Init, PhaseOf
  <2> QED BY <2>1 DEF Init, Tracking!Init
<1>2. IInv /\ [Next]_vars => [Tracking!Next]_(Tracking!vars)
  BY StepMovesOneOrder, MovesAreTrackings
<1> QED BY <1>1, <1>2, Inductive, PTL DEF Spec, ImplementsTracking, Tracking!Spec
====
