---- MODULE ProjectedStateProofs ----
(* Lemmas about the operators of the fold, for any sets of orders and         *)
(* submissions and any quantity: what each makes of a well-formed table.      *)
(* ProjectionProofs and ReconcilerProofs rest on them.                        *)
EXTENDS ProjectedState, TLAPS

\* Keys, ids and rows are told apart.
LEMMA Distinct == /\ NoKey \notin Ids /\ NoKey \notin LocalIds
                  /\ \A l \in LocalIds : l \notin Ids
                  /\ Ids \subseteq Keys /\ LocalIds \subseteq Keys
                  /\ \A v \in OrderView : v # NoRow
BY IdsAreDistinct, NoRowIsNoView DEF Keys

----------------------------------------------------------------------------
(* Rows. *)

\* A lifecycle is Closed exactly when the status is terminal.
LEMMA LifecycleFor == ASSUME NEW s \in OrderStatuses
                      PROVE  /\ lifecycle_for(s) \in Lifecycles
                             /\ lifecycle_for(s) = "Closed" <=> is_terminal(s)
BY DEF OrderStatuses, OpenStatuses, TerminalStatuses, Lifecycles, lifecycle_for, is_terminal

\* What from_order makes of a record.
LEMMA FromOrder == ASSUME NEW o \in Orders
                   PROVE  /\ from_order(o) \in OrderView
                          /\ from_order(o).server_id = o.id
                          /\ from_order(o).status = o.status
                          /\ from_order(o).filled = o.filled
                          /\ ~from_order(o).optimistic
                          /\ is_terminal_row(from_order(o)) <=> is_terminal(o.status)
BY LifecycleFor DEF Orders, OrderView, from_order, is_terminal_row

\* absorb leaves the row a first observation would have made.
LEMMA Absorb == ASSUME NEW v \in OrderView, NEW o \in Orders
                PROVE  /\ absorb(v, o) \in OrderView
                       /\ absorb(v, o).server_id = o.id
                       /\ absorb(v, o).status = o.status
                       /\ absorb(v, o).filled = o.filled
                       /\ ~absorb(v, o).optimistic
                       /\ is_terminal_row(absorb(v, o)) <=> is_terminal(o.status)
<1>1. lifecycle_for(o.status) \in Lifecycles
      /\ (lifecycle_for(o.status) = "Closed" <=> is_terminal(o.status))
  BY LifecycleFor DEF Orders
<1> QED BY <1>1 DEF Orders, OrderView, absorb, is_terminal_row

\* A row under a server id carries that id, is never optimistic, and its lifecycle is
\* in step with its status.
ServerRow(i, v) == /\ v \in OrderView
                   /\ v.server_id = i
                   /\ ~v.optimistic
                   /\ is_terminal_row(v) <=> is_terminal(v.status)

\* A row under a submission number is PENDING, unfilled and not closed, which is what
\* makes the row a confirm re-keys an open one.
ProvisionalRow(v) == /\ v \in OrderView
                     /\ v.server_id = NoKey
                     /\ v.optimistic
                     /\ v.status = "PENDING"
                     /\ v.filled = 0
                     /\ v.lifecycle # "Closed"

LEMMA PendingIsOpen == ~is_terminal("PENDING")
BY DEF is_terminal, TerminalStatuses

\* Re-keying a provisional row makes an open, unfilled server row of it.
LEMMA RekeyedRow ==
    ASSUME NEW t, NEW l \in LocalIds, NEW i \in Ids, ProvisionalRow(t.orders[l])
    PROVE  /\ ServerRow(i, Rekeyed(t, l, i))
           /\ Rekeyed(t, l, i).status = "PENDING"
           /\ Rekeyed(t, l, i).filled = 0
           /\ ~is_terminal_row(Rekeyed(t, l, i))
<1>1. "PENDING" \in OrderStatuses
  BY DEF OrderStatuses, OpenStatuses
<1>2. lifecycle_for("PENDING") \in Lifecycles /\ lifecycle_for("PENDING") # "Closed"
  BY <1>1, LifecycleFor, PendingIsOpen
<1> QED BY <1>1, <1>2, PendingIsOpen
        DEF Rekeyed, ProvisionalRow, ServerRow, OrderView, is_terminal_row

----------------------------------------------------------------------------
(* Tables. *)

WellFormedRows(rows) ==
    /\ rows \in [Keys -> OrderView \cup {NoRow}]
    /\ \A i \in Ids : rows[i] # NoRow => ServerRow(i, rows[i])
    /\ \A l \in LocalIds : rows[l] # NoRow => ProvisionalRow(rows[l])

\* The index knows exactly the server ids that have a row, each under itself.
WellFormed(rows, index) ==
    /\ WellFormedRows(rows)
    /\ index \in [Ids -> Keys \cup {NoKey}]
    /\ \A i \in Ids : /\ index[i] \in {NoKey, i}
                      /\ index[i] = i <=> rows[i] # NoRow

\* A server row may be put under any id that is then indexed.
LEMMA PutServerRow ==
    ASSUME NEW rows, NEW index, WellFormed(rows, index), NEW i \in Ids, NEW v, ServerRow(i, v),
           NEW rows2, rows2 = [rows EXCEPT ![i] = v], NEW index2, index2 = [index EXCEPT ![i] = i]
    PROVE  WellFormed(rows2, index2)
<1>1. v \in OrderView /\ v # NoRow /\ i \in Keys
  BY Distinct DEF ServerRow
<1> QED BY <1>1, Distinct DEF WellFormed, WellFormedRows

LEMMA PutLocalRow ==
    ASSUME NEW rows, NEW index, WellFormed(rows, index), NEW l \in LocalIds, NEW v,
           v = NoRow \/ ProvisionalRow(v), NEW rows2, rows2 = [rows EXCEPT ![l] = v]
    PROVE  WellFormed(rows2, index)
<1>1. v \in OrderView \cup {NoRow} /\ l \in Keys
  BY Distinct DEF ProvisionalRow
<1> QED BY <1>1, Distinct DEF WellFormed, WellFormedRows

----------------------------------------------------------------------------
(* What each operation makes of a well-formed table. *)

\* A closed row ignores an observation; otherwise the row shows the record.
Observes(t, o, r) ==
    \/ /\ t.orders[o.id] # NoRow /\ is_terminal_row(t.orders[o.id])
       /\ r.orders = t.orders /\ r.index = t.index
       /\ r.deltas = {} /\ r.gained = 0
    \/ \E v : /\ ServerRow(o.id, v) /\ v.status = o.status /\ v.filled = o.filled
              /\ t.orders[o.id] # NoRow => ~is_terminal_row(t.orders[o.id])
              /\ r.orders = [t.orders EXCEPT ![o.id] = v]
              /\ r.index = [t.index EXCEPT ![o.id] = o.id]

LEMMA ObserveOrderEffect ==
    ASSUME NEW t, WellFormed(t.orders, t.index), NEW o \in Orders
    PROVE  Observes(t, o, observe_order(t, o))
<1> DEFINE i == o.id
           r == observe_order(t, o)
<1>1. i \in Ids /\ i \in Keys
  BY Distinct DEF Orders
<1>2. /\ t.orders \in [Keys -> OrderView \cup {NoRow}] /\ t.index \in [Ids -> Keys \cup {NoKey}]
      /\ t.index[i] \in {NoKey, i} /\ (t.index[i] = i <=> t.orders[i] # NoRow)
      /\ t.orders[i] # NoRow => ServerRow(i, t.orders[i])
  BY <1>1 DEF WellFormed, WellFormedRows
<1>3. CASE t.index[i] # NoKey
  <2>1. /\ t.index[i] = i /\ t.orders[i] # NoRow /\ t.orders[i] \in OrderView
        /\ r = observe_tracked(t, i, o)
    BY <1>2, <1>3 DEF observe_order, ServerRow
  <2>2. CASE is_terminal_row(t.orders[i])
    BY <2>1, <2>2 DEF observe_tracked, Ignored, Observes
  <2>3. CASE ~is_terminal_row(t.orders[i])
    <3> DEFINE v == absorb(t.orders[i], o)
    <3>1. ServerRow(i, v) /\ v.status = o.status /\ v.filled = o.filled
      BY <2>1, Absorb DEF ServerRow
    <3>2. r.orders = [t.orders EXCEPT ![i] = v] /\ r.index = t.index
      BY <2>1, <2>3 DEF observe_tracked
    <3>3. [t.index EXCEPT ![i] = i] = t.index
      BY <1>1, <1>2, <2>1
    <3> HIDE DEF v, r
    <3> QED BY <2>3, <3>1, <3>2, <3>3 DEF Observes, r
  <2> QED BY <2>2, <2>3
<1>4. CASE t.index[i] = NoKey
  <2> DEFINE v == from_order(o)
  <2>1. t.orders[i] = NoRow
    BY <1>1, <1>2, <1>4, Distinct
  <2>2. ServerRow(i, v) /\ v.status = o.status /\ v.filled = o.filled
    BY FromOrder DEF ServerRow
  <2>3. r.orders = [t.orders EXCEPT ![i] = v] /\ r.index = [t.index EXCEPT ![i] = i]
    BY <1>4 DEF observe_order, observe_new
  <2> HIDE DEF v, r
  <2> QED BY <2>1, <2>2, <2>3 DEF Observes, r
<1> QED BY <1>3, <1>4

\* A submission puts a provisional row under its number, and tells of it.
LEMMA SubmitOptimisticEffect ==
    ASSUME NEW t, NEW l \in LocalIds
    PROVE  /\ submit_optimistic(t, l).index = t.index
           /\ submit_optimistic(t, l).deltas # {}
           /\ \E v : /\ ProvisionalRow(v) /\ v.lifecycle = "SubmittingPending"
                     /\ submit_optimistic(t, l).orders = [t.orders EXCEPT ![l] = v]
<1> DEFINE v == [server_id |-> NoKey, status |-> "PENDING", filled |-> 0,
                 optimistic |-> TRUE, lifecycle |-> "SubmittingPending"]
<1>1. ProvisionalRow(v) /\ v.lifecycle = "SubmittingPending"
  BY QtyAssumption DEF ProvisionalRow, OrderView, OrderStatuses, OpenStatuses, Lifecycles
<1>2. /\ submit_optimistic(t, l).index = t.index
      /\ submit_optimistic(t, l).deltas # {}
      /\ submit_optimistic(t, l).orders = [t.orders EXCEPT ![l] = v]
  BY DEF submit_optimistic
<1> QED BY <1>1, <1>2

\* A failure closes the provisional row, if there is one, as rejected.
LEMMA SubmitFailedEffect ==
    ASSUME NEW t, NEW l \in LocalIds, ProvisionalRow(t.orders[l])
    PROVE  /\ submit_failed(t, l).index = t.index
           /\ \E v : /\ ProvisionalRow(v) /\ v.lifecycle = "SubmitRejected"
                     /\ submit_failed(t, l).orders = [t.orders EXCEPT ![l] = v]
<1> DEFINE v == [t.orders[l] EXCEPT !.lifecycle = "SubmitRejected"]
<1>1. ProvisionalRow(v) /\ v.lifecycle = "SubmitRejected"
  BY DEF ProvisionalRow, OrderView, Lifecycles
<1>2. t.orders[l] # NoRow
  BY Distinct DEF ProvisionalRow
<1>3. submit_failed(t, l).orders = [t.orders EXCEPT ![l] = v]
      /\ submit_failed(t, l).index = t.index
  BY <1>2 DEF submit_failed
<1> HIDE DEF v
<1> QED BY <1>1, <1>3

\* The answer to a create drops the provisional row, and moves it to the server id
\* when no observation of that id came first.
Confirms(t, l, i, r) ==
    \/ /\ t.orders[i] # NoRow
       /\ r.orders = [t.orders EXCEPT ![l] = NoRow] /\ r.index = t.index
    \/ \E v : /\ t.orders[i] = NoRow
              /\ ServerRow(i, v) /\ v.status = "PENDING" /\ v.filled = 0 /\ ~is_terminal_row(v)
              /\ r.orders = [t.orders EXCEPT ![l] = NoRow, ![i] = v]
              /\ r.index = [t.index EXCEPT ![i] = i]

LEMMA ConfirmEffect ==
    ASSUME NEW t, WellFormed(t.orders, t.index), NEW l \in LocalIds, NEW i \in Ids,
           ProvisionalRow(t.orders[l])
    PROVE  Confirms(t, l, i, confirm(t, l, i))
<1>1. t.orders[l] # NoRow /\ (t.index[i] = NoKey <=> t.orders[i] = NoRow)
  BY Distinct DEF ProvisionalRow, WellFormed
<1>2. CASE t.index[i] # NoKey
  BY <1>1, <1>2 DEF confirm, Confirms
<1>3. CASE t.index[i] = NoKey
  <2> DEFINE v == Rekeyed(t, l, i)
  <2>1. ServerRow(i, v) /\ v.status = "PENDING" /\ v.filled = 0 /\ ~is_terminal_row(v)
    BY RekeyedRow
  <2>2. /\ confirm(t, l, i).orders = [t.orders EXCEPT ![l] = NoRow, ![i] = v]
        /\ confirm(t, l, i).index = [t.index EXCEPT ![i] = i]
    BY <1>1, <1>3 DEF confirm
  <2> HIDE DEF v
  <2> QED BY <1>1, <1>3, <2>1, <2>2 DEF Confirms
<1> QED BY <1>2, <1>3

\* An operation taken for an order leaves its row an open server row of the same
\* status and fill, and a closed or absent row alone.
MarksClosing(t, i, r) ==
    /\ r.index = t.index
    /\ \/ r.orders = t.orders
       \/ \E v : /\ t.orders[i] # NoRow /\ ~is_terminal_row(t.orders[i])
                 /\ ServerRow(i, v) /\ ~is_terminal_row(v)
                 /\ v.status = t.orders[i].status /\ v.filled = t.orders[i].filled
                 /\ r.orders = [t.orders EXCEPT ![i] = v]

LEMMA OpSubmittedEffect ==
    ASSUME NEW t, WellFormed(t.orders, t.index), NEW i \in Ids,
           NEW c \in {"ClosingCancel", "ClosingModify"}
    PROVE  MarksClosing(t, i, op_submitted(t, i, c))
<1> DEFINE r == op_submitted(t, i, c)
<1>1. t.index[i] \in {NoKey, i} /\ (t.index[i] = i <=> t.orders[i] # NoRow)
  BY DEF WellFormed
<1>2. r.index = t.index
  BY DEF op_submitted, Ignored
<1>3. CASE t.index[i] = NoKey \/ is_terminal_row(t.orders[i])
  BY <1>1, <1>2, <1>3 DEF op_submitted, Ignored, MarksClosing
<1>4. CASE t.index[i] # NoKey /\ ~is_terminal_row(t.orders[i])
  <2> DEFINE v == [t.orders[i] EXCEPT !.lifecycle = c]
  <2>1. t.index[i] = i /\ t.orders[i] # NoRow /\ ServerRow(i, t.orders[i])
    BY <1>1, <1>4 DEF WellFormed, WellFormedRows
  <2>2. r.orders = [t.orders EXCEPT ![i] = v]
    BY <1>4, <2>1 DEF op_submitted
  <2>3. /\ ServerRow(i, v) /\ ~is_terminal_row(v)
        /\ v.status = t.orders[i].status /\ v.filled = t.orders[i].filled
    BY <1>4, <2>1 DEF ServerRow, OrderView, Lifecycles, is_terminal_row
  <2> HIDE DEF v, r
  <2> QED BY <1>2, <1>4, <2>1, <2>2, <2>3 DEF MarksClosing, r
<1> QED BY <1>3, <1>4
====
