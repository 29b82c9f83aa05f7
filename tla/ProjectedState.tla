---- MODULE ProjectedState ----
(* The pure fold of core/state.rs: every mutation of `ProjectedState` as an   *)
(* operator from a table of rows to the new table and the deltas the caller   *)
(* receives. There is no I/O and no order of calls here: Projection.tla and   *)
(* Reconciler.tla say who calls what, when.                                   *)
(*                                                                            *)
(* A table is [orders, index]: `orders` maps a correlation key to its row or  *)
(* to NoRow, `index` is `server_index`, the routing from a server id to the   *)
(* key of its row or NoKey. An OrderKey::Server(id) is the id itself and an   *)
(* OrderKey::Local(n) is the number n of the submission. Symbols, sides,      *)
(* prices, currencies, links and the row's revision are payload nothing in    *)
(* the crate branches on, and are left out.                                   *)
(*                                                                            *)
(* Operators under "Faults" are plausible bugs, each a variant of an operator *)
(* defined after it; the README says which property catches which.            *)
EXTENDS OrderStatus, Naturals

CONSTANTS Ids,        \* server order ids
          LocalIds,   \* submission numbers minted by `create_order`
          Qty,        \* the quantity of an order; fills count up to it
          NoRow,      \* no row under this key
          NoKey       \* no server id / not indexed

ASSUME IdsAreDistinct == /\ Ids \cap LocalIds = {}
                         /\ NoKey \notin Ids \cup LocalIds
ASSUME QtyAssumption == Qty \in Nat

Keys == Ids \cup LocalIds

\* A broker record as `Order` carries it.
Orders == [id : Ids, status : OrderStatuses, filled : 0..Qty]

OrderView == [server_id : Ids \cup {NoKey}, status : OrderStatuses,
              lifecycle : Lifecycles, filled : 0..Qty, optimistic : BOOLEAN]

ASSUME NoRowIsNoView == NoRow \notin OrderView

Tables == [orders : [Keys -> OrderView \cup {NoRow}], index : [Ids -> Keys \cup {NoKey}]]

\* The kinds of `Delta` about orders; the key of each is the key of the call.
DeltaKinds == {"OrderUpserted", "FillAdded", "OrderClosed", "OrderSubmitted",
               "OrderConfirmed", "SubmitFailed", "OpSubmitted"}

is_terminal_row(view) == view.lifecycle = "Closed"

is_working(view) == view.lifecycle \in {"Working", "ClosingCancel", "ClosingModify"}

from_order(o) == [server_id |-> o.id, status |-> o.status, filled |-> o.filled,
                  optimistic |-> FALSE, lifecycle |-> lifecycle_for(o.status)]

\* Faults: the fill is not copied; the fill is taken for an increment.
absorb_without_fill(view, o) ==
    [view EXCEPT !.status = o.status, !.lifecycle = lifecycle_for(o.status)]
absorb_adding(view, o) ==
    [view EXCEPT !.status = o.status, !.filled = @ + o.filled,
                 !.lifecycle = lifecycle_for(o.status)]

absorb(view, o) == [view EXCEPT !.server_id = o.id, !.status = o.status,
                                !.filled = o.filled, !.optimistic = FALSE,
                                !.lifecycle = lifecycle_for(o.status)]

\* A call that returns no delta and leaves the table alone.
Ignored(t) == [orders |-> t.orders, index |-> t.index, deltas |-> {}, gained |-> 0]

\* The ids the driver expects to find again in an OPEN sweep.
open_server_ids(orders) ==
    {orders[k].server_id : k \in {j \in Keys : /\ orders[j] # NoRow
                                               /\ ~is_terminal_row(orders[j])
                                               /\ ~orders[j].optimistic}} \ {NoKey}

\* Faults: no terminal latch; a fill is announced only when the status is the
\* same; nothing is absorbed from an observation that announces nothing.
observe_tracked_unlatched(t, key, o) ==
    [orders |-> [t.orders EXCEPT ![key] = absorb(t.orders[key], o)], index |-> t.index,
     gained |-> 0, deltas |-> {"OrderUpserted"}]
observe_tracked_quiet_fill(t, key, o) ==
    LET prev == t.orders[key]
    IN  IF is_terminal_row(prev) THEN Ignored(t)
        ELSE [orders |-> [t.orders EXCEPT ![key] = absorb(prev, o)], index |-> t.index,
              gained |-> IF o.status = prev.status /\ o.filled > prev.filled
                         THEN o.filled - prev.filled ELSE 0,
              deltas |-> {"OrderUpserted"}]
observe_tracked_unabsorbed(t, key, o) ==
    LET prev == t.orders[key]
    IN  IF is_terminal_row(prev) \/ (o.status = prev.status /\ o.filled <= prev.filled)
        THEN Ignored(t)
        ELSE [orders |-> [t.orders EXCEPT ![key] = absorb(prev, o)], index |-> t.index,
              gained |-> 0, deltas |-> {"OrderUpserted"}]

observe_tracked(t, key, o) ==
    LET prev == t.orders[key]
    IN  IF is_terminal_row(prev) THEN Ignored(t)
        ELSE [orders |-> [t.orders EXCEPT ![key] = absorb(prev, o)],
              index  |-> t.index,
              gained |-> IF o.filled > prev.filled THEN o.filled - prev.filled ELSE 0,
              deltas |-> (IF o.filled > prev.filled THEN {"FillAdded"} ELSE {})
                         \cup (IF o.status # prev.status THEN {"OrderUpserted"} ELSE {})
                         \cup (IF o.status # prev.status /\ is_terminal(o.status)
                               THEN {"OrderClosed"} ELSE {})]

\* Fault: an order first seen closed is not announced as closed.
observe_new_unannounced(t, o) ==
    [orders |-> [t.orders EXCEPT ![o.id] = from_order(o)],
     index |-> [t.index EXCEPT ![o.id] = o.id], gained |-> 0, deltas |-> {"OrderUpserted"}]

observe_new(t, o) ==
    [orders |-> [t.orders EXCEPT ![o.id] = from_order(o)],
     index  |-> [t.index EXCEPT ![o.id] = o.id],
     gained |-> 0,
     deltas |-> {"OrderUpserted"}
                \cup (IF is_terminal_row(from_order(o)) THEN {"OrderClosed"} ELSE {})]

observe_order(t, o) == IF t.index[o.id] # NoKey THEN observe_tracked(t, t.index[o.id], o)
                                                ELSE observe_new(t, o)

\* Fault: the row takes the submission number for a server id.
submit_optimistic_keyed(t, l) ==
    [orders |-> [t.orders EXCEPT ![l] =
                    [server_id |-> l, status |-> "PENDING", filled |-> 0,
                     optimistic |-> TRUE, lifecycle |-> "SubmittingPending"]],
     index |-> t.index, gained |-> 0, deltas |-> {"OrderSubmitted"}]

submit_optimistic(t, l) ==
    [orders |-> [t.orders EXCEPT ![l] =
                    [server_id |-> NoKey, status |-> "PENDING", filled |-> 0,
                     optimistic |-> TRUE, lifecycle |-> "SubmittingPending"]],
     index  |-> t.index,
     gained |-> 0,
     deltas |-> {"OrderSubmitted"}]

\* A provisional row, once the server id of its order is known.
Rekeyed(t, l, id) == [t.orders[l] EXCEPT !.server_id = id, !.optimistic = FALSE,
                                         !.lifecycle = lifecycle_for(t.orders[l].status)]

\* Faults: the server row is not indexed; the row stays optimistic; the local row
\* survives when the server row came first; the server row is overwritten then.
confirm_unindexed(t, l, id) ==
    [orders |-> [t.orders EXCEPT ![l] = NoRow, ![id] = Rekeyed(t, l, id)],
     index |-> t.index, gained |-> 0, deltas |-> {"OrderConfirmed"}]
confirm_still_optimistic(t, l, id) ==
    IF t.index[id] # NoKey
    THEN [orders |-> [t.orders EXCEPT ![l] = NoRow], index |-> t.index,
          gained |-> 0, deltas |-> {"OrderConfirmed"}]
    ELSE [orders |-> [t.orders EXCEPT ![l] = NoRow,
                                      ![id] = [Rekeyed(t, l, id) EXCEPT !.optimistic = TRUE]],
          index |-> [t.index EXCEPT ![id] = id], gained |-> 0, deltas |-> {"OrderConfirmed"}]
confirm_keeping_local(t, l, id) ==
    IF t.index[id] # NoKey
    THEN [orders |-> t.orders, index |-> t.index, gained |-> 0, deltas |-> {"OrderConfirmed"}]
    ELSE [orders |-> [t.orders EXCEPT ![l] = NoRow, ![id] = Rekeyed(t, l, id)],
          index |-> [t.index EXCEPT ![id] = id], gained |-> 0, deltas |-> {"OrderConfirmed"}]
confirm_overwriting(t, l, id) ==
    [orders |-> [t.orders EXCEPT ![l] = NoRow, ![id] = Rekeyed(t, l, id)],
     index |-> [t.index EXCEPT ![id] = id], gained |-> 0, deltas |-> {"OrderConfirmed"}]

\* Re-key a row from its submission number to the server id. When an observation
\* of that id came first its row stays and the local one is dropped.
confirm(t, l, id) ==
    IF t.index[id] # NoKey
    THEN [orders |-> [t.orders EXCEPT ![l] = NoRow], index |-> t.index,
          gained |-> 0, deltas |-> {"OrderConfirmed"}]
    ELSE IF t.orders[l] = NoRow THEN Ignored(t)
    ELSE [orders |-> [t.orders EXCEPT
                        ![l]  = NoRow,
                        ![id] = Rekeyed(t, l, id)],
          index  |-> [t.index EXCEPT ![id] = id],
          gained |-> 0,
          deltas |-> {"OrderConfirmed"}]

\* The row keeps `optimistic`, and a failure without a row is announced too.
submit_failed(t, l) ==
    [orders |-> IF t.orders[l] = NoRow THEN t.orders
                ELSE [t.orders EXCEPT ![l].lifecycle = "SubmitRejected"],
     index  |-> t.index,
     gained |-> 0,
     deltas |-> {"SubmitFailed"}]

\* The row of a tracked id shows Closing until an observation says otherwise.
op_submitted(t, id, closing) ==
    LET key == t.index[id]
    IN  IF key = NoKey THEN Ignored(t)
        ELSE [orders |-> IF t.orders[key] = NoRow THEN t.orders
                         ELSE IF is_terminal_row(t.orders[key]) THEN t.orders
                         ELSE [t.orders EXCEPT ![key].lifecycle = closing],
              index  |-> t.index,
              gained |-> 0,
              deltas |-> {"OpSubmitted"}]
====
