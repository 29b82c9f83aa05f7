---- MODULE Projection ----
(* `ProjectedState` under every legal sequence of calls: observations of any  *)
(* order in any order (stale, duplicated and reordered ones included), and    *)
(* for each submission one `submit_optimistic` followed by at most one        *)
(* `confirm` or `submit_failed`, as the pump issues them.                     *)
EXTENDS ProjectedState

CONSTANTS Symbols,        \* symbols whose price is polled
          Payloads,       \* contents of a holdings overview or of a price
          MaxGeneration   \* bound on the applied changes TLC explores

ASSUME MaxGenerationAssumption == MaxGeneration \in Nat
ASSUME SubmissionStatesAreNoIds == {"none", "submitted", "failed"} \cap Ids = {}

VARIABLES orders,      \* the rows, by correlation key
          index,       \* server_index
          holdings,    \* latest overview, NoRow before the first
          prices,      \* latest price of each symbol, NoRow before the first
          generation,  \* the counter of applied changes
          stopped,     \* stop() ran
          submission,  \* history: what became of each submission; an id once confirmed
          closes,      \* history: id -> OrderClosed deltas returned for it
          seenAt,      \* history: id -> fill of its row when the row appeared
          gains        \* history: id -> sum of its FillAdded deltas

table == [orders |-> orders, index |-> index]
tableVars == <<orders, index>>
marketVars == <<holdings, prices>>
history == <<submission, closes, seenAt, gains>>
vars == <<orders, index, holdings, prices, generation, stopped,
          submission, closes, seenAt, gains>>

TypeOK ==
    /\ table \in Tables
    /\ holdings \in Payloads \cup {NoRow}
    /\ prices \in [Symbols -> Payloads \cup {NoRow}]
    /\ generation \in Nat
    /\ stopped \in BOOLEAN
    /\ submission \in [LocalIds -> {"none", "submitted", "failed"} \cup Ids]
    /\ closes \in [Ids -> Nat]
    /\ seenAt \in [Ids -> 0..Qty]
    /\ gains \in [Ids -> Nat]

\* Records a broker can report: the fill a status allows (OrderStatus's doc and
\* the status table of DESIGN.md). Fills of the other statuses are unrestricted.
Reportable(o) ==
    /\ o.status = "PENDING" => o.filled = 0
    /\ o.status = "PARTIAL_FILLED" => o.filled \in 1..(Qty - 1)
    /\ o.status = "FILLED" => o.filled = Qty

Init ==
    /\ orders = [k \in Keys |-> NoRow]
    /\ index = [i \in Ids |-> NoKey]
    /\ holdings = NoRow
    /\ prices = [s \in Symbols |-> NoRow]
    /\ generation = 0
    /\ stopped = FALSE
    /\ submission = [l \in LocalIds |-> "none"]
    /\ closes = [i \in Ids |-> 0]
    /\ seenAt = [i \in Ids |-> 0]
    /\ gains = [i \in Ids |-> 0]

bump(deltas) == generation' = IF deltas = {} THEN generation ELSE generation + 1

Commit(r) == /\ orders' = r.orders
             /\ index' = r.index
             /\ bump(r.deltas)
             /\ UNCHANGED <<holdings, prices, stopped>>

ObserveOrder(o) ==
    LET r == observe_order(table, o)
    IN  /\ generation < MaxGeneration
        /\ Commit(r)
        /\ closes' = [closes EXCEPT ![o.id] = @ + (IF "OrderClosed" \in r.deltas THEN 1 ELSE 0)]
        /\ seenAt' = IF index[o.id] = NoKey THEN [seenAt EXCEPT ![o.id] = o.filled] ELSE seenAt
        /\ gains' = [gains EXCEPT ![o.id] = @ + r.gained]
        /\ UNCHANGED submission

SubmitOptimistic(l) ==
    /\ generation < MaxGeneration
    /\ submission[l] = "none"
    /\ Commit(submit_optimistic(table, l))
    /\ submission' = [submission EXCEPT ![l] = "submitted"]
    /\ UNCHANGED <<closes, seenAt, gains>>

\* The broker answers each create with an id of its own.
Confirm(l, id) ==
    /\ generation < MaxGeneration
    /\ submission[l] = "submitted"
    /\ \A m \in LocalIds : submission[m] # id
    /\ Commit(confirm(table, l, id))
    /\ submission' = [submission EXCEPT ![l] = id]
    /\ UNCHANGED <<closes, seenAt, gains>>

SubmitFailed(l) ==
    /\ generation < MaxGeneration
    /\ submission[l] = "submitted"
    /\ Commit(submit_failed(table, l))
    /\ submission' = [submission EXCEPT ![l] = "failed"]
    /\ UNCHANGED <<closes, seenAt, gains>>

OpSubmitted(id, closing) ==
    /\ generation < MaxGeneration
    /\ Commit(op_submitted(table, id, closing))
    /\ UNCHANGED history

UpdateHoldings(h) ==
    /\ generation < MaxGeneration
    /\ holdings' = h
    /\ bump({"HoldingsUpdated"})
    /\ UNCHANGED <<orders, index, prices, stopped, history>>

PriceTick(s, p) ==
    /\ generation < MaxGeneration
    /\ prices' = [prices EXCEPT ![s] = p]
    /\ bump({"PriceUpdated"})
    /\ UNCHANGED <<orders, index, holdings, stopped, history>>

Stop ==
    /\ generation < MaxGeneration
    /\ ~stopped
    /\ stopped' = TRUE
    /\ bump({"Stopped"})
    /\ UNCHANGED <<orders, index, marketVars, history>>

Next ==
    \/ \E o \in {x \in Orders : Reportable(x)} : ObserveOrder(o)
    \/ \E l \in LocalIds : SubmitOptimistic(l) \/ SubmitFailed(l)
    \/ \E l \in LocalIds, id \in Ids : Confirm(l, id)
    \/ \E id \in Ids, closing \in {"ClosingCancel", "ClosingModify"} : OpSubmitted(id, closing)
    \/ \E h \in Payloads : UpdateHoldings(h)
    \/ \E s \in Symbols, p \in Payloads : PriceTick(s, p)
    \/ Stop

Spec == Init /\ [][Next]_vars

----------------------------------------------------------------------------
(* Properties. *)

\* An indexed id leads to its own row: the `expect("indexed key exists")` of
\* observe_order never panics, and no row carries an id it is not indexed under.
IndexRoutesToItsRow ==
    \A i \in Ids : /\ index[i] \in {NoKey, i}
                   /\ index[i] = i <=> orders[i] # NoRow
                   /\ index[i] = i => orders[i].server_id = i

\* A submission shows exactly one row at any time: its provisional row until the
\* answer, then the server row alone, whether or not a sweep saw the order first.
OneRowPerSubmission ==
    \A l \in LocalIds :
        /\ submission[l] \in Ids => orders[l] = NoRow /\ orders[submission[l]] # NoRow
        /\ submission[l] = "none" => orders[l] = NoRow
        /\ submission[l] \in {"submitted", "failed"} =>
               orders[l] # NoRow /\ orders[l].server_id = NoKey /\ orders[l].optimistic

\* The set the driver diffs a sweep against holds every tracked order that has not
\* closed, whatever path its row took: one left out would never be fetched again.
OpenSetIsComplete ==
    open_server_ids(orders) =
        {i \in Ids : index[i] # NoKey /\ ~is_terminal(orders[i].status)}

\* Every unit a row shows as filled was there when the row appeared or has been
\* announced by a FillAdded, even when observations arrive stale and reordered.
NoFillUnannounced ==
    \A i \in Ids : orders[i] # NoRow => orders[i].filled <= seenAt[i] + gains[i]

\* The terminal latch: no call changes the row of a closed order.
TerminalLatch ==
    [][\A i \in Ids : orders[i] # NoRow /\ is_terminal_row(orders[i]) => orders'[i] = orders[i]]_vars

\* The rows and the OrderClosed deltas implement the life of an order: forward
\* only, one order per call, each end announced exactly once.
PhaseOf(view) == IF view = NoRow THEN "untracked"
                 ELSE IF is_terminal_row(view) THEN "closed" ELSE "open"

Tracking == INSTANCE OrderTracking WITH phase <- [i \in Ids |-> PhaseOf(orders[i])]

ImplementsTracking == Tracking!Spec
====
