---- MODULE Reconciler ----
(* The reconciler of tossinvest-state/runtime.rs over the orders lane: the    *)
(* pump with its command queue and sweep timer, the detached tasks it spawns  *)
(* (sweeps, creates, cancels, refreshes, requests for prices and holdings)    *)
(* and their HTTP exchanges with a broker that moves on its own, the          *)
(* canonical table and the published snapshot, and shutdown. The table        *)
(* operations are those of ProjectedState. A snapshot is the whole state, so  *)
(* an apply of prices or holdings publishes the orders too: that is all that  *)
(* is kept of those lanes (module Lanes has their demand). Wake and           *)
(* DemandChanged, whose handler does nothing, are left out. Actions under     *)
(* "Fault" are plausible bugs, each a variant of the action after it.         *)
EXTENDS ProjectedState, Sequences, FiniteSets

CONSTANTS Sweepers,    \* bound: sweeps that may be in flight at once
          Cancels,     \* bound: cancel_order calls of the program's users
          Refreshes,   \* bound: refresh calls
          Fetches,     \* bound: requests of sweeps for prices or holdings out at once
          MaxCalls,    \* bound: calls of users altogether, of any kind but shutdown
          MayStop,     \* whether a user may call shutdown
          None         \* no broker record, no pending snapshot

ASSUME UsersAssumption == MayStop \in BOOLEAN /\ MaxCalls \in Nat

\* The targets of a refresh but for one order; those of prices are like "Holdings".
Lots == {"Orders", "All", "Holdings"}

ASSUME LotsAssumption == Lots \cap Ids = {}

Market == INSTANCE Broker

Snapshots == [orders : [Keys -> OrderView \cup {NoRow}], stopped : BOOLEAN]

ASSUME NoneAssumption == None \notin Market!BrokerRecords \cup Snapshots

VARIABLES
    broker,      \* id -> the broker's record, None before it exists
    orders,      \* rows of the canonical copy (Store.write)
    index,       \* server_index of the canonical copy
    stopped,     \* `stopped` of the canonical copy
    published,   \* the snapshot readers load: [orders, stopped]
    pump,        \* "running", "stopping" or "stopped"
    batch,       \* observations of the command the pump is handling, in two lots
    pumpClone,   \* snapshot the pump folded and has yet to publish, or None
    queue,       \* the command channel
    cancelled,   \* the cancellation token
    sweep,       \* sweep task slot -> its state
    create,      \* submission -> its state
    cancel,      \* cancel call -> its state
    refresh,     \* refresh call -> its state
    fetch        \* slot of a request for prices or holdings -> its state

canonVars == <<orders, index, stopped>>
pumpVars == <<pump, batch, pumpClone, cancelled>>
taskVars == <<sweep, create, cancel, refresh, fetch>>
vars == <<broker, orders, index, stopped, published, pump, batch, pumpClone,
          queue, cancelled, sweep, create, cancel, refresh, fetch>>

table == [orders |-> orders, index |-> index]
NoBatch == [page |-> {}, dropped |-> {}]
Idle == [stage |-> "idle"]

\* The record of an order as a response carries it, read at the broker now.
Observed(i) == [id |-> i, status |-> broker[i].status, filled |-> broker[i].filled]

Known == {i \in Ids : broker[i] # None}
OpenPage == {Observed(i) : i \in {j \in Known : is_open(broker[j].status)}}

Init ==
    /\ broker = [i \in Ids |-> None]
    /\ orders = [k \in Keys |-> NoRow]
    /\ index = [i \in Ids |-> NoKey]
    /\ stopped = FALSE
    /\ published = [orders |-> orders, stopped |-> FALSE]
    /\ pump = "running"
    /\ batch = NoBatch
    /\ pumpClone = None
    /\ queue = <<>>
    /\ cancelled = FALSE
    /\ sweep = [s \in Sweepers |-> Idle]
    /\ create = [l \in LocalIds |-> Idle]
    /\ cancel = [c \in Cancels |-> Idle]
    /\ refresh = [r \in Refreshes |-> Idle]
    /\ fetch = [f \in Fetches |-> Idle]

\* A send after the pump has dropped its receiver is an error every caller ignores.
Send(command) == queue' = IF pump = "stopped" THEN queue ELSE Append(queue, command)

----------------------------------------------------------------------------
(* The broker and the program's users. *)

\* Orders entered outside this program appear too, and every order moves.
BrokerStep ==
    /\ \E i \in Ids :
          \/ broker[i] = None /\ \E o \in Market!Entries : broker' = [broker EXCEPT ![i] = o]
          \/ broker[i] # None /\ \E o \in Market!BrokerMoves(broker[i]) :
                                     broker' = [broker EXCEPT ![i] = o]
    /\ UNCHANGED <<canonVars, published, pumpVars, queue, taskVars>>

MayCall ==
    MaxCalls > Cardinality({l \in LocalIds : create[l] # Idle})
               + Cardinality({c \in Cancels : cancel[c] # Idle})
               + Cardinality({r \in Refreshes : refresh[r] # Idle})

create_order(l) ==
    /\ MayCall
    /\ create[l] = Idle
    /\ create' = [create EXCEPT ![l] = [stage |-> "queued"]]
    /\ Send([command |-> "Submit", local |-> l])
    /\ UNCHANGED <<broker, canonVars, published, pumpVars, sweep, cancel, refresh, fetch>>

cancel_order(c, i) ==
    /\ MayCall
    /\ cancel[c] = Idle
    /\ broker[i] # None
    /\ cancel' = [cancel EXCEPT ![c] = [stage |-> "queued", id |-> i]]
    /\ Send([command |-> "Cancel", call |-> c])
    /\ UNCHANGED <<broker, canonVars, published, pumpVars, sweep, create, refresh, fetch>>

request_refresh(r, target) ==
    /\ MayCall
    /\ refresh[r] = Idle
    /\ target \in Ids => broker[target] # None
    /\ refresh' = [refresh EXCEPT ![r] = [stage |-> "queued", target |-> target]]
    /\ Send([command |-> "Refresh", call |-> r])
    /\ UNCHANGED <<broker, canonVars, published, pumpVars, sweep, create, cancel, fetch>>

shutdown ==
    /\ MayStop
    /\ ~cancelled
    /\ cancelled' = TRUE
    /\ UNCHANGED <<broker, canonVars, published, pump, batch, pumpClone, queue, taskVars>>

----------------------------------------------------------------------------
\* The tier of the sweep timer; the rate floor of the group only lengthens it.
compute_cadence(rows) ==
    LET present == {rows[k] : k \in {j \in Keys : rows[j] # NoRow}}
    IN  CASE \E v \in present : v.optimistic \/ v.lifecycle \in {"ClosingCancel", "ClosingModify"}
                                        -> "hot"
          [] \A v \in present : ~v.optimistic /\ ~is_working(v) -> "idle"
          [] OTHER -> "working"

(* The pump. Its select! is biased: cancellation first, then a command, then  *)
(* the timer. A handler runs to its end between two selects.                  *)

Selecting == pump = "running" /\ batch = NoBatch /\ pumpClone = None

\* Store::apply by the pump, up to the release of the mutex.
Fold(r) ==
    /\ orders' = r.orders
    /\ index' = r.index
    /\ pumpClone' = IF r.deltas = {} THEN None ELSE [orders |-> r.orders, stopped |-> stopped]

\* The clone of an apply that touches no order: price_tick, update_holdings.
CurrentState == [orders |-> orders, stopped |-> stopped]

\* The rest of that apply. A task spawned after it may now run.
Released(task) == IF task.stage = "folded" THEN [task EXCEPT !.stage = "sent"] ELSE task
PumpPublish ==
    /\ pumpClone # None
    /\ published' = pumpClone
    /\ pumpClone' = None
    /\ create' = [l \in LocalIds |-> Released(create[l])]
    /\ cancel' = [c \in Cancels |-> Released(cancel[c])]
    /\ pump' = IF pump = "stopping" THEN "stopped" ELSE pump
    /\ UNCHANGED <<broker, canonVars, batch, queue, cancelled, sweep, refresh, fetch>>

PumpStop ==
    /\ Selecting
    /\ cancelled
    /\ pump' = "stopping"
    /\ stopped' = TRUE
    /\ pumpClone' = [orders |-> orders, stopped |-> TRUE]
    /\ UNCHANGED <<broker, orders, index, published, batch, queue, cancelled, taskVars>>

\* Fault: nothing is polled while nothing is tracked.
Tick_NotWhenIdle ==
    /\ Selecting
    /\ ~cancelled
    /\ queue = <<>>
    /\ compute_cadence(published.orders) # "idle"
    /\ \E s \in Sweepers : sweep[s] = Idle
    /\ queue' = <<[command |-> "StartSweep"]>>
    /\ UNCHANGED <<broker, canonVars, published, pumpVars, taskVars>>

\* The timer is armed anew by every select and only fires with no command waiting,
\* so at most one StartSweep is queued. It needs a free task slot (bound).
Tick ==
    /\ Selecting
    /\ ~cancelled
    /\ queue = <<>>
    /\ \E s \in Sweepers : sweep[s] = Idle
    /\ queue' = <<[command |-> "StartSweep"]>>
    /\ UNCHANGED <<broker, canonVars, published, pumpVars, taskVars>>

Receive(command) ==
    /\ Selecting
    /\ ~cancelled
    /\ queue # <<>>
    /\ Head(queue).command = command
    /\ queue' = Tail(queue)

spawn_sweep(s) ==
    sweep' = [sweep EXCEPT ![s] = [stage |-> "list",
                                   before |-> open_server_ids(published.orders)]]

\* Each a request in a free slot, or none: whether somebody asks is for Lanes to say.
spawn_prices_and_holdings ==
    \E p, h \in {f \in Fetches : fetch[f] = Idle} \cup {None} :
        /\ p = h => p = None
        /\ fetch' = [f \in Fetches |-> CASE f = p -> [stage |-> "prices"]
                                          [] f = h -> [stage |-> "holdings"]
                                          [] OTHER -> fetch[f]]

StartSweep(s) ==
    /\ Receive("StartSweep")
    /\ sweep[s] = Idle
    /\ spawn_sweep(s)
    /\ spawn_prices_and_holdings
    /\ UNCHANGED <<broker, canonVars, published, pumpVars, create, cancel, refresh>>

ReceiveSweepDone ==
    /\ Receive("SweepDone")
    /\ batch' = [page |-> Head(queue).orders, dropped |-> Head(queue).dropped]
    /\ UNCHANGED <<broker, canonVars, published, pump, pumpClone, cancelled, taskVars>>

\* One observation of a SweepDone: those of the page first, then the dropped ones.
PumpObserve(o) ==
    /\ batch # NoBatch /\ pumpClone = None
    /\ \/ o \in batch.page /\ batch' = [batch EXCEPT !.page = @ \ {o}]
       \/ batch.page = {} /\ o \in batch.dropped /\ batch' = [batch EXCEPT !.dropped = @ \ {o}]
    /\ Fold(observe_order(table, o))
    /\ UNCHANGED <<broker, stopped, published, pump, queue, cancelled, taskVars>>

ReceiveObserved ==
    /\ Receive("Observed")
    /\ Fold(observe_order(table, Head(queue).order))
    /\ UNCHANGED <<broker, stopped, published, pump, batch, cancelled, taskVars>>

ReceiveSubmit ==
    /\ Receive("Submit")
    /\ LET l == Head(queue).local
       IN  /\ Fold(submit_optimistic(table, l))
           /\ create' = [create EXCEPT ![l] = [stage |-> "folded"]]
    /\ UNCHANGED <<broker, stopped, published, pump, batch, cancelled, sweep, cancel, refresh, fetch>>

ReceiveSubmitResult ==
    /\ Receive("SubmitResult")
    /\ LET l == Head(queue).local
           id == Head(queue).result
       IN  /\ Fold(IF id = NoKey THEN submit_failed(table, l) ELSE confirm(table, l, id))
           /\ create' = [create EXCEPT ![l].stage = IF id = NoKey THEN "failed" ELSE "confirmed"]
    /\ UNCHANGED <<broker, stopped, published, pump, batch, cancelled, sweep, cancel, refresh, fetch>>

\* One tick stands for those of the answer.
ReceivePrices ==
    /\ Receive("Prices")
    /\ pumpClone' = CurrentState
    /\ UNCHANGED <<broker, canonVars, published, pump, batch, cancelled, taskVars>>

\* The task is spawned whether or not the id is tracked.
ReceiveCancel ==
    /\ Receive("Cancel")
    /\ LET c == Head(queue).call
           r == op_submitted(table, cancel[c].id, "ClosingCancel")
       IN  /\ Fold(r)
           /\ cancel' = [cancel EXCEPT ![c].stage = IF r.deltas = {} THEN "sent" ELSE "folded"]
    /\ UNCHANGED <<broker, stopped, published, pump, batch, cancelled, sweep, create, refresh, fetch>>

ReceiveRefresh ==
    /\ Receive("Refresh")
    /\ refresh' = [refresh EXCEPT ![Head(queue).call].stage = "read"]
    /\ UNCHANGED <<broker, canonVars, published, pumpVars, sweep, create, cancel, fetch>>

----------------------------------------------------------------------------
(* Sweep tasks: one OPEN page, then one get_order per id that is gone from it. *)

SweepStep(s, task) ==
    /\ sweep' = [sweep EXCEPT ![s] = task]
    /\ UNCHANGED <<broker, canonVars, published, pumpVars, create, cancel, refresh, fetch>>


SweepListOk(s) ==
    /\ sweep[s].stage = "list"
    /\ SweepStep(s, [stage |-> "fetch", page |-> OpenPage, dropped |-> {},
                     todo |-> sweep[s].before \ {o.id : o \in OpenPage}])
    /\ UNCHANGED queue

SweepListError(s) ==
    /\ sweep[s].stage = "list"
    /\ SweepStep(s, Idle)
    /\ UNCHANGED queue

SweepFetchOk(s, i) ==
    /\ sweep[s].stage = "fetch"
    /\ i \in sweep[s].todo
    /\ SweepStep(s, [sweep[s] EXCEPT !.todo = @ \ {i}, !.dropped = @ \cup {Observed(i)}])
    /\ UNCHANGED queue

SweepFetchError(s, i) ==
    /\ sweep[s].stage = "fetch"
    /\ i \in sweep[s].todo
    /\ SweepStep(s, [sweep[s] EXCEPT !.todo = @ \ {i}])
    /\ UNCHANGED queue

SweepReply(s) ==
    /\ sweep[s].stage = "fetch"
    /\ sweep[s].todo = {}
    /\ SweepStep(s, Idle)
    /\ Send([command |-> "SweepDone", orders |-> sweep[s].page, dropped |-> sweep[s].dropped])

----------------------------------------------------------------------------
(* Create tasks. The broker may take the order up and the answer be lost; an  *)
(* error is reported in both cases.                                           *)

CreateStep(l, task) ==
    /\ create' = [create EXCEPT ![l] = task]
    /\ UNCHANGED <<canonVars, published, pumpVars, sweep, cancel, refresh, fetch>>

CreateAccepted(l, i) ==
    /\ create[l].stage = "sent"
    /\ broker[i] = None
    /\ \E o \in Market!Entries : broker' = [broker EXCEPT ![i] = o]
    /\ CreateStep(l, [stage |-> "accepted", id |-> i])
    /\ UNCHANGED queue

CreateOk(l) ==
    /\ create[l].stage = "accepted"
    /\ Send([command |-> "SubmitResult", local |-> l, result |-> create[l].id])
    /\ CreateStep(l, [create[l] EXCEPT !.stage = "answered"])
    /\ UNCHANGED broker

\* Fault: only a success is reported back.
CreateError_Silent(l) ==
    /\ create[l].stage \in {"sent", "accepted"}
    /\ CreateStep(l, [create[l] EXCEPT !.stage = "answered"])
    /\ UNCHANGED <<broker, queue>>

CreateError(l) ==
    /\ create[l].stage \in {"sent", "accepted"}
    /\ Send([command |-> "SubmitResult", local |-> l, result |-> NoKey])
    /\ CreateStep(l, [create[l] EXCEPT !.stage = "answered"])
    /\ UNCHANGED broker

----------------------------------------------------------------------------
(* Cancel tasks: the cancel, and when it is accepted one get_order.           *)

CancelStep(c, task) ==
    /\ cancel' = [cancel EXCEPT ![c] = task]
    /\ UNCHANGED <<canonVars, published, pumpVars, sweep, create, refresh, fetch>>

CancelAccepted(c) ==
    /\ cancel[c].stage = "sent"
    /\ Market!TakesCancel(broker[cancel[c].id])
    /\ broker' = [broker EXCEPT ![cancel[c].id] = Market!CancelTaken(@)]
    /\ \/ CancelStep(c, [cancel[c] EXCEPT !.stage = "get"])
       \/ CancelStep(c, [stage |-> "done"])      \* the answer is lost
    /\ UNCHANGED queue

\* Refused by the broker, or the request never reached it: nothing is sent back.
CancelError(c) ==
    /\ cancel[c].stage = "sent"
    /\ CancelStep(c, [stage |-> "done"])
    /\ UNCHANGED <<broker, queue>>

CancelGetOk(c) ==
    /\ cancel[c].stage = "get"
    /\ CancelStep(c, [stage |-> "reply", order |-> Observed(cancel[c].id)])
    /\ UNCHANGED <<broker, queue>>

CancelGetError(c) ==
    /\ cancel[c].stage = "get"
    /\ CancelStep(c, [stage |-> "done"])
    /\ UNCHANGED <<broker, queue>>

CancelReply(c) ==
    /\ cancel[c].stage = "reply"
    /\ Send([command |-> "Observed", order |-> cancel[c].order])
    /\ CancelStep(c, [stage |-> "done"])
    /\ UNCHANGED broker

----------------------------------------------------------------------------
(* Requests for prices go back to the pump. Those for holdings do not: their  *)
(* task applies the answer itself, a second writer beside the pump.           *)

FetchStep(f, task) ==
    /\ fetch' = [fetch EXCEPT ![f] = task]
    /\ UNCHANGED <<broker, canonVars, pumpVars, sweep, create, cancel, refresh>>

PricesReply(f) ==
    /\ fetch[f].stage = "prices"
    /\ Send([command |-> "Prices"])
    /\ FetchStep(f, Idle)
    /\ UNCHANGED published

update_holdings(f) ==
    /\ fetch[f].stage = "holdings"
    /\ FetchStep(f, [stage |-> "publish", clone |-> CurrentState])
    /\ UNCHANGED <<published, queue>>

HoldingsPublish(f) ==
    /\ fetch[f].stage = "publish"
    /\ published' = fetch[f].clone
    /\ FetchStep(f, Idle)
    /\ UNCHANGED queue

FetchError(f) ==
    /\ fetch[f].stage \in {"prices", "holdings"}
    /\ FetchStep(f, Idle)
    /\ UNCHANGED <<published, queue>>

----------------------------------------------------------------------------
(* Refresh tasks apply what they read to the store themselves, too.           *)

RefreshStep(r, task) ==
    /\ refresh' = [refresh EXCEPT ![r] = task]
    /\ UNCHANGED <<broker, pumpVars, queue, sweep, create, cancel, fetch>>

\* refresh(All) goes on to the holdings, whatever came of the orders.
AfterOrders(all) == IF all THEN [stage |-> "read", target |-> "Holdings"] ELSE [stage |-> "done"]

RefreshReadOk(r) ==
    /\ refresh[r].stage = "read"
    /\ refresh[r].target # "Holdings"
    /\ RefreshStep(r, [stage |-> "apply", all |-> refresh[r].target = "All",
                       todo |-> IF refresh[r].target \in Ids THEN {Observed(refresh[r].target)}
                                ELSE OpenPage])
    /\ UNCHANGED <<canonVars, published>>

RefreshReadError(r) ==
    /\ refresh[r].stage = "read"
    /\ RefreshStep(r, AfterOrders(refresh[r].target = "All"))
    /\ UNCHANGED <<canonVars, published>>

\* Fault: the task folds onto the snapshot it loaded, not the canonical copy.
RefreshFold_OnSnapshot(r, o) ==
    /\ refresh[r].stage = "apply"
    /\ o \in refresh[r].todo
    /\ LET result == observe_order([orders |-> published.orders, index |-> index], o)
           rest == refresh[r].todo \ {o}
       IN  /\ orders' = result.orders
           /\ index' = result.index
           /\ RefreshStep(r, [stage |-> "publish", all |-> refresh[r].all, todo |-> rest,
                              clone |-> [orders |-> result.orders, stopped |-> stopped]])
    /\ UNCHANGED <<stopped, published>>

\* Store::apply by the task, up to the release of the mutex.
RefreshFold(r, o) ==
    /\ refresh[r].stage = "apply"
    /\ o \in refresh[r].todo
    /\ LET result == observe_order(table, o)
           rest == refresh[r].todo \ {o}
       IN  /\ orders' = result.orders
           /\ index' = result.index
           /\ RefreshStep(r, IF result.deltas = {}
                 THEN [stage |-> "apply", all |-> refresh[r].all, todo |-> rest]
                 ELSE [stage |-> "publish", all |-> refresh[r].all, todo |-> rest,
                       clone |-> [orders |-> result.orders, stopped |-> stopped]])
    /\ UNCHANGED <<stopped, published>>

\* refresh(Holdings), the end of refresh(All), and a tick of refresh(Prices).
RefreshHoldings(r) ==
    /\ refresh[r].stage = "read"
    /\ refresh[r].target = "Holdings"
    /\ RefreshStep(r, [stage |-> "publish", all |-> FALSE, todo |-> {}, clone |-> CurrentState])
    /\ UNCHANGED <<canonVars, published>>

RefreshPublish(r) ==
    /\ refresh[r].stage = "publish"
    /\ published' = refresh[r].clone
    /\ RefreshStep(r, [stage |-> "apply", all |-> refresh[r].all, todo |-> refresh[r].todo])
    /\ UNCHANGED canonVars

RefreshReply(r) ==
    /\ refresh[r].stage = "apply"
    /\ refresh[r].todo = {}
    /\ RefreshStep(r, AfterOrders(refresh[r].all))
    /\ UNCHANGED <<canonVars, published>>

----------------------------------------------------------------------------
HandleCommand ==
    \/ \E s \in Sweepers : StartSweep(s)
    \/ ReceiveSweepDone \/ ReceiveObserved \/ ReceivePrices
    \/ ReceiveSubmit \/ ReceiveSubmitResult
    \/ ReceiveCancel \/ ReceiveRefresh

PumpStep ==
    \/ PumpPublish \/ PumpStop \/ HandleCommand
    \/ \E o \in batch.page \cup batch.dropped : PumpObserve(o)

SweepNext(s) ==
    \/ SweepListOk(s) \/ SweepListError(s) \/ SweepReply(s)
    \/ \E i \in Ids : SweepFetchOk(s, i) \/ SweepFetchError(s, i)

CreateNext(l) == CreateOk(l) \/ CreateError(l) \/ \E i \in Ids : CreateAccepted(l, i)

CancelNext(c) == \/ CancelAccepted(c) \/ CancelError(c)
                 \/ CancelGetOk(c) \/ CancelGetError(c) \/ CancelReply(c)

FetchNext(f) == PricesReply(f) \/ update_holdings(f) \/ HoldingsPublish(f) \/ FetchError(f)

RefreshNext(r) == \/ RefreshReadOk(r) \/ RefreshReadError(r) \/ RefreshHoldings(r)
                  \/ RefreshPublish(r) \/ RefreshReply(r)
                  \/ refresh[r].stage = "apply" /\ \E o \in refresh[r].todo : RefreshFold(r, o)

Users ==
    \/ \E l \in LocalIds : create_order(l)
    \/ \E c \in Cancels, i \in Ids : cancel_order(c, i)
    \/ \E r \in Refreshes, t \in Ids \cup Lots : request_refresh(r, t)
    \/ shutdown

Next ==
    \/ BrokerStep \/ Users \/ Tick \/ PumpStep
    \/ \E s \in Sweepers : SweepNext(s)
    \/ \E l \in LocalIds : CreateNext(l)
    \/ \E c \in Cancels : CancelNext(c)
    \/ \E r \in Refreshes : RefreshNext(r)
    \/ \E f \in Fetches : FetchNext(f)

Spec == Init /\ [][Next]_vars

\* The runtime polls every ready task. That HTTP calls end, in an answer or an error,
\* is an assumption: no timeout is set on them (transport.rs:177). So is that a list
\* or an order fetch retried for ever succeeds ("transient; try again next tick").
Fairness ==
    /\ WF_vars(PumpStep) /\ WF_vars(Tick)
    /\ \A s \in Sweepers :
          /\ WF_vars(SweepNext(s))
          /\ SF_vars(SweepListOk(s))
          /\ \A i \in Ids : SF_vars(SweepFetchOk(s, i))
    /\ \A l \in LocalIds : WF_vars(CreateNext(l))
    /\ \A c \in Cancels : WF_vars(CancelNext(c))
    /\ \A r \in Refreshes : WF_vars(RefreshNext(r))
    /\ \A f \in Fetches : WF_vars(FetchNext(f))

FairSpec == Spec /\ Fairness

----------------------------------------------------------------------------
(* Properties. *)

Stages == {"idle", "queued", "folded", "sent", "list", "fetch", "accepted", "answered",
           "confirmed", "failed", "get", "reply", "read", "apply", "publish", "done",
           "prices", "holdings"}

TypeOK ==
    /\ broker \in [Ids -> Market!BrokerRecords \cup {None}]
    /\ table \in Tables
    /\ stopped \in BOOLEAN /\ cancelled \in BOOLEAN
    /\ published \in Snapshots
    /\ pump \in {"running", "stopping", "stopped"}
    /\ batch.page \subseteq Orders /\ batch.dropped \subseteq Orders
    /\ pumpClone \in Snapshots \cup {None}
    /\ \A s \in Sweepers : sweep[s].stage \in Stages
    /\ \A l \in LocalIds : create[l].stage \in Stages
    /\ \A c \in Cancels : cancel[c].stage \in Stages
    /\ \A r \in Refreshes : refresh[r].stage \in Stages
    /\ \A f \in Fetches : fetch[f].stage \in Stages

Row(i) == orders[i]
HasRow(i) == orders[i] # NoRow
Shown(i) == published.orders[i]
AtBroker(i, statuses) == broker[i] # None /\ broker[i].status \in statuses

\* The terminal latch only ever catches the truth: a row that closed, from
\* whichever answer and however late, is the broker's final record of that order.
ClosedRowsAreFinal ==
    \A i \in Ids : HasRow(i) /\ is_terminal_row(Row(i)) =>
        /\ broker[i] # None
        /\ Row(i).status = broker[i].status
        /\ Row(i).filled = broker[i].filled

\* No row, canonical or published, shows an order the broker never had or a fill
\* it has not made.
NoPhantomFills ==
    \A i \in Ids, v \in {orders, published.orders} :
        v[i] # NoRow => broker[i] # None /\ v[i].filled <= broker[i].filled

\* A submission the pump has picked up has a row in the canonical table from then on,
\* with refreshes and requests for holdings folding beside the pump: provisionally, and
\* so that the sweep belongs on its hot tier, until its answer is handled; then under the
\* id of that answer and no other, or as rejected. (Readers can miss it for a while: a
\* late clone hides it.)
SubmissionKeepsARow ==
    \A l \in LocalIds :
        /\ create[l].stage \in {"folded", "sent", "accepted", "answered"} =>
               /\ orders[l] # NoRow /\ orders[l].lifecycle = "SubmittingPending"
               /\ compute_cadence(orders) = "hot"
        /\ create[l].stage = "confirmed" => orders[l] = NoRow /\ orders[create[l].id] # NoRow
        /\ create[l].stage = "failed" => orders[l].lifecycle = "SubmitRejected"

\* The answer to a create that arrives after sweeps have seen its order fill does
\* not put the row back: no step of a submission lowers a fill.
AnswerKeepsFills ==
    [][create' # create => \A i \in Ids : HasRow(i) =>
           orders'[i] # NoRow /\ orders'[i].filled >= Row(i).filled]_vars

\* "When an order drops out of the sweep set, do one get_order(id) to capture its
\* terminal status" (DESIGN.md:278): an order with a row that closes at the broker is
\* closed in that row in the end.
DropIsCaptured ==
    \A i \in Ids :
        (HasRow(i) /\ AtBroker(i, TerminalStatuses)) ~> (HasRow(i) /\ is_terminal_row(Row(i)))


\* An order that stays open at the broker gets a row, whoever entered it.
OpenOrderIsTracked ==
    \A i \in Ids : AtBroker(i, OpenStatuses) ~> (HasRow(i) \/ AtBroker(i, TerminalStatuses))

\* Every submission is answered: its provisional row is confirmed or rejected.
SubmissionIsAnswered ==
    \A l \in LocalIds :
        create[l].stage = "queued" ~> create[l].stage \in {"confirmed", "failed"}

\* A cancel that came to nothing: the order works at the broker and no cancel is
\* under way, here or there.
CancelIsOver(i) == /\ AtBroker(i, Market!WorkingStatuses)
                   /\ \A c \in Cancels : cancel[c].stage \in {"idle", "done"}

\* The Closing hint of such a cancel is taken back in the canonical row.
RevertedCancelIsFolded ==
    \A i \in Ids : CancelIsOver(i) ~>
        (~CancelIsOver(i) \/ (HasRow(i) /\ Row(i).lifecycle # "ClosingCancel"))

====
