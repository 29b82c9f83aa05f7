---- MODULE Lanes ----
(* Demand for the holdings and price lanes of tossinvest-state/runtime.rs and *)
(* the life of the handles: leases and their counts, the dirty flag, the      *)
(* requests that the pump spawns and forgets, and the references that decide  *)
(* when the pump stops. What the answers hold is left out, and so is what the *)
(* applies of them publish (module Reconciler). A refresh fetches on its own  *)
(* and leaves the flag alone. The command channel only delays what is here;   *)
(* Wake and DemandChanged, whose handler does nothing, are left out.          *)
(* Actions under "Fault" are plausible bugs, each a variant of the action     *)
(* defined after it.                                                          *)
EXTENDS Integers, FiniteSets

CONSTANTS Symbols,
          PriceLeases,      \* bound: price leases that may be held at once
          MaxHoldingLeases, \* bound: holdings leases held at once
          MaxHandles,       \* bound: clones of StateHandle
          MaxRequests,      \* bound: holdings requests of the lane out at once
          None

ASSUME BoundsAssumption ==
    /\ MaxHoldingLeases \in Nat /\ MaxHandles \in Nat \ {0} /\ MaxRequests \in Nat \ {0}
    /\ IsFiniteSet(PriceLeases)

ASSUME NoneIsNoSymbol == None \notin Symbols

VARIABLES
    holdings_demand, holdings_dirty,
    requests,         \* holdings requests that are out
    news,             \* history: a mark, or a lease, since the lane last sent one
    price_demand,     \* symbol -> its reference count, 0 for no entry
    lease,            \* price lease -> its symbol, or None
    prices,           \* the price request that is out: its symbols, or None
    pump,             \* "running" or "stopped"
    cancelled,        \* the cancellation token
    handles           \* clones of StateHandle that are alive

holdingVars == <<holdings_dirty, requests, news>>
priceVars == <<price_demand, lease, prices>>
pumpVars == <<pump, cancelled>>
vars == <<holdingVars, holdings_demand, priceVars, pumpVars, handles>>

Init ==
    /\ holdings_demand = 0 /\ holdings_dirty = FALSE
    /\ requests = 0
    /\ news = FALSE
    /\ price_demand = [s \in Symbols |-> 0]
    /\ lease = [l \in PriceLeases |-> None]
    /\ prices = None
    /\ pump = "running"
    /\ cancelled = FALSE
    /\ handles = 1

----------------------------------------------------------------------------
(* Handles and leases. Each holds a reference to Shared, and so does the pump *)
(* (PumpCtx.demand) while it runs.                                            *)

Leased == {l \in PriceLeases : lease[l] # None}

\* Drop for Shared, when the reference just given up was the last.
ReleaseShared(h, d, p) ==
    cancelled' = (cancelled \/ (pump = "stopped" /\ h = 0 /\ d = 0 /\ p = 0))

clone ==
    /\ handles \in 1..(MaxHandles - 1)
    /\ handles' = handles + 1
    /\ UNCHANGED <<holdingVars, holdings_demand, priceVars, pumpVars>>

DropHandle ==
    /\ handles > 0
    /\ handles' = handles - 1
    /\ ReleaseShared(handles - 1, holdings_demand, Cardinality(Leased))
    /\ UNCHANGED <<holdingVars, holdings_demand, priceVars, pump>>

\* Consumes its handle; awaits the pump.
shutdown ==
    /\ handles > 0
    /\ cancelled' = TRUE
    /\ handles' = handles - 1
    /\ UNCHANGED <<holdingVars, holdings_demand, priceVars, pump>>

watch_holdings ==
    /\ handles > 0 /\ holdings_demand < MaxHoldingLeases
    /\ holdings_demand' = holdings_demand + 1
    /\ holdings_dirty' = TRUE
    /\ news' = TRUE
    /\ UNCHANGED <<requests, priceVars, pumpVars, handles>>

DropHoldingsLease ==
    /\ holdings_demand > 0
    /\ holdings_demand' = holdings_demand - 1
    /\ ReleaseShared(handles, holdings_demand - 1, Cardinality(Leased))
    /\ UNCHANGED <<holdingVars, priceVars, pump, handles>>

\* Fault: the entry is put in, whether or not there was one.
watch_price_Insert(l, s) ==
    /\ handles > 0 /\ lease[l] = None
    /\ lease' = [lease EXCEPT ![l] = s]
    /\ price_demand' = [price_demand EXCEPT ![s] = 1]
    /\ UNCHANGED <<holdingVars, holdings_demand, prices, pumpVars, handles>>

watch_price(l, s) ==
    /\ handles > 0 /\ lease[l] = None
    /\ lease' = [lease EXCEPT ![l] = s]
    /\ price_demand' = [price_demand EXCEPT ![s] = @ + 1]
    /\ UNCHANGED <<holdingVars, holdings_demand, prices, pumpVars, handles>>

\* Fault: the entry goes with the first of its leases.
DropPriceLease_Removing(l) ==
    /\ lease[l] # None
    /\ lease' = [lease EXCEPT ![l] = None]
    /\ price_demand' = [price_demand EXCEPT ![lease[l]] = 0]
    /\ ReleaseShared(handles, holdings_demand, Cardinality(Leased) - 1)
    /\ UNCHANGED <<holdingVars, holdings_demand, prices, pump, handles>>

DropPriceLease(l) ==
    /\ lease[l] # None
    /\ lease' = [lease EXCEPT ![l] = None]
    /\ price_demand' = [price_demand EXCEPT ![lease[l]] = IF @ > 0 THEN @ - 1 ELSE 0]
    /\ ReleaseShared(handles, holdings_demand, Cardinality(Leased) - 1)
    /\ UNCHANGED <<holdingVars, holdings_demand, prices, pump, handles>>

----------------------------------------------------------------------------
(* The pump: cancellation first, then commands, then the timer.               *)

PumpStop ==
    /\ pump = "running" /\ cancelled
    /\ pump' = "stopped"
    /\ UNCHANGED <<holdingVars, holdings_demand, priceVars, cancelled, handles>>

\* The pump folds an observation that fills or closes an order.
mark_invalidation ==
    /\ pump = "running" /\ ~cancelled
    /\ holdings_dirty' = TRUE
    /\ news' = TRUE
    /\ UNCHANGED <<requests, holdings_demand, priceVars, pumpVars, handles>>

Polled == {s \in Symbols : price_demand[s] > 0}

spawn_prices == prices' = IF Polled = {} THEN None ELSE Polled

\* Demand first: the flag stays set until somebody watches.
spawn_holdings ==
    IF holdings_demand > 0 /\ holdings_dirty
    THEN requests' = requests + 1 /\ holdings_dirty' = FALSE /\ news' = FALSE
    ELSE UNCHANGED <<requests, holdings_dirty, news>>

\* The timer's command. Waits until there is room for the tasks it may spawn (bound).
StartSweep ==
    /\ pump = "running" /\ ~cancelled
    /\ prices = None /\ requests < MaxRequests
    /\ spawn_prices
    /\ spawn_holdings
    /\ UNCHANGED <<holdings_demand, price_demand, lease, pumpVars, handles>>

----------------------------------------------------------------------------
(* Detached tasks. They outlive the pump. *)

\* Fault: the flag is cleared when the request ends.
HoldingsDone_Clearing ==
    /\ requests > 0
    /\ requests' = requests - 1
    /\ holdings_dirty' = FALSE
    /\ UNCHANGED <<news, holdings_demand, priceVars, pumpVars, handles>>

\* The answer is applied, or the error dropped; the flag is not set again.
HoldingsDone ==
    /\ requests > 0
    /\ requests' = requests - 1
    /\ UNCHANGED <<holdings_dirty, news, holdings_demand, priceVars, pumpVars, handles>>

\* Answered or not, and whatever the pump does with the ticks.
PricesDone ==
    /\ prices # None
    /\ prices' = None
    /\ UNCHANGED <<holdingVars, holdings_demand, price_demand, lease, pumpVars, handles>>

----------------------------------------------------------------------------
Users ==
    \/ clone \/ DropHandle \/ shutdown \/ watch_holdings \/ DropHoldingsLease
    \/ \E l \in PriceLeases : DropPriceLease(l) \/ \E s \in Symbols : watch_price(l, s)

Next == Users \/ mark_invalidation \/ StartSweep \/ PumpStop \/ HoldingsDone \/ PricesDone

Spec == Init /\ [][Next]_vars

\* The runtime polls the pump and every task, and requests end. Strong for the sweep,
\* which in the code never waits for room.
Fairness ==
    /\ SF_vars(StartSweep) /\ WF_vars(PumpStop)
    /\ WF_vars(PricesDone) /\ WF_vars(HoldingsDone)

FairSpec == Spec /\ Fairness

----------------------------------------------------------------------------
(* Properties. *)

\* Over any order of leases taken and dropped the counts are those of the leases held:
\* a symbol has an entry, and is polled, exactly while somebody holds a lease on it
\* ("polling stops when the returned lease drops", runtime.rs:237).
LeasesAreCounted ==
    \A s \in Symbols : price_demand[s] = Cardinality({l \in PriceLeases : lease[l] = s})

\* Whoever takes a lease, or holds one when the pump marks holdings stale, gets a
\* request sent after that.
LeaseIsServed ==
    (news /\ holdings_demand > 0) ~> (~news \/ holdings_demand = 0 \/ cancelled)

\* A symbol is polled as long as one of the leases on it is held.
LeasedPriceIsPolled ==
    \A s \in Symbols :
        (\E l \in PriceLeases : lease[l] = s) ~>
            ((prices # None /\ s \in prices) \/ (\A l \in PriceLeases : lease[l] # s) \/ cancelled)

\* "The reconciler runs until the last clone drops" (runtime.rs:140).
LastHandleStops ==
    (handles = 0 /\ holdings_demand = 0 /\ Leased = {}) ~> pump = "stopped"
====
