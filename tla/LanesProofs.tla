---- MODULE LanesProofs ----
(* Proof about the price leases of module Lanes, for any symbols and any      *)
(* finite number of leases.                                                   *)
EXTENDS Lanes, FiniteSetTheorems, TLAPS

HeldOn(s) == {l \in PriceLeases : lease[l] = s}

\* With the leases and the counts where they belong, the property is inductive.
IInv ==
    /\ lease \in [PriceLeases -> Symbols \cup {None}]
    /\ price_demand \in [Symbols -> Nat]
    /\ \A s \in Symbols : price_demand[s] = Cardinality(HeldOn(s))

LEMMA HeldOnIsFinite == \A s : IsFiniteSet(HeldOn(s)) /\ Cardinality(HeldOn(s)) \in Nat
<1> SUFFICES ASSUME NEW s PROVE IsFiniteSet(HeldOn(s)) /\ Cardinality(HeldOn(s)) \in Nat
  OBVIOUS
<1>1. HeldOn(s) \subseteq PriceLeases /\ IsFiniteSet(PriceLeases)
  BY BoundsAssumption DEF HeldOn
<1> QED BY <1>1, FS_Subset, FS_CardinalityType

\* A lease taken is one more on its symbol, and on no other.
LEMMA Taken ==
    ASSUME IInv, NEW l \in PriceLeases, NEW s \in Symbols, lease[l] = None,
           lease' = [lease EXCEPT ![l] = s], price_demand' = [price_demand EXCEPT ![s] = @ + 1]
    PROVE  IInv'
<1>1. lease' \in [PriceLeases -> Symbols \cup {None}] /\ price_demand' \in [Symbols -> Nat]
  BY DEF IInv
<1>2. HeldOn(s)' = HeldOn(s) \cup {l} /\ l \notin HeldOn(s)
  BY NoneIsNoSymbol DEF IInv, HeldOn
<1>3. Cardinality(HeldOn(s)') = Cardinality(HeldOn(s)) + 1
  BY <1>2, HeldOnIsFinite, FS_AddElement
<1>4. \A t \in Symbols \ {s} : HeldOn(t)' = HeldOn(t)
  BY NoneIsNoSymbol DEF IInv, HeldOn
<1>5. price_demand'[s] = price_demand[s] + 1 /\ \A t \in Symbols \ {s} : price_demand'[t] = price_demand[t]
  BY DEF IInv
<1>6. \A t \in Symbols : price_demand[t] = Cardinality(HeldOn(t))
  BY DEF IInv
<1>7. price_demand'[s] = Cardinality(HeldOn(s)')
  BY <1>3, <1>5, <1>6
<1>8. \A t \in Symbols \ {s} : price_demand'[t] = Cardinality(HeldOn(t)')
  BY <1>4, <1>5, <1>6
<1> QED BY <1>1, <1>7, <1>8 DEF IInv, HeldOn

\* A lease dropped is one less on its symbol, whose entry is there.
LEMMA Dropped ==
    ASSUME IInv, NEW l \in PriceLeases, lease[l] # None, lease' = [lease EXCEPT ![l] = None],
           price_demand' = [price_demand EXCEPT ![lease[l]] = IF @ > 0 THEN @ - 1 ELSE 0]
    PROVE  IInv'
<1> PICK s : s = lease[l]
  OBVIOUS
<1>1. s \in Symbols /\ lease' \in [PriceLeases -> Symbols \cup {None}]
  BY DEF IInv
<1>2. HeldOn(s)' = HeldOn(s) \ {l} /\ l \in HeldOn(s)
  BY <1>1, NoneIsNoSymbol DEF IInv, HeldOn
<1>3. Cardinality(HeldOn(s)') = Cardinality(HeldOn(s)) - 1 /\ Cardinality(HeldOn(s)) \in Nat \ {0}
  <2>1. Cardinality(HeldOn(s)') = Cardinality(HeldOn(s)) - 1
    BY <1>2, HeldOnIsFinite, FS_RemoveElement
  <2>2. Cardinality(HeldOn(s)) # 0
    BY <1>2, HeldOnIsFinite, FS_EmptySet
  <2> QED BY <2>1, <2>2, HeldOnIsFinite
<1>4. \A t \in Symbols \ {s} : HeldOn(t)' = HeldOn(t)
  BY <1>1, NoneIsNoSymbol DEF IInv, HeldOn
<1>5. /\ price_demand'[s] = IF price_demand[s] > 0 THEN price_demand[s] - 1 ELSE 0
      /\ \A t \in Symbols \ {s} : price_demand'[t] = price_demand[t]
  BY <1>1 DEF IInv
<1>6. \A t \in Symbols : price_demand[t] = Cardinality(HeldOn(t))
  BY DEF IInv
<1>7. price_demand'[s] = Cardinality(HeldOn(s)')
  BY <1>1, <1>3, <1>5, <1>6
<1>8. price_demand' \in [Symbols -> Nat]
  BY <1>1 DEF IInv
<1>9. \A t \in Symbols \ {s} : price_demand'[t] = Cardinality(HeldOn(t)')
  BY <1>4, <1>5, <1>6
<1> QED BY <1>1, <1>7, <1>8, <1>9 DEF IInv, HeldOn

LEMMA IInvInit == Init => IInv
<1> SUFFICES ASSUME Init PROVE IInv
  OBVIOUS
<1>1. \A s \in Symbols : HeldOn(s) = {} /\ price_demand[s] = 0
  BY NoneIsNoSymbol DEF Init, HeldOn
<1> QED BY <1>1, FS_EmptySet DEF Init, IInv

LEMMA IInvStep == IInv /\ [Next]_vars => IInv'
<1> SUFFICES ASSUME IInv, [Next]_vars PROVE IInv'
  OBVIOUS
<1>1. ASSUME NEW l \in PriceLeases, NEW s \in Symbols, watch_price(l, s) PROVE IInv'
  BY <1>1, Taken DEF watch_price
<1>2. ASSUME NEW l \in PriceLeases, DropPriceLease(l) PROVE IInv'
  BY <1>2, Dropped DEF DropPriceLease
<1>3. CASE UNCHANGED <<lease, price_demand>>
  BY <1>3 DEF IInv, HeldOn
<1>4. CASE clone \/ DropHandle \/ shutdown \/ watch_holdings \/ DropHoldingsLease
  BY <1>3, <1>4 DEF clone, DropHandle, shutdown, watch_holdings, DropHoldingsLease, priceVars
<1>5. CASE mark_invalidation \/ StartSweep \/ PumpStop \/ HoldingsDone \/ PricesDone
  BY <1>3, <1>5 DEF mark_invalidation, StartSweep, PumpStop, HoldingsDone, PricesDone, priceVars
<1>6. CASE UNCHANGED vars
  BY <1>3, <1>6 DEF vars, priceVars
<1> QED BY <1>1, <1>2, <1>4, <1>5, <1>6 DEF Next, Users

\* A symbol's entry counts the leases held on it, whoever took and dropped them and in
\* whatever order: none is left behind, and none goes with a lease of somebody else.
THEOREM LeasesCounted == Spec => []LeasesAreCounted
<1>1. IInv => LeasesAreCounted
  BY DEF IInv, HeldOn, LeasesAreCounted
<1> QED BY <1>1, IInvInit, IInvStep, PTL DEF Spec
====
