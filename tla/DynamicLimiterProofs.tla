---- MODULE DynamicLimiterProofs ----
(* Proofs about DynamicLimiter for any set of callers, any rates, factors and *)
(* cooldowns the assumptions admit: types and rate bounds, the bounded lag of *)
(* the bucket behind the effective rate, and what the bucket reflects when    *)
(* installations do not overlap.                                              *)
EXTENDS DynamicLimiter, TLAPS

USE RatesAssumption, TuningAssumption, HeadersAssumption

----------------------------------------------------------------------------
(* The control law. *)

\* dynamic.rs:122: with the bounds in order the result lies between them.
LEMMA ClampBounds ==
    ASSUME NEW v \in Int, NEW lo \in Nat, NEW hi \in Nat, lo <= hi
    PROVE  clamp(v, lo, hi) \in lo..hi
  BY DEF clamp, Larger, Smaller

\* What the feedback asks for is a number, whatever it carries.
LEMMA TargetIsInt ==
    ASSUME NEW s \in ControllerState, NEW f \in Feedback, NEW age \in 0..MaxDelay
    PROVE  TargetRate(s, f, age) \in Int
  <1>1. s.effective \in Nat
    BY DEF ControllerState, Rates
  <1>2. (s.effective * HardFactor) \div 100 \in Int /\ (s.effective * SoftFactor) \div 100 \in Int
    <2>1. s.effective * HardFactor \in Int /\ s.effective * SoftFactor \in Int
      BY <1>1
    <2> QED
      BY <2>1
  <1>3. f.limit # Absent => f.limit \in Nat
    BY DEF Feedback
  <1> QED
    BY <1>1, <1>2, <1>3 DEF TargetRate, Smaller

\* apply_feedback keeps the state in its type, so the rate between floor and
\* ceiling, and leaves the rate of the bucket alone.
LEMMA FeedbackTyped ==
    ASSUME NEW s \in ControllerState, NEW f \in Feedback,
           NEW ceiling \in {Peak, Base}, NEW age \in 0..MaxDelay
    PROVE  /\ apply_feedback(s, f, ceiling, age) \in ControllerState
           /\ apply_feedback(s, f, ceiling, age).built = s.built
  <1> DEFINE st == Stamped(s, f, age)
             rate == clamp(TargetRate(s, f, age), Floor, ceiling)
             park == IF f.retry = Absent THEN st.park ELSE Larger(f.retry - age, 0)
  <1>1. rate \in Rates
    <2>1. rate \in Floor..ceiling
      BY TargetIsInt, ClampBounds
    <2> QED
      BY <2>1 DEF Rates
  <1>2. st \in ControllerState /\ st.built = s.built
    <2> DEFINE h == IF HardDecrease(s, f, age) THEN age ELSE s.hard
               o == IF SoftDecrease(s, f, age) THEN age ELSE s.soft
               i == IF Increase(s, f, age) THEN age ELSE s.increase
    <2>1. h \in 0..DecreaseHorizon /\ o \in 0..DecreaseHorizon /\ i \in 0..IncreaseHorizon
      <3>1. age \in 0..DecreaseHorizon /\ age \in 0..IncreaseHorizon
        BY DEF DecreaseHorizon, IncreaseHorizon
      <3> QED
        BY <3>1 DEF ControllerState
    <2>2. st = [s EXCEPT !.hard = h, !.soft = o, !.increase = i]
      BY DEF Stamped
    <2> HIDE DEF h, o, i
    <2> QED
      BY <2>1, <2>2 DEF ControllerState
  <1>3. park \in Nat
    <2>1. f.retry # Absent => f.retry \in Nat
      BY DEF Feedback
    <2> QED
      BY <1>2, <2>1 DEF Larger, ControllerState
  <1>4. apply_feedback(s, f, ceiling, age) = [st EXCEPT !.effective = rate, !.park = park]
    BY DEF apply_feedback
  <1> QED
    BY <1>1, <1>2, <1>3, <1>4 DEF ControllerState

\* A bucket rebuilt at the effective rate has not drifted from it.
LEMMA RebuiltIsNear ==
    ASSUME NEW r \in Nat
    PROVE  ~drifted(r, r)
  <1>1. Larger(r, 1) * RebuildThreshold \in Nat
    BY DEF Larger
  <1> QED
    BY <1>1 DEF drifted, Larger

LEMMA AgedTyped ==
    ASSUME NEW s \in ControllerState
    PROVE  /\ Aged(s) \in ControllerState
           /\ Aged(s).built = s.built /\ Aged(s).effective = s.effective
  <1> DEFINE h == Smaller(s.hard + 1, DecreaseHorizon)
             o == Smaller(s.soft + 1, DecreaseHorizon)
             i == Smaller(s.increase + 1, IncreaseHorizon)
             p == Larger(s.park - 1, 0)
  <1>1. h \in 0..DecreaseHorizon /\ o \in 0..DecreaseHorizon
    BY DEF ControllerState, Smaller, DecreaseHorizon
  <1>2. i \in 0..IncreaseHorizon /\ p \in Nat
    BY DEF ControllerState, Smaller, Larger, IncreaseHorizon
  <1>3. Aged(s) = [s EXCEPT !.hard = h, !.soft = o, !.increase = i, !.park = p]
    BY DEF Aged
  <1> HIDE DEF h, o, i, p
  <1> QED
    BY <1>1, <1>2, <1>3 DEF ControllerState

----------------------------------------------------------------------------
(* The limiter. *)

\* With installations one at a time: the one under way installs the rate noted as
\* built, drained if it is slower than the bucket it replaces; with none under way
\* the bucket is the one noted.
InstallOrder ==
    ~raced =>
       /\ \A t, u \in Callers : caller[t].pc = "install" /\ caller[u].pc = "install" => t = u
       /\ \A t \in Callers : caller[t].pc = "install" =>
              /\ caller[t].tps = state.built
              /\ caller[t].tps < limiter.tps => caller[t].drain
       /\ (\A t \in Callers : caller[t].pc # "install") => limiter.tps = state.built

IInv == TypeOK /\ LagIsBounded /\ InstallOrder

\* The states of a caller by its program counter.
LEMMA CallerCases ==
    ASSUME TypeOK, NEW t \in Callers
    PROVE  /\ caller[t].pc = "record" =>
                 /\ caller[t].feedback \in Feedback /\ caller[t].ceiling \in {Peak, Base}
                 /\ caller[t].age \in 0..MaxDelay
           /\ caller[t].pc = "enforce" => caller[t].ceiling \in {Peak, Base}
           /\ caller[t].pc = "install" => /\ caller[t].tps \in Rates /\ caller[t].drain \in BOOLEAN
                                          /\ caller[t].next \in {"idle", "ready"}
  <1>1. caller[t] \in CallerStates
    BY DEF TypeOK
  <1> QED
    BY <1>1 DEF CallerStates

LEMMA InitIInv == Init => IInv
  <1> SUFFICES ASSUME Init PROVE IInv
    OBVIOUS
  <1>1. Base \in Rates /\ Base \in Nat
    BY DEF Rates
  <1>2. new_state \in ControllerState
    BY <1>1 DEF new_state, ControllerState, DecreaseHorizon, IncreaseHorizon
  <1>3. Idle \in CallerStates
    BY DEF Idle, CallerStates
  <1>4. TypeOK
    BY <1>1, <1>2, <1>3 DEF Init, TypeOK, Buckets
  <1>5. LagIsBounded
    BY <1>1, RebuiltIsNear DEF Init, LagIsBounded, new_state
  <1>6. InstallOrder
    BY DEF Init, InstallOrder, Idle, new_state
  <1> QED
    BY <1>4, <1>5, <1>6 DEF IInv

\* A decision to rebuild keeps the order of installations: if it is the only one
\* under way, the bucket it will replace is the one noted until now.
LEMMA RebuildPreserves ==
    ASSUME IInv, NEW t \in Callers, NEW s \in ControllerState, NEW drain \in BOOLEAN,
           NEW next \in {"idle", "ready"},
           s.effective = s.built, s.built < state.built => drain,
           Rebuild(t, s, s.built, drain, next), UNCHANGED limiter
    PROVE  /\ state' \in ControllerState /\ caller' \in [Callers -> CallerStates]
           /\ raced' \in BOOLEAN
           /\ LagIsBounded' /\ InstallOrder'
  <1> DEFINE c == [pc |-> "install", tps |-> s.built, drain |-> drain, next |-> next]
  <1>1. s.built \in Rates /\ s.built \in Nat
    BY DEF ControllerState, Rates
  <1>2. /\ state' = s /\ caller' = [caller EXCEPT ![t] = c]
        /\ raced' = (raced \/ Installing # {})
    BY DEF Rebuild
  <1>3. caller \in [Callers -> CallerStates] /\ raced \in BOOLEAN
    BY DEF IInv, TypeOK
  <1>4. c \in CallerStates
    BY <1>1 DEF CallerStates
  <1>5. caller' \in [Callers -> CallerStates] /\ raced' \in BOOLEAN
    BY <1>2, <1>3, <1>4
  <1>6. LagIsBounded'
    BY <1>1, <1>2, RebuiltIsNear DEF LagIsBounded
  <1>7. InstallOrder'
    <2> SUFFICES ASSUME ~raced' PROVE InstallOrder'
      BY DEF InstallOrder
    <2>1. ~raced /\ \A u \in Callers : caller[u].pc # "install"
      BY <1>2 DEF Installing
    <2>2. limiter.tps = state.built
      BY <2>1 DEF IInv, InstallOrder
    <2>3. \A u \in Callers : caller'[u] = IF u = t THEN c ELSE caller[u]
      BY <1>2, <1>3
    <2> QED
      BY <1>2, <2>1, <2>2, <2>3 DEF InstallOrder
  <1> QED
    BY <1>2, <1>5, <1>6, <1>7

\* So does a caller that leaves the bucket and the rate noted for it alone.
LEMMA KeepPreserves ==
    ASSUME IInv, NEW t \in Callers, NEW s \in ControllerState, NEW next \in {"idle", "ready"},
           caller[t].pc # "install",
           s.built = state.built, ~drifted(s.effective, s.built),
           KeepBucket(t, s, next), UNCHANGED limiter
    PROVE  /\ state' \in ControllerState /\ caller' \in [Callers -> CallerStates]
           /\ raced' \in BOOLEAN
           /\ LagIsBounded' /\ InstallOrder'
  <1>1. state' = s /\ caller' = [caller EXCEPT ![t] = [pc |-> next]] /\ raced' = raced
    BY DEF KeepBucket
  <1>2. caller \in [Callers -> CallerStates] /\ raced \in BOOLEAN
    BY DEF IInv, TypeOK
  <1>3. [pc |-> next] \in CallerStates
    BY DEF CallerStates
  <1>4. \A u \in Callers : caller'[u] = IF u = t THEN [pc |-> next] ELSE caller[u]
    BY <1>1, <1>2
  <1>5. InstallOrder'
    BY <1>1, <1>4 DEF IInv, InstallOrder
  <1> QED
    BY <1>1, <1>2, <1>3, <1>5 DEF LagIsBounded

LEMMA RecordPreserves == ASSUME IInv, NEW t \in Callers, record(t) PROVE IInv'
  <1> DEFINE c == caller[t]
             s == apply_feedback(state, c.feedback, c.ceiling, c.age)
             built == [s EXCEPT !.built = s.effective]
  <1>1. /\ c.pc = "record" /\ c.feedback \in Feedback /\ c.ceiling \in {Peak, Base}
        /\ c.age \in 0..MaxDelay /\ state \in ControllerState
    BY CallerCases DEF record, IInv, TypeOK
  <1>2. s \in ControllerState /\ s.built = state.built
    <2>1. \A f \in Feedback, k \in {Peak, Base}, a \in 0..MaxDelay :
             /\ apply_feedback(state, f, k, a) \in ControllerState
             /\ apply_feedback(state, f, k, a).built = state.built
      BY <1>1, FeedbackTyped
    <2> HIDE DEF c
    <2> QED
      BY <1>1, <2>1
  <1>3. UNCHANGED <<limiter, peak>> /\ hardAges' \subseteq hardAges \cup {c.age}
    BY DEF record
  <1>4. /\ state' \in ControllerState /\ caller' \in [Callers -> CallerStates]
        /\ raced' \in BOOLEAN /\ LagIsBounded' /\ InstallOrder'
    <2>1. CASE drifted(s.effective, s.built)
      <3>1. Rebuild(t, built, s.effective, s.effective < s.built, "idle")
        BY <2>1 DEF record
      <3>2. built \in ControllerState /\ built.effective = s.effective /\ built.built = s.effective
        BY <1>2 DEF ControllerState
      <3>3. (s.effective < s.built) \in BOOLEAN
        OBVIOUS
      <3> HIDE DEF built, s
      <3> QED
        BY <1>2, <1>3, <3>1, <3>2, <3>3, RebuildPreserves
    <2>2. CASE ~drifted(s.effective, s.built)
      <3>1. KeepBucket(t, s, "idle")
        BY <2>2 DEF record
      <3> HIDE DEF s
      <3> QED
        BY <1>1, <1>2, <1>3, <2>2, <3>1, KeepPreserves
    <2> QED
      BY <2>1, <2>2
  <1>5. hardAges' \subseteq 0..DecreaseHorizon
    BY <1>1, <1>3 DEF IInv, TypeOK, DecreaseHorizon
  <1> QED
    BY <1>3, <1>4, <1>5 DEF IInv, TypeOK

\* A clamp to the ceiling of the hour rebuilds the bucket at that rate, drained.
LEMMA EnforcePreserves == ASSUME IInv, NEW t \in Callers, enforce_ceiling(t) PROVE IInv'
  <1> DEFINE ceiling == caller[t].ceiling
             s == [state EXCEPT !.effective = ceiling, !.built = ceiling]
  <1>1. /\ caller[t].pc = "enforce" /\ ceiling \in Rates /\ state \in ControllerState
        /\ ~drifted(state.effective, state.built)
    BY CallerCases DEF enforce_ceiling, IInv, TypeOK, LagIsBounded, Rates
  <1>2. UNCHANGED <<limiter, peak, hardAges>>
    BY DEF enforce_ceiling
  <1>3. /\ state' \in ControllerState /\ caller' \in [Callers -> CallerStates]
        /\ raced' \in BOOLEAN /\ LagIsBounded' /\ InstallOrder'
    <2>1. CASE state.effective > ceiling
      <3>1. Rebuild(t, s, ceiling, TRUE, "ready")
        BY <2>1 DEF enforce_ceiling
      <3>2. s \in ControllerState /\ s.effective = ceiling /\ s.built = ceiling
        BY <1>1 DEF ControllerState
      <3> HIDE DEF s, ceiling
      <3> QED
        BY <1>2, <3>1, <3>2, RebuildPreserves
    <2>2. CASE ~(state.effective > ceiling)
      <3>1. KeepBucket(t, state, "ready")
        BY <2>2 DEF enforce_ceiling
      <3> QED
        BY <1>1, <1>2, <3>1, KeepPreserves
    <2> QED
      BY <2>1, <2>2
  <1> QED
    BY <1>2, <1>3 DEF IInv, TypeOK

\* The bucket decided on replaces the installed one; alone, it is the one noted.
LEMMA InstallPreserves == ASSUME IInv, NEW t \in Callers, install(t) PROVE IInv'
  <1>1. /\ caller[t].pc = "install" /\ caller[t].tps \in Rates /\ caller[t].drain \in BOOLEAN
        /\ caller[t].next \in {"idle", "ready"}
    BY CallerCases DEF install, IInv
  <1>2. /\ limiter' = [tps |-> caller[t].tps, fresh |-> ~caller[t].drain]
        /\ caller' = [caller EXCEPT ![t] = [pc |-> caller[t].next]]
        /\ raced' = (raced /\ ~Settles(t))
        /\ UNCHANGED <<state, peak, hardAges>>
    BY DEF install
  <1>3. limiter' \in Buckets
    BY <1>1, <1>2 DEF Buckets
  <1>4. [pc |-> caller[t].next] \in CallerStates
    BY <1>1 DEF CallerStates
  <1>5. caller \in [Callers -> CallerStates]
    BY DEF IInv, TypeOK
  <1>6. \A u \in Callers : caller'[u] = IF u = t THEN [pc |-> caller[t].next] ELSE caller[u]
    BY <1>2, <1>5
  <1>7. InstallOrder'
    <2> SUFFICES ASSUME ~raced' PROVE InstallOrder'
      BY DEF InstallOrder
    <2>1. caller[t].tps = state.built /\ \A u \in Callers : caller[u].pc = "install" => u = t
      <3>1. CASE ~raced
        BY <1>1, <3>1 DEF IInv, InstallOrder
      <3>2. CASE raced
        BY <1>2, <3>2 DEF Settles, Installing
      <3> QED
        BY <3>1, <3>2
    <2>2. \A u \in Callers : caller'[u].pc # "install"
      BY <1>1, <1>6, <2>1
    <2> QED
      BY <1>2, <2>1, <2>2 DEF InstallOrder
  <1> QED
    BY <1>2, <1>3, <1>4, <1>5, <1>7 DEF IInv, TypeOK, LagIsBounded

\* A step of a caller that reads a clock or takes a permit.
LEMMA LocalPreserves ==
    ASSUME IInv, NEW t \in Callers, NEW c \in CallerStates,
           caller[t].pc # "install", c.pc # "install",
           caller' = [caller EXCEPT ![t] = c], limiter' \in Buckets, limiter'.tps = limiter.tps,
           UNCHANGED <<state, peak, raced, hardAges>>
    PROVE  IInv'
  <1>1. caller \in [Callers -> CallerStates]
    BY DEF IInv, TypeOK
  <1>2. \A u \in Callers : caller'[u] = IF u = t THEN c ELSE caller[u]
    BY <1>1
  <1>3. InstallOrder'
    BY <1>2 DEF IInv, InstallOrder
  <1> QED
    BY <1>1, <1>3 DEF IInv, TypeOK, LagIsBounded

LEMMA ElapsePreserves == ASSUME IInv, Elapse PROVE IInv'
  <1> DEFINE older(t) == IF caller[t].pc = "record" THEN [caller[t] EXCEPT !.age = @ + 1]
                         ELSE caller[t]
  <1>1. /\ state' = Aged(state) /\ caller' = [t \in Callers |-> older(t)]
        /\ UNCHANGED <<limiter, peak, raced>>
    BY DEF Elapse
  <1>2. state' \in ControllerState /\ state'.built = state.built /\ state'.effective = state.effective
    BY <1>1, AgedTyped DEF IInv, TypeOK
  <1>3. ASSUME NEW t \in Callers
        PROVE  /\ older(t) \in CallerStates
               /\ caller[t].pc # "install" => older(t).pc # "install"
               /\ caller[t].pc = "install" => older(t) = caller[t]
    <2>1. caller[t] \in CallerStates /\ (caller[t].pc = "record" => caller[t].age < MaxDelay)
      BY DEF IInv, TypeOK, Elapse
    <2>2. CASE caller[t].pc = "record"
      <3>1. caller[t] \in [pc : {"record"}, feedback : Feedback, ceiling : {Peak, Base},
                           age : 0..MaxDelay]
        BY <2>1, <2>2 DEF CallerStates
      <3>2. caller[t].age + 1 \in 0..MaxDelay
        BY <2>1, <2>2, <3>1
      <3> QED
        BY <2>2, <3>1, <3>2 DEF CallerStates
    <2> QED
      BY <2>1, <2>2
  <1>4. caller' \in [Callers -> CallerStates]
    BY <1>1, <1>3
  <1>5. InstallOrder'
    <2>1. \A t \in Callers : caller'[t] = older(t)
      BY <1>1
    <2> HIDE DEF older
    <2> QED
      BY <1>1, <1>2, <1>3, <2>1 DEF IInv, InstallOrder
  <1>6. hardAges' \subseteq 0..DecreaseHorizon
    BY DEF Elapse, IInv, TypeOK, DecreaseHorizon
  <1> QED
    BY <1>1, <1>2, <1>4, <1>5, <1>6 DEF IInv, TypeOK, LagIsBounded

LEMMA StepPreserves == IInv /\ [Next]_vars => IInv'
  <1> SUFFICES ASSUME IInv, [Next]_vars PROVE IInv'
    OBVIOUS
  <1>1. CASE \E t \in Callers : record(t)
    BY <1>1, RecordPreserves
  <1>2. CASE \E t \in Callers : enforce_ceiling(t)
    BY <1>2, EnforcePreserves
  <1>3. CASE \E t \in Callers : install(t)
    BY <1>3, InstallPreserves
  <1>4. ASSUME NEW t \in Callers, Permit(t) PROVE IInv'
    <2>1. Idle \in CallerStates /\ Idle.pc = "idle"
      BY DEF Idle, CallerStates
    <2>2. limiter' \in Buckets /\ limiter'.tps = limiter.tps
      BY <1>4 DEF Permit, IInv, TypeOK, Buckets
    <2> QED
      BY <1>4, <2>1, <2>2, LocalPreserves DEF Permit
  <1>5. ASSUME NEW t \in Callers, until_ready(t) PROVE IInv'
    <2> DEFINE c == [pc |-> "enforce", ceiling |-> Ceiling(peak)]
    <2>1. c \in CallerStates /\ c.pc = "enforce"
      BY DEF CallerStates, Ceiling
    <2>2. limiter \in Buckets
      BY DEF IInv, TypeOK
    <2> HIDE DEF c
    <2>3. caller' = [caller EXCEPT ![t] = c] /\ caller[t].pc = "idle"
          /\ UNCHANGED <<state, limiter, peak, raced, hardAges>>
      BY <1>5 DEF until_ready, c
    <2> QED
      BY <2>1, <2>2, <2>3, LocalPreserves
  <1>6. ASSUME NEW t \in Callers, NEW f \in Feedback, record_feedback(t, f) PROVE IInv'
    <2> DEFINE c == [pc |-> "record", feedback |-> f, ceiling |-> Ceiling(peak), age |-> 0]
    <2>1. c \in CallerStates /\ c.pc = "record"
      BY DEF CallerStates, Ceiling
    <2>2. limiter \in Buckets
      BY DEF IInv, TypeOK
    <2> HIDE DEF c
    <2>3. caller' = [caller EXCEPT ![t] = c] /\ caller[t].pc = "idle"
          /\ UNCHANGED <<state, limiter, peak, raced, hardAges>>
      BY <1>6 DEF record_feedback, c
    <2> QED
      BY <2>1, <2>2, <2>3, LocalPreserves
  <1>7. CASE check
    <2>1. limiter' \in Buckets /\ limiter'.tps = limiter.tps
      BY <1>7 DEF check, IInv, TypeOK, Buckets
    <2> QED
      BY <1>7, <2>1 DEF check, IInv, TypeOK, LagIsBounded, InstallOrder
  <1>8. CASE Elapse
    BY <1>8, ElapsePreserves
  <1>9. CASE is_morning_peak
    BY <1>9 DEF is_morning_peak, IInv, TypeOK, LagIsBounded, InstallOrder
  <1>10. CASE UNCHANGED vars
    BY <1>10 DEF vars, IInv, TypeOK, LagIsBounded, InstallOrder
  <1> QED
    BY <1>1, <1>2, <1>3, <1>4, <1>5, <1>6, <1>7, <1>8, <1>9, <1>10 DEF Next, CallerStep

\* The inductive invariant: types, bounded lag, and the order of installations.
THEOREM Inductive == Spec => []IInv
  BY InitIInv, StepPreserves, PTL DEF Spec

\* Types, and with them "the result is always within [floor, ceiling]"
\* (dynamic.rs:131) for every rate decided on, noted or installed.
THEOREM TypeCorrect == Spec => []TypeOK
  <1>1. IInv => TypeOK
    BY DEF IInv
  <1> QED
    BY <1>1, Inductive, PTL

\* The lag of the bucket noted as built behind the effective rate is bounded by the
\* threshold (dynamic.rs:93), with any number of tasks.
THEOREM LagBounded == Spec => []LagIsBounded
  <1>1. IInv => LagIsBounded
    BY DEF IInv
  <1> QED
    BY <1>1, Inductive, PTL

\* Once every installation is over the bucket is the one noted (dynamic.rs:93), unless
\* two decisions overlapped and no installation has settled it since.
THEOREM BucketCorrect == Spec => []BucketIsBuilt
  <1>1. IInv => BucketIsBuilt
    BY DEF IInv, InstallOrder, BucketIsBuilt, Installing
  <1> QED
    BY <1>1, Inductive, PTL

\* Under the same condition no slower bucket is installed with its first cell unused
\* (dynamic.rs:262).
THEOREM DecreaseDrained == Spec => DecreaseIsDrained
  <1>1. IInv /\ [Next]_vars => [~raced /\ limiter'.tps < limiter.tps => ~limiter'.fresh]_vars
    <2> SUFFICES ASSUME IInv, Next, ~raced, limiter'.tps < limiter.tps PROVE ~limiter'.fresh
      BY DEF vars
    <2>1. limiter \in Buckets
      BY DEF IInv, TypeOK
    <2>2. ASSUME NEW t \in Callers, install(t) PROVE ~limiter'.fresh
      <3>1. /\ caller[t].pc = "install" /\ caller[t].drain \in BOOLEAN
            /\ limiter' = [tps |-> caller[t].tps, fresh |-> ~caller[t].drain]
        BY <2>2, CallerCases DEF install, IInv
      <3>2. caller[t].tps < limiter.tps => caller[t].drain
        BY <3>1 DEF IInv, InstallOrder
      <3> QED
        BY <3>1, <3>2
    <2>3. ASSUME limiter'.tps # limiter.tps PROVE \E t \in Callers : install(t)
      BY <2>1, <2>3 DEF Next, CallerStep, record, enforce_ceiling, Permit, until_ready, record_feedback,
                        check, Elapse, is_morning_peak, Buckets
    <2>4. limiter'.tps # limiter.tps
      BY <2>1 DEF Buckets, Rates
    <2> QED
      BY <2>2, <2>3, <2>4
  <1> QED
    BY <1>1, Inductive, PTL DEF Spec, DecreaseIsDrained

----------------------------------------------------------------------------
(* The cooldown of hard decreases. *)

\* The stamp behind the mutex is the latest hard decrease of the history, although
\* tasks stamp with clock readings that are out of order.
HardIsLatest ==
    /\ \A h \in hardAges : state.hard <= h
    /\ state.hard < DecreaseHorizon => state.hard \in hardAges

\* What a record does to the rate, the stamp and the history.
LEMMA RecordEffect ==
    ASSUME IInv, NEW t \in Callers, record(t)
    PROVE  LET c == caller[t]
               hard == HardDecrease(state, c.feedback, c.age)
           IN  /\ state'.effective = clamp(TargetRate(state, c.feedback, c.age), Floor, c.ceiling)
               /\ state'.hard = IF hard THEN c.age ELSE state.hard
               /\ hardAges' = IF hard THEN hardAges \cup {c.age} ELSE hardAges
  <1> DEFINE c == caller[t]
             s == apply_feedback(state, c.feedback, c.ceiling, c.age)
             st == Stamped(state, c.feedback, c.age)
             rate == clamp(TargetRate(state, c.feedback, c.age), Floor, c.ceiling)
             stamp == IF HardDecrease(state, c.feedback, c.age) THEN c.age ELSE state.hard
  <1>1. state \in ControllerState
    BY DEF IInv, TypeOK
  <1>2. /\ st.hard = stamp
        /\ DOMAIN st = DOMAIN state
    <2>1. "hard" \in DOMAIN state /\ "soft" \in DOMAIN state /\ "increase" \in DOMAIN state
      BY <1>1 DEF ControllerState
    <2> QED
      BY <2>1, Zenon DEF Stamped
  <1>3. s.hard = stamp /\ s.effective = rate /\ DOMAIN s = DOMAIN state
    <2>1. "hard" \in DOMAIN state /\ "effective" \in DOMAIN state
      BY <1>1 DEF ControllerState
    <2> HIDE DEF st, rate, stamp, c
    <2>2. s = [st EXCEPT !.effective = rate,
                         !.park = IF c.feedback.retry = Absent THEN @
                                  ELSE Larger(c.feedback.retry - c.age, 0)]
      BY DEF apply_feedback, st, rate
    <2> HIDE DEF s
    <2> QED
      BY <1>2, <2>1, <2>2
  <1>4. "hard" \in DOMAIN state /\ "effective" \in DOMAIN state
    BY <1>1 DEF ControllerState
  <1>5. state' = s \/ state' = [s EXCEPT !.built = s.effective]
    BY DEF record, Rebuild, KeepBucket
  <1>6. state'.hard = stamp /\ state'.effective = rate
    <2> HIDE DEF s, rate, stamp
    <2>1. CASE state' = s
      BY <1>3, <2>1
    <2>2. CASE state' = [s EXCEPT !.built = s.effective]
      BY <1>3, <1>4, <2>2
    <2> QED
      BY <1>5, <2>1, <2>2
  <1> QED
    BY <1>6 DEF record

LEMMA HardIsLatestStep == IInv /\ HardIsLatest /\ [Next]_vars => HardIsLatest'
  <1> SUFFICES ASSUME IInv, HardIsLatest, [Next]_vars PROVE HardIsLatest'
    OBVIOUS
  <1> DEFINE same == state'.hard = state.hard /\ hardAges' = hardAges
  <1>0. /\ state \in ControllerState /\ state.hard \in 0..DecreaseHorizon
        /\ hardAges \subseteq 0..DecreaseHorizon /\ DecreaseHorizon \in Nat
    BY DEF IInv, TypeOK, ControllerState, DecreaseHorizon
  <1>1. ASSUME NEW t \in Callers, record(t) PROVE HardIsLatest'
    <2>1. caller[t].age \in 0..MaxDelay
      BY <1>1, CallerCases DEF record, IInv
    <2>2. CASE HardDecrease(state, caller[t].feedback, caller[t].age)
      <3>1. state'.hard = caller[t].age /\ hardAges' = hardAges \cup {caller[t].age}
        BY <1>1, <2>2, RecordEffect
      <3>2. state.hard - caller[t].age >= DecreaseCooldown
        BY <2>2 DEF HardDecrease, cooled_down
      <3>3. caller[t].age <= state.hard
        BY <1>0, <2>1, <3>2
      <3> QED
        BY <1>0, <2>1, <3>1, <3>3 DEF HardIsLatest
    <2>3. CASE ~HardDecrease(state, caller[t].feedback, caller[t].age)
      <3>1. same
        BY <1>1, <2>3, RecordEffect
      <3> QED
        BY <3>1 DEF HardIsLatest
    <2> QED
      BY <2>2, <2>3
  <1>2. ASSUME NEW t \in Callers, enforce_ceiling(t) PROVE HardIsLatest'
    <2>1. same
      BY <1>0, <1>2 DEF enforce_ceiling, Rebuild, KeepBucket, ControllerState
    <2> QED
      BY <2>1 DEF HardIsLatest
  <1>3. CASE Elapse
    <2>1. state'.hard = Smaller(state.hard + 1, DecreaseHorizon)
      BY <1>0, <1>3 DEF Elapse, Aged, ControllerState
    <2>2. hardAges' = {a + 1 : a \in {h \in hardAges : h < DecreaseHorizon - 1}}
      BY <1>3 DEF Elapse
    <2>3. ASSUME NEW h \in hardAges' PROVE state'.hard <= h
      <3>1. PICK a \in hardAges : h = a + 1
        BY <2>2
      <3> QED
        BY <1>0, <2>1, <3>1 DEF HardIsLatest, Smaller
    <2>4. ASSUME state'.hard < DecreaseHorizon PROVE state'.hard \in hardAges'
      <3>1. state'.hard = state.hard + 1 /\ state.hard < DecreaseHorizon - 1
        BY <1>0, <2>1, <2>4 DEF Smaller
      <3>2. state.hard \in hardAges
        BY <1>0, <3>1 DEF HardIsLatest
      <3> QED
        BY <2>2, <3>1, <3>2
    <2> QED
      BY <2>3, <2>4 DEF HardIsLatest
  <1>4. CASE UNCHANGED <<state, hardAges>>
    BY <1>4 DEF HardIsLatest
  <1> QED
    BY <1>1, <1>2, <1>3, <1>4 DEF Next, CallerStep, install, Permit, until_ready, record_feedback,
                                  check, is_morning_peak, vars

\* A 429 without a limit lowers the rate exactly when no other did within the
\* cooldown (dynamic.rs:132), for any number of tasks and any delay of theirs.
THEOREM HardCooldown == Spec => HardCooldownIsItsOwn
  <1>1. Init => HardIsLatest
    BY DEF Init, HardIsLatest, new_state, DecreaseHorizon
  <1>2. IInv /\ HardIsLatest /\ [Next]_vars
           => [\A t \in Callers :
                 LET c == caller[t]
                     due == \A h \in hardAges : h - c.age >= DecreaseCooldown
                     asked == IF due THEN (state.effective * HardFactor) \div 100 ELSE state.effective
                 IN  c.pc = "record" /\ c.feedback.kind = "RateLimited" /\ c.feedback.limit = Absent
                        /\ caller'[t].pc # "record"
                     => state'.effective = clamp(asked, Floor, c.ceiling)]_vars
    <2> SUFFICES ASSUME IInv, HardIsLatest, Next, NEW t \in Callers,
                        caller[t].pc = "record", caller[t].feedback.kind = "RateLimited",
                        caller[t].feedback.limit = Absent, caller'[t].pc # "record"
                 PROVE  LET c == caller[t]
                            due == \A h \in hardAges : h - c.age >= DecreaseCooldown
                            asked == IF due THEN (state.effective * HardFactor) \div 100
                                     ELSE state.effective
                        IN  state'.effective = clamp(asked, Floor, c.ceiling)
      OBVIOUS
    <2> DEFINE age == caller[t].age
               due == \A h \in hardAges : h - age >= DecreaseCooldown
    <2>1. record(t)
      <3>1. caller \in [Callers -> CallerStates]
        BY DEF IInv, TypeOK
      <3>2. ASSUME NEW u \in Callers, u # t, NEW c, caller' = [caller EXCEPT ![u] = c] PROVE FALSE
        BY <3>1, <3>2
      <3>3. ASSUME NEW u \in Callers, record(u) \/ enforce_ceiling(u) PROVE u = t
        BY <3>1, <3>2, <3>3 DEF record, enforce_ceiling, Rebuild, KeepBucket
      <3>4. ASSUME NEW u \in Callers, install(u) \/ Permit(u) \/ until_ready(u) PROVE FALSE
        BY <3>1, <3>2, <3>4 DEF install, Permit, until_ready
      <3>5. ASSUME NEW u \in Callers, NEW f \in Feedback, record_feedback(u, f) PROVE FALSE
        BY <3>1, <3>2, <3>5 DEF record_feedback
      <3>6. ~check /\ ~is_morning_peak
        BY DEF check, is_morning_peak
      <3>7. ~Elapse
        <4>1. caller[t] \in [pc : {"record"}, feedback : Feedback, ceiling : {Peak, Base},
                             age : 0..MaxDelay]
          BY <3>1 DEF CallerStates
        <4>2. [caller[t] EXCEPT !.age = @ + 1].pc = "record"
          BY <4>1
        <4> QED
          BY <4>2 DEF Elapse
      <3>8. ~enforce_ceiling(t)
        BY DEF enforce_ceiling
      <3> QED
        BY <3>3, <3>4, <3>5, <3>6, <3>7, <3>8 DEF Next, CallerStep
    <2>2. state'.effective = clamp(TargetRate(state, caller[t].feedback, age), Floor, caller[t].ceiling)
      BY <2>1, RecordEffect
    <2>3. /\ age \in 0..MaxDelay /\ state.hard \in 0..DecreaseHorizon
          /\ hardAges \subseteq 0..DecreaseHorizon
      BY CallerCases DEF IInv, TypeOK, ControllerState
    <2>4. due <=> cooled_down(state.hard, age, DecreaseCooldown)
      <3>1. CASE state.hard < DecreaseHorizon
        BY <2>3, <3>1 DEF HardIsLatest, cooled_down
      <3>2. CASE state.hard = DecreaseHorizon
        <4>1. DecreaseHorizon - age >= DecreaseCooldown /\ DecreaseHorizon \in Nat
          BY <2>3 DEF DecreaseHorizon
        <4>2. \A h \in hardAges : h = DecreaseHorizon
          BY <2>3, <3>2, <4>1 DEF HardIsLatest
        <4> QED
          BY <3>2, <4>1, <4>2 DEF cooled_down
      <3> QED
        BY <2>3, <3>1, <3>2 DEF DecreaseHorizon
    <2>5. due <=> HardDecrease(state, caller[t].feedback, age)
      BY <2>4 DEF HardDecrease
    <2>6. TargetRate(state, caller[t].feedback, age)
             = IF due THEN (state.effective * HardFactor) \div 100 ELSE state.effective
      BY <2>5 DEF TargetRate, SoftDecrease, Increase
    <2> QED
      BY <2>2, <2>6
  <1> QED
    BY <1>1, <1>2, HardIsLatestStep, Inductive, PTL DEF Spec, HardCooldownIsItsOwn
====
