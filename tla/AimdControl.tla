---- MODULE AimdControl ----
(* The control law of tossinvest-rate/dynamic.rs, apply_feedback, as a pure   *)
(* operator on the controller state of one group. Rates are whole requests    *)
(* per second, products round down; the code uses f64. An Instant is given    *)
(* by its distance from the present: how long ago a decrease or an increase   *)
(* was, how far ahead a park ends. Past its horizon an age does not count,    *)
(* and `None` (it never happened) is the horizon. Operators under "Fault" are *)
(* plausible bugs, each a variant of the operator defined after it.           *)
EXTENDS Integers

CONSTANTS Base, Peak,            \* base_tps and peak_tps of the group
          Floor,                 \* floor_tps
          HardFactor,            \* decrease_factor, in percent
          SoftFactor,            \* soft_decrease_factor, in percent
          IncreaseStep,          \* increase_step
          DecreaseCooldown,      \* decrease_cooldown
          IncreaseCooldown,      \* increase_cooldown
          RebuildThreshold,      \* rebuild_threshold, in percent
          Limits,                \* values of X-RateLimit-Limit
          RetryAfters,           \* values of Retry-After
          MaxDelay,              \* bound: between a clock reading and its use
          Absent                 \* a header that is not there

ASSUME RatesAssumption ==
    /\ Base \in Nat /\ Peak \in Nat /\ Floor \in Nat
    /\ 0 < Floor /\ Floor <= Peak /\ Peak <= Base

ASSUME TuningAssumption ==
    /\ HardFactor \in 0..100 /\ SoftFactor \in 0..100
    /\ IncreaseStep \in Nat /\ RebuildThreshold \in Nat
    /\ DecreaseCooldown \in Nat \ {0} /\ IncreaseCooldown \in Nat \ {0}

ASSUME HeadersAssumption ==
    /\ Limits \subseteq Nat /\ RetryAfters \subseteq Nat
    /\ MaxDelay \in Nat /\ Absent \notin Nat

Larger(x, y) == IF x >= y THEN x ELSE y
Smaller(x, y) == IF x <= y THEN x ELSE y

DecreaseHorizon == DecreaseCooldown + MaxDelay
IncreaseHorizon == IncreaseCooldown + MaxDelay

Rates == Floor..Base
ControllerState ==
    [effective : Rates, built : Rates, hard : 0..DecreaseHorizon, soft : 0..DecreaseHorizon,
     increase : 0..IncreaseHorizon, park : Nat]

\* ServerError and Timeout are one kind: the law has one arm for both.
Feedback ==
    [kind : {"Congestion"}, limit : {Absent}, retry : {Absent}]
        \cup [kind : {"Success"}, limit : Limits \cup {Absent}, retry : {Absent}]
        \cup [kind : {"RateLimited"}, limit : Limits \cup {Absent},
              retry : RetryAfters \cup {Absent}]

\* RateLimitGroup::effective_tps
Ceiling(peak) == IF peak THEN Peak ELSE Base

new_state == [effective |-> Base, built |-> Base, hard |-> DecreaseHorizon,
              soft |-> DecreaseHorizon, increase |-> IncreaseHorizon, park |-> 0]

\* now.duration_since(last), of a reading `age` ago, has reached the cooldown; an
\* event after the reading gives zero.
cooled_down(last, age, cooldown) == last - age >= cooldown

\* Fault: the floor is forgotten.
clamp_no_floor(v, lo, hi) == Smaller(v, Larger(hi, lo))

clamp(v, lo, hi) == Smaller(Larger(v, lo), Larger(hi, lo))

HardDecrease(s, f, age) ==
    f.kind = "RateLimited" /\ f.limit = Absent /\ cooled_down(s.hard, age, DecreaseCooldown)

SoftDecrease(s, f, age) ==
    f.kind = "Congestion" /\ cooled_down(s.soft, age, DecreaseCooldown)

Increase(s, f, age) ==
    f.kind = "Success" /\ f.limit = Absent /\ cooled_down(s.increase, age, IncreaseCooldown)

\* What the feedback asks for, before it is clamped.
TargetRate(s, f, age) ==
    CASE f.kind = "Success" /\ f.limit # Absent     -> f.limit
      [] f.kind = "RateLimited" /\ f.limit # Absent -> Smaller(f.limit, s.effective)
      [] HardDecrease(s, f, age) -> (s.effective * HardFactor) \div 100
      [] SoftDecrease(s, f, age) -> (s.effective * SoftFactor) \div 100
      [] Increase(s, f, age)     -> s.effective + IncreaseStep
      [] OTHER                   -> s.effective

\* Fault: one cooldown for hard and soft decreases.
Stamped_Shared(s, f, age) ==
    LET decrease == HardDecrease(s, f, age) \/ SoftDecrease(s, f, age)
    IN  [s EXCEPT !.hard = IF decrease THEN age ELSE @,
                  !.soft = IF decrease THEN age ELSE @,
                  !.increase = IF Increase(s, f, age) THEN age ELSE @]

\* Fault: every success starts the cooldown of increases anew.
Stamped_EverySuccess(s, f, age) ==
    [s EXCEPT !.hard = IF HardDecrease(s, f, age) THEN age ELSE @,
              !.soft = IF SoftDecrease(s, f, age) THEN age ELSE @,
              !.increase = IF f.kind = "Success" THEN age ELSE @]

Stamped(s, f, age) ==
    [s EXCEPT !.hard = IF HardDecrease(s, f, age) THEN age ELSE @,
              !.soft = IF SoftDecrease(s, f, age) THEN age ELSE @,
              !.increase = IF Increase(s, f, age) THEN age ELSE @]

\* `age` is how long ago the caller read the clock (`now`), and the ceiling with it.
apply_feedback(s, f, ceiling, age) ==
    [Stamped(s, f, age) EXCEPT
        !.effective = clamp(TargetRate(s, f, age), Floor, ceiling),
        !.park = IF f.retry = Absent THEN @ ELSE Larger(f.retry - age, 0)]

\* Whether the bucket is too far from the effective rate (record, line 296).
drifted(effective, built) ==
    100 * Larger(effective - built, built - effective)
        > Larger(built, 1) * RebuildThreshold

----------------------------------------------------------------------------
\* The state of the group one unit of time later.
Aged(s) == [s EXCEPT !.hard = Smaller(@ + 1, DecreaseHorizon),
                     !.soft = Smaller(@ + 1, DecreaseHorizon),
                     !.increase = Smaller(@ + 1, IncreaseHorizon),
                     !.park = Larger(@ - 1, 0)]
====
