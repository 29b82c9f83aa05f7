---- MODULE DynamicLimiter ----
(* DynamicLimiter of tossinvest-rate/dynamic.rs for one group, called by      *)
(* several tasks at once. `record` reads the clocks (record_feedback), runs   *)
(* the control law under the state mutex and installs a new bucket after it;  *)
(* `until_ready` reads the wall clock, lowers the rate to the ceiling under   *)
(* the mutex, installs, then loads the bucket and waits for a cell. `check`   *)
(* takes a cell from the bucket that is installed. How the bucket spaces its  *)
(* later cells is governor's and is left out.                                 *)
EXTENDS AimdControl

CONSTANT Callers      \* tasks that use the limiter of the group

VARIABLES
    state,     \* the ControllerState behind the mutex
    limiter,   \* the installed bucket: its rate, and whether its first cell is unused
    caller,    \* task -> where it is in record or until_ready
    peak,      \* the KST clock is in the peak window
    raced,     \* history: a bucket was decided on while another was being installed,
               \* and no installation of the rate noted as built, alone, ended that since
    hardAges   \* history: how long ago hard decreases were, up to the horizon

vars == <<state, limiter, caller, peak, raced, hardAges>>

Idle == [pc |-> "idle"]
Buckets == [tps : Rates, fresh : BOOLEAN]

Init ==
    /\ state = new_state
    /\ limiter = [tps |-> Base, fresh |-> TRUE]
    /\ caller = [t \in Callers |-> Idle]
    /\ peak \in BOOLEAN
    /\ raced = FALSE
    /\ hardAges = {}

Installing == {t \in Callers : caller[t].pc = "install"}

\* Both mutex sections end in a decision to install a bucket, or not.
Rebuild(t, s, tps, drain, next) ==
    /\ state' = s
    /\ caller' = [caller EXCEPT ![t] = [pc |-> "install", tps |-> tps, drain |-> drain,
                                        next |-> next]]
    /\ raced' = (raced \/ Installing # {})

KeepBucket(t, s, next) ==
    /\ state' = s
    /\ caller' = [caller EXCEPT ![t] = [pc |-> next]]
    /\ UNCHANGED raced

----------------------------------------------------------------------------
(* record *)

record_feedback(t, f) ==
    /\ caller[t].pc = "idle"
    /\ caller' = [caller EXCEPT ![t] = [pc |-> "record", feedback |-> f,
                                        ceiling |-> Ceiling(peak), age |-> 0]]
    /\ UNCHANGED <<state, limiter, peak, raced, hardAges>>

\* Fault: a bucket that replaces a faster one starts full.
record_Undrained(t) ==
    /\ caller[t].pc = "record"
    /\ LET c == caller[t]
           s == apply_feedback(state, c.feedback, c.ceiling, c.age)
       IN  /\ IF drifted(s.effective, s.built)
                 THEN Rebuild(t, [s EXCEPT !.built = s.effective], s.effective, FALSE, "idle")
                 ELSE KeepBucket(t, s, "idle")
           /\ hardAges' = IF HardDecrease(state, c.feedback, c.age)
                             THEN hardAges \cup {c.age} ELSE hardAges
    /\ UNCHANGED <<limiter, peak>>

record(t) ==
    /\ caller[t].pc = "record"
    /\ LET c == caller[t]
           s == apply_feedback(state, c.feedback, c.ceiling, c.age)
       IN  /\ IF drifted(s.effective, s.built)
                 THEN Rebuild(t, [s EXCEPT !.built = s.effective], s.effective,
                              s.effective < s.built, "idle")
                 ELSE KeepBucket(t, s, "idle")
           /\ hardAges' = IF HardDecrease(state, c.feedback, c.age)
                             THEN hardAges \cup {c.age} ELSE hardAges
    /\ UNCHANGED <<limiter, peak>>

\* Alone in installing the rate noted as built.
Settles(t) == Installing = {t} /\ caller[t].tps = state.built

install(t) ==
    /\ caller[t].pc = "install"
    /\ limiter' = [tps |-> caller[t].tps, fresh |-> ~caller[t].drain]
    /\ caller' = [caller EXCEPT ![t] = [pc |-> caller[t].next]]
    /\ raced' = (raced /\ ~Settles(t))
    /\ UNCHANGED <<state, peak, hardAges>>

----------------------------------------------------------------------------
(* until_ready and check *)

until_ready(t) ==
    /\ caller[t].pc = "idle"
    /\ caller' = [caller EXCEPT ![t] = [pc |-> "enforce", ceiling |-> Ceiling(peak)]]
    /\ UNCHANGED <<state, limiter, peak, raced, hardAges>>

\* Fault: the clamp is not noted as the rate of a bucket to come.
enforce_ceiling_NotBuilt(t) ==
    /\ caller[t].pc = "enforce"
    /\ LET ceiling == caller[t].ceiling
       IN  IF state.effective > ceiling
              THEN Rebuild(t, [state EXCEPT !.effective = ceiling], ceiling, TRUE, "ready")
              ELSE KeepBucket(t, state, "ready")
    /\ UNCHANGED <<limiter, peak, hardAges>>

\* Fault: the clamp changes the rate and installs no bucket.
enforce_ceiling_NoInstall(t) ==
    /\ caller[t].pc = "enforce"
    /\ LET ceiling == caller[t].ceiling
       IN  IF state.effective > ceiling
              THEN KeepBucket(t, [state EXCEPT !.effective = ceiling, !.built = ceiling], "ready")
              ELSE KeepBucket(t, state, "ready")
    /\ UNCHANGED <<limiter, peak, hardAges>>

enforce_ceiling(t) ==
    /\ caller[t].pc = "enforce"
    /\ LET ceiling == caller[t].ceiling
       IN  IF state.effective > ceiling
              THEN Rebuild(t, [state EXCEPT !.effective = ceiling, !.built = ceiling],
                           ceiling, TRUE, "ready")
              ELSE KeepBucket(t, state, "ready")
    /\ UNCHANGED <<limiter, peak, hardAges>>

\* The permit, from the bucket that is installed when the caller loads it.
Permit(t) ==
    /\ caller[t].pc = "ready"
    /\ caller' = [caller EXCEPT ![t] = Idle]
    /\ limiter' = [limiter EXCEPT !.fresh = FALSE]
    /\ UNCHANGED <<state, peak, raced, hardAges>>

check ==
    /\ limiter.fresh
    /\ limiter' = [limiter EXCEPT !.fresh = FALSE]
    /\ UNCHANGED <<state, caller, peak, raced, hardAges>>

----------------------------------------------------------------------------
(* Time, the wall clock and the server. *)

\* A task uses its clock reading within MaxDelay.
Elapse ==
    /\ \A t \in Callers : caller[t].pc = "record" => caller[t].age < MaxDelay
    /\ state' = Aged(state)
    /\ caller' = [t \in Callers |-> IF caller[t].pc = "record"
                                       THEN [caller[t] EXCEPT !.age = @ + 1] ELSE caller[t]]
    /\ hardAges' = {a + 1 : a \in {h \in hardAges : h < DecreaseHorizon - 1}}
    /\ UNCHANGED <<limiter, peak, raced>>

is_morning_peak == peak' = ~peak /\ UNCHANGED <<state, limiter, caller, raced, hardAges>>

----------------------------------------------------------------------------
CallerStep(t) == record(t) \/ install(t) \/ enforce_ceiling(t) \/ Permit(t)

Next ==
    \/ \E t \in Callers :
          \/ CallerStep(t) \/ until_ready(t)
          \/ \E f \in Feedback : record_feedback(t, f)
    \/ check \/ Elapse \/ is_morning_peak

Spec == Init /\ [][Next]_vars

PlainSuccess == [kind |-> "Success", limit |-> Absent, retry |-> Absent]

\* A task goes on with what it began, time passes, and requests that the server
\* answers without complaint keep coming.
Fairness ==
    /\ WF_vars(Elapse)
    /\ \A t \in Callers :
          /\ WF_vars(CallerStep(t))
          /\ SF_vars(record_feedback(t, PlainSuccess))

FairSpec == Spec /\ Fairness

----------------------------------------------------------------------------
(* Properties. *)

CallerStates ==
    [pc : {"idle", "ready"}]
        \cup [pc : {"record"}, feedback : Feedback, ceiling : {Peak, Base}, age : 0..MaxDelay]
        \cup [pc : {"enforce"}, ceiling : {Peak, Base}]
        \cup [pc : {"install"}, tps : Rates, drain : BOOLEAN, next : {"idle", "ready"}]

\* Types; among them that every rate, decided on or installed, lies between the
\* floor and the documented rate (dynamic.rs:131), whatever the headers say.
TypeOK ==
    /\ state \in ControllerState
    /\ limiter \in Buckets
    /\ caller \in [Callers -> CallerStates]
    /\ peak \in BOOLEAN /\ raced \in BOOLEAN
    /\ hardAges \subseteq 0..DecreaseHorizon

\* The bucket decided on last never lags the rate the cadence planner reads by
\* more than the threshold, however drifts add up (dynamic.rs:93).
LagIsBounded == ~drifted(state.effective, state.built)

\* The installed bucket has the rate noted as built once every installation is over,
\* whichever of record and until_ready decided on it (dynamic.rs:93). Not after two
\* decisions that overlapped: the mutex is released before the bucket is stored, the
\* older decision may store last, and its bucket then stays until the next
\* installation that runs alone.
BucketIsBuilt == ~raced /\ Installing = {} => limiter.tps = state.built

\* "Ratcheting down never grants an immediate fresh burst" (dynamic.rs:262), for the
\* installations of decisions that did not overlap. It fails for those that did: with
\* 4 installed, one task decides on 2 and another then on 3, which is no decrease to
\* it; if the second stores first, an undrained bucket of 3 replaces the one of 4.
DecreaseIsDrained == [][~raced /\ limiter'.tps < limiter.tps => ~limiter'.fresh]_vars

\* A 429 without a limit lowers the rate if no other 429 did within the cooldown,
\* and only then: no timeout or 5xx before it suppresses it (dynamic.rs:132), and a
\* burst of 429s that several tasks report late and out of order lowers it once.
HardCooldownIsItsOwn ==
    [][\A t \in Callers :
          LET c == caller[t]
              due == \A h \in hardAges : h - c.age >= DecreaseCooldown
              asked == IF due THEN (state.effective * HardFactor) \div 100 ELSE state.effective
          IN  c.pc = "record" /\ c.feedback.kind = "RateLimited" /\ c.feedback.limit = Absent
                 /\ caller'[t].pc # "record"
              => state'.effective = clamp(asked, Floor, c.ceiling)]_vars

\* A record of anything but a success without headers, or a turn of the window.
Disturbed ==
    \/ peak' # peak
    \/ \E t \in Callers : /\ caller[t].pc = "record" /\ caller'[t].pc # "record"
                          /\ caller[t].feedback # PlainSuccess

\* "Recovers it up to - never beyond - the documented (peak-aware) baseline"
\* (dynamic.rs:5): when the server no longer complains the rate climbs back to the
\* ceiling of the hour and is there again and again.
RateRecovers ==
    <>[][~Disturbed]_vars => []<>(state.effective = Ceiling(peak))
====
