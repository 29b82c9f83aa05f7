---- MODULE PipelineProofs ----
(* Proofs about RequestPipeline for any callers, calls, retry policy and      *)
(* values of Retry-After.                                                     *)
EXTENDS RequestPipeline, TLAPS

Signals ==
    [kind : {"None", "RateLimited", "ServerError", "Timeout", "Success"},
     retry : RetryAfters \cup {Absent}]

ActiveStages == {"looping", "parked", "sent", "backoff"}

ActiveCalls ==
    [stage : ActiveStages, req : Calls, attempt : Int, throttle : Signals, sleep : Int]

CallStates ==
    {Idle} \cup [stage : {"authorizing"}, req : Calls] \cup ActiveCalls
        \cup [stage : {"done"}, answered : BOOLEAN]

TypeInv ==
    /\ call \in [Callers -> CallStates]
    /\ park \in [Groups -> Nat]
    /\ effects \in [Callers -> Nat]
    /\ known \in [Callers -> Nat]
    /\ heard \in [Callers -> [first : Signals, quiet : Nat]]

LEMMA SignalTypes ==
    /\ NoSignal \in Signals
    /\ Silence \in [first : Signals, quiet : Nat]
    /\ \A a \in Responses \cup TransportErrors :
          /\ Complaint(a) \in Signals
          /\ a.retry_after \in RetryAfters \cup {Absent}
          /\ a.status \in {"2xx", "401", "4xx", "429", "5xx", "Timeout", "Connect", "Other"}
          /\ a \in Responses => feedback_for(a) \in Signals
<1>1. NoSignal \in Signals
  BY DEF NoSignal, Signal, Signals
<1>2. Silence \in [first : Signals, quiet : Nat]
  BY <1>1 DEF Silence
<1>3. ASSUME NEW a \in Responses \cup TransportErrors
      PROVE  /\ a.retry_after \in RetryAfters \cup {Absent}
             /\ a.status \in {"2xx", "401", "4xx", "429", "5xx", "Timeout", "Connect", "Other"}
  BY <1>3 DEF Responses, TransportErrors
<1>4. ASSUME NEW a \in Responses \cup TransportErrors PROVE feedback_for(a) \in Signals
  BY <1>3, <1>4 DEF feedback_for, Signal, Signals
<1>5. ASSUME NEW a \in Responses \cup TransportErrors PROVE Complaint(a) \in Signals
  BY <1>1, <1>4, <1>5 DEF Complaint, Signal, Signals, is_retryable_status
<1> QED BY <1>1, <1>2, <1>3, <1>4, <1>5

LEMMA SleepType ==
    ASSUME NEW n \in Int, NEW r \in RetryAfters \cup {Absent}
    PROVE  sleep_backoff(n, r) \in Int
<1> DEFINE exp == BaseDelay * 2 ^ (IF n > 17 THEN 16 ELSE n - 1)
<1>1. exp \in Int
  BY PolicyAssumption, Z3
<1> QED BY <1>1, PolicyAssumption DEF sleep_backoff

LEMMA GroupOf == \A r \in Calls : r.group \in Groups
BY CallsAssumption DEF Groups

LEMMA StageOf ==
    ASSUME TypeInv, NEW c \in Callers
    PROVE  /\ call[c].stage \in {"idle", "authorizing", "done"} \cup ActiveStages
           /\ call[c].stage \in ActiveStages => call[c] \in ActiveCalls
           /\ call[c].stage = "authorizing" => call[c].req \in Calls
           /\ call[c].stage = "idle" => call[c] = Idle
BY DEF TypeInv, CallStates, ActiveCalls, ActiveStages, Idle

----------------------------------------------------------------------------
(* What each step does to the call that takes it.                             *)

Others(c) == \A d \in Callers \ {c} : call'[d] = call[d]

LEMMA CallEffect ==
    ASSUME TypeInv, NEW c \in Callers, NEW s \in CallStates, call' = [call EXCEPT ![c] = s]
    PROVE  call' \in [Callers -> CallStates] /\ call'[c] = s /\ Others(c)
BY DEF TypeInv, Others

LEMMA AwaitParkEffect ==
    ASSUME TypeInv, NEW c \in Callers, AwaitPark(c)
    PROVE  /\ call' \in [Callers -> CallStates] /\ Others(c)
           /\ call[c] \in ActiveCalls /\ call[c].sleep = 0
           /\ call'[c].stage = "parked" /\ call'[c].req = call[c].req
           /\ call'[c].throttle = call[c].throttle /\ call'[c].sleep \in Nat
<1>1. call[c] \in ActiveCalls /\ call[c].sleep = 0
  BY StageOf DEF AwaitPark, AtLoopHead, ActiveStages
<1>2. park[call[c].req.group] \in Nat /\ call[c].attempt + 1 \in Int
  BY <1>1, GroupOf DEF TypeInv, ActiveCalls
<1>3. PICK p \in Int, n \in Int : /\ p = park[call[c].req.group] /\ p \in Nat
                                   /\ n = call[c].attempt + 1
  BY <1>2
<1> DEFINE s == [call[c] EXCEPT !.stage = "parked", !.attempt = n, !.sleep = p]
<1>4. call' = [call EXCEPT ![c] = s]
  BY <1>3 DEF AwaitPark
<1>5. /\ s \in ActiveCalls
      /\ s.stage = "parked" /\ s.req = call[c].req /\ s.throttle = call[c].throttle
      /\ s.sleep = p
  BY <1>1 DEF ActiveCalls, ActiveStages
<1>6. call' \in [Callers -> CallStates] /\ call'[c] = s /\ Others(c)
  BY <1>4, <1>5, CallEffect DEF CallStates
<1> QED BY <1>1, <1>3, <1>5, <1>6

LEMMA SendEffect ==
    ASSUME TypeInv, NEW c \in Callers, Send(c)
    PROVE  /\ call' \in [Callers -> CallStates] /\ Others(c)
           /\ call[c] \in ActiveCalls /\ call[c].stage = "parked" /\ call[c].sleep = 0
           /\ call'[c].stage = "sent" /\ call'[c].req = call[c].req
           /\ call'[c].throttle = call[c].throttle
<1>1. call[c] \in ActiveCalls
  BY StageOf DEF Send, ActiveStages
<1> DEFINE s == [call[c] EXCEPT !.stage = "sent"]
<1>2. /\ s \in ActiveCalls
      /\ s.stage = "sent" /\ s.req = call[c].req /\ s.throttle = call[c].throttle
  BY <1>1 DEF ActiveCalls, ActiveStages
<1>3. call' \in [Callers -> CallStates] /\ call'[c] = s /\ Others(c)
  BY <1>2, CallEffect DEF Send, CallStates
<1> QED BY <1>1, <1>2, <1>3 DEF Send

LEMMA FirstOfType ==
    ASSUME NEW a \in Responses \cup TransportErrors, NEW th \in Signals
    PROVE  FirstOf(th, a) \in Signals
BY SignalTypes DEF FirstOf

LEMMA RetryLaterEffect ==
    ASSUME TypeInv, NEW c \in Callers, NEW a \in Responses \cup TransportErrors,
           RetryLater(c, a)
    PROVE  /\ call' \in [Callers -> CallStates] /\ Others(c)
           /\ call[c] \in ActiveCalls /\ call[c].stage = "sent"
           /\ call'[c].stage = "backoff" /\ call'[c].req = call[c].req
           /\ call'[c].throttle = FirstOf(call[c].throttle, a)
           /\ call'[c].sleep = sleep_backoff(call[c].attempt, a.retry_after)
<1>1. call[c] \in ActiveCalls /\ call[c].stage = "sent"
  BY StageOf DEF RetryLater, ActiveStages
<1>2. PICK th \in Signals, n \in Int :
         /\ th = FirstOf(call[c].throttle, a)
         /\ n = sleep_backoff(call[c].attempt, a.retry_after)
  BY <1>1, FirstOfType, SleepType, SignalTypes DEF ActiveCalls
<1>3. call' = [call EXCEPT ![c] = [call[c] EXCEPT !.stage = "backoff", !.throttle = th,
                                                  !.sleep = n]]
  BY <1>2 DEF RetryLater
<1> DEFINE s == [call[c] EXCEPT !.stage = "backoff", !.throttle = th, !.sleep = n]
<1>4. /\ s \in ActiveCalls
      /\ s.stage = "backoff" /\ s.req = call[c].req /\ s.throttle = th /\ s.sleep = n
  BY <1>1 DEF ActiveCalls, ActiveStages
<1>5. call' \in [Callers -> CallStates] /\ call'[c] = s /\ Others(c)
  BY <1>3, <1>4, CallEffect DEF CallStates
<1> QED BY <1>1, <1>2, <1>4, <1>5

LEMMA ConcludeEffect ==
    ASSUME TypeInv, NEW c \in Callers, NEW a \in Responses \cup TransportErrors,
           Conclude(c, a)
    PROVE  /\ call' \in [Callers -> CallStates] /\ Others(c)
           /\ call[c] \in ActiveCalls /\ call[c].stage = "sent"
           /\ call'[c].stage = "done" /\ call'[c].answered = (a \in Responses)
<1>1. call[c] \in ActiveCalls /\ call[c].stage = "sent"
  BY StageOf DEF Conclude, ActiveStages
<1> DEFINE s == [stage |-> "done", answered |-> a \in Responses]
<1>2. s \in CallStates
  BY DEF CallStates
<1>3. call' \in [Callers -> CallStates] /\ call'[c] = s /\ Others(c)
  BY <1>2, CallEffect DEF Conclude
<1> QED BY <1>1, <1>3

\* The start of a call and its first steps, and the ways it ends without an outcome.
LEMMA OutsideEffect ==
    ASSUME TypeInv, NEW c \in Callers
    PROVE  /\ \A r \in Calls : Call(c, r) =>
                  /\ call' \in [Callers -> CallStates] /\ Others(c)
                  /\ call'[c].stage = "authorizing" /\ call'[c].req = r
           /\ Authorize(c) =>
                  /\ call' \in [Callers -> CallStates] /\ Others(c)
                  /\ call'[c].stage = "looping" /\ call'[c].req = call[c].req
                  /\ call'[c].throttle = NoSignal /\ call'[c].sleep = 0
           /\ AuthorizeError(c) \/ Drop(c) =>
                  /\ call' \in [Callers -> CallStates] /\ Others(c)
                  /\ call'[c].stage = "idle"
<1>1. ASSUME NEW r \in Calls, Call(c, r)
      PROVE  /\ call' \in [Callers -> CallStates] /\ Others(c)
             /\ call'[c].stage = "authorizing" /\ call'[c].req = r
  <2>1. [stage |-> "authorizing", req |-> r] \in CallStates
    BY DEF CallStates
  <2> QED BY <1>1, <2>1, CallEffect DEF Call
<1>2. ASSUME Authorize(c)
      PROVE  /\ call' \in [Callers -> CallStates] /\ Others(c)
             /\ call'[c].stage = "looping" /\ call'[c].req = call[c].req
             /\ call'[c].throttle = NoSignal /\ call'[c].sleep = 0
  <2> DEFINE s == [stage |-> "looping", req |-> call[c].req, attempt |-> 0,
                   throttle |-> NoSignal, sleep |-> 0]
  <2>1. s \in ActiveCalls
    BY <1>2, StageOf, SignalTypes DEF Authorize, ActiveCalls, ActiveStages
  <2>2. call' \in [Callers -> CallStates] /\ call'[c] = s /\ Others(c)
    BY <1>2, <2>1, CallEffect DEF Authorize, CallStates
  <2> QED BY <2>2
<1>3. ASSUME AuthorizeError(c) \/ Drop(c)
      PROVE  /\ call' \in [Callers -> CallStates] /\ Others(c)
             /\ call'[c].stage = "idle"
  <2>1. Idle \in CallStates /\ Idle.stage = "idle"
    BY DEF CallStates, Idle
  <2> QED BY <1>3, <2>1, CallEffect DEF AuthorizeError, Drop
<1> QED BY <1>1, <1>2, <1>3

LEMMA HeardElapses ==
    ASSUME TypeInv, Elapse, NEW c \in Callers
    PROVE  /\ heard'[c] = [first |-> heard[c].first, quiet |-> Passed(heard[c].quiet)]
           /\ Passed(heard[c].quiet) \in Nat
<1>1. heard[c] \in [first : Signals, quiet : Nat]
  BY DEF TypeInv
<1>2. heard'[c] = [heard[c] EXCEPT !.quiet = Passed(@)]
  BY DEF Elapse
<1> QED BY <1>1, <1>2 DEF Passed

LEMMA ElapseEffect ==
    ASSUME TypeInv, Elapse, NEW c \in Callers
    PROVE  /\ call'[c] \in CallStates
           /\ call'[c].stage = call[c].stage
           /\ call[c].stage = "authorizing" => call'[c] = call[c]
           /\ call[c].stage = "done" => call'[c] = call[c]
           /\ call[c] \in ActiveCalls =>
                 /\ call'[c].req = call[c].req /\ call'[c].throttle = call[c].throttle
                 /\ call[c].stage \in {"parked", "backoff"} =>
                       call'[c].sleep = Passed(call[c].sleep)
           /\ heard'[c] = [first |-> heard[c].first, quiet |-> Passed(heard[c].quiet)]
           /\ Passed(heard[c].quiet) \in Nat
<1>1. CASE call[c].stage \in {"parked", "backoff"}
  <2>1. call[c] \in ActiveCalls
    BY <1>1, StageOf DEF ActiveStages
  <2>2. PICK n \in Int : n = Passed(call[c].sleep)
    BY <2>1 DEF Passed, ActiveCalls
  <2>3. call'[c] = [call[c] EXCEPT !.sleep = n]
    BY <1>1, <2>2 DEF Elapse
  <2>4. call'[c] \in ActiveCalls /\ call'[c].stage = call[c].stage
        /\ call'[c].req = call[c].req /\ call'[c].throttle = call[c].throttle
        /\ call'[c].sleep = n
    BY <2>1, <2>3 DEF ActiveCalls
  <2>5. call'[c] \in CallStates
    BY <2>4 DEF CallStates
  <2> QED BY <1>1, <2>2, <2>4, <2>5, HeardElapses
<1>2. CASE call[c].stage \notin {"parked", "backoff"}
  <2>1. call'[c] = call[c]
    BY <1>2 DEF Elapse
  <2>2. call[c] \in CallStates
    BY DEF TypeInv
  <2> QED BY <1>2, <2>1, <2>2, HeardElapses
<1> QED BY <1>1, <1>2

\* What the server does while a request is out.
LEMMA ServerEffect ==
    ASSUME TypeInv, NEW c \in Callers, NEW a \in Responses \cup TransportErrors,
           ServerActs(c, a)
    PROVE  /\ \A d \in Callers \ {c} : /\ effects'[d] = effects[d] /\ known'[d] = known[d]
                                      /\ heard'[d] = heard[d]
           /\ heard'[c].first = IF heard[c].first = NoSignal THEN Complaint(a) ELSE heard[c].first
           /\ heard'[c].quiet = IF a.retry_after = Absent THEN heard[c].quiet ELSE a.retry_after
           /\ \/ effects'[c] = effects[c] /\ known'[c] = known[c]
              \/ /\ effects'[c] = effects[c] + 1
                 /\ known'[c] = IF KeyLife = Absent THEN 1 ELSE KeyLife
                 /\ call[c].req.mutation /\ ~(call[c].req.keyed /\ known[c] > 0)
           /\ effects' \in [Callers -> Nat] /\ known' \in [Callers -> Nat]
           /\ heard' \in [Callers -> [first : Signals, quiet : Nat]]
<1>1. PICK done \in BOOLEAN :
         /\ done => call[c].req.mutation /\ ~(call[c].req.keyed /\ known[c] > 0)
         /\ effects' = [effects EXCEPT ![c] = IF done THEN @ + 1 ELSE @]
         /\ known' = [known EXCEPT ![c] = IF ~done THEN @
                                          ELSE IF KeyLife = Absent THEN 1 ELSE KeyLife]
         /\ heard' = [heard EXCEPT
               ![c].first = IF @ = NoSignal THEN Complaint(a) ELSE @,
               ![c].quiet = IF a.retry_after = Absent THEN @ ELSE a.retry_after]
  BY DEF ServerActs
<1> DEFINE first == IF heard[c].first = NoSignal THEN Complaint(a) ELSE heard[c].first
           quiet == IF a.retry_after = Absent THEN heard[c].quiet ELSE a.retry_after
<1>2. heard[c] \in [first : Signals, quiet : Nat]
  BY DEF TypeInv
<1>3. first \in Signals /\ quiet \in Nat
  BY <1>2, SignalTypes, PolicyAssumption
<1>4. heard' = [heard EXCEPT ![c] = [heard[c] EXCEPT !.first = first, !.quiet = quiet]]
  BY <1>1
<1>5. /\ heard'[c].first = first /\ heard'[c].quiet = quiet
      /\ \A d \in Callers \ {c} : heard'[d] = heard[d]
      /\ heard' \in [Callers -> [first : Signals, quiet : Nat]]
  <2> HIDE DEF first, quiet
  <2> QED BY <1>2, <1>3, <1>4 DEF TypeInv
<1>6. CASE done
  BY <1>1, <1>5, <1>6, PolicyAssumption DEF TypeInv
<1>7. CASE ~done
  BY <1>1, <1>5, <1>7 DEF TypeInv
<1> QED BY <1>6, <1>7

LEMMA RecordType ==
    ASSUME TypeInv, NEW c \in Callers, call[c] \in ActiveCalls, NEW fb \in Signals,
           record_feedback(c, fb)
    PROVE  park' \in [Groups -> Nat]
<1>1. fb.retry \in RetryAfters \cup {Absent} /\ call[c].req.group \in Groups
  BY GroupOf DEF Signals, ActiveCalls
<1> QED BY <1>1, PolicyAssumption DEF record_feedback, TypeInv

LEMMA ConcludeFed ==
    ASSUME TypeInv, NEW c \in Callers, NEW a \in Responses \cup TransportErrors,
           Conclude(c, a)
    PROVE  /\ park' \in [Groups -> Nat]
           /\ LET first == IF a.status = "2xx" THEN call[c].throttle
                           ELSE FirstOf(call[c].throttle, a)
              IN  fed' = IF first # NoSignal THEN [fed EXCEPT ![c] = Append(@, first)]
                         ELSE IF a \in Responses
                              THEN [fed EXCEPT ![c] = Append(@, feedback_for(a))] ELSE fed
<1> DEFINE first == IF a.status = "2xx" THEN call[c].throttle ELSE FirstOf(call[c].throttle, a)
<1>1. call[c] \in ActiveCalls
  BY ConcludeEffect
<1>2. first \in Signals
  BY <1>1, FirstOfType DEF ActiveCalls
<1>3. CASE first # NoSignal
  <2>1. record_feedback(c, first)
    BY <1>3 DEF Conclude
  <2>2. park' \in [Groups -> Nat]
    BY <1>1, <1>2, <2>1, RecordType
  <2> QED BY <1>3, <2>1, <2>2 DEF record_feedback
<1>4. CASE first = NoSignal /\ a \in Responses
  <2>1. record_feedback(c, feedback_for(a))
    BY <1>4 DEF Conclude
  <2>2. park' \in [Groups -> Nat]
    BY <1>1, <1>4, <2>1, RecordType, SignalTypes
  <2> QED BY <1>4, <2>1, <2>2 DEF record_feedback
<1>5. CASE first = NoSignal /\ a \notin Responses
  BY <1>5 DEF Conclude, TypeInv
<1> QED BY <1>3, <1>4, <1>5

LEMMA TypeInvInit == Init => TypeInv
<1> SUFFICES ASSUME Init PROVE TypeInv
  OBVIOUS
<1>1. Idle \in CallStates
  BY DEF CallStates
<1> QED BY <1>1, SignalTypes DEF Init, TypeInv

LEMMA TypeInvStep == TypeInv /\ [Next]_vars => TypeInv'
<1> SUFFICES ASSUME TypeInv, [Next]_vars PROVE TypeInv'
  OBVIOUS
<1>1. ASSUME NEW c \in Callers, NEW r \in Calls, Call(c, r) PROVE TypeInv'
  BY <1>1, OutsideEffect, SignalTypes DEF Call, TypeInv
<1>2. ASSUME NEW c \in Callers, Authorize(c) \/ AuthorizeError(c) \/ Drop(c) PROVE TypeInv'
  BY <1>2, OutsideEffect DEF Authorize, AuthorizeError, Drop, TypeInv, serverVars
<1>3. ASSUME NEW c \in Callers, AwaitPark(c) \/ Send(c) PROVE TypeInv'
  BY <1>3, AwaitParkEffect, SendEffect DEF AwaitPark, Send, TypeInv, serverVars
<1>4. ASSUME NEW c \in Callers, NEW a \in Responses \cup TransportErrors, RetryLater(c, a)
      PROVE  TypeInv'
  BY <1>4, RetryLaterEffect, ServerEffect DEF RetryLater, TypeInv
<1>5. ASSUME NEW c \in Callers, NEW a \in Responses \cup TransportErrors, Conclude(c, a)
      PROVE  TypeInv'
  BY <1>5, ConcludeEffect, ConcludeFed, ServerEffect DEF Conclude, TypeInv
<1>6. CASE Elapse
  <2>1. call' \in [Callers -> CallStates]
    BY <1>6, ElapseEffect DEF Elapse
  <2>2. heard' \in [Callers -> [first : Signals, quiet : Nat]]
    <3>1. \A c \in Callers : heard[c].first \in Signals
      BY DEF TypeInv
    <3>2. ASSUME NEW c \in Callers PROVE heard'[c] \in [first : Signals, quiet : Nat]
      <4>1. PICK n \in Nat : heard'[c] = [first |-> heard[c].first, quiet |-> n]
        BY <1>6, HeardElapses
      <4> QED BY <3>1, <4>1
    <3> QED BY <1>6, <3>2 DEF Elapse
  <2>3. park' \in [Groups -> Nat] /\ effects' \in [Callers -> Nat] /\ known' \in [Callers -> Nat]
    BY <1>6 DEF Elapse, Passed, TypeInv
  <2> QED BY <2>1, <2>2, <2>3 DEF TypeInv
<1>7. CASE Expire \/ UNCHANGED vars
  BY <1>7 DEF Expire, vars, serverVars, TypeInv
<1> QED BY <1>1, <1>2, <1>3, <1>4, <1>5, <1>6, <1>7 DEF Next, CallStep, Answer

\* The state of the pipeline keeps its types: in particular the backoff of any attempt
\* is a number of time units.
THEOREM TypeCorrect == Spec => []TypeInv
BY TypeInvInit, TypeInvStep, PTL DEF Spec

----------------------------------------------------------------------------
(* An order is carried out once.                                              *)

\* What has been carried out and may still be sent again is a create whose key the
\* server knows.
EffectInv ==
    \A c \in Callers :
        /\ effects[c] <= 1
        /\ call[c].stage = "authorizing" => effects[c] = 0
        /\ call[c].stage \in ActiveStages /\ effects[c] # 0 =>
              call[c].req.mutation /\ call[c].req.keyed /\ known[c] > 0

LEMMA OnlyKeyedMutationsRetry == \A r \in Calls : r.mutation /\ r.retryable => r.keyed
<1> SUFFICES ASSUME NEW r \in TossClientRequests \cup AccountClientRequests,
                    r.mutation, r.retryable
             PROVE  r.keyed
  BY CallsAssumption
<1> USE DEF get, post, set_retryable
<1>1. CASE \E g : r = get(g)
  BY <1>1
<1>2. CASE r = create_order(TRUE)
  BY <1>2 DEF create_order
<1>3. CASE r = create_order(FALSE)
  BY <1>3 DEF create_order
<1>4. CASE r \in {modify_order, cancel_order}
  BY <1>4 DEF modify_order, cancel_order
<1> QED BY <1>1, <1>2, <1>3, <1>4 DEF TossClientRequests, AccountClientRequests

LEMMA EffectInvInit == Init => EffectInv
<1> SUFFICES ASSUME Init PROVE EffectInv
  OBVIOUS
<1>1. \A c \in Callers : effects[c] = 0 /\ call[c].stage = "idle"
  BY DEF Init, Idle
<1>2. 0 <= 1
  BY SMT
<1> QED BY <1>1, <1>2 DEF EffectInv, ActiveStages

LEMMA EffectInvStep ==
    ASSUME KeyLife = Absent, TypeInv, EffectInv, [Next]_vars PROVE EffectInv'
<1> USE DEF ActiveStages
<1>1. ASSUME NEW c \in Callers, NEW r \in Calls, Call(c, r) PROVE EffectInv'
  BY <1>1, OutsideEffect DEF Call, TypeInv, EffectInv, Others
<1>2. ASSUME NEW c \in Callers, Authorize(c) PROVE EffectInv'
  BY <1>2, OutsideEffect DEF Authorize, TypeInv, EffectInv, Others, serverVars
<1>3. ASSUME NEW c \in Callers, AuthorizeError(c) \/ Drop(c) PROVE EffectInv'
  BY <1>3, OutsideEffect DEF AuthorizeError, Drop, TypeInv, EffectInv, Others, serverVars
<1>4. ASSUME NEW c \in Callers, AwaitPark(c) PROVE EffectInv'
  <2>1. /\ call[c].stage \in ActiveStages /\ UNCHANGED serverVars
        /\ Others(c) /\ call'[c].stage = "parked" /\ call'[c].req = call[c].req
    BY <1>4, AwaitParkEffect DEF AwaitPark, AtLoopHead
  <2> QED BY <2>1 DEF EffectInv, Others, serverVars
<1>5. ASSUME NEW c \in Callers, Send(c) PROVE EffectInv'
  BY <1>5, SendEffect DEF Send, TypeInv, EffectInv, Others, serverVars
<1>6. ASSUME NEW c \in Callers, NEW a \in Responses \cup TransportErrors,
             RetryLater(c, a) \/ Conclude(c, a)
      PROVE  EffectInv'
  <2>1. /\ Others(c) /\ call[c] \in ActiveCalls /\ call[c].stage = "sent"
        /\ RetryLater(c, a) => call'[c].stage = "backoff" /\ call'[c].req = call[c].req
        /\ Conclude(c, a) => call'[c].stage = "done"
    BY <1>6, RetryLaterEffect, ConcludeEffect
  <2>2. ServerActs(c, a)
    BY <1>6 DEF RetryLater, Conclude
  <2>3. effects'[c] <= 1
    <3>1. effects[c] \in Nat /\ effects[c] <= 1
      BY DEF EffectInv, TypeInv
    <3>2. CASE effects'[c] = effects[c]
      BY <3>1, <3>2
    <3>3. CASE /\ effects'[c] = effects[c] + 1
               /\ call[c].req.mutation /\ ~(call[c].req.keyed /\ known[c] > 0)
      <4>1. effects[c] = 0
        BY <2>1, <3>3 DEF EffectInv
      <4> QED BY <3>3, <4>1
    <3> QED BY <2>2, <3>2, <3>3, ServerEffect
  <2>4. RetryLater(c, a) /\ effects'[c] # 0 =>
           call[c].req.mutation /\ call[c].req.keyed /\ known'[c] > 0
    <3>1. SUFFICES ASSUME RetryLater(c, a), effects'[c] # 0
                   PROVE  call[c].req.mutation /\ call[c].req.keyed /\ known'[c] > 0
      OBVIOUS
    <3>2. call[c].req \in Calls /\ call[c].req.retryable
      BY <2>1, <3>1 DEF RetryLater, SendsAgain, ActiveCalls
    <3>3. CASE effects'[c] = effects[c] /\ known'[c] = known[c]
      BY <2>1, <3>1, <3>3 DEF EffectInv
    <3>4. CASE call[c].req.mutation /\ known'[c] = 1
      BY <3>2, <3>4, OnlyKeyedMutationsRetry
    <3> QED BY <2>2, <3>3, <3>4, ServerEffect
  <2>5. \A d \in Callers \ {c} : effects'[d] = effects[d] /\ known'[d] = known[d]
    BY <2>2, ServerEffect
  <2> QED BY <1>6, <2>1, <2>3, <2>4, <2>5 DEF EffectInv, Others
<1>7. CASE Elapse
  <2>1. \A c \in Callers :
           /\ call'[c].stage = call[c].stage
           /\ call[c].stage \in ActiveStages => call'[c].req = call[c].req
    BY <1>7, ElapseEffect, StageOf
  <2> QED BY <1>7, <2>1 DEF Elapse, EffectInv
<1>8. CASE Expire \/ UNCHANGED vars
  BY <1>8 DEF Expire, vars, serverVars, EffectInv
<1> QED BY <1>1, <1>2, <1>3, <1>4, <1>5, <1>6, <1>7, <1>8 DEF Next, CallStep, Answer

\* No double order, as long as the server remembers the keys it was given.
THEOREM OneEffect == ASSUME KeyLife = Absent PROVE Spec => []OneEffectPerCall
<1>1. TypeInv /\ EffectInv /\ [Next]_vars => TypeInv' /\ EffectInv'
  BY TypeInvStep, EffectInvStep
<1>2. EffectInv => OneEffectPerCall
  BY DEF EffectInv, OneEffectPerCall
<1> QED BY <1>1, <1>2, TypeInvInit, EffectInvInit, PTL DEF Spec

----------------------------------------------------------------------------
(* Retry-After is kept.                                                       *)

\* Whoever has to keep quiet sleeps at least as long.
QuietInv ==
    \A c \in Callers :
        /\ call[c].stage \in {"authorizing", "looping", "sent"} => heard[c].quiet = 0
        /\ call[c].stage = "looping" => call[c].sleep = 0
        /\ call[c].stage \in {"parked", "backoff"} /\ heard[c].quiet > 0 =>
              heard[c].quiet <= call[c].sleep

LEMMA QuietInvInit == Init => QuietInv
<1> SUFFICES ASSUME Init, NEW c \in Callers PROVE call[c].stage = "idle"
  BY DEF QuietInv
<1> QED BY DEF Init, Idle

LEMMA QuietInvStep == ASSUME TypeInv, QuietInv, [Next]_vars PROVE QuietInv'
<1>0. \A c \in Callers : heard[c].quiet \in Nat
  BY DEF TypeInv
<1>1. ASSUME NEW c \in Callers, NEW r \in Calls, Call(c, r) PROVE QuietInv'
  BY <1>1, OutsideEffect DEF Call, TypeInv, QuietInv, Others, Silence
<1>2. ASSUME NEW c \in Callers, Authorize(c) PROVE QuietInv'
  BY <1>2, OutsideEffect DEF Authorize, TypeInv, QuietInv, Others, serverVars
<1>3. ASSUME NEW c \in Callers, AuthorizeError(c) \/ Drop(c) PROVE QuietInv'
  BY <1>3, OutsideEffect DEF AuthorizeError, Drop, TypeInv, QuietInv, Others, serverVars
<1>4. ASSUME NEW c \in Callers, AwaitPark(c) PROVE QuietInv'
  <2>1. /\ call[c].stage \in {"looping", "backoff"} /\ call[c].sleep = 0
        /\ UNCHANGED serverVars /\ Others(c) /\ call'[c].stage = "parked"
    BY <1>4, AwaitParkEffect DEF AwaitPark, AtLoopHead
  <2>2. heard[c].quiet = 0
    BY <1>0, <2>1 DEF QuietInv
  <2> QED BY <2>1, <2>2 DEF QuietInv, Others, serverVars
<1>5. ASSUME NEW c \in Callers, Send(c) PROVE QuietInv'
  BY <1>0, <1>5, SendEffect DEF Send, QuietInv, Others, serverVars
<1>6. ASSUME NEW c \in Callers, NEW a \in Responses \cup TransportErrors,
             RetryLater(c, a) \/ Conclude(c, a)
      PROVE  QuietInv'
  <2>1. /\ Others(c) /\ call[c].stage = "sent"
        /\ \/ /\ call'[c].stage = "backoff"
              /\ call'[c].sleep = sleep_backoff(call[c].attempt, a.retry_after)
           \/ call'[c].stage = "done"
    BY <1>6, RetryLaterEffect, ConcludeEffect
  <2>2. ServerActs(c, a)
    BY <1>6 DEF RetryLater, Conclude
  <2>3. /\ heard'[c].quiet = IF a.retry_after = Absent THEN 0 ELSE a.retry_after
        /\ \A d \in Callers \ {c} : heard'[d] = heard[d]
    BY <2>1, <2>2, ServerEffect DEF QuietInv
  <2>4. a.retry_after # Absent =>
           /\ sleep_backoff(call[c].attempt, a.retry_after) = a.retry_after
           /\ a.retry_after \in Nat
    BY SignalTypes, PolicyAssumption DEF sleep_backoff
  <2> QED BY <2>1, <2>3, <2>4 DEF QuietInv, Others
<1>7. CASE Elapse
  <2> SUFFICES ASSUME NEW c \in Callers
               PROVE  /\ call'[c].stage \in {"authorizing", "looping", "sent"}
                            => heard'[c].quiet = 0
                      /\ call'[c].stage = "looping" => call'[c].sleep = 0
                      /\ call'[c].stage \in {"parked", "backoff"} /\ heard'[c].quiet > 0 =>
                            heard'[c].quiet <= call'[c].sleep
    BY DEF QuietInv
  <2>1. call'[c].stage = call[c].stage /\ heard'[c].quiet = Passed(heard[c].quiet)
    <3>1. PICK n : n = Passed(heard[c].quiet)
                     /\ heard'[c] = [first |-> heard[c].first, quiet |-> n]
      BY <1>7, HeardElapses
    <3> QED BY <1>7, <3>1, ElapseEffect
  <2>2. call[c].stage = "looping" => FALSE
    BY <1>7 DEF Elapse, QuietInv
  <2>3. call[c].stage \in {"parked", "backoff"} =>
           call'[c].sleep = Passed(call[c].sleep) /\ call[c].sleep \in Int
    BY <1>7, ElapseEffect, StageOf DEF ActiveStages, ActiveCalls
  <2> QED BY <1>0, <2>1, <2>2, <2>3 DEF QuietInv, Passed
<1>8. CASE Expire \/ UNCHANGED vars
  BY <1>8 DEF Expire, vars, serverVars, QuietInv
<1> QED BY <1>1, <1>2, <1>3, <1>4, <1>5, <1>6, <1>7, <1>8 DEF Next, CallStep, Answer

\* A call is sent again only when the Retry-After it was answered with is over,
\* whatever the policy and whatever parks it meets.
THEOREM RetryAfter == Spec => RetryAfterKept
<1>1. TypeInv /\ QuietInv /\ [Next]_vars => TypeInv' /\ QuietInv'
  BY TypeInvStep, QuietInvStep
<1>2. ASSUME TypeInv, QuietInv, [Next]_vars, NEW c \in Callers,
             call'[c].stage = "sent", call[c].stage = "parked"
      PROVE  heard[c].quiet = 0
  <2>1. CASE Send(c)
    BY <1>2, <2>1, SendEffect DEF QuietInv, TypeInv
  <2>2. ASSUME NEW d \in Callers, NEW r \in Calls, Call(d, r) PROVE FALSE
    BY <1>2, <2>2, OutsideEffect DEF Others
  <2>3. ASSUME NEW d \in Callers, Authorize(d) \/ AuthorizeError(d) \/ Drop(d) PROVE FALSE
    BY <1>2, <2>3, OutsideEffect DEF Others
  <2>4. ASSUME NEW d \in Callers, AwaitPark(d) \/ (Send(d) /\ d # c) PROVE FALSE
    BY <1>2, <2>4, AwaitParkEffect, SendEffect DEF Others
  <2>5. ASSUME NEW d \in Callers, NEW a \in Responses \cup TransportErrors,
               RetryLater(d, a) \/ Conclude(d, a)
        PROVE  FALSE
    BY <1>2, <2>5, RetryLaterEffect, ConcludeEffect DEF Others
  <2>6. CASE Elapse
    BY <1>2, <2>6, ElapseEffect
  <2>7. CASE Expire \/ UNCHANGED vars
    BY <1>2, <2>7 DEF Expire, vars
  <2> QED BY <1>2, <2>1, <2>2, <2>3, <2>4, <2>5, <2>6, <2>7 DEF Next, CallStep, Answer
<1>3. TypeInv /\ QuietInv /\ [Next]_vars
        => [\A c \in Callers : call'[c].stage = "sent" /\ call[c].stage = "parked"
                                   => heard[c].quiet = 0]_vars
  BY <1>2
<1> QED BY <1>1, <1>3, TypeInvInit, QuietInvInit, PTL DEF Spec, RetryAfterKept

----------------------------------------------------------------------------
(* The controller is fed once.                                                *)

\* While a call goes on nothing is fed, and it remembers its first complaint.
FedInv ==
    /\ FedOnce
    /\ \A c \in Callers :
          /\ call[c].stage = "authorizing" => heard[c].first = NoSignal
          /\ call[c].stage \in ActiveStages => call[c].throttle = heard[c].first

FedOf(c) ==
    IF call[c].stage # "done" THEN <<>>
    ELSE IF heard[c].first # NoSignal THEN <<heard[c].first>>
    ELSE IF call[c].answered THEN <<Signal("Success", Absent)>> ELSE <<>>

FedDomain == DOMAIN fed = Callers

LEMMA FedInvInit == Init => FedInv /\ FedDomain
<1> SUFFICES ASSUME Init PROVE FedInv /\ FedDomain
  OBVIOUS
<1>1. \A c \in Callers : fed[c] = <<>> /\ call[c].stage = "idle"
  BY DEF Init, Idle
<1>2. FedDomain
  BY DEF Init, FedDomain
<1> QED BY <1>1, <1>2 DEF FedInv, FedOnce, ActiveStages

\* A step that feeds nothing, ends no call with an outcome and hears nothing of c.
LEMMA Unfed ==
    ASSUME FedInv, NEW c \in Callers, Others(c), UNCHANGED <<heard, fed>>,
           call[c].stage # "done", call'[c].stage # "done",
           call'[c].stage # "authorizing" \/ heard[c].first = NoSignal,
           call'[c].stage \in ActiveStages => call'[c].throttle = heard[c].first
    PROVE  FedInv'
BY DEF FedInv, FedOnce, Others

LEMMA ComplaintIsFeedback ==
    ASSUME NEW a \in Responses
    PROVE  /\ a.status = "2xx" => Complaint(a) = NoSignal
           /\ Complaint(a) = NoSignal => feedback_for(a) = Signal("Success", Absent)
BY DEF Responses, Complaint, feedback_for, is_retryable_status, NoSignal, Signal

LEMMA FedInvStep == ASSUME TypeInv, FedInv, FedDomain, [Next]_vars PROVE FedInv' /\ FedDomain'
<1>1. ASSUME NEW c \in Callers, NEW r \in Calls, Call(c, r) PROVE FedInv' /\ FedDomain'
  <2>1. /\ Others(c) /\ call'[c].stage = "authorizing"
        /\ fed'[c] = <<>> /\ heard'[c].first = NoSignal
        /\ \A d \in Callers \ {c} : fed'[d] = fed[d] /\ heard'[d] = heard[d]
        /\ FedDomain'
    BY <1>1, OutsideEffect DEF Call, TypeInv, FedDomain, Silence
  <2> QED BY <2>1 DEF FedInv, FedOnce, Others, ActiveStages
<1>2. ASSUME NEW c \in Callers, Authorize(c) PROVE FedInv' /\ FedDomain'
  <2>1. heard[c].first = NoSignal /\ call[c].stage = "authorizing"
    BY <1>2 DEF Authorize, FedInv
  <2> QED BY <1>2, <2>1, OutsideEffect, Unfed DEF Authorize, serverVars, FedDomain
<1>3. ASSUME NEW c \in Callers, AuthorizeError(c) \/ Drop(c) PROVE FedInv' /\ FedDomain'
  <2>1. call[c].stage # "done" /\ UNCHANGED <<heard, fed>>
    BY <1>3 DEF AuthorizeError, Drop, serverVars
  <2> QED BY <1>3, <2>1, OutsideEffect, Unfed DEF FedDomain, ActiveStages
<1>4. ASSUME NEW c \in Callers, AwaitPark(c) \/ Send(c) PROVE FedInv' /\ FedDomain'
  <2>1. /\ call[c].stage \in ActiveStages /\ UNCHANGED <<heard, fed>> /\ Others(c)
        /\ call'[c].stage \in {"parked", "sent"} /\ call'[c].throttle = call[c].throttle
    BY <1>4, AwaitParkEffect, SendEffect DEF AwaitPark, Send, AtLoopHead, serverVars, ActiveStages
  <2>2. call[c].throttle = heard[c].first
    BY <2>1 DEF FedInv
  <2> QED BY <2>1, <2>2, Unfed DEF FedDomain, ActiveStages
<1>5. ASSUME NEW c \in Callers, NEW a \in Responses \cup TransportErrors, RetryLater(c, a)
      PROVE  FedInv' /\ FedDomain'
  <2>1. /\ Others(c) /\ call[c].stage = "sent" /\ call'[c].stage = "backoff"
        /\ call'[c].throttle = FirstOf(call[c].throttle, a) /\ fed' = fed
    BY <1>5, RetryLaterEffect DEF RetryLater
  <2>2. /\ heard'[c].first = IF heard[c].first = NoSignal THEN Complaint(a) ELSE heard[c].first
        /\ \A d \in Callers \ {c} : heard'[d] = heard[d]
    BY <1>5, ServerEffect DEF RetryLater
  <2>3. call'[c].throttle = heard'[c].first
    BY <2>1, <2>2 DEF FirstOf, FedInv, ActiveStages
  <2> QED BY <2>1, <2>2, <2>3 DEF FedInv, FedOnce, FedDomain, Others
<1>6. ASSUME NEW c \in Callers, NEW a \in Responses \cup TransportErrors, Conclude(c, a)
      PROVE  FedInv' /\ FedDomain'
  <2>1. /\ Others(c) /\ call[c].stage = "sent" /\ call'[c].stage = "done"
        /\ call'[c].answered = (a \in Responses)
    BY <1>6, ConcludeEffect
  <2>2. /\ heard'[c].first = IF heard[c].first = NoSignal THEN Complaint(a) ELSE heard[c].first
        /\ \A d \in Callers \ {c} : heard'[d] = heard[d]
    BY <1>6, ServerEffect DEF Conclude
  <2>3. call[c].throttle = heard[c].first /\ fed[c] = <<>>
    BY <2>1 DEF FedInv, FedOnce, ActiveStages
  <2>4. (IF a.status = "2xx" THEN call[c].throttle ELSE FirstOf(call[c].throttle, a))
          = heard'[c].first
    BY <2>2, <2>3, SignalTypes DEF FirstOf, Complaint, is_retryable_status
  <2>5. fed' = IF heard'[c].first # NoSignal
               THEN [fed EXCEPT ![c] = Append(@, heard'[c].first)]
               ELSE IF a \in Responses
                    THEN [fed EXCEPT ![c] = Append(@, feedback_for(a))] ELSE fed
    BY <1>6, <2>4, ConcludeFed
  <2>6. heard'[c].first = NoSignal => Complaint(a) = NoSignal
    BY <2>2
  <2>7. FedDomain' /\ \A d \in Callers \ {c} : fed'[d] = fed[d]
    BY <2>5 DEF FedDomain
  <2>8. fed'[c] = FedOf(c)'
    <3>1. CASE heard'[c].first # NoSignal
      BY <2>1, <2>3, <2>5, <3>1 DEF FedOf, FedDomain
    <3>2. CASE heard'[c].first = NoSignal /\ a \in Responses
      <4>1. call'[c].answered
        BY <2>1, <3>2
      <4>2. feedback_for(a) = Signal("Success", Absent)
        BY <2>6, <3>2, ComplaintIsFeedback
      <4>3. fed'[c] = Append(<<>>, Signal("Success", Absent))
        BY <2>3, <2>5, <3>2, <4>2 DEF FedDomain
      <4>4. FedOf(c)' = <<Signal("Success", Absent)>>
        BY <2>1, <3>2, <4>1 DEF FedOf
      <4> QED BY <4>3, <4>4
    <3>3. CASE heard'[c].first = NoSignal /\ a \notin Responses
      BY <2>1, <2>3, <2>5, <3>3 DEF FedOf
    <3> QED BY <3>1, <3>2, <3>3
  <2> QED BY <2>1, <2>2, <2>7, <2>8 DEF FedInv, FedOnce, FedOf, Others, ActiveStages
<1>7. CASE Elapse
  <2>1. ASSUME NEW c \in Callers
        PROVE  /\ call'[c].stage = call[c].stage
               /\ call[c].stage = "done" => call'[c] = call[c]
               /\ call[c].stage \in ActiveStages => call'[c].throttle = call[c].throttle
    BY <1>7, ElapseEffect, StageOf
  <2>2. ASSUME NEW c \in Callers PROVE heard'[c].first = heard[c].first
    <3>1. PICK n : heard'[c] = [first |-> heard[c].first, quiet |-> n]
      BY <1>7, HeardElapses
    <3> QED BY <3>1
  <2>3. fed' = fed
    BY <1>7 DEF Elapse
  <2>4. FedOnce'
    BY <2>1, <2>2, <2>3 DEF FedInv, FedOnce
  <2>5. \A c \in Callers :
           /\ call'[c].stage = "authorizing" => heard'[c].first = NoSignal
           /\ call'[c].stage \in ActiveStages => call'[c].throttle = heard'[c].first
    BY <2>1, <2>2 DEF FedInv
  <2> QED BY <2>3, <2>4, <2>5 DEF FedInv, FedDomain
<1>8. CASE Expire \/ UNCHANGED vars
  BY <1>8 DEF Expire, vars, serverVars, FedInv, FedOnce, FedDomain
<1> QED BY <1>1, <1>2, <1>3, <1>4, <1>5, <1>6, <1>7, <1>8 DEF Next, CallStep, Answer

\* One feedback per call: its first complaint, or the outcome when there was none.
THEOREM FeedbackOnce == Spec => []FedOnce
<1>1. TypeInv /\ FedInv /\ FedDomain /\ [Next]_vars => TypeInv' /\ FedInv' /\ FedDomain'
  BY TypeInvStep, FedInvStep
<1>2. FedInv => FedOnce
  BY DEF FedInv
<1> QED BY <1>1, <1>2, TypeInvInit, FedInvInit, PTL DEF Spec
====
