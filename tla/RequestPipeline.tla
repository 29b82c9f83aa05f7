---- MODULE RequestPipeline ----
(* The pipeline of tossinvest/client.rs: the calls of several tasks share the *)
(* parks of the rate limiter's groups and one token, and each is sent again   *)
(* after complaints of the server and lost answers. The token is reduced to   *)
(* whether the store has a fresh one (module TokenManager), the limiter to    *)
(* its parks (ControllerState.park of module AimdControl). A unit of time is  *)
(* long against local steps and the spacing of permits. Definitions under     *)
(* "Fault" are plausible bugs, each a variant of the definition after it.     *)
EXTENDS Integers, Sequences

CONSTANTS Callers,       \* tasks that call endpoint methods
          Calls,         \* the requests they make
          MaxAttempts, BaseDelay, MaxDelay,     \* RetryPolicy
          RetryAfters,   \* values of Retry-After
          KeyLife,       \* how long the server knows a client_order_id, or Absent: for ever
          Absent

----------------------------------------------------------------------------
(* Requests as the endpoint methods build them.                               *)

get(g) == [group |-> g, mutation |-> FALSE, keyed |-> FALSE, retryable |-> TRUE]
post(g) == [group |-> g, mutation |-> TRUE, keyed |-> FALSE, retryable |-> FALSE]
set_retryable(r, b) == [r EXCEPT !.retryable = b]

\* Fault: a create is safe to retry whether or not it has a key.
create_order_retryable(key) == set_retryable([post("Order") EXCEPT !.keyed = key], TRUE)

\* key: has_client_order_id.
create_order(key) == set_retryable([post("Order") EXCEPT !.keyed = key], key)

modify_order == post("Order")
cancel_order == post("Order")

TossClientRequests ==
    {get(g) : g \in {"MarketData", "MarketDataChart", "Stock", "MarketInfo", "Account"}}

AccountClientRequests ==
    {get(g) : g \in {"Asset", "OrderHistory", "OrderInfo"}}
        \cup {create_order(TRUE), create_order(FALSE), modify_order, cancel_order}

Groups == {r.group : r \in TossClientRequests \cup AccountClientRequests}

ASSUME CallsAssumption == Calls \subseteq TossClientRequests \cup AccountClientRequests
ASSUME PolicyAssumption ==
    /\ MaxAttempts \in Nat \ {0} /\ BaseDelay \in Nat /\ MaxDelay \in Nat
    /\ RetryAfters \subseteq Nat
    /\ Absent \notin Nat /\ KeyLife \in Nat \cup {Absent}

----------------------------------------------------------------------------
(* What Transport::execute comes back with.                                   *)

Responses == [status : {"2xx", "401", "4xx"}, retry_after : {Absent}]
        \cup [status : {"429", "5xx"}, retry_after : RetryAfters \cup {Absent}]
TransportErrors == [status : {"Timeout", "Connect", "Other"}, retry_after : {Absent}]

is_retryable_status(a) == a.status \in {"429", "5xx"}
is_transient(a) == a.status \in {"Timeout", "Connect"}

Signal(kind, retry) == [kind |-> kind, retry |-> retry]
NoSignal == Signal("None", Absent)

feedback_for(a) ==
    CASE a.status = "429" -> Signal("RateLimited", a.retry_after)
      [] a.status = "5xx" -> Signal("ServerError", Absent)
      [] OTHER -> Signal("Success", Absent)

\* What an attempt has to say about congestion.
Complaint(a) ==
    CASE is_retryable_status(a) -> feedback_for(a)
      [] a.status = "Timeout" -> Signal("Timeout", Absent)
      [] OTHER -> NoSignal

\* Fault: each attempt's complaint replaces the one before it.
FirstOf_Latest(throttle, a) == IF Complaint(a) # NoSignal THEN Complaint(a) ELSE throttle

FirstOf(throttle, a) == IF throttle = NoSignal THEN Complaint(a) ELSE throttle

\* Fault: the cap is put on Retry-After too.
sleep_backoff_capped(attempt, retry_after) ==
    LET delay == IF retry_after # Absent THEN retry_after ELSE BaseDelay * 2 ^ (attempt - 1)
    IN  IF delay < MaxDelay THEN delay ELSE MaxDelay

sleep_backoff(attempt, retry_after) ==
    LET exp == BaseDelay * 2 ^ (IF attempt > 17 THEN 16 ELSE attempt - 1)
    IN  CASE retry_after # Absent -> retry_after
          [] OTHER -> IF exp < MaxDelay THEN exp ELSE MaxDelay

----------------------------------------------------------------------------
VARIABLES
    call,      \* caller -> where its call is: stage, request, attempt, throttle, sleep
    park,      \* group -> how far ahead its park ends
    cached,    \* whether the token store has a fresh token
    effects,   \* caller -> times the server carried its request out
    known,     \* caller -> how long the server still knows the key of its call
    heard,     \* history: the call's first complaint, and how long to keep quiet
    fed        \* history: caller -> the feedback its call recorded

serverVars == <<effects, known, heard>>
vars == <<call, park, cached, serverVars, fed>>

Idle == [stage |-> "idle"]
Silence == [first |-> NoSignal, quiet |-> 0]

Init ==
    /\ call = [c \in Callers |-> Idle]
    /\ park = [g \in Groups |-> 0]
    /\ cached = FALSE
    /\ effects = [c \in Callers |-> 0]
    /\ known = [c \in Callers |-> 0]
    /\ heard = [c \in Callers |-> Silence]
    /\ fed = [c \in Callers |-> <<>>]

----------------------------------------------------------------------------
(* call *)

Call(c, r) ==
    /\ call[c].stage \in {"idle", "done"}
    /\ call' = [call EXCEPT ![c] = [stage |-> "authorizing", req |-> r]]
    /\ effects' = [effects EXCEPT ![c] = 0]
    /\ known' = [known EXCEPT ![c] = 0]
    /\ heard' = [heard EXCEPT ![c] = Silence]
    /\ fed' = [fed EXCEPT ![c] = <<>>]
    /\ UNCHANGED <<park, cached>>

\* The token of the store, or of a refresh, which may be too short-lived to stay.
Authorize(c) ==
    /\ call[c].stage = "authorizing"
    /\ call' = [call EXCEPT ![c] = [stage |-> "looping", req |-> @.req, attempt |-> 0,
                                    throttle |-> NoSignal, sleep |-> 0]]
    /\ cached' \in {cached, TRUE}
    /\ UNCHANGED <<park, serverVars, fed>>

AuthorizeError(c) ==
    /\ call[c].stage = "authorizing"
    /\ ~cached
    /\ call' = [call EXCEPT ![c] = Idle]
    /\ UNCHANGED <<park, cached, serverVars, fed>>

----------------------------------------------------------------------------
(* send_with_retry *)

AtLoopHead(c) == call[c].stage \in {"looping", "backoff"} /\ call[c].sleep = 0

\* Fault: the park is looked up again until the group has none.
AwaitPark_UntilClear(c) ==
    /\ AtLoopHead(c)
    /\ park[call[c].req.group] = 0
    /\ call' = [call EXCEPT ![c].stage = "parked", ![c].attempt = @ + 1]
    /\ UNCHANGED <<park, cached, serverVars, fed>>

\* The head of the loop: the park is read once, and slept through.
AwaitPark(c) ==
    /\ AtLoopHead(c)
    /\ call' = [call EXCEPT ![c].stage = "parked", ![c].attempt = @ + 1,
                            ![c].sleep = park[call[c].req.group]]
    /\ UNCHANGED <<park, cached, serverVars, fed>>

\* The limiter's permit, and the request goes out.
Send(c) ==
    /\ call[c].stage = "parked" /\ call[c].sleep = 0
    /\ call' = [call EXCEPT ![c].stage = "sent"]
    /\ UNCHANGED <<park, cached, serverVars, fed>>

\* The server has carried the request out when it says so, and may have when it
\* failed or its answer was lost. It knows the key of a create it has taken.
ServerActs(c, a) ==
    LET r == call[c].req
        acts == r.mutation /\ ~(r.keyed /\ known[c] > 0)
    IN  \E done \in BOOLEAN :
          /\ done => acts /\ a.status \in {"2xx", "5xx", "Timeout", "Other"}
          /\ acts /\ a.status = "2xx" => done
          /\ effects' = [effects EXCEPT ![c] = IF done THEN @ + 1 ELSE @]
          /\ known' = [known EXCEPT ![c] = IF ~done THEN @
                                           ELSE IF KeyLife = Absent THEN 1 ELSE KeyLife]
          /\ heard' = [heard EXCEPT
                ![c].first = IF @ = NoSignal THEN Complaint(a) ELSE @,
                ![c].quiet = IF a.retry_after = Absent THEN @ ELSE a.retry_after]

\* A 401 clears the token store, whatever token it was for.
Invalidate(a) == cached' = (cached /\ a.status # "401")

record_feedback(c, fb) ==
    /\ fed' = [fed EXCEPT ![c] = Append(@, fb)]
    /\ park' = IF fb.retry = Absent THEN park ELSE [park EXCEPT ![call[c].req.group] = fb.retry]

SendsAgain(c, a) ==
    /\ call[c].req.retryable
    /\ call[c].attempt < MaxAttempts
    /\ is_retryable_status(a) \/ is_transient(a)

\* Fault: the feedback of each attempt is recorded when it is there.
RetryLater_Feeding(c, a) ==
    /\ call[c].stage = "sent"
    /\ SendsAgain(c, a)
    /\ ServerActs(c, a)
    /\ Invalidate(a)
    /\ record_feedback(c, Complaint(a))
    /\ call' = [call EXCEPT ![c].stage = "backoff",
                            ![c].sleep = sleep_backoff(call[c].attempt, a.retry_after)]

RetryLater(c, a) ==
    /\ call[c].stage = "sent"
    /\ SendsAgain(c, a)
    /\ ServerActs(c, a)
    /\ Invalidate(a)
    /\ call' = [call EXCEPT ![c].stage = "backoff",
                            ![c].throttle = FirstOf(@, a),
                            ![c].sleep = sleep_backoff(call[c].attempt, a.retry_after)]
    /\ UNCHANGED <<park, fed>>

\* The outcome is final and goes to the limiter: the first complaint, or the
\* response; a transport error without a complaint before it is not recorded.
Conclude(c, a) ==
    /\ call[c].stage = "sent"
    /\ ~SendsAgain(c, a)
    /\ ServerActs(c, a)
    /\ Invalidate(a)
    /\ LET first == IF a.status = "2xx" THEN call[c].throttle ELSE FirstOf(call[c].throttle, a)
       IN  \/ first # NoSignal /\ record_feedback(c, first)
           \/ first = NoSignal /\ a \in Responses /\ record_feedback(c, feedback_for(a))
           \/ first = NoSignal /\ a \notin Responses /\ UNCHANGED <<park, fed>>
    /\ call' = [call EXCEPT ![c] = [stage |-> "done", answered |-> a \in Responses]]

----------------------------------------------------------------------------
\* The caller drops the call at an await.
Drop(c) ==
    /\ call[c].stage \notin {"idle", "done"}
    /\ call' = [call EXCEPT ![c] = Idle]
    /\ UNCHANGED <<park, cached, serverVars, fed>>

Expire == cached /\ cached' = FALSE /\ UNCHANGED <<call, park, serverVars, fed>>

Passed(n) == IF n > 0 THEN n - 1 ELSE 0

Elapse ==
    /\ \A c \in Callers : call[c].stage \in {"looping", "parked", "backoff"} => call[c].sleep > 0
    /\ call' = [c \in Callers |-> IF call[c].stage \in {"parked", "backoff"}
                                     THEN [call[c] EXCEPT !.sleep = Passed(@)] ELSE call[c]]
    /\ park' = [g \in Groups |-> Passed(park[g])]
    /\ known' = IF KeyLife = Absent THEN known ELSE [c \in Callers |-> Passed(known[c])]
    /\ heard' = [c \in Callers |-> [heard[c] EXCEPT !.quiet = Passed(@)]]
    /\ UNCHANGED <<cached, effects, fed>>

----------------------------------------------------------------------------
Answer(c) == \E a \in Responses \cup TransportErrors : RetryLater(c, a) \/ Conclude(c, a)

CallStep(c) == Authorize(c) \/ AuthorizeError(c) \/ AwaitPark(c) \/ Send(c) \/ Answer(c)

Next ==
    \/ \E c \in Callers : CallStep(c) \/ Drop(c) \/ \E r \in Calls : Call(c, r)
    \/ Expire \/ Elapse

Spec == Init /\ [][Next]_vars

\* The runtime polls what is ready, and steps that take no time cannot hold time up.
\* That the transport comes back from every request is an assumption:
\* ReqwestTransport sets no timeout.
Fairness == SF_vars(Elapse) /\ \A c \in Callers : WF_vars(CallStep(c))

FairSpec == Spec /\ Fairness

----------------------------------------------------------------------------
(* Properties. *)

\* "The congestion controller is fed exactly once per logical request" (client.rs:87):
\* at the end, with the first complaint of any attempt, so that retries neither
\* lower the rate twice nor hide a complaint behind a success. Nothing is fed when
\* no server was heard at all, or the call was dropped.
FedOnce ==
    \A c \in Callers :
        fed[c] = IF call[c].stage # "done" THEN <<>>
                 ELSE IF heard[c].first # NoSignal THEN <<heard[c].first>>
                 ELSE IF call[c].answered THEN <<Signal("Success", Absent)>> ELSE <<>>

\* No double order: whatever answers are lost and however often it is sent again,
\* one call has its create, modify or cancel carried out at most once.
OneEffectPerCall == \A c \in Callers : effects[c] <= 1

\* A call is not sent again before the Retry-After it was answered with is over,
\* even where that is longer than max_delay.
RetryAfterKept ==
    [][\A c \in Callers : call'[c].stage = "sent" /\ call[c].stage = "parked"
                              => heard[c].quiet = 0]_vars

\* Every call ends, although other tasks park its group again and again.
CallEnds == \A c \in Callers : call[c].stage = "authorizing" ~> call[c].stage \in {"idle", "done"}
====
