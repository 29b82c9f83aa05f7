---- MODULE TokenManager ----
(* TokenManager of tossinvest/auth.rs with the tasks that call it and the     *)
(* server that issues and rejects tokens. A time unit is a second. The store  *)
(* keeps the time a token has left by the client's reckoning, `life` the time *)
(* it has left at the server; the client counts from the arrival of the       *)
(* answer, so it is late by the latency. Actions under "Fault" are plausible  *)
(* bugs, each a variant of the action defined after it.                       *)
EXTENDS Integers

CONSTANTS Callers,      \* tasks that call `token`
          Tokens,       \* bound: the tokens the server can issue
          Lifetimes,    \* values of expires_in
          Skew,         \* token_skew
          MaxLatency,   \* bound: from the issue of a token to its arrival
          None

ASSUME NoneAssumption == None \notin Callers /\ None \notin Tokens
ASSUME LifetimesAssumption ==
    /\ Lifetimes \subseteq Nat /\ Skew \in Nat /\ MaxLatency \in Nat
    /\ \A l \in Lifetimes : l > MaxLatency
    /\ MaxLatency <= Skew

VARIABLES
    stored,    \* the TokenStore: [token, left], or None
    lock,      \* the caller that holds refresh_lock, or None
    auth,      \* caller -> where it is in `token`, and the token it was given
    life,      \* token -> seconds it has left at the server; issued are in its domain
    revoked,   \* tokens the server has withdrawn before their time
    rejected   \* history: tokens a request was answered 401 for

vars == <<stored, lock, auth, life, revoked, rejected>>

Idle == [stage |-> "idle"]
Using(k) == [stage |-> "using", token |-> k]

Init ==
    /\ stored = None
    /\ lock = None
    /\ auth = [t \in Callers |-> Idle]
    /\ life = [k \in {} |-> 0]
    /\ revoked = {} /\ rejected = {}

\* Fault: the skew is added to the expiry, not to the present.
fresh_token_late == stored # None /\ stored.left + Skew > 0

\* Whether the store has a token that lives longer than the skew.
fresh_token == stored # None /\ stored.left > Skew

Goto(t, s) == auth' = [auth EXCEPT ![t] = s]

----------------------------------------------------------------------------
(* token *)

token(t) ==
    /\ auth[t].stage = "idle"
    /\ Goto(t, IF fresh_token THEN Using(stored.token) ELSE [stage |-> "waiting"])
    /\ UNCHANGED <<stored, lock, life, revoked, rejected>>

\* Fault: no second look at the store.
AcquireLock_NoRecheck(t) ==
    /\ auth[t].stage = "waiting"
    /\ lock = None
    /\ lock' = t
    /\ Goto(t, [stage |-> "shaping"])
    /\ UNCHANGED <<stored, life, revoked, rejected>>

\* Fault: the guard of the second look is kept.
AcquireLock_Leaking(t) ==
    /\ auth[t].stage = "waiting"
    /\ lock = None
    /\ lock' = t
    /\ Goto(t, IF fresh_token THEN Using(stored.token) ELSE [stage |-> "shaping"])
    /\ UNCHANGED <<stored, life, revoked, rejected>>

\* The lock is granted and the store looked at again; nothing awaits in between.
AcquireLock(t) ==
    /\ auth[t].stage = "waiting"
    /\ lock = None
    /\ IF fresh_token
          THEN Goto(t, Using(stored.token)) /\ UNCHANGED lock
          ELSE Goto(t, [stage |-> "shaping"]) /\ lock' = t
    /\ UNCHANGED <<stored, life, revoked, rejected>>

----------------------------------------------------------------------------
(* refresh *)

\* The limiter of the AUTH group admits the request and it goes out.
SendRefresh(t) ==
    /\ auth[t].stage = "shaping"
    /\ Goto(t, [stage |-> "sent"])
    /\ UNCHANGED <<stored, lock, life, revoked, rejected>>

\* The server issues a token; the answer is on its way.
Issue(t) ==
    /\ auth[t].stage = "sent"
    /\ \E k \in Tokens \ DOMAIN life, l \in Lifetimes :
          /\ Goto(t, [stage |-> "issued", token |-> k, expires_in |-> l])
          /\ life' = [j \in DOMAIN life \cup {k} |-> IF j = k THEN l ELSE life[j]]
    /\ UNCHANGED <<stored, lock, revoked, rejected>>

SaveToken(t) ==
    /\ auth[t].stage = "issued"
    /\ stored' = [token |-> auth[t].token, left |-> auth[t].expires_in]
    /\ Goto(t, Using(auth[t].token))
    /\ lock' = None
    /\ UNCHANGED <<life, revoked, rejected>>

\* A transport error, an OAuth2 error or an answer that cannot be decoded; or the
\* future is dropped at an await. The guard goes out of scope.
RefreshError(t) ==
    /\ auth[t].stage \in {"shaping", "sent", "issued"}
    /\ Goto(t, Idle)
    /\ lock' = None
    /\ UNCHANGED <<stored, life, revoked, rejected>>

\* A caller gives up while it waits for the lock.
DropWaiting(t) ==
    /\ auth[t].stage = "waiting"
    /\ Goto(t, Idle)
    /\ UNCHANGED <<stored, lock, life, revoked, rejected>>

----------------------------------------------------------------------------
(* The use of a token, the server and time. *)

\* The request is answered with anything but a 401, or not at all.
Answered(t) ==
    /\ auth[t].stage = "using"
    /\ Goto(t, Idle)
    /\ UNCHANGED <<stored, lock, life, revoked, rejected>>

\* Fault: the store is not cleared.
invalidate_Nothing(t) ==
    /\ auth[t].stage = "using"
    /\ life[auth[t].token] = 0 \/ auth[t].token \in revoked
    /\ rejected' = rejected \cup {auth[t].token}
    /\ Goto(t, Idle)
    /\ UNCHANGED <<stored, lock, life, revoked>>

\* A 401: whatever the store holds by now is cleared.
invalidate(t) ==
    /\ auth[t].stage = "using"
    /\ life[auth[t].token] = 0 \/ auth[t].token \in revoked
    /\ stored' = None
    /\ rejected' = rejected \cup {auth[t].token}
    /\ Goto(t, Idle)
    /\ UNCHANGED <<lock, life, revoked>>

Revoke(k) ==
    /\ k \in DOMAIN life \ revoked
    /\ revoked' = revoked \cup {k}
    /\ UNCHANGED <<stored, lock, auth, life, rejected>>

Elapsed(n) == IF n > 0 THEN n - 1 ELSE 0

Elapse ==
    /\ \A t \in Callers : auth[t].stage = "issued" =>
          auth[t].expires_in - life[auth[t].token] < MaxLatency
    /\ stored' = IF stored = None THEN None
                 ELSE [token |-> stored.token, left |-> Elapsed(stored.left)]
    /\ life' = [k \in DOMAIN life |-> Elapsed(life[k])]
    /\ UNCHANGED <<lock, auth, revoked, rejected>>

\* The process ends and starts again: InMemoryTokenStore forgets, a persistent
\* TokenStore keeps the token with its absolute expiry.
Restart ==
    /\ stored' \in {stored, None}
    /\ lock' = None
    /\ auth' = [t \in Callers |-> Idle]
    /\ UNCHANGED <<life, revoked, rejected>>

----------------------------------------------------------------------------
RefreshStep(t) == SendRefresh(t) \/ Issue(t) \/ SaveToken(t) \/ RefreshError(t)

Next ==
    \/ \E t \in Callers :
          \/ token(t) \/ AcquireLock(t) \/ RefreshStep(t) \/ DropWaiting(t)
          \/ Answered(t) \/ invalidate(t)
    \/ \E k \in Tokens : Revoke(k)
    \/ Elapse \/ Restart

Spec == Init /\ [][Next]_vars

\* A refresh ends, with a token or an error; tokio's Mutex is fair to waiters.
Fairness ==
    \A t \in Callers : WF_vars(RefreshStep(t)) /\ SF_vars(AcquireLock(t))

FairSpec == Spec /\ Fairness

----------------------------------------------------------------------------
(* Properties. *)

AuthStates ==
    [stage : {"idle", "waiting", "shaping", "sent"}]
        \cup [stage : {"issued"}, token : Tokens, expires_in : Lifetimes]
        \cup [stage : {"using"}, token : Tokens]

TypeOK ==
    /\ stored \in [token : Tokens, left : Nat] \cup {None}
    /\ lock \in Callers \cup {None}
    /\ auth \in [Callers -> AuthStates]
    /\ DOMAIN life \subseteq Tokens
    /\ \A k \in DOMAIN life : life[k] \in Nat
    /\ revoked \subseteq DOMAIN life /\ rejected \subseteq DOMAIN life

GivenTo(t) == auth[t].stage # "using" /\ auth'[t].stage = "using"

\* "Return a valid access token" (auth.rs:150): a token that `token` returns has not
\* expired at the server, although the client counts from the answer and the store
\* may have survived a restart; the skew is what makes up for the latency.
HandedOutIsValid ==
    [][\A t \in Callers : GivenTo(t) => life[auth'[t].token] > 0]_vars

\* "Invalidate so the next attempt refreshes" (client.rs:111): once a request was
\* answered 401 no call of any task is given that token again.
RejectedIsNotReused ==
    [][\A t \in Callers : GivenTo(t) => auth'[t].token \notin rejected]_vars

\* Single flight (auth.rs:113): requests for tokens go out one at a time and only
\* while the store has no fresh token; a caller is given the token of the store.
Cell == INSTANCE TokenCell WITH
    cell <- IF fresh_token THEN stored.token ELSE None,
    renewing <- lock,
    held <- [t \in Callers |-> IF auth[t].stage = "using" THEN auth[t].token ELSE None]
ImplementsTokenCell == Cell!Spec

\* No caller waits for ever, whatever became of the refreshes before its own.
TokenIsAnswered ==
    \A t \in Callers : auth[t].stage = "waiting" ~> auth[t].stage \in {"using", "idle"}
====
