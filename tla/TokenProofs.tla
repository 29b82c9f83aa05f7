---- MODULE TokenProofs ----
(* Proofs about TokenManager for any set of callers, any lifetimes, skew and  *)
(* latency that its assumptions admit, and any tokens the server may issue.   *)
EXTENDS TokenManager, TLAPS

\* Only the holder of the lock refreshes.
LockInv == \A t \in Callers : auth[t].stage \in {"shaping", "sent", "issued"} => lock = t

\* The client's reckoning of the stored token is late by at most the latency, and no
\* rejected token is in the store.
StoredInv ==
    stored # None =>
        /\ stored.token \in DOMAIN life \ rejected
        /\ stored.left <= life[stored.token] + MaxLatency

\* The answer on its way carries a token that nobody has seen yet.
IssuedInv ==
    \A t \in Callers : auth[t].stage = "issued" =>
        /\ auth[t].token \in DOMAIN life \ rejected
        /\ auth[t].expires_in <= life[auth[t].token] + MaxLatency
        /\ stored # None => stored.token # auth[t].token
        /\ \A u \in Callers : auth[u].stage = "using" => auth[u].token # auth[t].token

UsedInv == \A t \in Callers : auth[t].stage = "using" => auth[t].token \in DOMAIN life

IInv == TypeOK /\ LockInv /\ StoredInv /\ IssuedInv /\ UsedInv

\* The stages of a call as facts about the record that holds it.
LEMMA StageFields ==
    ASSUME TypeOK, NEW t \in Callers
    PROVE  /\ auth[t].stage \in {"idle", "waiting", "shaping", "sent", "issued", "using"}
           /\ auth[t].stage = "issued" =>
                 auth[t].token \in Tokens /\ auth[t].expires_in \in Lifetimes
           /\ auth[t].stage = "using" => auth[t].token \in Tokens
BY DEF TypeOK, AuthStates

LEMMA StoredFields ==
    ASSUME TypeOK, stored # None
    PROVE  stored.token \in Tokens /\ stored.left \in Nat
BY DEF TypeOK

\* What a step that moves one caller leaves alone.
LEMMA GotoEffect ==
    ASSUME TypeOK, NEW t \in Callers, NEW s \in AuthStates, Goto(t, s)
    PROVE  /\ auth' \in [Callers -> AuthStates]
           /\ auth'[t] = s
           /\ \A u \in Callers \ {t} : auth'[u] = auth[u]
BY DEF TypeOK, Goto

LEMMA Stages ==
    /\ Idle \in AuthStates
    /\ \A s \in {"waiting", "shaping", "sent"} : [stage |-> s] \in AuthStates
    /\ \A k \in Tokens : Using(k) \in AuthStates
    /\ \A k \in Tokens, l \in Lifetimes :
          [stage |-> "issued", token |-> k, expires_in |-> l] \in AuthStates
BY DEF Idle, Using, AuthStates

LEMMA IInvInit == Init => IInv
BY DEF Init, IInv, TypeOK, LockInv, StoredInv, IssuedInv, UsedInv, Idle, AuthStates

LEMMA TokenStep ==
    ASSUME IInv, NEW t \in Callers, token(t) PROVE IInv'
<1> DEFINE s == IF fresh_token THEN Using(stored.token) ELSE [stage |-> "waiting"]
<1>1. s \in AuthStates
  BY StoredFields, Stages DEF fresh_token, IInv
<1>2. Goto(t, s)
  BY DEF token
<1>3. /\ auth' \in [Callers -> AuthStates] /\ auth'[t] = s
      /\ \A u \in Callers \ {t} : auth'[u] = auth[u]
  BY <1>1, <1>2, GotoEffect DEF IInv
<1>4. auth'[t].stage \in {"using", "waiting"}
      /\ (auth'[t].stage = "using" => stored # None /\ auth'[t].token = stored.token)
  BY <1>3 DEF fresh_token, Using
<1> HIDE DEF s
<1> QED BY <1>3, <1>4 DEF token, IInv, TypeOK, LockInv, StoredInv, IssuedInv, UsedInv

LEMMA AcquireLockStep ==
    ASSUME IInv, NEW t \in Callers, AcquireLock(t) PROVE IInv'
<1> DEFINE s == IF fresh_token THEN Using(stored.token) ELSE [stage |-> "shaping"]
<1>1. s \in AuthStates
  BY StoredFields, Stages DEF fresh_token, IInv
<1>2. Goto(t, s)
  BY DEF AcquireLock
<1>3. /\ auth' \in [Callers -> AuthStates] /\ auth'[t] = s
      /\ \A u \in Callers \ {t} : auth'[u] = auth[u]
  BY <1>1, <1>2, GotoEffect DEF IInv
<1>4. /\ fresh_token => stored # None /\ lock' = lock
                        /\ auth'[t].stage = "using" /\ auth'[t].token = stored.token
      /\ ~fresh_token => lock' = t /\ auth'[t].stage = "shaping"
  BY <1>3 DEF fresh_token, Using, AcquireLock
<1> HIDE DEF s
<1> QED BY <1>3, <1>4, NoneAssumption DEF AcquireLock, IInv, TypeOK, LockInv, StoredInv,
                                          IssuedInv, UsedInv

\* Steps that send a request, or end a call that holds no token it could put back.
LEMMA SendRefreshStep ==
    ASSUME IInv, NEW t \in Callers, SendRefresh(t) PROVE IInv'
<1>1. /\ auth' \in [Callers -> AuthStates] /\ auth'[t].stage = "sent"
      /\ \A u \in Callers \ {t} : auth'[u] = auth[u]
  BY Stages, GotoEffect DEF SendRefresh, IInv
<1> QED BY <1>1 DEF SendRefresh, IInv, TypeOK, LockInv, StoredInv, IssuedInv, UsedInv

LEMMA IdleStep ==
    ASSUME IInv, NEW t \in Callers, RefreshError(t) \/ DropWaiting(t) \/ Answered(t)
    PROVE  IInv'
<1>1. /\ auth' \in [Callers -> AuthStates] /\ auth'[t].stage = "idle"
      /\ \A u \in Callers \ {t} : auth'[u] = auth[u]
  BY Stages, GotoEffect DEF RefreshError, DropWaiting, Answered, IInv, Idle
<1> QED BY <1>1 DEF RefreshError, DropWaiting, Answered,
                    IInv, TypeOK, LockInv, StoredInv, IssuedInv, UsedInv

LEMMA IssueStep ==
    ASSUME IInv, NEW t \in Callers, Issue(t) PROVE IInv'
<1>1. PICK k \in Tokens \ DOMAIN life, l \in Lifetimes :
          /\ Goto(t, [stage |-> "issued", token |-> k, expires_in |-> l])
          /\ life' = [j \in DOMAIN life \cup {k} |-> IF j = k THEN l ELSE life[j]]
  BY DEF Issue
<1>2. /\ auth' \in [Callers -> AuthStates]
      /\ auth'[t] = [stage |-> "issued", token |-> k, expires_in |-> l]
      /\ \A u \in Callers \ {t} : auth'[u] = auth[u]
  BY <1>1, Stages, GotoEffect DEF IInv
<1>3. /\ DOMAIN life' = DOMAIN life \cup {k} /\ life'[k] = l /\ l \in Nat
      /\ \A j \in DOMAIN life : life'[j] = life[j]
  BY <1>1, LifetimesAssumption DEF IInv, TypeOK
<1>4. TypeOK' /\ LockInv' /\ StoredInv' /\ UsedInv'
  BY <1>2, <1>3 DEF Issue, IInv, TypeOK, LockInv, StoredInv, UsedInv
<1>5. IssuedInv'
  BY <1>2, <1>3, LifetimesAssumption DEF Issue, IInv, TypeOK, LockInv, StoredInv, IssuedInv,
                                         UsedInv
<1> QED BY <1>4, <1>5 DEF IInv

LEMMA SaveTokenStep ==
    ASSUME IInv, NEW t \in Callers, SaveToken(t) PROVE IInv'
<1> DEFINE k == auth[t].token
<1>1. k \in Tokens /\ auth[t].expires_in \in Nat
  BY StageFields, LifetimesAssumption DEF SaveToken, IInv
<1>2. /\ auth' \in [Callers -> AuthStates]
      /\ auth'[t].stage = "using" /\ auth'[t].token = k
      /\ \A u \in Callers \ {t} : auth'[u] = auth[u]
  BY <1>1, Stages, GotoEffect DEF SaveToken, IInv, Using
<1>3. stored'.token = k /\ stored'.left = auth[t].expires_in
  BY DEF SaveToken
<1>4. TypeOK'
  BY <1>1, <1>2 DEF SaveToken, IInv, TypeOK
<1>5. LockInv' /\ StoredInv' /\ IssuedInv' /\ UsedInv'
  BY <1>2, <1>3 DEF SaveToken, IInv, LockInv, StoredInv, IssuedInv, UsedInv
<1> QED BY <1>4, <1>5 DEF IInv

LEMMA InvalidateStep ==
    ASSUME IInv, NEW t \in Callers, invalidate(t) PROVE IInv'
<1>1. /\ auth' \in [Callers -> AuthStates] /\ auth'[t].stage = "idle"
      /\ \A u \in Callers \ {t} : auth'[u] = auth[u]
  BY Stages, GotoEffect DEF invalidate, IInv, Idle
<1> QED BY <1>1 DEF invalidate, IInv, TypeOK, LockInv, StoredInv, IssuedInv, UsedInv

LEMMA ElapseStep == ASSUME IInv, Elapse PROVE IInv'
<1>1. /\ DOMAIN life' = DOMAIN life
      /\ \A k \in DOMAIN life : life[k] \in Nat /\ life'[k] \in Nat
      /\ \A k \in DOMAIN life : life'[k] = IF life[k] > 0 THEN life[k] - 1 ELSE 0
  BY DEF Elapse, Elapsed, IInv, TypeOK
<1>2. stored # None =>
         /\ stored'.token = stored.token
         /\ stored'.left = IF stored.left > 0 THEN stored.left - 1 ELSE 0
         /\ stored'.left \in Nat
  BY StoredFields DEF Elapse, Elapsed, IInv, TypeOK
<1>3. TypeOK'
  BY <1>1, <1>2 DEF Elapse, IInv, TypeOK
<1>4. StoredInv'
  BY <1>1, <1>2, StoredFields, LifetimesAssumption DEF Elapse, IInv, StoredInv
<1>5. IssuedInv'
  <2> SUFFICES ASSUME NEW t \in Callers, auth[t].stage = "issued"
               PROVE  /\ auth[t].token \in DOMAIN life' \ rejected'
                      /\ auth[t].expires_in <= life'[auth[t].token] + MaxLatency
                      /\ stored' # None => stored'.token # auth[t].token
                      /\ \A u \in Callers : auth[u].stage = "using" => auth[u].token # auth[t].token
    BY DEF Elapse, IssuedInv
  <2>1. auth[t].expires_in \in Nat /\ auth[t].expires_in - life[auth[t].token] < MaxLatency
    BY StageFields, LifetimesAssumption DEF Elapse, IInv
  <2> QED BY <2>1, <1>1, <1>2, LifetimesAssumption DEF Elapse, IInv, IssuedInv
<1> QED BY <1>1, <1>3, <1>4, <1>5 DEF Elapse, IInv, LockInv, UsedInv

LEMMA RestartStep == ASSUME IInv, Restart PROVE IInv'
BY Stages DEF Restart, IInv, TypeOK, LockInv, StoredInv, IssuedInv, UsedInv, Idle

LEMMA IInvStep == IInv /\ [Next]_vars => IInv'
<1> SUFFICES ASSUME IInv, [Next]_vars PROVE IInv'
  OBVIOUS
<1>1. ASSUME NEW t \in Callers, RefreshStep(t) PROVE IInv'
  BY <1>1, SendRefreshStep, IssueStep, SaveTokenStep, IdleStep DEF RefreshStep
<1>2. ASSUME NEW k \in Tokens, Revoke(k) PROVE IInv'
  BY <1>2 DEF Revoke, IInv, TypeOK, LockInv, StoredInv, IssuedInv, UsedInv
<1>3. CASE UNCHANGED vars
  BY <1>3 DEF vars, IInv, TypeOK, LockInv, StoredInv, IssuedInv, UsedInv
<1> QED BY <1>1, <1>2, <1>3, TokenStep, AcquireLockStep, IdleStep, InvalidateStep, ElapseStep,
           RestartStep DEF Next

\* The state of the manager keeps its types, for any number of callers.
THEOREM TypeCorrect == Spec => []TypeOK
<1>1. IInv => TypeOK
  BY DEF IInv
<1> QED BY <1>1, IInvInit, IInvStep, PTL DEF Spec

----------------------------------------------------------------------------
(* What a caller is given is the stored token while it is fresh, or the       *)
(* answer to its own request.                                                 *)

LEMMA GivenIsStoredOrIssued ==
    ASSUME IInv, [Next]_vars, NEW t \in Callers, GivenTo(t)
    PROVE  /\ life' = life /\ rejected' = rejected
           /\ \/ fresh_token /\ auth'[t].token = stored.token
              \/ auth[t].stage = "issued" /\ auth'[t].token = auth[t].token
<1> USE DEF GivenTo, Idle, Using
<1>0. auth \in [Callers -> AuthStates]
  BY DEF IInv, TypeOK
<1>1. ASSUME NEW u \in Callers, token(u) \/ AcquireLock(u)
      PROVE  /\ life' = life /\ rejected' = rejected
             /\ fresh_token /\ auth'[t].token = stored.token
  BY <1>0, <1>1 DEF token, AcquireLock, Goto
<1>2. ASSUME NEW u \in Callers, SaveToken(u)
      PROVE  /\ life' = life /\ rejected' = rejected
             /\ auth[t].stage = "issued" /\ auth'[t].token = auth[t].token
  BY <1>0, <1>2 DEF SaveToken, Goto
<1>3. ASSUME NEW u \in Callers, SendRefresh(u) \/ Issue(u) PROVE FALSE
  <2>1. CASE SendRefresh(u)
    BY <1>0, <2>1 DEF SendRefresh, Goto
  <2>2. CASE Issue(u)
    <3>1. PICK s \in [stage : {"issued"}, token : Tokens, expires_in : Lifetimes] : Goto(u, s)
      BY <2>2 DEF Issue
    <3> QED BY <1>0, <3>1 DEF Goto
  <2> QED BY <1>3, <2>1, <2>2
<1>4. ASSUME NEW u \in Callers,
             RefreshError(u) \/ DropWaiting(u) \/ Answered(u) \/ invalidate(u)
      PROVE  FALSE
  BY <1>0, <1>4 DEF RefreshError, DropWaiting, Answered, invalidate, Goto
<1>5. ASSUME (\E k \in Tokens : Revoke(k)) \/ Elapse \/ Restart \/ UNCHANGED vars PROVE FALSE
  BY <1>0, <1>5 DEF Revoke, Elapse, Restart, vars
<1> QED BY <1>1, <1>2, <1>3, <1>4, <1>5 DEF Next, RefreshStep

\* No caller is given a token that is dead at the server: the skew covers the latency
\* by which the client counts late.
THEOREM HandedOut == Spec => HandedOutIsValid
<1>1. ASSUME IInv, [Next]_vars, NEW t \in Callers, GivenTo(t)
      PROVE  life[auth'[t].token] > 0
  <2>1. CASE fresh_token /\ auth'[t].token = stored.token
    BY <2>1, <1>1, StoredFields, LifetimesAssumption DEF IInv, TypeOK, StoredInv, fresh_token
  <2>2. CASE auth[t].stage = "issued" /\ auth'[t].token = auth[t].token
    <3>1. /\ auth[t].expires_in \in Nat /\ auth[t].expires_in > MaxLatency
          /\ life[auth[t].token] \in Nat
          /\ auth[t].expires_in <= life[auth[t].token] + MaxLatency
      BY <2>2, <1>1, StageFields, LifetimesAssumption DEF IInv, TypeOK, IssuedInv
    <3> QED BY <2>2, <3>1, LifetimesAssumption
  <2> QED BY <1>1, <2>1, <2>2, GivenIsStoredOrIssued
<1>2. IInv /\ [Next]_vars
        => [\A t \in Callers : GivenTo(t) => life[auth'[t].token] > 0]_vars
  BY <1>1
<1> QED BY <1>2, IInvInit, IInvStep, PTL DEF Spec, HandedOutIsValid

\* A token that was answered 401 is never given out again, whoever held it meanwhile.
THEOREM RejectedNotReused == Spec => RejectedIsNotReused
<1>1. ASSUME IInv, [Next]_vars, NEW t \in Callers, GivenTo(t)
      PROVE  auth'[t].token \notin rejected
  BY <1>1, GivenIsStoredOrIssued DEF IInv, StoredInv, IssuedInv, fresh_token
<1>2. IInv /\ [Next]_vars
        => [\A t \in Callers : GivenTo(t) => auth'[t].token \notin rejected]_vars
  BY <1>1
<1> QED BY <1>2, IInvInit, IInvStep, PTL DEF Spec, RejectedIsNotReused

----------------------------------------------------------------------------
(* The refinement. *)

Held == [t \in Callers |-> IF auth[t].stage = "using" THEN auth[t].token ELSE None]
CellValue == IF fresh_token THEN stored.token ELSE None

LEMMA HeldEffect ==
    ASSUME TypeOK, NEW t \in Callers, NEW s \in AuthStates, Goto(t, s)
    PROVE  Held' = [Held EXCEPT ![t] = IF s.stage = "using" THEN s.token ELSE None]
<1>1. /\ auth'[t] = s
      /\ \A u \in Callers \ {t} : auth'[u] = auth[u]
  BY GotoEffect
<1> QED BY <1>1 DEF Held

\* The manager implements a cell that is filled by one renewal at a time, begun only
\* while it is empty.
THEOREM Refinement == Spec => ImplementsTokenCell
<1>1. Init => Cell!Init
  BY DEF Init, Cell!Init, fresh_token, Idle
<1>2. IInv /\ [Next]_vars => [Cell!Next]_(Cell!vars)
  <2> SUFFICES ASSUME IInv, [Next]_vars PROVE [Cell!Next]_(Cell!vars)
    OBVIOUS
  <2> USE DEF Cell!vars, CellValue, Held
  <2>0. auth \in [Callers -> AuthStates]
    BY DEF IInv, TypeOK
  <2>1. ASSUME NEW t \in Callers, token(t) PROVE Cell!HandOut(t) \/ UNCHANGED Cell!vars
    <3>1. CASE fresh_token
      <4>1. stored.token \in Tokens /\ Using(stored.token) \in AuthStates
        BY <3>1, StoredFields, Stages DEF IInv, fresh_token
      <4>2. Held' = [Held EXCEPT ![t] = stored.token]
        BY <2>1, <3>1, <4>1, HeldEffect DEF token, IInv, Using
      <4> QED BY <2>1, <3>1, <4>1, <4>2, NoneAssumption DEF token, Cell!HandOut, fresh_token
    <3>2. CASE ~fresh_token
      <4>1. Held' = [Held EXCEPT ![t] = None]
        BY <2>1, <3>2, Stages, HeldEffect DEF token, IInv
      <4> QED BY <2>1, <3>2, <4>1 DEF token, fresh_token
    <3> QED BY <3>1, <3>2
  <2>2. ASSUME NEW t \in Callers, AcquireLock(t) PROVE Cell!HandOut(t) \/ Cell!Begin(t)
    <3>1. CASE fresh_token
      <4>1. stored.token \in Tokens /\ Using(stored.token) \in AuthStates
        BY <3>1, StoredFields, Stages DEF IInv, fresh_token
      <4>2. Held' = [Held EXCEPT ![t] = stored.token]
        BY <2>2, <3>1, <4>1, HeldEffect DEF AcquireLock, IInv, Using
      <4> QED BY <2>2, <3>1, <4>1, <4>2, NoneAssumption DEF AcquireLock, Cell!HandOut, fresh_token
    <3>2. CASE ~fresh_token
      <4>1. Held' = [Held EXCEPT ![t] = None]
        BY <2>2, <3>2, Stages, HeldEffect DEF AcquireLock, IInv
      <4> QED BY <2>2, <3>2, <4>1 DEF AcquireLock, Cell!Begin, fresh_token
    <3> QED BY <3>1, <3>2
  <2>3. ASSUME NEW t \in Callers, SendRefresh(t) \/ Issue(t) \/ DropWaiting(t)
        PROVE  UNCHANGED Cell!vars
    <3>1. PICK s \in AuthStates : Goto(t, s) /\ s.stage # "using"
      BY <2>3, Stages DEF SendRefresh, Issue, DropWaiting, Idle
    <3>2. Held' = [Held EXCEPT ![t] = None]
      BY <3>1, HeldEffect DEF IInv
    <3> QED BY <2>3, <3>2 DEF SendRefresh, Issue, DropWaiting, fresh_token
  <2>4. ASSUME NEW t \in Callers, SaveToken(t) PROVE Cell!Finish(t)
    <3>1. auth[t].token \in Tokens /\ Using(auth[t].token) \in AuthStates
      BY <2>4, StageFields, Stages DEF SaveToken, IInv
    <3>2. Held' = [Held EXCEPT ![t] = auth[t].token]
      BY <2>4, <3>1, HeldEffect DEF SaveToken, IInv, Using
    <3>3. CellValue' \in {auth[t].token, None}
      BY <2>4 DEF SaveToken, fresh_token
    <3> QED BY <2>4, <3>1, <3>2, <3>3 DEF SaveToken, Cell!Finish, IInv, LockInv
  <2>5. ASSUME NEW t \in Callers, RefreshError(t) PROVE Cell!Fail(t)
    <3>1. Held' = [Held EXCEPT ![t] = None]
      BY <2>5, Stages, HeldEffect DEF RefreshError, IInv, Idle
    <3> QED BY <2>5, <3>1 DEF RefreshError, Cell!Fail, fresh_token, IInv, LockInv
  <2>6. ASSUME NEW t \in Callers, Answered(t) \/ invalidate(t) PROVE Cell!Return(t)
    <3>1. Held' = [Held EXCEPT ![t] = None]
      BY <2>6, Stages, HeldEffect DEF Answered, invalidate, IInv, Idle
    <3>2. CellValue' \in {CellValue, None}
      BY <2>6 DEF Answered, invalidate, fresh_token
    <3> QED BY <2>6, <3>1, <3>2 DEF Answered, invalidate, Cell!Return
  <2>7. ASSUME NEW k \in Tokens, Revoke(k) PROVE UNCHANGED Cell!vars
    BY <2>7 DEF Revoke, fresh_token
  <2>8. CASE Elapse
    <3>1. stored # None => stored'.token = stored.token /\ stored'.left \in Nat
                           /\ stored.left \in Nat /\ stored'.left <= stored.left
      BY <2>8, StoredFields DEF Elapse, Elapsed, IInv
    <3>2. CellValue' \in {CellValue, None}
      BY <2>8, <3>1, LifetimesAssumption DEF Elapse, fresh_token
    <3>3. Cell!Empty \/ UNCHANGED Cell!vars
      BY <2>8, <3>2 DEF Elapse, Cell!Empty
    <3> QED BY <3>3 DEF Cell!Next
  <2>9. CASE Restart
    <3>1. Held' = [t \in Callers |-> None] /\ CellValue' \in {CellValue, None}
      BY <2>9 DEF Restart, fresh_token, Idle
    <3> QED BY <2>9, <3>1 DEF Restart, Cell!Restart, Cell!Next
  <2>10. CASE UNCHANGED vars
    BY <2>10 DEF vars, fresh_token
  <2> QED BY <2>1, <2>2, <2>3, <2>4, <2>5, <2>6, <2>7, <2>8, <2>9, <2>10
          DEF Next, RefreshStep, Cell!Next
<1> QED BY <1>1, <1>2, IInvInit, IInvStep, PTL DEF Spec, ImplementsTokenCell, Cell!Spec
====
