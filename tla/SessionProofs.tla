---------------------------- MODULE SessionProofs ----------------------------
(* Machine-checked proofs about Session, for every set of sessions and     *)
(* users and every bound.                                                  *)
EXTENDS Session, FiniteSetTheorems, TLAPS

(* A relay is a pair of a session and a direction. *)
LEMMA RelayParts ==
  ASSUME NEW r \in Relays
  PROVE  /\ r[1] \in Sessions
         /\ r[2] \in Dirs
         /\ SrcOf(r) \in Sides
         /\ DstOf(r) \in Sides
         /\ RelayUser(r) \in Users
  BY ConstantsAssumption, Zenon DEF ConstantsAssumption, Relays, Dirs, Sides, SrcOf,
     DstOf, RelayUser

(* TypeOK holds initially. *)
LEMMA TypeInit == Init => TypeOK
<1> SUFFICES ASSUME Init PROVE TypeOK BY Zenon
<1>1. LimitValues \cup {0} \subseteq Nat
  BY ConstantsAssumption DEF ConstantsAssumption
<1>2. limits \in [Users -> Nat] /\ loosest \in [Users -> Nat]
  BY <1>1, Zenon DEF Init
<1>3. MaxBytes \in 0..MaxBytes /\ 0 \in 0..MaxBytes
  BY ConstantsAssumption DEF ConstantsAssumption
<1>4. /\ cancelled \in [Sessions -> BOOLEAN]
      /\ readErr \in [Relays -> BOOLEAN]
  BY Zenon DEF Init
<1> QED
  BY <1>2, <1>3, <1>4 DEF Init, TypeOK, HandlerStates, RelayStates, Sides, ErrChCap,
     NoEntry, NilLimiter, Unbounded

(* The steps of a handler keep TypeOK. *)
LEMMA TypeHandler ==
  ASSUME TypeOK, NEW s \in Sessions, Accept(s) \/ HandlerStep(s) \/ Kick(s)
  PROVE  TypeOK'
<1> USE ConstantsAssumption DEF ConstantsAssumption, TypeOK, Step, sessionVars, gaugeVars, relayVars,
       infoVars, quotaVars, limiterVars, HandlerStates, Sides
<1>1. CASE Accept(s)
  <2>1. GetOrCreate(UserOf[s]) \in Nat
    BY Zenon DEF GetOrCreate, NoEntry, NilLimiter, RealLimiter
  <2> QED BY <1>1, <2>1 DEF Accept
<1>2. CASE DialFail(s) BY <1>2, Zenon DEF DialFail
<1>3. CASE DialOK(s) BY <1>3, Zenon DEF DialOK
<1>4. CASE AddActive(s) BY <1>4 DEF AddActive
<1>5. CASE LoadActive(s) BY <1>5, Zenon DEF LoadActive
<1>6. CASE SetGauge(s)
  <2>1. handler' \in [Sessions -> HandlerStates]
    <3>1. \/ handler' = [handler EXCEPT ![s] = "store"]
          \/ handler' = [handler EXCEPT ![s] = "closetarget"]
      BY <1>6, Zenon DEF SetGauge
    <3> QED BY <3>1, Zenon
  <2>2. gauge' \in Int /\ loaded' \in [Sessions -> Int] BY <1>6 DEF SetGauge
  <2> QED BY <1>6, <2>1, <2>2, Zenon DEF SetGauge
<1>7. CASE StoreSession(s) BY <1>7, Zenon DEF StoreSession, RelayStates
<1>8. CASE FirstRelayEnded(s) BY <1>8 DEF FirstRelayEnded, ErrChCap
<1>9. CASE CancelAndSub(s) BY <1>9 DEF CancelAndSub
<1>10. CASE CloseTarget(s) BY <1>10, Zenon DEF CloseTarget
<1>11. CASE CloseClient(s) BY <1>11, Zenon DEF CloseClient
<1>12. CASE Kick(s) BY <1>12, Zenon DEF Kick
<1> HIDE ConstantsAssumption DEF ConstantsAssumption, TypeOK, Step, HandlerStates
<1> QED BY <1>1, <1>2, <1>3, <1>4, <1>5, <1>6, <1>7, <1>8, <1>9, <1>10, <1>11,
           <1>12, Zenon DEF HandlerStep

(* The steps of a relay keep TypeOK. *)
LEMMA TypeRelay ==
  ASSUME TypeOK, NEW r \in Relays, RelayStep(r) \/ PeerStep(r)
  PROVE  TypeOK'
<1>a. r[1] \in Sessions /\ RelayUser(r) \in Users
  BY RelayParts, Zenon
<1> USE ConstantsAssumption, <1>a DEF ConstantsAssumption, TypeOK, sessionVars,
       gaugeVars, relayVars, infoVars, quotaVars, limiterVars, RelayStates
<1>1. CASE ReadEnd(r) BY <1>1, Zenon DEF ReadEnd
<1>2. CASE LimitWait(r) BY <1>2, Zenon DEF LimitWait, AfterRead
<1>3. CASE LoadLimit(r) BY <1>3, Zenon DEF LoadLimit
<1>4. CASE AddUsage(r)
  <2>1. hand[r] \in Nat BY DEF TypeOK
  <2>2. relay' \in [Relays -> RelayStates]
    <3>1. \/ relay' = [relay EXCEPT ![r] = "flush"]
          \/ relay' = [relay EXCEPT ![r] = "write"]
      BY <1>4, Zenon DEF AddUsage
    <3> QED BY <3>1, Zenon
  <2>3. hand' \in [Relays -> 0..MaxBytes] BY <1>4 DEF AddUsage
  <2>4. granted' \in [Users -> Nat] /\ used' \in [Users -> Nat]
    BY <1>4, <2>1 DEF AddUsage
  <2>5. limitSeen' \in [Relays -> Nat] BY <1>4, Zenon DEF AddUsage
  <2> QED BY <1>4, <2>2, <2>3, <2>4, <2>5, Zenon DEF AddUsage
<1>5. CASE WriteOK(r) BY <1>5 DEF WriteOK
<1>6. CASE WriteFail(r) BY <1>6 DEF WriteFail
<1>7. CASE LoadBytesSent(r)
  <2>1. relay' \in [Relays -> RelayStates]
    <3>1. \/ relay' = [relay EXCEPT ![r] = "bytessent"]
          \/ relay' = [relay EXCEPT ![r] = "send"]
      BY <1>7, Zenon DEF LoadBytesSent
    <3> QED BY <3>1, Zenon
  <2>2. sentSeen' \in [Relays -> Nat] BY <1>7 DEF LoadBytesSent
  <2> QED BY <1>7, <2>1, <2>2, Zenon DEF LoadBytesSent
<1>8. CASE StoreBytesSent(r) BY <1>8 DEF StoreBytesSent
<1>9. CASE SendResult(r)
  <2>1. errCh[r[1]] \in 0..ErrChCap /\ errCh[r[1]] < ErrChCap
    BY <1>9, Zenon DEF SendResult
  <2>2. errCh[r[1]] + 1 \in 0..ErrChCap
    BY <2>1 DEF ErrChCap
  <2>3. errCh' \in [Sessions -> 0..ErrChCap] BY <1>9, <2>2, Zenon DEF SendResult
  <2>4. relay' \in [Relays -> RelayStates] BY <1>9, Zenon DEF SendResult
  <2> QED BY <1>9, <2>3, <2>4, Zenon DEF SendResult
<1>10. ASSUME NEW n \in 1..MaxBytes, ReadData(r, n) PROVE TypeOK'
  BY <1>10 DEF ReadData, AfterRead
<1> HIDE ConstantsAssumption, <1>a DEF ConstantsAssumption, TypeOK
<1> QED BY <1>1, <1>2, <1>3, <1>4, <1>5, <1>6, <1>7, <1>8, <1>9, <1>10, Zenon
        DEF RelayStep, PeerStep

(* The steps of peers and operators keep TypeOK. *)
LEMMA TypeEnvironment ==
  ASSUME TypeOK,
         \/ \E s \in Sessions, c \in Sides : PeerClose(s, c)
         \/ \E u \in Users : OperatorStep(u)
  PROVE  TypeOK'
<1> USE ConstantsAssumption DEF ConstantsAssumption, TypeOK, sessionVars, gaugeVars, relayVars, infoVars,
       quotaVars, limiterVars
<1>1. ASSUME NEW s \in Sessions, NEW c \in Sides, PeerClose(s, c) PROVE TypeOK'
  BY <1>1, Zenon DEF PeerClose
<1>2. ASSUME NEW u \in Users, Reset(u) PROVE TypeOK'
  BY <1>2 DEF Reset, Unbounded
<1>3. ASSUME NEW u \in Users, Revoke(u) PROVE TypeOK'
  BY <1>3, Zenon DEF Revoke
<1>4. ASSUME NEW u \in Users, UpdateLimiter(u) PROVE TypeOK'
  BY <1>4 DEF UpdateLimiter, RealLimiter
<1>5. ASSUME NEW u \in Users, NEW limit \in LimitValues, SetLimit(u, limit)
      PROVE TypeOK'
  BY <1>5, Zenon DEF SetLimit, Looser
<1> HIDE ConstantsAssumption DEF ConstantsAssumption, TypeOK
<1> QED BY <1>1, <1>2, <1>3, <1>4, <1>5, Zenon DEF OperatorStep

(* Every variable keeps its type. *)
THEOREM TypeCorrect == Spec => []TypeOK
<1>1. TypeOK /\ [Next]_vars => TypeOK'
  <2> SUFFICES ASSUME TypeOK, [Next]_vars PROVE TypeOK' BY Zenon
  <2>1. CASE UNCHANGED vars
    BY <2>1, Zenon DEF TypeOK, vars, sessionVars, gaugeVars, relayVars, infoVars,
       quotaVars,
       limiterVars
  <2>2. CASE Next
    BY <2>2, TypeHandler, TypeRelay, TypeEnvironment, Zenon DEF Next
  <2> QED BY <2>1, <2>2, Zenon
<1> QED BY TypeInit, <1>1, PTL DEF Spec

-----------------------------------------------------------------------------
(* What the steps leave alone. *)

(* The steps of a handler touch no byte count and no quota; only             *)
(* StoreSession moves relays, and only AddActive and CancelAndSub change     *)
(* the counter.                                                              *)
LEMMA HandlerFrame ==
  ASSUME NEW s \in Sessions, Accept(s) \/ HandlerStep(s) \/ Kick(s)
  PROVE  /\ UNCHANGED <<left, hand, limitSeen, totalRead, sent>>
         /\ UNCHANGED infoVars /\ UNCHANGED quotaVars
         /\ StoreSession(s) \/ UNCHANGED relay
         /\ AddActive(s) \/ CancelAndSub(s) \/ UNCHANGED activeCount
<1> USE DEF relayVars, gaugeVars
<1>1. CASE Accept(s) BY <1>1, Zenon DEF Accept
<1>2. CASE DialFail(s) BY <1>2, Zenon DEF DialFail
<1>3. CASE DialOK(s) BY <1>3, Zenon DEF DialOK
<1>4. CASE AddActive(s) BY <1>4, Zenon DEF AddActive
<1>5. CASE LoadActive(s) BY <1>5, Zenon DEF LoadActive
<1>6. CASE SetGauge(s) BY <1>6, Zenon DEF SetGauge
<1>7. CASE StoreSession(s) BY <1>7, Zenon DEF StoreSession
<1>8. CASE FirstRelayEnded(s) BY <1>8, Zenon DEF FirstRelayEnded
<1>9. CASE CancelAndSub(s) BY <1>9, Zenon DEF CancelAndSub
<1>10. CASE CloseTarget(s) BY <1>10, Zenon DEF CloseTarget
<1>11. CASE CloseClient(s) BY <1>11, Zenon DEF CloseClient
<1>12. CASE Kick(s) BY <1>12, Zenon DEF Kick
<1> QED BY <1>1, <1>2, <1>3, <1>4, <1>5, <1>6, <1>7, <1>8, <1>9, <1>10, <1>11, <1>12,
           Zenon
        DEF HandlerStep

(* The steps of a relay touch no other relay and no handler, and a relay     *)
(* comes to each of its states by the steps named here only.                 *)
LEMMA RelayFrame ==
  ASSUME TypeOK, NEW r \in Relays, RelayStep(r) \/ PeerStep(r)
  PROVE  /\ UNCHANGED <<handler, conn, registry>> /\ UNCHANGED gaugeVars
         /\ \A x \in Relays : x # r =>
              /\ relay'[x] = relay[x] /\ sent'[x] = sent[x] /\ hand'[x] = hand[x]
              /\ left'[x] = left[x] /\ totalRead'[x] = totalRead[x]
         /\ relay[r] # "none"
         /\ AddUsage(r) \/ UNCHANGED quotaVars
         /\ LoadLimit(r) \/ AddUsage(r) \/ UNCHANGED limitSeen
         /\ LoadBytesSent(r) \/ StoreBytesSent(r) \/ UNCHANGED infoVars
         /\ WriteOK(r) \/ UNCHANGED sent
         /\ relay'[r] = "add" => LoadLimit(r)
         /\ relay'[r] = "write" =>
              \/ AddUsage(r)
              \/ relay[r] \in {"read", "limit"} /\ AfterRead(r) = "write"
         /\ relay'[r] = "bytessent" => LoadBytesSent(r)
         /\ relay[r] \in {"send", "done"} => SendResult(r)
         /\ relay'[r] \in {"send", "done"} =>
              LoadBytesSent(r) \/ StoreBytesSent(r) \/ SendResult(r)
<1> DEFINE Frame ==
         /\ UNCHANGED <<handler, conn, registry>> /\ UNCHANGED gaugeVars
         /\ \A x \in Relays : x # r =>
              /\ relay'[x] = relay[x] /\ sent'[x] = sent[x] /\ hand'[x] = hand[x]
              /\ left'[x] = left[x] /\ totalRead'[x] = totalRead[x]
         /\ relay[r] # "none"
         /\ AddUsage(r) \/ UNCHANGED quotaVars
         /\ LoadLimit(r) \/ AddUsage(r) \/ UNCHANGED limitSeen
         /\ LoadBytesSent(r) \/ StoreBytesSent(r) \/ UNCHANGED infoVars
         /\ WriteOK(r) \/ UNCHANGED sent
         /\ relay'[r] = "add" => LoadLimit(r)
         /\ relay'[r] = "write" =>
              \/ AddUsage(r)
              \/ relay[r] \in {"read", "limit"} /\ AfterRead(r) = "write"
         /\ relay'[r] = "bytessent" => LoadBytesSent(r)
         /\ relay[r] \in {"send", "done"} => SendResult(r)
         /\ relay'[r] \in {"send", "done"} =>
              LoadBytesSent(r) \/ StoreBytesSent(r) \/ SendResult(r)
<1>a. /\ relay \in [Relays -> RelayStates] /\ sent \in [Relays -> Nat]
      /\ hand \in [Relays -> 0..MaxBytes] /\ left \in [Relays -> 0..MaxBytes]
      /\ totalRead \in [Relays -> Nat]
  BY Zenon DEF TypeOK
<1> USE <1>a DEF sessionVars
<1>1. ASSUME ReadEnd(r) PROVE Frame BY <1>1, Zenon DEF ReadEnd
<1>2. ASSUME LimitWait(r) PROVE Frame BY <1>2, Zenon DEF LimitWait, AfterRead
<1>3. ASSUME LoadLimit(r) PROVE Frame BY <1>3, Zenon DEF LoadLimit
<1>4. ASSUME AddUsage(r) PROVE Frame BY <1>4, Zenon DEF AddUsage
<1>5. ASSUME WriteOK(r) PROVE Frame BY <1>5, Zenon DEF WriteOK
<1>6. ASSUME WriteFail(r) PROVE Frame BY <1>6, Zenon DEF WriteFail
<1>7. ASSUME LoadBytesSent(r) PROVE Frame BY <1>7, Zenon DEF LoadBytesSent
<1>8. ASSUME StoreBytesSent(r) PROVE Frame BY <1>8, Zenon DEF StoreBytesSent
<1>9. ASSUME SendResult(r) PROVE Frame BY <1>9, Zenon DEF SendResult
<1>10. ASSUME NEW n \in 1..MaxBytes, ReadData(r, n) PROVE Frame
  BY <1>10, Zenon DEF ReadData, AfterRead
<1> HIDE DEF Frame
<1>11. Frame
  BY <1>1, <1>2, <1>3, <1>4, <1>5, <1>6, <1>7, <1>8, <1>9, <1>10, Zenon
     DEF RelayStep, PeerStep
<1> QED BY <1>11, Zenon DEF Frame

-----------------------------------------------------------------------------
(* The quota.  QuotaRespected is not inductive: that a grant stays within  *)
(* the loosest limit of the period needs that the counter is never below   *)
(* what was granted, and that every limit AddUsage may still compare with, *)
(* current or loaded earlier, is within the loosest one.                   *)
QuotaInv ==
  /\ \A u \in Users : granted[u] <= used[u]
  /\ \A u \in Users :
       loosest[u] > 0 => /\ limits[u] > 0
                         /\ limits[u] <= loosest[u]
                         /\ granted[u] <= loosest[u]
  /\ \A r \in Relays :
       (relay[r] = "add" /\ loosest[RelayUser(r)] > 0)
         => /\ limitSeen[r] > 0
            /\ limitSeen[r] <= loosest[RelayUser(r)]

(* The quota invariant holds initially. *)
LEMMA QuotaInit == TypeOK /\ Init => QuotaInv
  BY RelayParts DEF Init, QuotaInv, TypeOK

(* A step that only moves relays outside AddUsage. *)
LEMMA QuotaFrame ==
  ASSUME TypeOK, QuotaInv, UNCHANGED quotaVars,
         \A r \in Relays : relay'[r] = "add" =>
           relay[r] = "add" /\ limitSeen'[r] = limitSeen[r]
  PROVE  QuotaInv'
  BY Zenon DEF QuotaInv, quotaVars, RelayUser

(* The steps of a handler keep the quota invariant. *)
LEMMA QuotaHandler ==
  ASSUME TypeOK, QuotaInv, NEW s \in Sessions, Accept(s) \/ HandlerStep(s) \/ Kick(s)
  PROVE  QuotaInv'
<1>1. UNCHANGED quotaVars /\ UNCHANGED limitSeen
  BY HandlerFrame, Zenon
<1>2. \A r \in Relays : relay'[r] = "add" => relay[r] = "add"
  <2>1. CASE StoreSession(s) BY <2>1, Zenon DEF StoreSession
  <2>2. CASE UNCHANGED relay BY <2>2, Zenon
  <2> QED BY <2>1, <2>2, HandlerFrame, Zenon
<1> QED BY <1>1, <1>2, QuotaFrame, Zenon

(* The steps of a relay, AddUsage among them, keep the quota invariant. *)
LEMMA QuotaRelay ==
  ASSUME TypeOK, QuotaInv, NEW r \in Relays, RelayStep(r) \/ PeerStep(r)
  PROVE  QuotaInv'
<1> DEFINE u == RelayUser(r)
<1>a. u \in Users /\ r[1] \in Sessions
  BY RelayParts, Zenon
<1>b. hand[r] \in Nat /\ used[u] \in Nat /\ granted[u] \in Nat /\ limits[u] \in Nat
      /\ loosest[u] \in Nat /\ limitSeen[r] \in Nat
  BY <1>a, ConstantsAssumption DEF TypeOK, ConstantsAssumption
<1>1. CASE LoadLimit(r)
  <2>1. UNCHANGED quotaVars BY <1>1, Zenon DEF LoadLimit
  <2>2. \A x \in Relays : x # r => relay'[x] = relay[x] /\ limitSeen'[x] = limitSeen[x]
    BY <1>1, Zenon DEF LoadLimit, TypeOK
  <2>3. limitSeen'[r] = limits[u] BY <1>1, Zenon DEF LoadLimit, TypeOK
  <2>4. loosest[u] > 0 => limits[u] > 0 /\ limits[u] <= loosest[u]
    BY <1>a, Zenon DEF QuotaInv
  <2> QED BY <2>1, <2>2, <2>3, <2>4, Zenon DEF QuotaInv, quotaVars, RelayUser
<1>2. CASE AddUsage(r)
  <2>1. used' = [used EXCEPT ![u] = @ + hand[r]] /\ UNCHANGED <<limits, loosest>>
    BY <1>2, Zenon DEF AddUsage
  <2>2. \A x \in Relays : relay'[x] = "add" => relay[x] = "add" /\ limitSeen'[x] = limitSeen[x]
    BY <1>2 DEF AddUsage, TypeOK
  <2>3. \/ granted' = granted
        \/ /\ ~Exceeded(r)
           /\ granted' = [granted EXCEPT ![u] = @ + hand[r]]
    BY <1>2, Zenon DEF AddUsage
  <2>4. granted[u] <= used[u] /\ (loosest[u] > 0 => granted[u] <= loosest[u])
    BY <1>a, Zenon DEF QuotaInv
  <2>5. loosest[u] > 0 => limitSeen[r] > 0 /\ limitSeen[r] <= loosest[u]
    BY <1>2, Zenon DEF AddUsage, QuotaInv
  <2>6. used'[u] = used[u] + hand[r] /\ granted'[u] \in Nat
        /\ granted'[u] <= used'[u]
        /\ (loosest[u] > 0 => granted'[u] <= loosest[u])
    BY <1>a, <1>b, <2>1, <2>3, <2>4, <2>5 DEF Exceeded, TypeOK
  <2>7. \A v \in Users : v # u => used'[v] = used[v] /\ granted'[v] = granted[v]
    BY <2>1, <2>3, Zenon DEF TypeOK
  <2> QED BY <2>1, <2>2, <2>6, <2>7, Zenon DEF QuotaInv, RelayUser
<1>3. CASE ~LoadLimit(r) /\ ~AddUsage(r)
  <2>1. UNCHANGED quotaVars /\ UNCHANGED limitSeen
    BY <1>3, RelayFrame, Zenon
  <2>3. \A x \in Relays : relay'[x] = "add" => relay[x] = "add"
    BY <1>3, RelayFrame, Zenon
  <2> QED BY <2>1, <2>3, QuotaFrame, Zenon
<1> QED BY <1>1, <1>2, <1>3, Zenon

(* Resets and limit changes keep the quota invariant. *)
LEMMA QuotaOperator ==
  ASSUME TypeOK, QuotaInv, NEW u \in Users, OperatorStep(u)
  PROVE  QuotaInv'
<1>1. CASE Reset(u)
  <2>1. /\ used' = [used EXCEPT ![u] = 0]
        /\ granted' = [granted EXCEPT ![u] = 0]
        /\ UNCHANGED <<limits, relay, limitSeen>>
        /\ loosest' = [loosest EXCEPT ![u] = IF AddInFlight(u) THEN @ ELSE limits[u]]
    BY <1>1, Zenon DEF Reset, relayVars
  <2>2. ASSUME NEW x \in Users
        PROVE  /\ granted'[x] <= used'[x]
               /\ loosest'[x] > 0 => /\ limits'[x] > 0 /\ limits'[x] <= loosest'[x]
                                     /\ granted'[x] <= loosest'[x]
    <3>1. /\ granted[x] \in Nat /\ used[x] \in Nat /\ limits[x] \in Nat /\ loosest[x] \in Nat
          /\ limits'[x] = limits[x]
      BY <2>1, Zenon DEF TypeOK
    <3>2. /\ granted[x] <= used[x]
          /\ loosest[x] > 0 => /\ limits[x] > 0 /\ limits[x] <= loosest[x]
                               /\ granted[x] <= loosest[x]
      BY Zenon DEF QuotaInv
    <3>3. CASE x = u
      <4>1. granted'[x] = 0 /\ used'[x] = 0 /\ loosest'[x] \in {loosest[x], limits[x]}
        BY <2>1, <3>3, Zenon DEF TypeOK
      <4> QED BY <3>1, <3>2, <4>1
    <3>4. CASE x # u
      <4>1. granted'[x] = granted[x] /\ used'[x] = used[x] /\ loosest'[x] = loosest[x]
        BY <2>1, <3>4, Zenon DEF TypeOK
      <4> QED BY <3>1, <3>2, <4>1, Zenon
    <3> QED BY <3>3, <3>4, Zenon
  <2>3. ASSUME NEW x \in Relays, relay'[x] = "add", loosest'[RelayUser(x)] > 0
        PROVE  limitSeen'[x] > 0 /\ limitSeen'[x] <= loosest'[RelayUser(x)]
    <3>1. relay[x] = "add" /\ limitSeen'[x] = limitSeen[x] BY <2>1, <2>3, Zenon
    <3>2. loosest'[RelayUser(x)] = loosest[RelayUser(x)]
      <4>1. CASE RelayUser(x) = u
        BY <2>1, <3>1, <4>1, Zenon DEF AddInFlight, TypeOK
      <4>2. CASE RelayUser(x) # u
        BY <2>1, <4>2 DEF TypeOK
      <4> QED BY <4>1, <4>2, Zenon
    <3> QED BY <2>3, <3>1, <3>2, Zenon DEF QuotaInv
  <2> QED BY <2>2, <2>3, Zenon DEF QuotaInv, RelayUser
<1>2. ASSUME NEW limit \in LimitValues, SetLimit(u, limit) PROVE QuotaInv'
  <2>1. limit \in Nat /\ limit > 0 /\ loosest[u] \in Nat
    BY ConstantsAssumption DEF ConstantsAssumption, TypeOK
  <2>2. /\ limits' = [limits EXCEPT ![u] = limit]
        /\ loosest' = [loosest EXCEPT ![u] = Looser(@, limit)]
        /\ UNCHANGED <<used, granted, relay, limitSeen>>
    BY <1>2, Zenon DEF SetLimit, relayVars
  <2>3. /\ loosest[u] = 0 => Looser(loosest[u], limit) = 0
        /\ loosest[u] > 0 => /\ Looser(loosest[u], limit) \in Nat
                             /\ Looser(loosest[u], limit) >= limit
                             /\ Looser(loosest[u], limit) >= loosest[u]
    BY <2>1 DEF Looser
  <2>4. ASSUME NEW x \in Users
        PROVE  /\ granted'[x] <= used'[x]
               /\ loosest'[x] > 0 => /\ limits'[x] > 0 /\ limits'[x] <= loosest'[x]
                                     /\ granted'[x] <= loosest'[x]
    <3>1. granted[x] \in Nat /\ used[x] \in Nat /\ limits[x] \in Nat /\ loosest[x] \in Nat
      BY Zenon DEF TypeOK
    <3>2. /\ granted[x] <= used[x]
          /\ loosest[x] > 0 => /\ limits[x] > 0 /\ limits[x] <= loosest[x]
                               /\ granted[x] <= loosest[x]
      BY Zenon DEF QuotaInv
    <3>3. CASE x = u
      <4>1. /\ granted'[x] = granted[x] /\ used'[x] = used[x] /\ limits'[x] = limit
            /\ loosest'[x] = Looser(loosest[u], limit)
        BY <2>2, <3>3, Zenon DEF TypeOK
      <4> QED BY <2>1, <2>3, <3>1, <3>2, <3>3, <4>1
    <3>4. CASE x # u
      <4>1. /\ granted'[x] = granted[x] /\ used'[x] = used[x]
            /\ limits'[x] = limits[x] /\ loosest'[x] = loosest[x]
        BY <2>2, <3>4, Zenon DEF TypeOK
      <4> QED BY <3>2, <4>1, Zenon
    <3> QED BY <3>3, <3>4, Zenon
  <2>5. ASSUME NEW x \in Relays, relay'[x] = "add", loosest'[RelayUser(x)] > 0
        PROVE  limitSeen'[x] > 0 /\ limitSeen'[x] <= loosest'[RelayUser(x)]
    <3>1. relay[x] = "add" /\ limitSeen'[x] = limitSeen[x] BY <2>2, <2>5, Zenon
    <3>2. limitSeen[x] \in Nat /\ loosest[RelayUser(x)] \in Nat
      BY RelayParts, Zenon DEF TypeOK, RelayUser
    <3>3. CASE RelayUser(x) = u
      <4>1. loosest'[u] = Looser(loosest[u], limit) BY <2>2, Zenon DEF TypeOK
      <4>2. loosest[u] > 0 BY <2>1, <2>3, <2>5, <3>3, <4>1
      <4>3. limitSeen[x] > 0 /\ limitSeen[x] <= loosest[u]
        BY <3>1, <3>3, <4>2, Zenon DEF QuotaInv
      <4> QED BY <2>1, <2>3, <3>1, <3>2, <3>3, <4>1, <4>2, <4>3
    <3>4. CASE RelayUser(x) # u
      <4>1. loosest'[RelayUser(x)] = loosest[RelayUser(x)] BY <2>2, <3>4 DEF TypeOK
      <4> QED BY <2>5, <3>1, <4>1, Zenon DEF QuotaInv
    <3> QED BY <3>3, <3>4, Zenon
  <2> QED BY <2>4, <2>5, Zenon DEF QuotaInv, RelayUser
<1>3. CASE Revoke(u) \/ UpdateLimiter(u)
  BY <1>3, QuotaFrame, Zenon DEF Revoke, UpdateLimiter, relayVars
<1> QED BY <1>1, <1>2, <1>3, Zenon DEF OperatorStep

(* The quota invariant holds in every reachable state. *)
LEMMA QuotaInvariant == Spec => []QuotaInv
<1>1. TypeOK /\ QuotaInv /\ [Next]_vars => QuotaInv'
  <2> SUFFICES ASSUME TypeOK, QuotaInv, [Next]_vars PROVE QuotaInv' BY Zenon
  <2>1. CASE UNCHANGED vars
    BY <2>1, QuotaFrame, Zenon DEF vars, relayVars
  <2>2. ASSUME NEW s \in Sessions, NEW c \in Sides, PeerClose(s, c) PROVE QuotaInv'
    BY <2>2, QuotaFrame, Zenon DEF PeerClose, relayVars
  <2> QED
    BY <2>1, <2>2, QuotaHandler, QuotaRelay, QuotaOperator, Zenon DEF Next
<1>2. Init => QuotaInv BY TypeInit, QuotaInit, Zenon
<1> QED BY <1>1, <1>2, TypeCorrect, PTL DEF Spec

(* However many relays race in AddUsage and however resets and limit       *)
(* changes interleave, no quota period lets more bytes through than the     *)
(* loosest limit it had.                                                   *)
THEOREM QuotaTheorem == Spec => []QuotaRespected
<1>1. QuotaInv => QuotaRespected BY Zenon DEF QuotaInv, QuotaRespected
<1> QED BY <1>1, QuotaInvariant, PTL

-----------------------------------------------------------------------------
(* The relays and the connections.  A relay is untouched until DualRelay    *)
(* starts it, its buffer is empty when it reads, and a handler that has     *)
(* ended has closed what it opened.                                        *)
BeforeRelays == {"new", "dial", "inc", "incload", "incset", "store"}
LiveRelay == {"read", "limit", "quota", "add", "write"}

RelayInv ==
  \A r \in Relays :
    /\ handler[r[1]] \in BeforeRelays => relay[r] = "none"
    /\ relay[r] = "none" => sent[r] = 0 /\ hand[r] = 0 /\ left[r] = MaxBytes
    /\ relay[r] = "read" => hand[r] = 0
    /\ relay[r] \in LiveRelay => sent[r] + hand[r] + left[r] = MaxBytes

ConnInv ==
  \A s \in Sessions :
    /\ handler[s] \in {"new", "dial"} => conn[s]["target"] = "none"
    /\ handler[s] = "closeclient" => conn[s]["target"] = "closed"
    /\ handler[s] = "end" => \A c \in Sides : conn[s][c] \in {"none", "closed"}

(* The byte accounting of the relays holds initially. *)
LEMMA RelayInvInit == Init => RelayInv
<1> SUFFICES ASSUME Init, NEW r \in Relays
             PROVE  /\ relay[r] = "none" /\ sent[r] = 0 /\ hand[r] = 0
                    /\ left[r] = MaxBytes
  BY Zenon DEF RelayInv, LiveRelay
<1> QED BY Zenon DEF Init

(* A handler step starts relays only from "store" and never goes back to a  *)
(* state before the relays, so it leaves RelayInv alone.                    *)
LEMMA RelayInvHandler ==
  ASSUME TypeOK, RelayInv, NEW s \in Sessions, Accept(s) \/ HandlerStep(s) \/ Kick(s)
  PROVE  RelayInv'
<1>1. CASE StoreSession(s)
  <2>1. UNCHANGED <<sent, hand, left>> BY <1>1, Zenon DEF StoreSession
  <2>2. SUFFICES ASSUME NEW r \in Relays
        PROVE /\ handler'[r[1]] \in BeforeRelays => relay'[r] = "none"
              /\ relay'[r] = "none" => sent[r] = 0 /\ hand[r] = 0 /\ left[r] = MaxBytes
              /\ relay'[r] = "read" => hand[r] = 0
              /\ relay'[r] \in LiveRelay => sent[r] + hand[r] + left[r] = MaxBytes
    BY <2>1, Zenon DEF RelayInv
  <2>3. r[1] \in Sessions BY RelayParts, Zenon
  <2>4. CASE r[1] = s
    <3>1. relay[r] = "none" BY <1>1, <2>4, Zenon DEF StoreSession, Step, RelayInv,
                               BeforeRelays
    <3>2. relay'[r] = "read" /\ handler'[r[1]] = "wait"
      BY <1>1, <2>4, Zenon DEF StoreSession, Step, TypeOK
    <3>3. sent[r] = 0 /\ hand[r] = 0 /\ left[r] = MaxBytes BY <3>1, Zenon DEF RelayInv
    <3> QED BY <3>2, <3>3, ConstantsAssumption
            DEF BeforeRelays, LiveRelay, ConstantsAssumption
  <2>5. CASE r[1] # s
    <3>1. relay'[r] = relay[r] /\ handler'[r[1]] = handler[r[1]]
      BY <1>1, <2>3, <2>5, Zenon DEF StoreSession, Step, TypeOK
    <3> QED BY <3>1, Zenon DEF RelayInv
  <2> QED BY <2>4, <2>5, Zenon
<1>2. CASE ~StoreSession(s)
  <2>1. UNCHANGED <<relay, sent, hand, left>>
    BY <1>2, HandlerFrame, Zenon
  <2>2. \A x \in Sessions : handler'[x] \in BeforeRelays => handler[x] \in BeforeRelays
    BY <1>2 DEF Accept, HandlerStep, Kick, DialFail, DialOK, AddActive, LoadActive,
       SetGauge, FirstRelayEnded, CancelAndSub, CloseTarget, CloseClient, Step,
       BeforeRelays, TypeOK
  <2> QED BY <2>1, <2>2, RelayParts, Zenon DEF RelayInv
<1> QED BY <1>1, <1>2, Zenon

(* The buffer is empty once its bytes are with the peer.                    *)
LEMMA Moved ==
  ASSUME NEW s \in Nat, NEW h \in Nat, NEW l \in Nat
  PROVE  (s + h) + 0 + l = s + h + l
OBVIOUS

(* A step of one relay keeps the byte accounting of every relay. *)
LEMMA RelayInvRelay ==
  ASSUME TypeOK, RelayInv, NEW r \in Relays, RelayStep(r) \/ PeerStep(r)
  PROVE  RelayInv'
<1>a. /\ hand[r] \in Nat /\ left[r] \in Nat /\ sent[r] \in Nat /\ MaxBytes \in Nat
      /\ r[1] \in Sessions
  BY RelayParts, ConstantsAssumption DEF TypeOK, ConstantsAssumption
<1>b. UNCHANGED handler
  BY RelayFrame, Zenon
<1>c. relay[r] # "none"
  BY RelayFrame, Zenon
<1>d. \A x \in Relays : x # r => /\ relay'[x] = relay[x] /\ sent'[x] = sent[x]
                                /\ hand'[x] = hand[x] /\ left'[x] = left[x]
  BY RelayFrame, Zenon
<1> DEFINE Kept ==
      /\ relay'[r] # "none"
      /\ relay'[r] = "read" => hand'[r] = 0
      /\ relay'[r] \in LiveRelay => sent'[r] + hand'[r] + left'[r] = MaxBytes
<1>e. Kept
  <2>0. relay[r] \in LiveRelay => sent[r] + hand[r] + left[r] = MaxBytes
    BY Zenon DEF RelayInv
  <2>1. ASSUME NEW n \in 1..MaxBytes, ReadData(r, n)
        PROVE  Kept
    <3>0. relay[r] = "read" /\ n \in Nat BY <2>1, <1>a DEF ReadData
    <3>1. hand[r] = 0 /\ sent[r] + hand[r] + left[r] = MaxBytes
      <4>1. hand[r] = 0 BY <3>0, Zenon DEF RelayInv
      <4> QED BY <2>0, <3>0, <4>1, Zenon DEF LiveRelay
    <3>2. hand'[r] = n /\ left'[r] = left[r] - n /\ sent'[r] = sent[r]
      BY <2>1, Zenon DEF ReadData, TypeOK
    <3>3. relay'[r] \in {"limit", "quota", "write"}
      BY <2>1, Zenon DEF ReadData, AfterRead, TypeOK
    <3>4. sent'[r] + hand'[r] + left'[r] = MaxBytes
      <4>1. sent[r] + n + (left[r] - n) = sent[r] + 0 + left[r]
        BY <1>a, <3>0
      <4> QED BY <3>1, <3>2, <4>1, Zenon
    <3> QED BY <3>3, <3>4, Zenon
  <2>2. CASE WriteOK(r)
    <3>1. /\ hand'[r] = 0 /\ left'[r] = left[r] /\ sent'[r] = sent[r] + hand[r]
          /\ relay[r] \in LiveRelay
      BY <2>2, Zenon DEF WriteOK, TypeOK, LiveRelay
    <3>2. relay'[r] \in {"flush", "read"} BY <2>2, Zenon DEF WriteOK, TypeOK
    <3>3. sent'[r] + hand'[r] + left'[r] = MaxBytes
      <4>1. (sent[r] + hand[r]) + 0 + left[r] = sent[r] + hand[r] + left[r]
        BY <1>a, Moved, Zenon
      <4>2. sent[r] + hand[r] + left[r] = MaxBytes BY <2>0, <3>1, Zenon
      <4> QED BY <3>1, <4>1, <4>2, Zenon
    <3> QED BY <3>1, <3>2, <3>3, Zenon
  <2>3. CASE LimitWait(r) \/ LoadLimit(r)
    <3>1. /\ UNCHANGED <<sent, hand, left>> /\ relay[r] \in LiveRelay
          /\ relay'[r] \in {"quota", "add", "write"}
      BY <2>3, Zenon DEF LimitWait, LoadLimit, AfterRead, LiveRelay, TypeOK
    <3> QED BY <3>1, <2>0, Zenon
  <2>4. CASE AddUsage(r)
    <3>1. /\ UNCHANGED <<sent, left>> /\ relay[r] \in LiveRelay
          /\ \/ relay'[r] = "flush"
             \/ relay'[r] = "write" /\ UNCHANGED hand
      BY <2>4 DEF AddUsage, LiveRelay, TypeOK
    <3> QED BY <3>1, <2>0, Zenon DEF LiveRelay
  <2>5. CASE \/ ReadEnd(r) \/ WriteFail(r) \/ LoadBytesSent(r) \/ StoreBytesSent(r)
             \/ SendResult(r)
    <3>1. relay'[r] \in {"flush", "bytessent", "send", "done"}
      BY <2>5, Zenon DEF ReadEnd, WriteFail, LoadBytesSent, StoreBytesSent, SendResult,
         TypeOK
    <3> QED BY <3>1, Zenon DEF LiveRelay
  <2> QED BY <2>1, <2>2, <2>3, <2>4, <2>5, Zenon DEF RelayStep, PeerStep
<1>f. handler[r[1]] \notin BeforeRelays
  BY <1>c, Zenon DEF RelayInv
<1> QED BY <1>b, <1>d, <1>e, <1>f DEF RelayInv

(* The byte accounting of the relays holds in every reachable state. *)
LEMMA RelayInvariant == Spec => []RelayInv
<1>1. TypeOK /\ RelayInv /\ [Next]_vars => RelayInv'
  <2> SUFFICES ASSUME TypeOK, RelayInv, [Next]_vars PROVE RelayInv' BY Zenon
  <2>1. CASE UNCHANGED <<handler, relayVars>>
    BY <2>1, Zenon DEF RelayInv, relayVars
  <2>2. ASSUME NEW s \in Sessions, NEW c \in Sides, PeerClose(s, c)
        PROVE  UNCHANGED <<handler, relayVars>>
    BY <2>2, Zenon DEF PeerClose
  <2>3. ASSUME NEW u \in Users, OperatorStep(u) PROVE UNCHANGED <<handler, relayVars>>
    BY <2>3, Zenon DEF OperatorStep, Reset, Revoke, UpdateLimiter, SetLimit, sessionVars
  <2> QED
    BY <2>1, <2>2, <2>3, RelayInvHandler, RelayInvRelay, Zenon DEF Next, vars, sessionVars
<1> QED BY RelayInvInit, <1>1, TypeCorrect, PTL DEF Spec

(* No byte is lost by a running relay, for any number of sessions. *)
THEOREM LosslessTheorem == Spec => []RelayLossless
<1>1. RelayInv => RelayLossless BY Zenon DEF RelayInv, RelayLossless, LiveRelay
<1> QED BY <1>1, RelayInvariant, PTL

(* A handler at its end has closed both its connections, in every reachable state. *)
LEMMA ConnInvariant == Spec => []ConnInv
<1>1. Init => ConnInv BY DEF Init, ConnInv, Sides
<1>2. TypeOK /\ ConnInv /\ [Next]_vars => ConnInv'
  <2> SUFFICES ASSUME TypeOK, ConnInv, [Next]_vars PROVE ConnInv' BY Zenon
  <2>1. CASE UNCHANGED <<handler, conn>> BY <2>1, Zenon DEF ConnInv
  <2>2. ASSUME NEW s \in Sessions, Accept(s) \/ HandlerStep(s) \/ Kick(s) PROVE ConnInv'
    <3>1. CASE Accept(s) BY <3>1 DEF Accept, ConnInv, TypeOK, Sides
    <3>2. CASE DialFail(s) BY <3>2, Zenon DEF DialFail, ConnInv, TypeOK, Sides
    <3>3. CASE DialOK(s) BY <3>3, Zenon DEF DialOK, ConnInv, TypeOK, Sides
    <3>4. CASE CloseTarget(s) BY <3>4, Zenon DEF CloseTarget, Step, ConnInv, TypeOK, Sides
    <3>5. CASE CloseClient(s) BY <3>5, Zenon DEF CloseClient, Step, ConnInv, TypeOK, Sides
    <3>6. CASE Kick(s) BY <3>6, Zenon DEF Kick, ConnInv
    <3>7. CASE \/ AddActive(s) \/ LoadActive(s) \/ SetGauge(s) \/ StoreSession(s)
               \/ FirstRelayEnded(s) \/ CancelAndSub(s)
      BY <3>7 DEF AddActive, LoadActive, SetGauge, StoreSession, FirstRelayEnded,
         CancelAndSub, Step, ConnInv, TypeOK
    <3> QED BY <2>2, <3>1, <3>2, <3>3, <3>4, <3>5, <3>6, <3>7, Zenon DEF HandlerStep
  <2>3. ASSUME NEW s \in Sessions, NEW c \in Sides, PeerClose(s, c) PROVE ConnInv'
    BY <2>3 DEF PeerClose, ConnInv, TypeOK, Sides
  <2>4. ASSUME NEW r \in Relays, RelayStep(r) \/ PeerStep(r)
        PROVE  UNCHANGED <<handler, conn>>
    BY <2>4, RelayFrame, Zenon
  <2>5. ASSUME NEW u \in Users, OperatorStep(u) PROVE UNCHANGED <<handler, conn>>
    BY <2>5, Zenon DEF OperatorStep, Reset, Revoke, UpdateLimiter, SetLimit, sessionVars
  <2> QED BY <2>1, <2>2, <2>3, <2>4, <2>5, Zenon DEF Next, vars, sessionVars
<1> QED BY <1>1, <1>2, TypeCorrect, PTL DEF Spec

(* Nothing is forwarded in a session whose handler has ended, although a    *)
(* relay of it may still be running.                                       *)
THEOREM NoForwardAfterClose == Spec => NothingForwardedAfterClose
<1> DEFINE Quiet == \A r \in Relays : handler[r[1]] = "end" => sent'[r] = sent[r]
<1>1. TypeOK /\ ConnInv /\ [Next]_vars => [Quiet]_vars
  <2> SUFFICES ASSUME TypeOK, ConnInv, Next, NEW r \in Relays, handler[r[1]] = "end"
               PROVE  sent'[r] = sent[r]
    BY Zenon
  <2>1. ASSUME NEW x \in Relays, WriteOK(x) PROVE sent'[r] = sent[r]
    <3>1. x[1] \in Sessions /\ DstOf(x) \in Sides BY RelayParts, Zenon
    <3>2. x # r BY <2>1, <3>1, Zenon DEF WriteOK, ConnInv
    <3> QED BY <2>1, <3>2, Zenon DEF WriteOK, TypeOK
  <2>2. ASSUME NEW x \in Relays, RelayStep(x) \/ PeerStep(x), ~WriteOK(x)
        PROVE  sent'[r] = sent[r]
    BY <2>2, RelayFrame, Zenon
  <2>3. ASSUME NEW s \in Sessions, Accept(s) \/ HandlerStep(s) \/ Kick(s)
        PROVE  UNCHANGED sent
    BY <2>3, HandlerFrame, Zenon
  <2>4. ASSUME NEW s \in Sessions, NEW c \in Sides, PeerClose(s, c) PROVE UNCHANGED sent
    BY <2>4, Zenon DEF PeerClose, relayVars
  <2>5. ASSUME NEW u \in Users, OperatorStep(u) PROVE UNCHANGED sent
    BY <2>5, Zenon DEF OperatorStep, Reset, Revoke, UpdateLimiter, SetLimit, relayVars
  <2> QED BY <2>1, <2>2, <2>3, <2>4, <2>5, Zenon DEF Next
<1> QED BY <1>1, TypeCorrect, ConnInvariant, PTL DEF Spec, NothingForwardedAfterClose

-----------------------------------------------------------------------------
(* The active-session counter. *)

(* Every step keeps the counter equal to the size of the set it counts. *)
LEMMA ActiveCountStep ==
  ASSUME TypeOK, ActiveCountExact, [Next]_vars
  PROVE  ActiveCountExact'
<1>a. IsFiniteSet(ActiveSet)
  BY ConstantsAssumption, FS_Subset, Zenon DEF ConstantsAssumption, ActiveSet
<1>1. ASSUME NEW s \in Sessions, AddActive(s) PROVE ActiveCountExact'
  <2>1. s \notin ActiveSet BY <1>1, Zenon DEF AddActive, Step, ActiveSet, InDualRelay
  <2>2. ActiveSet' = ActiveSet \cup {s}
    BY <1>1, Zenon DEF AddActive, Step, ActiveSet, InDualRelay, TypeOK
  <2>3. Cardinality(ActiveSet \cup {s}) = Cardinality(ActiveSet) + 1
    BY <1>a, <2>1, FS_AddElement, Zenon
  <2> QED BY <1>1, <2>2, <2>3, Zenon DEF AddActive, ActiveCountExact
<1>2. ASSUME NEW s \in Sessions, CancelAndSub(s) PROVE ActiveCountExact'
  <2>1. s \in ActiveSet BY <1>2, Zenon DEF CancelAndSub, Step, ActiveSet, InDualRelay
  <2>2. ActiveSet' = ActiveSet \ {s}
    BY <1>2, Zenon DEF CancelAndSub, Step, ActiveSet, InDualRelay, TypeOK
  <2>3. Cardinality(ActiveSet \ {s}) = Cardinality(ActiveSet) - 1
    BY <1>a, <2>1, FS_RemoveElement, Zenon
  <2> QED BY <1>2, <2>2, <2>3, Zenon DEF CancelAndSub, ActiveCountExact
<1>3. ASSUME UNCHANGED activeCount, ActiveSet' = ActiveSet PROVE ActiveCountExact'
  BY <1>3, Zenon DEF ActiveCountExact
<1>4. ASSUME NEW s \in Sessions, Accept(s) \/ HandlerStep(s) \/ Kick(s),
             ~AddActive(s), ~CancelAndSub(s)
      PROVE  UNCHANGED activeCount /\ ActiveSet' = ActiveSet
  <2>1. UNCHANGED activeCount
    BY <1>4, HandlerFrame, Zenon
  <2>2. \A x \in Sessions : handler'[x] \in InDualRelay <=> handler[x] \in InDualRelay
    BY <1>4 DEF Accept, HandlerStep, Kick, DialFail, DialOK, LoadActive, SetGauge,
       StoreSession, FirstRelayEnded, CloseTarget, CloseClient, Step, InDualRelay, TypeOK
  <2> QED BY <2>1, <2>2, Zenon DEF ActiveSet
<1>5. ASSUME UNCHANGED <<handler, activeCount>> PROVE ActiveCountExact'
  BY <1>3, <1>5, Zenon DEF ActiveSet
<1>6. ASSUME NEW r \in Relays, RelayStep(r) \/ PeerStep(r)
      PROVE  UNCHANGED <<handler, activeCount>>
  BY <1>6, RelayFrame, Zenon DEF gaugeVars
<1>7. ASSUME NEW u \in Users, OperatorStep(u) PROVE UNCHANGED <<handler, activeCount>>
  BY <1>7, Zenon DEF OperatorStep, Reset, Revoke, UpdateLimiter, SetLimit, sessionVars,
     gaugeVars
<1>8. ASSUME NEW s \in Sessions, NEW c \in Sides, PeerClose(s, c)
      PROVE  UNCHANGED <<handler, activeCount>>
  BY <1>8, Zenon DEF PeerClose, gaugeVars
<1> QED
  BY <1>1, <1>2, <1>3, <1>4, <1>5, <1>6, <1>7, <1>8, Zenon
     DEF Next, vars, sessionVars, gaugeVars

(* The active-session counter is exact at every moment, for any finite set  *)
(* of sessions starting and ending concurrently.                           *)
THEOREM ActiveCountTheorem == Spec => []ActiveCountExact
<1>1. Init => ActiveCountExact
  <2> SUFFICES ASSUME Init PROVE ActiveCountExact BY Zenon
  <2>1. ActiveSet = {} BY Zenon DEF Init, ActiveSet, InDualRelay
  <2> QED BY <2>1, FS_EmptySet, Zenon DEF Init, ActiveCountExact
<1>2. TypeOK /\ ActiveCountExact /\ [Next]_vars => ActiveCountExact'
  BY ActiveCountStep, Zenon
<1> QED BY <1>1, <1>2, TypeCorrect, PTL DEF Spec

-----------------------------------------------------------------------------
(* SessionInfo.BytesSent.  The total of a relay counts once the relay has   *)
(* passed its deferred update; a relay between its load and its store has   *)
(* seen no more than the other one's total.                                 *)
Other(r) == <<r[1], IF r[2] = "upstream" THEN "downstream" ELSE "upstream">>
Counted(r) == IF relay[r] \in {"send", "done"} THEN totalRead[r] ELSE 0

BytesInv ==
  \A r \in Relays :
    /\ bytesSent[r[1]] <= Counted(r) + Counted(Other(r))
    /\ relay[r] = "bytessent" => sentSeen[r] <= Counted(Other(r))

(* A session has two relays. *)
LEMMA OtherFacts ==
  ASSUME NEW r \in Relays
  PROVE  /\ Other(r) \in Relays /\ Other(r)[1] = r[1]
         /\ Other(Other(r)) = r /\ Other(r) # r
         /\ \A x \in Relays : x[1] = r[1] => x = r \/ x = Other(r)
  BY DEF Relays, Dirs, Other

(* What counts is a number. *)
LEMMA CountedType ==
  ASSUME TypeOK, NEW r \in Relays
  PROVE  Counted(r) \in Nat /\ Counted(r) <= totalRead[r] /\ totalRead[r] \in Nat
  BY DEF TypeOK, Counted

(* A step that stores nothing and takes nothing back keeps BytesInv. *)
LEMMA BytesFrame ==
  ASSUME TypeOK, TypeOK', BytesInv, UNCHANGED bytesSent,
         \A x \in Relays : /\ Counted(x)' >= Counted(x)
                           /\ relay'[x] = "bytessent" =>
                                relay[x] = "bytessent" /\ sentSeen'[x] = sentSeen[x]
  PROVE  BytesInv'
<1> SUFFICES ASSUME NEW r \in Relays
             PROVE  /\ bytesSent[r[1]] <= Counted(r)' + Counted(Other(r))'
                    /\ relay'[r] = "bytessent" => sentSeen'[r] <= Counted(Other(r))'
  BY Zenon DEF BytesInv
<1>1. Other(r) \in Relays /\ r[1] \in Sessions
  BY OtherFacts, RelayParts, Zenon
<1>2. /\ Counted(r) \in Nat /\ Counted(Other(r)) \in Nat
      /\ Counted(r)' \in Nat /\ Counted(Other(r))' \in Nat
  <2>1. ASSUME NEW x \in Relays PROVE Counted(x) \in Nat /\ Counted(x)' \in Nat
    BY Zenon DEF TypeOK, Counted
  <2> QED BY <1>1, <2>1, Zenon
<1>3. bytesSent[r[1]] \in Nat /\ sentSeen[r] \in Nat
  BY <1>1, Zenon DEF TypeOK
<1>4. /\ bytesSent[r[1]] <= Counted(r) + Counted(Other(r))
      /\ relay[r] = "bytessent" => sentSeen[r] <= Counted(Other(r))
  BY Zenon DEF BytesInv
<1>5. Counted(r)' >= Counted(r) /\ Counted(Other(r))' >= Counted(Other(r))
  BY <1>1, Zenon
<1> QED BY <1>2, <1>3, <1>4, <1>5

(* A relay step keeps BytesInv. *)
LEMMA BytesRelay ==
  ASSUME TypeOK, TypeOK', BytesInv, NEW r \in Relays, RelayStep(r) \/ PeerStep(r)
  PROVE  BytesInv'
<1>a. r[1] \in Sessions /\ Other(r) \in Relays /\ Other(r)[1] = r[1] /\ Other(Other(r)) = r
  BY RelayParts, OtherFacts, Zenon
<1>b. \A x \in Relays : Counted(x) \in Nat /\ Counted(x)' \in Nat
  BY Zenon DEF TypeOK, Counted
<1>1. CASE StoreBytesSent(r)
  <2>1. /\ relay[r] = "bytessent" /\ relay'[r] = "send" /\ totalRead' = totalRead
        /\ bytesSent'[r[1]] = sentSeen[r] + totalRead[r]
    BY <1>1, <1>a, Zenon DEF StoreBytesSent, TypeOK
  <2>2. \A x \in Relays \ {r} : /\ relay'[x] = relay[x] /\ sentSeen'[x] = sentSeen[x]
                                /\ Counted(x)' = Counted(x)
    BY <1>1 DEF StoreBytesSent, TypeOK, Counted
  <2>3. sentSeen[r] <= Counted(Other(r)) /\ Counted(r) = 0 /\ Counted(r)' = totalRead[r]
    BY <2>1, Zenon DEF BytesInv, Counted
  <2>4. Counted(Other(r))' = Counted(Other(r))
    BY <1>a, <2>2, OtherFacts, Zenon
  <2>5. sentSeen[r] \in Nat /\ totalRead[r] \in Nat
    BY Zenon DEF TypeOK
  <2>6. bytesSent'[r[1]] <= Counted(r)' + Counted(Other(r))'
    <3>1. Counted(Other(r)) \in Nat
      BY <1>a, <1>b, Zenon
    <3>2. sentSeen[r] + totalRead[r] <= totalRead[r] + Counted(Other(r))
      BY <2>3, <2>5, <3>1
    <3> QED BY <2>1, <2>3, <2>4, <3>2, Zenon
  <2> SUFFICES ASSUME NEW x \in Relays
               PROVE  /\ bytesSent'[x[1]] <= Counted(x)' + Counted(Other(x))'
                      /\ relay'[x] = "bytessent" => sentSeen'[x] <= Counted(Other(x))'
    BY Zenon DEF BytesInv
  <2>7. CASE x = r
    BY <2>1, <2>6, <2>7, Zenon
  <2>8. CASE x = Other(r)
    <3>1. bytesSent'[x[1]] <= Counted(x)' + Counted(Other(x))'
      BY <1>a, <1>b, <2>6, <2>8
    <3>2. relay'[x] = "bytessent" => sentSeen'[x] <= Counted(Other(x))
      BY <1>a, <2>2, <2>8, OtherFacts, Zenon DEF BytesInv
    <3>3. Counted(Other(x)) <= Counted(Other(x))' /\ sentSeen'[x] \in Nat
      <4>1. 0 <= totalRead[r]
        BY <2>5
      <4>2. Other(x) = r
        BY <1>a, <2>8, Zenon
      <4>3. Counted(Other(x)) = 0 /\ Counted(Other(x))' = totalRead[r]
        BY <2>3, <4>2, Zenon
      <4>4. sentSeen'[x] \in Nat
        BY Zenon DEF TypeOK
      <4> QED BY <4>1, <4>3, <4>4, Zenon
    <3> QED BY <1>a, <1>b, <2>8, <3>1, <3>2, <3>3
  <2>9. CASE x[1] # r[1]
    <3>1. x # r /\ Other(x) # r /\ Other(x) \in Relays /\ x[1] \in Sessions
      BY <2>9, OtherFacts, RelayParts, Zenon
    <3>2. bytesSent'[x[1]] = bytesSent[x[1]]
      BY <1>1, <2>9, <3>1, Zenon DEF StoreBytesSent, TypeOK
    <3> QED BY <2>2, <3>1, <3>2, Zenon DEF BytesInv
  <2> QED BY <2>7, <2>8, <2>9, OtherFacts, Zenon
<1>2. CASE LoadBytesSent(r) /\ relay'[r] = "bytessent"
  <2>1. /\ relay[r] = "flush" /\ totalRead' = totalRead /\ bytesSent' = bytesSent
        /\ sentSeen'[r] = bytesSent[r[1]]
    BY <1>2, <1>a DEF LoadBytesSent, TypeOK
  <2>2. \A x \in Relays \ {r} : relay'[x] = relay[x] /\ sentSeen'[x] = sentSeen[x]
    BY <1>2 DEF LoadBytesSent, TypeOK
  <2>3. \A x \in Relays : Counted(x)' = Counted(x)
    BY <1>2, <2>1, <2>2, Zenon DEF Counted
  <2>4. Counted(r) = 0
    BY <2>1, Zenon DEF Counted
  <2> SUFFICES ASSUME NEW x \in Relays
               PROVE  /\ bytesSent'[x[1]] <= Counted(x)' + Counted(Other(x))'
                      /\ relay'[x] = "bytessent" => sentSeen'[x] <= Counted(Other(x))'
    BY Zenon DEF BytesInv
  <2>5. Other(x) \in Relays /\ bytesSent[x[1]] <= Counted(x) + Counted(Other(x))
    BY OtherFacts, Zenon DEF BytesInv
  <2>6. bytesSent'[x[1]] <= Counted(x)' + Counted(Other(x))'
    BY <2>1, <2>3, <2>5, Zenon
  <2>7. CASE x = r
    BY <1>b, <2>1, <2>3, <2>4, <2>5, <2>6, <2>7
  <2>8. CASE x # r
    BY <2>2, <2>3, <2>5, <2>6, <2>8, Zenon DEF BytesInv
  <2> QED BY <2>7, <2>8, Zenon
<1>3. CASE LoadBytesSent(r) /\ relay'[r] # "bytessent"
  <2>1. /\ relay[r] = "flush" /\ totalRead' = totalRead /\ bytesSent' = bytesSent
        /\ sentSeen' = sentSeen
    BY <1>3, Zenon DEF LoadBytesSent, TypeOK
  <2>2. \A x \in Relays \ {r} : relay'[x] = relay[x]
    BY <1>3 DEF LoadBytesSent, TypeOK
  <2>3. \A x \in Relays : Counted(x)' >= Counted(x)
    <3>1. Counted(r) = 0 BY <2>1, Zenon DEF Counted
    <3>2. \A x \in Relays \ {r} : Counted(x)' = Counted(x)
      BY <2>1, <2>2, Zenon DEF Counted
    <3> QED BY <1>b, <3>1, <3>2
  <2> QED BY <1>3, <2>1, <2>2, <2>3, BytesFrame, Zenon
<1>4. CASE ~StoreBytesSent(r) /\ ~LoadBytesSent(r)
  <2>1. UNCHANGED <<bytesSent, sentSeen>>
    BY <1>4, RelayFrame, Zenon DEF infoVars
  <2>2. \A x \in Relays \ {r} : relay'[x] = relay[x] /\ totalRead'[x] = totalRead[x]
    BY RelayFrame, Zenon
  <2>3. relay'[r] # "bytessent" /\ Counted(r)' = Counted(r)
    <3>1. CASE SendResult(r)
      BY <3>1, Zenon DEF SendResult, TypeOK, Counted
    <3>2. CASE ~SendResult(r)
      <4>1. relay[r] \notin {"send", "done"} /\ relay'[r] \notin {"send", "done"}
        BY <1>4, <3>2, RelayFrame, Zenon
      <4>2. relay'[r] # "bytessent" BY <1>4, RelayFrame, Zenon
      <4> QED BY <4>1, <4>2, Zenon DEF Counted
    <3> QED BY <3>1, <3>2, Zenon
  <2>4. \A x \in Relays \ {r} : Counted(x)' = Counted(x)
    BY <2>2, Zenon DEF Counted
  <2>5. \A x \in Relays : Counted(x)' >= Counted(x)
    BY <1>b, <2>3, <2>4
  <2> QED BY <2>1, <2>2, <2>3, <2>5, BytesFrame, Zenon
<1> QED BY <1>1, <1>2, <1>3, <1>4, Zenon

(* BytesSent counts in every reachable state only what was read. *)
LEMMA BytesInvariant == Spec => []BytesInv
<1>1. Init => BytesInv
  <2> SUFFICES ASSUME Init, NEW r \in Relays
               PROVE  /\ bytesSent[r[1]] <= Counted(r) + Counted(Other(r))
                      /\ relay[r] = "none"
    BY Zenon DEF BytesInv
  <2>1. r[1] \in Sessions /\ Other(r) \in Relays
    BY RelayParts, OtherFacts, Zenon
  <2>2. \A x \in Relays : Counted(x) = 0 /\ relay[x] = "none"
    BY Zenon DEF Init, Counted
  <2>3. bytesSent[r[1]] = 0
    BY <2>1, Zenon DEF Init
  <2> QED BY <2>1, <2>2, <2>3
<1>2. TypeOK /\ TypeOK' /\ RelayInv /\ BytesInv /\ [Next]_vars => BytesInv'
  <2> SUFFICES ASSUME TypeOK, TypeOK', RelayInv, BytesInv, [Next]_vars PROVE BytesInv'
    BY Zenon
  <2>1. CASE UNCHANGED <<relay, totalRead, bytesSent, sentSeen>>
    <3>1. \A x \in Relays : Counted(x)' = Counted(x) /\ Counted(x) \in Nat
      BY <2>1, Zenon DEF Counted, TypeOK
    <3>2. \A x \in Relays : Counted(x)' >= Counted(x)
      BY <3>1
    <3> QED BY <2>1, <3>2, BytesFrame, Zenon
  <2>2. ASSUME NEW s \in Sessions, StoreSession(s) PROVE BytesInv'
    <3>1. UNCHANGED <<bytesSent, sentSeen, totalRead>>
      BY <2>2, Zenon DEF StoreSession, infoVars
    <3>2. \A x \in Relays : relay'[x] = IF x[1] = s THEN "read" ELSE relay[x]
      BY <2>2, Zenon DEF StoreSession
    <3>3. \A x \in Relays : x[1] = s => relay[x] = "none"
      BY <2>2, Zenon DEF StoreSession, Step, RelayInv, BeforeRelays
    <3>4. \A x \in Relays : Counted(x)' = Counted(x)
      BY <3>1, <3>2, <3>3, Zenon DEF Counted
    <3>5. \A x \in Relays : Counted(x)' >= Counted(x)
      BY <3>4, CountedType
    <3>6. \A x \in Relays : relay'[x] = "bytessent" => relay[x] = "bytessent"
      BY <3>2, Zenon
    <3> QED BY <3>1, <3>5, <3>6, BytesFrame, Zenon
  <2>3. ASSUME NEW s \in Sessions, Accept(s) \/ HandlerStep(s) \/ Kick(s), ~StoreSession(s)
        PROVE  UNCHANGED <<relay, totalRead, bytesSent, sentSeen>>
    BY <2>3, HandlerFrame, Zenon DEF infoVars
  <2>4. ASSUME NEW s \in Sessions, NEW c \in Sides, PeerClose(s, c)
        PROVE  UNCHANGED <<relay, totalRead, bytesSent, sentSeen>>
    BY <2>4, Zenon DEF PeerClose, relayVars, infoVars
  <2>5. ASSUME NEW u \in Users, OperatorStep(u)
        PROVE  UNCHANGED <<relay, totalRead, bytesSent, sentSeen>>
    BY <2>5, Zenon DEF OperatorStep, Reset, Revoke, UpdateLimiter, SetLimit, relayVars,
       infoVars
  <2>6. ASSUME UNCHANGED vars PROVE UNCHANGED <<relay, totalRead, bytesSent, sentSeen>>
    BY <2>6, Zenon DEF vars, relayVars, infoVars
  <2> QED BY <2>1, <2>2, <2>3, <2>4, <2>5, <2>6, BytesRelay, Zenon DEF Next
<1> QED BY <1>1, <1>2, TypeCorrect, RelayInvariant, PTL DEF Spec

(* The BytesSent of a session never exceeds what its relays have read,      *)
(* however the unsynchronised load and store of one relay fall between      *)
(* those of the other.                                                      *)
THEOREM BytesSentTheorem == Spec => []BytesSentNeverOvercounts
<1>1. TypeOK /\ BytesInv => BytesSentNeverOvercounts
  <2> SUFFICES ASSUME TypeOK, BytesInv, NEW s \in Sessions
               PROVE  bytesSent[s] <= totalRead[<<s, "upstream">>] + totalRead[<<s,
               "downstream">>]
    BY Zenon DEF BytesSentNeverOvercounts
  <2> DEFINE r == <<s, "upstream">>
  <2>1. r \in Relays /\ r[1] = s /\ Other(r) = <<s, "downstream">>
    BY Zenon DEF Relays, Dirs, Other
  <2>2. Other(r) \in Relays
    BY <2>1, OtherFacts, Zenon
  <2>3. bytesSent[s] <= Counted(r) + Counted(Other(r)) /\ bytesSent[s] \in Nat
    BY <2>1, Zenon DEF BytesInv, TypeOK
  <2>4. /\ Counted(r) \in Nat /\ Counted(r) <= totalRead[r] /\ totalRead[r] \in Nat
        /\ Counted(Other(r)) \in Nat /\ Counted(Other(r)) <= totalRead[Other(r)]
        /\ totalRead[Other(r)] \in Nat
    BY <2>1, <2>2, CountedType, Zenon
  <2>5. bytesSent[s] <= totalRead[r] + totalRead[Other(r)]
    <3> HIDE DEF r
    <3> QED BY <2>3, <2>4
  <2> QED BY <2>1, <2>5, Zenon
<1> QED BY <1>1, TypeCorrect, BytesInvariant, PTL

-----------------------------------------------------------------------------
(* What the relays write.  ForwardedWithinQuota is not inductive: a chunk   *)
(* that AddUsage has let through counts against the quota before it is      *)
(* written, and may be written in a later period.  The invariant counts it  *)
(* from AddUsage on, against the ended periods and the current grants.      *)
Cleared(r) == sent[r] + (IF relay[r] = "write" THEN hand[r] ELSE 0)
ClearedBytes(u) == UNION {{r} \X (1..Cleared(r)) : r \in MeteredRelays(u)}

ClearedInv ==
  /\ \A r \in Relays : Cleared(r) <= MaxBytes
  /\ \A u \in Users :
       allowance[u] # Unbounded
         => Cardinality(ClearedBytes(u)) <= allowance[u] + granted[u]

(* The bytes let through for a relay are numbered from 1. *)
LEMMA ClearedMember ==
  ASSUME TypeOK, NEW u
  PROVE  /\ \A r \in Relays : Cleared(r) \in Nat
         /\ \A z : z \in ClearedBytes(u)
                     <=> \E r \in MeteredRelays(u) : \E i \in 1..Cleared(r) : z = <<r, i>>
<1>1. ASSUME NEW r \in Relays PROVE Cleared(r) \in Nat
  <2>1. sent[r] \in Nat /\ hand[r] \in Nat
    BY ConstantsAssumption DEF TypeOK, ConstantsAssumption
  <2> QED BY <2>1 DEF Cleared
<1> DEFINE Block(r) == {r} \X (1..Cleared(r))
           Numbered(r, z) == \E i \in 1..Cleared(r) : z = <<r, i>>
<1>2. ASSUME NEW z
      PROVE  z \in ClearedBytes(u) <=> \E r \in MeteredRelays(u) : z \in Block(r)
  BY Zenon DEF ClearedBytes
<1>3. ASSUME NEW z, NEW r PROVE z \in Block(r) <=> Numbered(r, z)
  OBVIOUS
<1>4. ASSUME NEW z
      PROVE  z \in ClearedBytes(u) <=> \E r \in MeteredRelays(u) : Numbered(r, z)
  <2> HIDE DEF Block, Numbered
  <2> QED BY <1>2, <1>3, Zenon
<1> QED BY <1>1, <1>4, Zenon

(* The same, of the next state. *)
LEMMA ClearedMemberNext ==
  ASSUME TypeOK', NEW u
  PROVE  /\ \A r \in Relays : Cleared(r)' \in Nat
         /\ \A z : z \in ClearedBytes(u)'
                     <=> \E r \in MeteredRelays(u) : \E i \in 1..Cleared(r)' : z = <<r, i>>
<1>1. ASSUME NEW r \in Relays PROVE Cleared(r)' \in Nat
  <2>1. sent'[r] \in Nat /\ hand'[r] \in Nat
    BY ConstantsAssumption DEF TypeOK, ConstantsAssumption
  <2> QED BY <2>1 DEF Cleared
<1>0. ClearedBytes(u)' = UNION {{r} \X (1..Cleared(r)') : r \in MeteredRelays(u)}
  BY Zenon DEF ClearedBytes, MeteredRelays, RelayUser
<1> DEFINE Block(r) == {r} \X (1..Cleared(r)')
           Numbered(r, z) == \E i \in 1..Cleared(r)' : z = <<r, i>>
<1>2. ASSUME NEW z
      PROVE  z \in ClearedBytes(u)' <=> \E r \in MeteredRelays(u) : z \in Block(r)
  BY <1>0, Zenon
<1>3. ASSUME NEW z, NEW r PROVE z \in Block(r) <=> Numbered(r, z)
  OBVIOUS
<1>4. ASSUME NEW z
      PROVE  z \in ClearedBytes(u)' <=> \E r \in MeteredRelays(u) : Numbered(r, z)
  <2> HIDE DEF Block, Numbered
  <2> QED BY <1>2, <1>3, Zenon
<1> QED BY <1>1, <1>4, Zenon

(* A user's relays let through finitely many bytes. *)
LEMMA ClearedFinite ==
  ASSUME TypeOK, ClearedInv, NEW u
  PROVE  IsFiniteSet(ClearedBytes(u)) /\ Cardinality(ClearedBytes(u)) \in Nat
<1>1. MaxBytes \in Nat /\ IsFiniteSet(Sessions)
  BY ConstantsAssumption, Zenon DEF ConstantsAssumption
<1>2. IsFiniteSet(1..MaxBytes) BY <1>1, FS_Interval
<1>3. IsFiniteSet(Dirs)
  <2>1. Dirs = {"upstream"} \cup {"downstream"} BY Zenon DEF Dirs
  <2> QED BY <2>1, FS_Singleton, FS_Union, Zenon
<1>4. IsFiniteSet(Relays) BY <1>1, <1>3, FS_Product, Zenon DEF Relays
<1>5. IsFiniteSet(Relays \X (1..MaxBytes)) BY <1>2, <1>4, FS_Product, Zenon
<1>6. ClearedBytes(u) \subseteq Relays \X (1..MaxBytes)
  <2> SUFFICES ASSUME NEW z \in ClearedBytes(u) PROVE z \in Relays \X (1..MaxBytes)
    BY Zenon
  <2>1. PICK r \in MeteredRelays(u) : \E j \in 1..Cleared(r) : z = <<r, j>>
    BY ClearedMember
  <2>i. PICK i \in 1..Cleared(r) : z = <<r, i>> BY <2>1, Zenon
  <2>2. r \in Relays BY Zenon DEF MeteredRelays
  <2>3. Cleared(r) <= MaxBytes /\ Cleared(r) \in Nat
    BY <2>2, ClearedMember, Zenon DEF ClearedInv
  <2>4. i \in 1..MaxBytes BY <1>1, <2>3
  <2> QED BY <2>i, <2>2, <2>4, Zenon
<1>7. IsFiniteSet(ClearedBytes(u)) BY <1>5, <1>6, FS_Subset, Zenon
<1> QED BY <1>7, FS_CardinalityType, Zenon

(* A step that lets no byte through, and takes nothing from what the user   *)
(* may have written, keeps the bound.                                       *)
LEMMA ClearedFrame ==
  ASSUME TypeOK, TypeOK', ClearedInv, NEW u \in Users,
         \A r \in MeteredRelays(u) : Cleared(r)' <= Cleared(r),
         allowance'[u] # Unbounded =>
           /\ allowance[u] # Unbounded
           /\ allowance[u] + granted[u] <= allowance'[u] + granted'[u]
  PROVE  allowance'[u] # Unbounded
           => Cardinality(ClearedBytes(u)') <= allowance'[u] + granted'[u]
<1> SUFFICES ASSUME allowance'[u] # Unbounded
             PROVE  Cardinality(ClearedBytes(u)') <= allowance'[u] + granted'[u]
  BY Zenon
<1>1. ClearedBytes(u)' \subseteq ClearedBytes(u)
  <2> SUFFICES ASSUME NEW z \in ClearedBytes(u)' PROVE z \in ClearedBytes(u)
    BY Zenon
  <2>1. PICK r \in MeteredRelays(u) : \E j \in 1..Cleared(r)' : z = <<r, j>>
    BY ClearedMemberNext
  <2>i. PICK i \in 1..Cleared(r)' : z = <<r, i>> BY <2>1, Zenon
  <2>2. r \in Relays BY Zenon DEF MeteredRelays
  <2>3. Cleared(r) \in Nat /\ Cleared(r)' \in Nat /\ Cleared(r)' <= Cleared(r)
    BY <2>2, ClearedMember, ClearedMemberNext, Zenon
  <2>4. i \in 1..Cleared(r) BY <2>3
  <2> QED BY <2>i, <2>4, ClearedMember, Zenon
<1>2. /\ Cardinality(ClearedBytes(u)') <= Cardinality(ClearedBytes(u))
      /\ Cardinality(ClearedBytes(u)') \in Nat
  BY <1>1, ClearedFinite, FS_Subset, FS_CardinalityType, Zenon
<1>3. Cardinality(ClearedBytes(u)) \in Nat BY ClearedFinite, Zenon
<1>4. Cardinality(ClearedBytes(u)) <= allowance[u] + granted[u] BY Zenon DEF ClearedInv
<1>5. /\ allowance[u] \in Nat /\ granted[u] \in Nat
      /\ allowance'[u] \in Nat /\ granted'[u] \in Nat
  BY Zenon DEF TypeOK
<1>6. allowance[u] + granted[u] <= allowance'[u] + granted'[u] BY Zenon
<1>7. PICK a : a = allowance[u] + granted[u] BY Zenon
<1>8. PICK b : b = allowance'[u] + granted'[u] BY Zenon
<1>9. a \in Nat /\ b \in Nat /\ a <= b BY <1>5, <1>6, <1>7, <1>8
<1>10. PICK c : c = Cardinality(ClearedBytes(u)) BY Zenon
<1>11. PICK d : d = Cardinality(ClearedBytes(u)') BY Zenon
<1>12. c \in Nat /\ d \in Nat /\ d <= c /\ c <= a
  BY <1>2, <1>3, <1>4, <1>7, <1>10, <1>11, Zenon
<1>13. d <= b BY <1>9, <1>12
<1> QED BY <1>8, <1>11, <1>13, Zenon

(* AddUsage lets the chunk in the buffer through, and counts it as granted. *)
LEMMA ClearedAdd ==
  ASSUME TypeOK, TypeOK', ClearedInv, NEW r \in Relays, AddUsage(r), ~Exceeded(r),
         r[1] \in Metered
  PROVE  allowance'[RelayUser(r)] # Unbounded
           => Cardinality(ClearedBytes(RelayUser(r))')
                <= allowance'[RelayUser(r)] + granted'[RelayUser(r)]
<1>0. PICK u \in Users : u = RelayUser(r) BY RelayParts, Zenon
<1>a. /\ allowance' = allowance
      /\ granted' = [granted EXCEPT ![u] = @ + hand[r]]
      /\ relay[r] = "add"
      /\ relay' = [relay EXCEPT ![r] = "write"]
      /\ UNCHANGED <<sent, hand>>
  BY <1>0, Zenon DEF AddUsage
<1>b. /\ sent[r] \in Nat /\ hand[r] \in Nat
      /\ Cleared(r) = sent[r] /\ Cleared(r)' = sent[r] + hand[r]
  <2>1. sent[r] \in Nat /\ hand[r] \in Nat
    BY ConstantsAssumption DEF TypeOK, ConstantsAssumption
  <2>2. relay'[r] = "write" BY <1>a, Zenon DEF TypeOK
  <2> QED BY <1>a, <2>1, <2>2 DEF Cleared
<1>c. \A x \in Relays : x # r => Cleared(x)' = Cleared(x)
  <2>1. \A x \in Relays : x # r => relay'[x] = relay[x] BY <1>a, Zenon DEF TypeOK
  <2> QED BY <1>a, <2>1, Zenon DEF Cleared
<1> SUFFICES ASSUME allowance'[u] # Unbounded
             PROVE  Cardinality(ClearedBytes(u)') <= allowance'[u] + granted'[u]
  BY <1>0, Zenon
<1>1. PICK S : S = ClearedBytes(u) BY Zenon
<1>2. PICK T : T = {r} \X ((sent[r] + 1)..(sent[r] + hand[r])) BY Zenon
<1>3. IsFiniteSet(S) /\ Cardinality(S) \in Nat BY <1>1, ClearedFinite, Zenon
<1>4. IsFiniteSet(T) /\ Cardinality(T) = hand[r]
  <2>1. PICK J : J = (sent[r] + 1)..(sent[r] + hand[r]) BY Zenon
  <2>2. IsFiniteSet(J) /\ Cardinality(J) = hand[r]
    <3>1. PICK a \in Int : a = sent[r] + 1 BY <1>b
    <3>2. PICK b \in Int : b = sent[r] + hand[r] BY <1>b
    <3>3. /\ IsFiniteSet(a..b)
          /\ Cardinality(a..b) = IF a > b THEN 0 ELSE b - a + 1
      BY FS_Interval, Zenon
    <3>4. (IF a > b THEN 0 ELSE b - a + 1) = hand[r] BY <1>b, <3>1, <3>2
    <3> QED BY <2>1, <3>1, <3>2, <3>3, <3>4, Zenon
  <2>3. IsFiniteSet({r}) /\ Cardinality({r}) = 1 BY FS_Singleton, Zenon
  <2>4. IsFiniteSet({r} \X J) /\ Cardinality({r} \X J) = 1 * hand[r]
    BY <2>2, <2>3, FS_Product
  <2> QED BY <1>b, <1>2, <2>1, <2>4
<1>5. ClearedBytes(u)' \subseteq S \cup T
  <2> SUFFICES ASSUME NEW z \in ClearedBytes(u)', z \notin S PROVE z \in T
    BY Zenon
  <2>1. PICK x \in MeteredRelays(u) : \E j \in 1..Cleared(x)' : z = <<x, j>>
    BY ClearedMemberNext
  <2>2. PICK i \in 1..Cleared(x)' : z = <<x, i>> BY <2>1, Zenon
  <2>3. x \in Relays BY Zenon DEF MeteredRelays
  <2>4. i \notin 1..Cleared(x) BY <1>1, <2>2, ClearedMember, Zenon
  <2>5. x = r BY <1>c, <2>3, <2>4, Zenon
  <2>6. i \in (sent[r] + 1)..(sent[r] + hand[r]) BY <1>b, <2>4, <2>5
  <2> QED BY <1>2, <2>2, <2>5, <2>6, Zenon
<1>6. PICK d : d = Cardinality(ClearedBytes(u)') BY Zenon
<1>7. d \in Nat /\ d <= Cardinality(S) + hand[r]
  <2>1. /\ IsFiniteSet(S \cup T)
        /\ Cardinality(S \cup T) = Cardinality(S) + Cardinality(T) - Cardinality(S \cap T)
    BY <1>3, <1>4, FS_Union, Zenon
  <2>2. Cardinality(S \cap T) \in Nat BY <1>3, FS_Subset, FS_CardinalityType, Zenon
  <2>3. d \in Nat /\ d <= Cardinality(S \cup T)
    BY <1>5, <1>6, <2>1, FS_Subset, FS_CardinalityType, Zenon
  <2> QED BY <1>3, <1>4, <1>b, <2>1, <2>2, <2>3
<1>8. Cardinality(S) <= allowance[u] + granted[u]
  BY <1>1, <1>a, Zenon DEF ClearedInv
<1>9. allowance[u] \in Nat /\ granted[u] \in Nat BY <1>a, Zenon DEF TypeOK
<1>10. granted'[u] = granted[u] + hand[r] /\ allowance'[u] = allowance[u]
  <2>1. granted \in [Users -> Nat] BY Zenon DEF TypeOK
  <2> QED BY <1>a, <2>1, Zenon
<1>11. d <= allowance'[u] + granted'[u]
  BY <1>3, <1>b, <1>7, <1>8, <1>9, <1>10
<1> QED BY <1>6, <1>11, Zenon

(* The steps of a relay keep the bound on what was let through: a metered   *)
(* relay comes to write only through AddUsage.                              *)
LEMMA ClearedRelay ==
  ASSUME TypeOK, TypeOK', RelayInv', ClearedInv, NEW r \in Relays,
         RelayStep(r) \/ PeerStep(r)
  PROVE  ClearedInv'
<1>a. /\ sent[r] \in Nat /\ hand[r] \in Nat /\ MaxBytes \in Nat
      /\ sent'[r] \in Nat /\ hand'[r] \in Nat /\ left'[r] \in Nat
      /\ RelayUser(r) \in Users
  BY RelayParts, ConstantsAssumption DEF TypeOK, ConstantsAssumption
<1>b. \A x \in Relays : x # r => Cleared(x)' = Cleared(x)
  <2>1. \A x \in Relays : x # r => /\ relay'[x] = relay[x] /\ sent'[x] = sent[x]
                                  /\ hand'[x] = hand[x]
    BY RelayFrame, Zenon
  <2> QED BY <2>1, Zenon DEF Cleared
<1>c. \/ relay'[r] = "write" /\ sent'[r] = sent[r] /\ relay[r] \in {"read", "limit", "add"}
      \/ relay'[r] # "write" /\ sent'[r] = sent[r]
      \/ relay'[r] # "write" /\ relay[r] = "write" /\ sent'[r] = sent[r] + hand[r]
  <2>1. CASE AddUsage(r) BY <2>1, Zenon DEF AddUsage
  <2>2. CASE WriteOK(r)
    <3>1. relay \in [Relays -> RelayStates] /\ sent \in [Relays -> Nat]
      BY Zenon DEF TypeOK
    <3> QED BY <2>2, <3>1, Zenon DEF WriteOK
  <2>3. CASE ~AddUsage(r) /\ ~WriteOK(r) BY <2>3, RelayFrame, Zenon
  <2> QED BY <2>1, <2>2, <2>3, Zenon
<1>d. ASSUME relay'[r] # "write" PROVE Cleared(r)' <= Cleared(r)
  <2>1. Cleared(r)' = sent'[r] + 0 BY <1>d, Zenon DEF Cleared
  <2>2. CASE sent'[r] = sent[r]
    <3>1. Cleared(r) \in {sent[r] + 0, sent[r] + hand[r]} BY Zenon DEF Cleared
    <3> QED BY <1>a, <2>1, <2>2, <3>1
  <2>3. CASE relay[r] = "write" /\ sent'[r] = sent[r] + hand[r]
    <3>1. Cleared(r) = sent[r] + hand[r] BY <2>3, Zenon DEF Cleared
    <3> QED BY <1>a, <2>1, <2>3, <3>1
  <2> QED BY <1>c, <1>d, <2>2, <2>3, Zenon
<1>1. ASSUME NEW x \in Relays PROVE Cleared(x)' <= MaxBytes
  <2>1. Cleared(x) <= MaxBytes BY Zenon DEF ClearedInv
  <2>2. CASE x # r BY <1>b, <2>1, <2>2, Zenon
  <2>3. CASE x = r /\ relay'[r] = "write"
    <3>1. sent'[r] + hand'[r] + left'[r] = MaxBytes
      BY <2>3, Zenon DEF RelayInv, LiveRelay
    <3>2. Cleared(r)' = sent'[r] + hand'[r] BY <2>3, Zenon DEF Cleared
    <3> QED BY <1>a, <2>3, <3>1, <3>2
  <2>4. CASE x = r /\ relay'[r] # "write"
    <3>1. Cleared(r) \in Nat /\ Cleared(r)' \in Nat
      BY ClearedMember, ClearedMemberNext, Zenon
    <3> QED BY <1>a, <1>d, <2>1, <2>4, <3>1
  <2> QED BY <2>2, <2>3, <2>4, Zenon
<1>2. ASSUME NEW u \in Users
      PROVE  allowance'[u] # Unbounded
               => Cardinality(ClearedBytes(u)') <= allowance'[u] + granted'[u]
  <2>1. CASE AddUsage(r) /\ ~Exceeded(r) /\ r[1] \in Metered /\ u = RelayUser(r)
    BY <2>1, ClearedAdd, Zenon
  <2>2. CASE ~(AddUsage(r) /\ ~Exceeded(r) /\ r[1] \in Metered /\ u = RelayUser(r))
    <3>1. allowance'[u] = allowance[u] /\ granted[u] <= granted'[u]
          /\ granted[u] \in Nat /\ granted'[u] \in Nat
          /\ allowance[u] \in Nat \cup {Unbounded}
      <4>1. CASE AddUsage(r)
        <5>1. granted' = granted \/ granted' = [granted EXCEPT ![RelayUser(r)] = @ + hand[r]]
          BY <4>1, Zenon DEF AddUsage
        <5>2. granted[u] \in Nat /\ allowance[u] \in Nat \cup {Unbounded}
          BY Zenon DEF TypeOK
        <5>3. granted'[u] \in {granted[u], granted[u] + hand[r]} BY <5>1 DEF TypeOK
        <5> QED BY <1>a, <4>1, <5>2, <5>3 DEF AddUsage
      <4>2. CASE ~AddUsage(r)
        <5>1. UNCHANGED <<granted, allowance>>
          BY <4>2, RelayFrame, Zenon DEF quotaVars
        <5>2. granted[u] \in Nat /\ allowance[u] \in Nat \cup {Unbounded}
          BY Zenon DEF TypeOK
        <5> QED BY <5>1, <5>2
      <4> QED BY <4>1, <4>2, Zenon
    <3>2. ASSUME NEW x \in MeteredRelays(u) PROVE Cleared(x)' <= Cleared(x)
      <4>1. x \in Relays /\ RelayUser(x) = u /\ x[1] \in Metered
        BY Zenon DEF MeteredRelays
      <4>2. Cleared(x) \in Nat BY <4>1, ClearedMember, Zenon
      <4>3. CASE x # r BY <1>b, <4>1, <4>2, <4>3
      <4>4. CASE x = r
        <5>1. relay'[r] # "write"
          <6>1. AfterRead(r) = "quota" BY <4>1, <4>4, Zenon DEF AfterRead
          <6>2. CASE AddUsage(r)
            <7>1. relay \in [Relays -> RelayStates] BY Zenon DEF TypeOK
            <7>2. Exceeded(r) BY <2>2, <4>1, <4>4, <6>2, Zenon
            <7> QED BY <6>2, <7>1, <7>2, Zenon DEF AddUsage
          <6>3. CASE ~AddUsage(r)
            <7>1. AfterRead(r) # "write" BY <6>1, Zenon
            <7> QED BY <6>3, <7>1, RelayFrame, Zenon
          <6> QED BY <6>2, <6>3, Zenon
        <5> QED BY <1>d, <4>4, <5>1, Zenon
      <4> QED BY <4>3, <4>4, Zenon
    <3>3. allowance'[u] # Unbounded =>
            /\ allowance[u] # Unbounded
            /\ allowance[u] + granted[u] <= allowance'[u] + granted'[u]
      BY <3>1
    <3> QED BY <3>2, <3>3, ClearedFrame, Zenon
  <2> QED BY <2>1, <2>2, Zenon
<1> QED BY <1>1, <1>2, Zenon DEF ClearedInv

(* A quota reset moves the bytes granted in the period that ends, which are *)
(* within its limit, to the allowance.                                      *)
LEMMA ClearedReset ==
  ASSUME TypeOK, TypeOK', QuotaInv, ClearedInv, NEW v \in Users, Reset(v)
  PROVE  ClearedInv'
<1>1. UNCHANGED <<relay, sent, hand>> BY Zenon DEF Reset, relayVars
<1>2. \A r \in Relays : Cleared(r)' = Cleared(r) /\ Cleared(r) \in Nat
  BY <1>1, ClearedMember, Zenon DEF Cleared
<1>3. ASSUME NEW u \in Users, allowance'[u] # Unbounded
      PROVE  /\ allowance[u] # Unbounded
             /\ allowance[u] + granted[u] <= allowance'[u] + granted'[u]
  <2>1. /\ allowance[u] \in Nat \cup {Unbounded} /\ granted[u] \in Nat /\ loosest[u] \in Nat
    BY Zenon DEF TypeOK
  <2>2. loosest[u] > 0 => granted[u] <= loosest[u] BY Zenon DEF QuotaInv
  <2>3. CASE u = v
    <3>1. /\ allowance'[u] = IF allowance[u] = Unbounded \/ loosest[u] = 0 THEN Unbounded
                             ELSE allowance[u] + loosest[u]
          /\ granted'[u] = 0
      BY <2>3, Zenon DEF Reset, TypeOK
    <3>2. allowance[u] \in Nat /\ loosest[u] > 0 /\ allowance'[u] = allowance[u] + loosest[u]
      BY <1>3, <2>1, <3>1
    <3>3. allowance[u] # Unbounded BY <3>2 DEF Unbounded
    <3> QED BY <2>1, <2>2, <3>1, <3>2, <3>3
  <2>4. CASE u # v
    <3>1. allowance'[u] = allowance[u] /\ granted'[u] = granted[u]
      BY <2>4, Zenon DEF Reset, TypeOK
    <3>2. allowance[u] \in Nat BY <1>3, <2>1, <3>1, Zenon
    <3> QED BY <1>3, <2>1, <3>1, <3>2
  <2> QED BY <2>3, <2>4, Zenon
<1>4. ASSUME NEW u \in Users
      PROVE  allowance'[u] # Unbounded
               => Cardinality(ClearedBytes(u)') <= allowance'[u] + granted'[u]
  <2>1. \A r \in MeteredRelays(u) : Cleared(r)' <= Cleared(r)
    BY <1>2 DEF MeteredRelays
  <2> QED BY <1>3, <2>1, ClearedFrame, Zenon
<1> QED BY <1>2, <1>4, Zenon DEF ClearedInv

(* A step that grants nothing and brings no relay to write keeps the bound. *)
LEMMA ClearedStill ==
  ASSUME TypeOK, TypeOK', ClearedInv, UNCHANGED <<sent, hand, granted, allowance>>,
         \A r \in Relays : relay'[r] = "write" => relay[r] = "write"
  PROVE  ClearedInv'
<1>1. ASSUME NEW r \in Relays
      PROVE  Cleared(r)' <= Cleared(r) /\ Cleared(r) \in Nat /\ Cleared(r)' \in Nat
  <2>1. sent[r] \in Nat /\ hand[r] \in Nat
    BY ConstantsAssumption DEF TypeOK, ConstantsAssumption
  <2> QED BY <2>1 DEF Cleared
<1>2. ASSUME NEW r \in Relays PROVE Cleared(r)' <= MaxBytes
  <2>1. Cleared(r) <= MaxBytes /\ MaxBytes \in Nat
    BY ConstantsAssumption, Zenon DEF ClearedInv, ConstantsAssumption
  <2> QED BY <1>1, <2>1
<1>3. ASSUME NEW u \in Users
      PROVE  allowance'[u] # Unbounded
               => Cardinality(ClearedBytes(u)') <= allowance'[u] + granted'[u]
  <2>1. \A r \in MeteredRelays(u) : Cleared(r)' <= Cleared(r)
    BY <1>1, Zenon DEF MeteredRelays
  <2>2. allowance'[u] # Unbounded =>
          /\ allowance[u] # Unbounded
          /\ allowance[u] + granted[u] <= allowance'[u] + granted'[u]
    BY DEF TypeOK
  <2> QED BY <2>1, <2>2, ClearedFrame, Zenon
<1> QED BY <1>2, <1>3, Zenon DEF ClearedInv

(* In every reachable state the bytes let through are within the periods'  *)
(* limits and the current grants.                                          *)
LEMMA ClearedInvariant == Spec => []ClearedInv
<1>1. TypeOK /\ Init => ClearedInv
  <2> SUFFICES ASSUME TypeOK, Init PROVE ClearedInv BY Zenon
  <2>1. \A r \in Relays : Cleared(r) = 0 BY DEF Init, Cleared
  <2>2. MaxBytes \in Nat BY ConstantsAssumption, Zenon DEF ConstantsAssumption
  <2>3. ASSUME NEW u \in Users PROVE ClearedBytes(u) = {}
    <3> SUFFICES ASSUME NEW z \in ClearedBytes(u) PROVE FALSE BY Zenon
    <3>1. PICK r \in MeteredRelays(u) : \E i \in 1..Cleared(r) : z = <<r, i>>
      BY ClearedMember
    <3>2. r \in Relays BY Zenon DEF MeteredRelays
    <3> QED BY <2>1, <3>1, <3>2
  <2>4. ASSUME NEW u \in Users PROVE Cardinality(ClearedBytes(u)) <= allowance[u] + granted[u]
    <3>1. Cardinality(ClearedBytes(u)) = 0 BY <2>3, FS_EmptySet, Zenon
    <3>2. allowance[u] = 0 /\ granted[u] = 0 BY Zenon DEF Init
    <3> QED BY <3>1, <3>2
  <2> QED BY <2>1, <2>2, <2>4 DEF ClearedInv
<1>2. TypeOK /\ TypeOK' /\ RelayInv' /\ QuotaInv /\ ClearedInv /\ [Next]_vars => ClearedInv'
  <2> SUFFICES ASSUME TypeOK, TypeOK', RelayInv', QuotaInv, ClearedInv, [Next]_vars
               PROVE  ClearedInv'
    BY Zenon
  <2>1. CASE UNCHANGED vars
    BY <2>1, ClearedStill, Zenon DEF vars, relayVars, quotaVars
  <2>2. ASSUME NEW s \in Sessions, Accept(s) \/ HandlerStep(s) \/ Kick(s) PROVE ClearedInv'
    <3>1. UNCHANGED <<sent, hand, granted, allowance>>
      BY <2>2, HandlerFrame, Zenon DEF quotaVars
    <3>2. \A r \in Relays : relay'[r] = "write" => relay[r] = "write"
      <4>1. CASE StoreSession(s) BY <4>1, Zenon DEF StoreSession
      <4>2. CASE UNCHANGED relay BY <4>2, Zenon
      <4> QED BY <2>2, <4>1, <4>2, HandlerFrame, Zenon
    <3> QED BY <3>1, <3>2, ClearedStill, Zenon
  <2>3. ASSUME NEW s \in Sessions, NEW c \in Sides, PeerClose(s, c) PROVE ClearedInv'
    BY <2>3, ClearedStill, Zenon DEF PeerClose, relayVars, quotaVars
  <2>4. ASSUME NEW r \in Relays, RelayStep(r) \/ PeerStep(r) PROVE ClearedInv'
    BY <2>4, ClearedRelay, Zenon
  <2>5. ASSUME NEW u \in Users, OperatorStep(u) PROVE ClearedInv'
    <3>1. CASE Reset(u) BY <3>1, ClearedReset, Zenon
    <3>2. CASE ~Reset(u)
      <4>1. UNCHANGED <<relay, sent, hand, granted, allowance>>
        BY <2>5, <3>2, Zenon DEF OperatorStep, Revoke, UpdateLimiter, SetLimit,
           relayVars, quotaVars
      <4> QED BY <4>1, ClearedStill, Zenon
    <3> QED BY <3>1, <3>2, Zenon
  <2> QED BY <2>1, <2>2, <2>3, <2>4, <2>5, Zenon DEF Next
<1>3. Init => ClearedInv BY <1>1, TypeInit, Zenon
<1> QED BY <1>2, <1>3, TypeCorrect, RelayInvariant, QuotaInvariant, PTL DEF Spec

(* Over all quota periods, and however its sessions, resets and limit       *)
(* changes interleave, the relays of a user's metered sessions write no     *)
(* more bytes than the periods' limits add up to.                           *)
THEOREM ForwardedTheorem == Spec => []ForwardedWithinQuota
<1>1. TypeOK /\ QuotaInv /\ ClearedInv => ForwardedWithinQuota
  <2> SUFFICES ASSUME TypeOK, QuotaInv, ClearedInv, NEW u \in Users,
                      loosest[u] > 0, allowance[u] # Unbounded
               PROVE  Cardinality(Written(u)) <= allowance[u] + loosest[u]
    BY Zenon DEF ForwardedWithinQuota
  <2>1. Written(u) \subseteq ClearedBytes(u)
    <3> SUFFICES ASSUME NEW z \in Written(u) PROVE z \in ClearedBytes(u) BY Zenon
    <3>1. PICK r \in MeteredRelays(u) : z \in {r} \X (1..sent[r])
      BY Zenon DEF Written
    <3>2. PICK i \in 1..sent[r] : z = <<r, i>> BY <3>1
    <3>3. r \in Relays BY Zenon DEF MeteredRelays
    <3>4. sent[r] \in Nat /\ hand[r] \in Nat
      BY <3>3, ConstantsAssumption DEF TypeOK, ConstantsAssumption
    <3>5. i \in 1..Cleared(r) BY <3>4 DEF Cleared
    <3> QED BY <3>2, <3>5, ClearedMember, Zenon
  <2>2. Cardinality(Written(u)) \in Nat
        /\ Cardinality(Written(u)) <= Cardinality(ClearedBytes(u))
    BY <2>1, ClearedFinite, FS_Subset, FS_CardinalityType, Zenon
  <2>3. Cardinality(ClearedBytes(u)) <= allowance[u] + granted[u]
        /\ Cardinality(ClearedBytes(u)) \in Nat
    BY ClearedFinite, Zenon DEF ClearedInv
  <2>4. granted[u] <= loosest[u] BY Zenon DEF QuotaInv
  <2>5. granted[u] \in Nat /\ loosest[u] \in Nat /\ allowance[u] \in Nat
    BY Zenon DEF TypeOK
  <2> QED BY <2>2, <2>3, <2>4, <2>5
<1> QED BY <1>1, TypeCorrect, QuotaInvariant, ClearedInvariant, PTL

=============================================================================
