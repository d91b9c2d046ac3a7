----------------------------- MODULE BalanceProofs -----------------------------
(* Machine-checked proofs about Balance: half a minute after the last change *)
(* the choice of a target follows the network, for every set of outbounds   *)
(* and targets, any rules and any number of changes and reloads.           *)
EXTENDS Balance, SequenceTheorems, TLAPS

(* What the two bounds hold for: the routed outbounds are probed, a node    *)
(* that is up answers in less than 1.8 s and not in under a millisecond     *)
(* (above, its score falls to that of a node that is down; at 0 ms it is    *)
(* taken for one that was never probed), and settling takes half a minute.  *)
ProbedRoutes ==
  /\ Routings \subseteq [Targets -> SUBSET (Outbounds \ Direct)]
  /\ Latencies \subseteq 1..1799
  /\ SettleTicks >= 6

-----------------------------------------------------------------------------
(* The inductive invariant. *)

BalanceTypes ==
  /\ latency \in [Outbounds -> Latencies \cup {Down}]
  /\ stable \in [Outbounds -> Nat]
  /\ routes \in Routings
  /\ generation \in [Outbounds -> 0..MaxReloads]
  /\ latencyMs \in [Handlers -> Int]
  /\ probeIn \in [Handlers -> 0..ProbeTicks]
  /\ checkIn \in 0..CheckTicks
  /\ checkAt \in 0..(Len(TargetList) + 1)
  /\ scan \in [left : SUBSET Handlers, best : Handlers \cup {NoHandler}, max : Int]
  /\ status \in [Targets -> [out : Handlers \cup {NoHandler}, score : Int]]

(* The score of a probed node of which a dial takes l. *)
ScoreFor(l) == IF l <= 0 THEN 1000 ELSE IF l >= 2000 THEN 200 ELSE 2000 - l

(* After three ticks without a change, and the probe due then, a handler    *)
(* knows the latency of its outbound.                                       *)
Quiet(o) == stable[o] >= 4

ProbeInv ==
  /\ \A h \in Handlers : ~Started(h) => probeIn[h] = ProbeTicks
  /\ \A o \in Outbounds :
       \/ latencyMs[Current(o)] = latency[o]
       \/ stable[o] + probeIn[Current(o)] <= 3

(* No tick passes during a check, so what a running choice for u has read   *)
(* of a quiet outbound is still so; and its candidates are those the rules  *)
(* give u, unless the rules have just changed.                              *)
Routable(h, u) == h[1] \in routes[u] \/ \A o \in Outbounds : ~Quiet(o)
LeftOK(u) ==
  \A h \in scan.left : Routable(h, u) /\ (Quiet(h[1]) => h = Current(h[1]))
BestOK(u) ==
  scan.best # NoHandler =>
    /\ Routable(scan.best, u)
    /\ Quiet(scan.best[1]) => /\ scan.best = Current(scan.best[1])
                              /\ scan.max = ScoreFor(latency[scan.best[1]])
MaxOK(u) ==
  (\A q \in routes[u] : Quiet(q)) =>
    \A q \in routes[u] : Current(q) \in scan.left \/ scan.max >= ScoreFor(latency[q])

ScanInv ==
  /\ checkAt > 0 => checkIn = CheckTicks
  /\ scan # NoScan => /\ checkAt \in 1..Len(TargetList)
                      /\ LeftOK(TargetList[checkAt])
                      /\ BestOK(TargetList[checkAt])
                      /\ MaxOK(TargetList[checkAt])

(* A change of o may be missing in the status of t: the check that will     *)
(* bring it is to start, or has started and not yet come to t.              *)
Pending(t) == checkAt > 0 /\ \E i \in checkAt..Len(TargetList) : TargetList[i] = t
Late(t, o) ==
  \/ stable[o] + checkIn <= 5
  \/ Pending(t) /\ stable[o] <= 5

(* A target without a way keeps its status, so nothing is said of it.       *)
OwnOK(t) ==
  status[t] # NoStatus =>
    /\ status[t].out \in Handlers
    /\ routes[t] # {} =>
         \/ /\ status[t].out[1] \in routes[t]
            /\ status[t].score = ScoreFor(latency[status[t].out[1]])
         \/ Late(t, status[t].out[1])
AllOK(t) ==
  \A p \in routes[t] :
    \/ status[t].score >= ScoreFor(latency[p])
    \/ \E q \in routes[t] : Late(t, q)

StatusInv == \A t \in Targets : OwnOK(t) /\ AllOK(t)

BalanceInv == BalanceTypes /\ ProbeInv /\ ScanInv /\ StatusInv

-----------------------------------------------------------------------------
(* The targets and their routes. *)
LEMMA TargetFacts ==
  /\ Len(TargetList) \in Nat
  /\ \A i \in 1..Len(TargetList) : TargetList[i] \in Targets
  /\ \A t \in Targets : \E i \in 1..Len(TargetList) : TargetList[i] = t
  /\ \A r \in Routings : \A t \in Targets : r[t] \subseteq Outbounds
<1>1. TargetList \in Seq(Targets) /\ Routings \subseteq [Targets -> SUBSET Outbounds]
  BY BalanceAssumption DEF BalanceAssumption
<1>2. Len(TargetList) \in Nat BY <1>1
<1>3. \A i \in 1..Len(TargetList) : TargetList[i] \in Targets BY Zenon DEF Targets
<1>4. \A t \in Targets : \E i \in 1..Len(TargetList) : TargetList[i] = t
  BY Zenon DEF Targets
<1>5. \A r \in Routings : \A t \in Targets : r[t] \subseteq Outbounds BY <1>1, Zenon
<1> QED BY <1>2, <1>3, <1>4, <1>5, Zenon

(* The rules in force give a target outbounds that exist. *)
LEMMA RouteFacts ==
  ASSUME BalanceTypes, NEW t \in Targets
  PROVE  routes[t] \subseteq Outbounds
  BY TargetFacts, Zenon DEF BalanceTypes

(* A handler is an outbound and a generation. *)
LEMMA HandlerParts ==
  ASSUME NEW h \in Handlers
  PROVE  h[1] \in Outbounds /\ h[2] \in Nat
  BY BalanceAssumption DEF BalanceAssumption, Handlers

(* The current handler of an outbound is one of its handlers, and started. *)
LEMMA CurrentFacts ==
  ASSUME BalanceTypes, NEW o \in Outbounds
  PROVE  Current(o) \in Handlers /\ Current(o)[1] = o /\ Started(Current(o))
<1>1. generation[o] \in 0..MaxReloads /\ MaxReloads \in Nat
  BY BalanceAssumption DEF BalanceTypes, BalanceAssumption
<1> QED BY <1>1 DEF Current, Started, Handlers

(* Scores are small numbers, the faster the higher, and a node that is up  *)
(* scores more than one that is down.                                      *)
LEMMA ScoreFacts ==
  ASSUME ProbedRoutes
  PROVE  /\ \A l \in Latencies \cup {Down} : ScoreFor(l) \in 200..1999 /\ l \in Int
         /\ \A l \in Latencies : ScoreFor(l) > ScoreFor(Down)
         /\ \A k, l \in Latencies \cup {Down} : ScoreFor(k) >= ScoreFor(l) => k <= l
<1>0. Latencies \subseteq 1..1799 BY DEF ProbedRoutes
<1>1. \A l \in Latencies : l \in 1..1799 BY <1>0
<1>2. \A l \in 1..1799 : ScoreFor(l) = 2000 - l BY DEF ScoreFor
<1>3. Down = 9999 /\ ScoreFor(Down) = 200 BY DEF Down, ScoreFor
<1>4. \A l \in Latencies \cup {Down} : ScoreFor(l) \in 200..1999 /\ l \in Int
  BY <1>1, <1>2, <1>3, SMTT(30)
<1>5. \A l \in Latencies : ScoreFor(l) > ScoreFor(Down) BY <1>1, <1>2, <1>3, SMTT(30)
<1>6. ASSUME NEW k \in Latencies \cup {Down}, NEW l \in Latencies \cup {Down},
             ScoreFor(k) >= ScoreFor(l)
      PROVE  k <= l
  <2>1. CASE k = Down /\ l = Down BY <1>3, <2>1
  <2>2. CASE k = Down /\ l \in Latencies
    <3>1. l \in 1..1799 BY <1>1, <2>2
    <3>2. ScoreFor(l) = 2000 - l /\ ScoreFor(k) = 200
      BY <1>3, <2>2, <3>1 DEF ScoreFor
    <3>3. 200 >= 2000 - l BY <1>6, <3>2
    <3> QED BY <3>1, <3>3
  <2>3. CASE k \in Latencies /\ l = Down BY <1>1, <1>3, <2>3
  <2>4. CASE k \in Latencies /\ l \in Latencies
    <3>1. l \in 1..1799 /\ k \in 1..1799 BY <1>1, <2>4
    <3>2. ScoreFor(l) = 2000 - l /\ ScoreFor(k) = 2000 - k
      BY <3>1 DEF ScoreFor
    <3>3. 2000 - k >= 2000 - l BY <1>6, <3>2
    <3> QED BY <3>1, <3>3
  <2> QED BY <2>1, <2>2, <2>3, <2>4
<1> QED BY <1>4, <1>5, <1>6, Zenon

(* The score of a node is a number. *)
LEMMA ScoreType ==
  ASSUME ProbedRoutes, NEW l \in Latencies \cup {Down}
  PROVE  ScoreFor(l) \in Int
<1>1. ScoreFor(l) \in 200..1999 BY ScoreFacts, SMTT(30)
<1> QED BY <1>1

(* The score of a handler of a routed outbound comes from its probes. *)
LEMMA RoutedScore ==
  ASSUME ProbedRoutes, BalanceTypes, NEW t \in Targets, NEW h, h[1] \in routes[t]
  PROVE  HealthCheck(h) = ScoreFor(latencyMs[h])
<1>1. Routings \subseteq [Targets -> SUBSET (Outbounds \ Direct)] BY DEF ProbedRoutes
<1>2. routes \in Routings BY Zenon DEF BalanceTypes
<1>3. h[1] \notin Direct BY <1>1, <1>2, Zenon
<1> QED BY <1>3 DEF HealthCheck, ScoreFor

(* A score is a number. *)
LEMMA HealthType ==
  ASSUME BalanceTypes, NEW h \in Handlers
  PROVE  HealthCheck(h) \in Int
<1>1. latencyMs[h] \in Int BY Zenon DEF BalanceTypes
<1> QED BY <1>1 DEF HealthCheck

(* What a step may be; the listener's steps touch nothing of the choice. *)
LEMMA BalanceCases ==
  ASSUME [Next]_vars
  PROVE  \/ UNCHANGED <<latency, stable, probeVars, checkVars>>
         \/ \E h \in Handlers : Probe(h)
         \/ \E o \in Outbounds : Reload(o)
         \/ \E r \in Routings : UpdateRules(r)
         \/ \E o \in Outbounds : \E l \in Latencies \cup {Down} : NetworkChanges(o, l)
         \/ StartCheck \/ CheckRoute \/ (\E h \in scan.left : CheckScan(h))
         \/ CheckStore \/ EndCheck \/ Tick
<1>1. ASSUME NEW c \in Clients, ClientStep(c) \/ Sends(c)
      PROVE  UNCHANGED <<latency, stable, probeVars, checkVars>>
  BY <1>1, Zenon DEF ClientStep, Sends, Choose, Fallback, balanceVars, networkVars
<1>2. ASSUME NEW c \in budget.clients, Connect(c) /\ UNCHANGED balanceVars
      PROVE  UNCHANGED <<latency, stable, probeVars, checkVars>>
  BY <1>2, Zenon DEF balanceVars, networkVars
<1>3. CASE UNCHANGED vars
  BY <1>3, Zenon DEF vars, balanceVars, networkVars
<1> QED BY <1>1, <1>2, <1>3, Zenon DEF Next, LoopStep

(* Every variable keeps its type. *)
LEMMA BalanceTypesStep ==
  ASSUME BalanceTypes, ScanInv, [Next]_vars
  PROVE  BalanceTypes'
<1>1. CASE UNCHANGED <<latency, stable, probeVars, checkVars>>
  BY <1>1, Zenon DEF BalanceTypes, probeVars, checkVars
<1>2. ASSUME NEW h \in Handlers, Probe(h) PROVE BalanceTypes'
  <2>1. h[1] \in Outbounds BY HandlerParts, Zenon
  <2>2. latency[h[1]] \in Int
    <3>1. latency[h[1]] \in Latencies \cup {Down} BY <2>1, Zenon DEF BalanceTypes
    <3>2. \A l \in Latencies : l \in Int BY BalanceAssumption DEF BalanceAssumption
    <3>3. CASE latency[h[1]] \in Latencies BY <3>2, <3>3, Zenon
    <3>4. CASE latency[h[1]] = Down BY <3>4 DEF Down
    <3> QED BY <3>1, <3>3, <3>4, Zenon
  <2>3. latencyMs' \in [Handlers -> Int] BY <1>2, <2>2, Zenon DEF Probe, BalanceTypes
  <2>4. probeIn' \in [Handlers -> 0..ProbeTicks]
    BY <1>2 DEF Probe, BalanceTypes, ProbeTicks
  <2> QED BY <1>2, <2>3, <2>4, Zenon DEF Probe, BalanceTypes, networkVars, checkVars
<1>3. ASSUME NEW o \in Outbounds, Reload(o) PROVE BalanceTypes'
  <2>1. generation' \in [Outbounds -> 0..MaxReloads]
    BY <1>3, BalanceAssumption DEF Reload, BalanceTypes, BalanceAssumption
  <2>2. stable' \in [Outbounds -> Nat] BY <1>3, Zenon DEF Reload, BalanceTypes
  <2> QED BY <1>3, <2>1, <2>2, Zenon DEF Reload, BalanceTypes, checkVars
<1>11. ASSUME NEW r \in Routings, UpdateRules(r) PROVE BalanceTypes'
  <2>1. stable' \in [Outbounds -> Nat]
    <3>1. stable' = [o \in Outbounds |-> 0] BY <1>11, Zenon DEF UpdateRules
    <3> QED BY <3>1
  <2> QED BY <1>11, <2>1, Zenon DEF UpdateRules, BalanceTypes, checkVars
<1>4. ASSUME NEW o \in Outbounds, NEW l \in Latencies \cup {Down}, NetworkChanges(o, l)
      PROVE  BalanceTypes'
  <2>1. latency' \in [Outbounds -> Latencies \cup {Down}]
    BY <1>4, Zenon DEF NetworkChanges, BalanceTypes
  <2>2. stable' \in [Outbounds -> Nat] BY <1>4, Zenon DEF NetworkChanges, BalanceTypes
  <2> QED BY <1>4, <2>1, <2>2, Zenon DEF NetworkChanges, BalanceTypes, probeVars,
             checkVars
<1>5. CASE StartCheck
  BY <1>5, TargetFacts DEF StartCheck, BalanceTypes, CheckTicks, networkVars, probeVars
<1>6. CASE CheckRoute
  <2>1. UNCHANGED <<latency, stable, routes, generation, latencyMs, probeIn, checkIn, status>>
    BY <1>6, Zenon DEF CheckRoute, networkVars, probeVars
  <2>2. checkAt' \in 0..(Len(TargetList) + 1)
    BY <1>6, TargetFacts DEF CheckRoute, BalanceTypes
  <2>3. PICK u \in Targets : u = TargetList[checkAt]
    BY <1>6, TargetFacts, Zenon DEF CheckRoute
  <2>4. Candidates(u) \subseteq Handlers
    BY RouteFacts, CurrentFacts, Zenon DEF Candidates
  <2>5. \/ scan' = scan
        \/ scan' = [left |-> Candidates(u), best |-> NoHandler, max |-> -1]
    BY <1>6, <2>3, Zenon DEF CheckRoute, NoScan
  <2>6. scan' \in [left : SUBSET Handlers, best : Handlers \cup {NoHandler}, max : Int]
    BY <2>4, <2>5 DEF BalanceTypes
  <2> QED BY <2>1, <2>2, <2>6, Zenon DEF BalanceTypes
<1>7. ASSUME NEW h \in scan.left, CheckScan(h) PROVE BalanceTypes'
  <2>1. UNCHANGED <<latency, stable, probeVars, checkIn, checkAt, status>>
    BY <1>7, Zenon DEF CheckScan, networkVars
  <2>2. h \in Handlers /\ scan.left \in SUBSET Handlers
        /\ scan.best \in Handlers \cup {NoHandler} /\ scan.max \in Int
    BY <1>7, Zenon DEF BalanceTypes
  <2>3. HealthCheck(h) \in Int BY <2>2, HealthType, Zenon
  <2>4. scan' \in [left : SUBSET Handlers, best : Handlers \cup {NoHandler}, max : Int]
    BY <1>7, <2>2, <2>3, Zenon DEF CheckScan, ScanOne
  <2> QED BY <2>1, <2>4, Zenon DEF BalanceTypes, probeVars
<1>8. CASE CheckStore
  <2>1. UNCHANGED <<latency, stable, routes, generation, latencyMs, probeIn, checkIn>>
    BY <1>8, Zenon DEF CheckStore, networkVars, probeVars
  <2>2. scan # NoScan BY <1>8 DEF CheckStore, NoScan
  <2>3. checkAt \in 1..Len(TargetList) BY <2>2, Zenon DEF ScanInv
  <2>4. checkAt' \in 0..(Len(TargetList) + 1)
    BY <1>8, <2>3, TargetFacts DEF CheckStore
  <2>5. scan' \in [left : SUBSET Handlers, best : Handlers \cup {NoHandler}, max : Int]
    BY <1>8 DEF CheckStore, NoScan
  <2>6. scan.best \in Handlers
    BY <1>8, Zenon DEF CheckStore, BalanceTypes
  <2>7. [out |-> scan.best, score |-> HealthCheck(scan.best)]
          \in [out : Handlers \cup {NoHandler}, score : Int]
    BY <2>6, HealthType, Zenon
  <2>8. status' \in [Targets -> [out : Handlers \cup {NoHandler}, score : Int]]
    BY <1>8, <2>7, Zenon DEF CheckStore, BalanceTypes
  <2> QED BY <2>1, <2>4, <2>5, <2>8, Zenon DEF BalanceTypes
<1>9. CASE EndCheck
  BY <1>9, TargetFacts DEF EndCheck, BalanceTypes, networkVars, probeVars
<1>10. CASE Tick
  <2>1. UNCHANGED <<latency, routes, generation, latencyMs, checkAt, scan, status>>
    BY <1>10, Zenon DEF Tick
  <2>2. stable' \in [Outbounds -> Nat]
    BY <1>10, BalanceAssumption, SMTT(30) DEF Tick, BalanceTypes, BalanceAssumption
  <2>3. probeIn' \in [Handlers -> 0..ProbeTicks]
    <3> SUFFICES ASSUME NEW h \in Handlers
                 PROVE  (IF h \in Running THEN probeIn[h] - 1 ELSE probeIn[h]) \in 0..ProbeTicks
      BY <1>10, Zenon DEF Tick
    <3>1. probeIn[h] \in 0..ProbeTicks BY Zenon DEF BalanceTypes
    <3>2. h \in Running => probeIn[h] > 0 BY <1>10, Zenon DEF Tick
    <3> QED BY <3>1, <3>2 DEF ProbeTicks
  <2>4. checkIn' \in 0..CheckTicks BY <1>10 DEF Tick, BalanceTypes, CheckTicks
  <2> QED BY <2>1, <2>2, <2>3, <2>4, Zenon DEF BalanceTypes
<1> QED BY <1>1, <1>2, <1>3, <1>4, <1>5, <1>6, <1>7, <1>8, <1>9, <1>10, <1>11,
           BalanceCases, Zenon

(* A handler that runs and whose outbound has not changed for long has     *)
(* probed it since.                                                        *)
LEMMA ProbeStep ==
  ASSUME BalanceTypes, ProbeInv, BalanceTypes', [Next]_vars
  PROVE  ProbeInv'
<1>1. CASE UNCHANGED <<latency, stable, generation, latencyMs, probeIn>>
  BY <1>1, Zenon DEF ProbeInv, Started, Current
<1>2. ASSUME NEW h \in Handlers, Probe(h) PROVE ProbeInv'
  <2>1. /\ UNCHANGED <<latency, stable, generation>> /\ Started(h)
        /\ probeIn' = [probeIn EXCEPT ![h] = ProbeTicks]
        /\ latencyMs' = [latencyMs EXCEPT ![h] = latency[h[1]]]
    BY <1>2, Zenon DEF Probe, networkVars
  <2>2. ASSUME NEW g \in Handlers, ~Started(g)' PROVE probeIn'[g] = ProbeTicks
    <3>1. ~Started(g) /\ g # h BY <2>1, <2>2, Zenon DEF Started
    <3>2. probeIn[g] = ProbeTicks BY <3>1, Zenon DEF ProbeInv
    <3> QED BY <2>1, <3>1, <3>2, Zenon DEF BalanceTypes
  <2>3. ASSUME NEW o \in Outbounds
        PROVE  \/ latencyMs'[Current(o)'] = latency'[o]
               \/ stable'[o] + probeIn'[Current(o)'] <= 3
    <3>1. Current(o)' = Current(o) /\ Current(o) \in Handlers /\ Current(o)[1] = o
      BY <2>1, CurrentFacts, Zenon DEF Current
    <3>2. CASE Current(o) = h
      <4>1. latencyMs'[Current(o)] = latency[o]
        BY <2>1, <3>1, <3>2, Zenon DEF BalanceTypes
      <4> QED BY <2>1, <3>1, <4>1, Zenon
    <3>3. CASE Current(o) # h
      <4>1. latencyMs'[Current(o)] = latencyMs[Current(o)]
            /\ probeIn'[Current(o)] = probeIn[Current(o)]
        BY <2>1, <3>1, <3>3, Zenon DEF BalanceTypes
      <4> QED BY <2>1, <3>1, <4>1, Zenon DEF ProbeInv
    <3> QED BY <3>2, <3>3, Zenon
  <2> QED BY <2>2, <2>3, Zenon DEF ProbeInv
<1>3. ASSUME NEW r \in Outbounds, Reload(r) PROVE ProbeInv'
  <2>1. /\ UNCHANGED <<latency, latencyMs, probeIn>>
        /\ generation' = [generation EXCEPT ![r] = @ + 1]
        /\ stable' = [stable EXCEPT ![r] = 0]
        /\ generation[r] < MaxReloads
    BY <1>3, Zenon DEF Reload
  <2>0. generation[r] \in Nat /\ MaxReloads \in Nat
    BY BalanceAssumption DEF BalanceAssumption, BalanceTypes
  <2>2. ASSUME NEW g \in Handlers, ~Started(g)' PROVE probeIn'[g] = ProbeTicks
    <3>0. g[1] \in Outbounds /\ g[2] \in Nat BY HandlerParts, Zenon
    <3>a. generation[g[1]] \in 0..MaxReloads BY <3>0, Zenon DEF BalanceTypes
    <3>b. generation[g[1]] \in Nat BY <2>0, <3>a
    <3>1. g[1] \in Outbounds /\ g[2] \in Nat /\ generation[g[1]] \in Nat
      BY <3>0, <3>b, Zenon
    <3>2. generation'[g[1]] \in {generation[g[1]], generation[g[1]] + 1}
      BY <2>1, <3>1, Zenon DEF BalanceTypes
    <3>3. ~Started(g) BY <2>2, <3>1, <3>2 DEF Started
    <3> QED BY <2>1, <3>3, Zenon DEF ProbeInv
  <2>3. ASSUME NEW o \in Outbounds
        PROVE  \/ latencyMs'[Current(o)'] = latency'[o]
               \/ stable'[o] + probeIn'[Current(o)'] <= 3
    <3>1. CASE o = r
      <4>1. Current(o)' = <<r, generation[r] + 1>> /\ stable'[o] = 0
        BY <2>1, <3>1, Zenon DEF Current, BalanceTypes
      <4>2. Current(o)' \in Handlers BY <2>0, <2>1, <4>1 DEF Handlers
      <4>3. ~Started(Current(o)') BY <2>0, <4>1 DEF Started
      <4>4. probeIn[Current(o)'] = ProbeTicks BY <4>2, <4>3, Zenon DEF ProbeInv
      <4> QED BY <2>1, <4>1, <4>4 DEF ProbeTicks
    <3>2. CASE o # r
      <4>1. Current(o)' = Current(o) /\ stable'[o] = stable[o]
        BY <2>1, <3>2, Zenon DEF Current, BalanceTypes
      <4> QED BY <2>1, <4>1, Zenon DEF ProbeInv
    <3> QED BY <3>1, <3>2, Zenon
  <2> QED BY <2>2, <2>3, Zenon DEF ProbeInv
<1>4. ASSUME NEW r \in Outbounds, NEW l \in Latencies \cup {Down}, NetworkChanges(r, l)
      PROVE  ProbeInv'
  <2>1. /\ UNCHANGED <<generation, latencyMs, probeIn>>
        /\ latency' = [latency EXCEPT ![r] = l]
        /\ stable' = [stable EXCEPT ![r] = 0]
    BY <1>4, Zenon DEF NetworkChanges, probeVars
  <2>2. ASSUME NEW g \in Handlers, ~Started(g)' PROVE probeIn'[g] = ProbeTicks
    BY <2>1, <2>2, Zenon DEF ProbeInv, Started
  <2>3. ASSUME NEW o \in Outbounds
        PROVE  \/ latencyMs'[Current(o)'] = latency'[o]
               \/ stable'[o] + probeIn'[Current(o)'] <= 3
    <3>1. Current(o)' = Current(o) /\ Current(o) \in Handlers
      BY <2>1, CurrentFacts, Zenon DEF Current
    <3>2. probeIn[Current(o)] \in 0..3 BY <3>1, Zenon DEF BalanceTypes, ProbeTicks
    <3>3. CASE o = r
      <4>1. stable'[o] = 0 BY <2>1, <3>3, Zenon DEF BalanceTypes
      <4> QED BY <2>1, <3>1, <3>2, <4>1
    <3>4. CASE o # r
      <4>1. stable'[o] = stable[o] /\ latency'[o] = latency[o]
        BY <2>1, <3>4, Zenon DEF BalanceTypes
      <4> QED BY <2>1, <3>1, <4>1, Zenon DEF ProbeInv
    <3> QED BY <3>3, <3>4, Zenon
  <2> QED BY <2>2, <2>3, Zenon DEF ProbeInv
<1>5. CASE Tick
  <2>1. /\ UNCHANGED <<latency, generation, latencyMs>>
        /\ \A o \in Outbounds : stable'[o] = IF stable[o] < SettleTicks THEN stable[o] + 1
                                             ELSE SettleTicks
        /\ \A h \in Handlers : probeIn'[h] = IF h \in Running THEN probeIn[h] - 1 ELSE probeIn[h]
        /\ \A h \in Running : probeIn[h] > 0
    BY <1>5, Zenon DEF Tick
  <2>2. ASSUME NEW g \in Handlers, ~Started(g)' PROVE probeIn'[g] = ProbeTicks
    <3>1. ~Started(g) BY <2>1, <2>2, Zenon DEF Started
    <3>2. g \notin Running BY <3>1, Zenon DEF Running
    <3> QED BY <2>1, <3>1, <3>2, Zenon DEF ProbeInv
  <2>3. ASSUME NEW o \in Outbounds
        PROVE  \/ latencyMs'[Current(o)'] = latency'[o]
               \/ stable'[o] + probeIn'[Current(o)'] <= 3
    <3>1. Current(o)' = Current(o) /\ Current(o) \in Handlers /\ Started(Current(o))
      BY <2>1, CurrentFacts, Zenon DEF Current
    <3>2. probeIn'[Current(o)] = probeIn[Current(o)] - 1
      BY <2>1, <3>1, Zenon DEF Running
    <3>0. SettleTicks \in Nat BY BalanceAssumption DEF BalanceAssumption
    <3>3. probeIn[Current(o)] \in Nat /\ stable[o] \in Nat /\ SettleTicks \in Nat
      <4>1. probeIn[Current(o)] \in 0..3 BY <3>1, Zenon DEF BalanceTypes, ProbeTicks
      <4>2. stable[o] \in Nat BY Zenon DEF BalanceTypes
      <4> QED BY <3>0, <4>1, <4>2
    <3>4. stable'[o] \in Nat /\ stable'[o] <= stable[o] + 1 BY <2>1, <3>3
    <3>5. CASE latencyMs[Current(o)] = latency[o] BY <2>1, <3>1, <3>5, Zenon
    <3>6. CASE stable[o] + probeIn[Current(o)] <= 3 BY <3>1, <3>2, <3>3, <3>4, <3>6
    <3> QED BY <3>5, <3>6, Zenon DEF ProbeInv
  <2> QED BY <2>2, <2>3, Zenon DEF ProbeInv
<1>8. ASSUME NEW r \in Routings, UpdateRules(r) PROVE ProbeInv'
  <2>1. /\ UNCHANGED <<latency, generation, latencyMs, probeIn>>
        /\ \A o \in Outbounds : stable'[o] = 0
    BY <1>8, Zenon DEF UpdateRules
  <2>2. ASSUME NEW g \in Handlers, ~Started(g)' PROVE probeIn'[g] = ProbeTicks
    BY <2>1, <2>2, Zenon DEF ProbeInv, Started
  <2>3. ASSUME NEW o \in Outbounds PROVE stable'[o] + probeIn'[Current(o)'] <= 3
    <3>1. Current(o)' = Current(o) /\ Current(o) \in Handlers
      BY <2>1, CurrentFacts, Zenon DEF Current
    <3>2. probeIn[Current(o)] \in 0..3 BY <3>1, Zenon DEF BalanceTypes, ProbeTicks
    <3> QED BY <2>1, <3>1, <3>2
  <2> QED BY <2>2, <2>3, Zenon DEF ProbeInv
<1>6. ASSUME \/ StartCheck \/ CheckRoute \/ (\E h \in scan.left : CheckScan(h))
             \/ CheckStore \/ EndCheck
      PROVE  UNCHANGED <<latency, stable, generation, latencyMs, probeIn>>
  BY <1>6, Zenon DEF StartCheck, CheckRoute, CheckScan, CheckStore, EndCheck,
     networkVars, probeVars
<1>7. CASE UNCHANGED <<latency, stable, probeVars, checkVars>>
  BY <1>1, <1>7, Zenon DEF probeVars
<1> QED BY <1>1, <1>2, <1>3, <1>4, <1>5, <1>6, <1>7, <1>8, BalanceCases, Zenon

(* Whatever is not a tick leaves a quiet outbound, its handler and the     *)
(* rules alone.                                                            *)
LEMMA SteadyStep ==
  ASSUME BalanceTypes, [Next]_vars, ~Tick, NEW o \in Outbounds
  PROVE  \/ /\ stable'[o] = stable[o] /\ latency'[o] = latency[o]
            /\ Current(o)' = Current(o) /\ routes' = routes
         \/ stable'[o] = 0
<1>1. CASE UNCHANGED <<latency, stable, routes, generation>>
  BY <1>1, Zenon DEF Current
<1>2. ASSUME NEW h \in Handlers, Probe(h)
      PROVE  UNCHANGED <<latency, stable, routes, generation>>
  BY <1>2, Zenon DEF Probe, networkVars
<1>3. ASSUME NEW r \in Outbounds, Reload(r)
      PROVE  \/ /\ stable'[o] = stable[o] /\ latency'[o] = latency[o]
                /\ generation'[o] = generation[o] /\ routes' = routes
             \/ stable'[o] = 0
  BY <1>3, Zenon DEF Reload, BalanceTypes
<1>4. ASSUME NEW r \in Outbounds, NEW l \in Latencies \cup {Down}, NetworkChanges(r, l)
      PROVE  \/ /\ stable'[o] = stable[o] /\ latency'[o] = latency[o]
                /\ generation'[o] = generation[o] /\ routes' = routes
             \/ stable'[o] = 0
  BY <1>4, Zenon DEF NetworkChanges, BalanceTypes, probeVars
<1>5. ASSUME \/ StartCheck \/ CheckRoute \/ (\E h \in scan.left : CheckScan(h))
             \/ CheckStore \/ EndCheck
      PROVE  UNCHANGED <<latency, stable, routes, generation>>
  BY <1>5, Zenon DEF StartCheck, CheckRoute, CheckScan, CheckStore, EndCheck,
     networkVars, probeVars
<1>6. CASE UNCHANGED <<latency, stable, probeVars, checkVars>>
  BY <1>1, <1>6, Zenon DEF probeVars
<1>7. ASSUME NEW r \in Routings, UpdateRules(r) PROVE stable'[o] = 0
  BY <1>7, Zenon DEF UpdateRules
<1> QED BY <1>1, <1>2, <1>3, <1>4, <1>5, <1>6, <1>7, BalanceCases, Zenon DEF Current

(* So an outbound that is quiet after such a step was quiet before.         *)
LEMMA QuietStep ==
  ASSUME BalanceTypes, [Next]_vars, ~Tick, NEW o \in Outbounds, Quiet(o)'
  PROVE  Quiet(o) /\ latency'[o] = latency[o] /\ Current(o)' = Current(o) /\ routes' = routes
  BY SteadyStep DEF Quiet

(* And a candidate stays one, unless the rules change.                      *)
LEMMA RoutableStep ==
  ASSUME BalanceTypes, [Next]_vars, ~Tick, NEW h, NEW u, Routable(h, u)
  PROVE  Routable(h, u)'
<1>1. CASE routes' = routes BY <1>1, QuietStep, Zenon DEF Routable
<1>2. CASE routes' # routes BY <1>2, QuietStep, Zenon DEF Routable
<1> QED BY <1>1, <1>2, Zenon

(* The candidates of a running choice stay what ScanInv says while the      *)
(* choice itself takes no step.                                             *)
LEMMA ScanFrame ==
  ASSUME BalanceTypes, BalanceTypes', ScanInv, [Next]_vars, ~Tick,
         UNCHANGED <<checkIn, checkAt, scan>>
  PROVE  ScanInv'
<1>1. CASE scan = NoScan BY <1>1, Zenon DEF ScanInv
<1>2. CASE scan # NoScan
  <2>1. PICK u : u = TargetList[checkAt] BY Zenon
  <2>2. checkAt \in 1..Len(TargetList) /\ LeftOK(u) /\ BestOK(u) /\ MaxOK(u)
    BY <1>2, <2>1, Zenon DEF ScanInv
  <2>3. u \in Targets BY <2>1, <2>2, TargetFacts, Zenon
  <2>4. LeftOK(u)'
    <3> SUFFICES ASSUME NEW h \in scan.left
                 PROVE  Routable(h, u)' /\ (Quiet(h[1])' => h = Current(h[1])')
      BY Zenon DEF LeftOK
    <3>1. h[1] \in Outbounds BY HandlerParts, Zenon DEF BalanceTypes
    <3> QED BY <2>2, <3>1, QuietStep, RoutableStep, Zenon DEF LeftOK
  <2>5. BestOK(u)'
    <3> SUFFICES ASSUME scan.best # NoHandler
                 PROVE  /\ Routable(scan.best, u)'
                        /\ Quiet(scan.best[1])' =>
                             /\ scan.best = Current(scan.best[1])'
                             /\ scan.max = ScoreFor(latency'[scan.best[1]])
      BY Zenon DEF BestOK
    <3>1. scan.best[1] \in Outbounds BY HandlerParts, Zenon DEF BalanceTypes
    <3>2. Routable(scan.best, u)' BY <2>2, RoutableStep, Zenon DEF BestOK
    <3> QED BY <2>2, <3>1, <3>2, QuietStep, Zenon DEF BestOK
  <2>6. MaxOK(u)'
    <3> SUFFICES ASSUME \A q \in routes'[u] : Quiet(q)', NEW q \in routes'[u]
                 PROVE  Current(q)' \in scan.left \/ scan.max >= ScoreFor(latency'[q])
      BY DEF MaxOK, ScoreFor
    <3>1. routes'[u] \subseteq Outbounds BY <2>3, TargetFacts, Zenon DEF BalanceTypes
    <3>2. routes' = routes /\ \A p \in routes[u] : Quiet(p) BY <3>1, QuietStep, Zenon
    <3>3. Current(q) \in scan.left \/ scan.max >= ScoreFor(latency[q])
      BY <2>2, <3>2, Zenon DEF MaxOK
    <3> QED BY <3>1, <3>3, QuietStep, Zenon
  <2> QED BY <2>1, <2>2, <2>4, <2>5, <2>6, Zenon DEF ScanInv
<1> QED BY <1>1, <1>2, Zenon

(* The choice of an outbound for a target: collecting the candidates.       *)
LEMMA ScanRoute ==
  ASSUME BalanceTypes, ScanInv, CheckRoute
  PROVE  ScanInv'
<1>1. /\ UNCHANGED <<latency, stable, routes, generation, checkIn>>
      /\ checkAt \in 1..Len(TargetList) /\ scan = NoScan
  BY Zenon DEF CheckRoute, networkVars, probeVars
<1>2. PICK u : u = TargetList[checkAt] BY Zenon
<1>3. checkIn' = CheckTicks BY <1>1, TargetFacts DEF ScanInv
<1>4. CASE scan' = NoScan BY <1>3, <1>4, Zenon DEF ScanInv
<1>5. CASE scan' # NoScan
  <2>1. /\ scan' = [left |-> Candidates(u), best |-> NoHandler, max |-> -1]
        /\ checkAt' = checkAt
    BY <1>1, <1>2, <1>5, Zenon DEF CheckRoute, NoScan
  <2>2. scan'.left = Candidates(u) /\ scan'.best = NoHandler BY <2>1, Zenon
  <2>3. \A q : Current(q)' = Current(q) BY <1>1, Zenon DEF Current
  <2>4. LeftOK(u)'
    <3> SUFFICES ASSUME NEW h \in Candidates(u)
                 PROVE  h[1] \in routes[u] /\ h = Current(h[1])'
      BY <1>1, <2>2, Zenon DEF LeftOK, Routable
    <3>1. PICK q \in routes[u] : h = Current(q) BY Zenon DEF Candidates
    <3>2. h[1] = q BY <3>1, Zenon DEF Current
    <3> QED BY <2>3, <3>1, <3>2, Zenon
  <2>5. BestOK(u)' BY <2>2, Zenon DEF BestOK
  <2>6. MaxOK(u)' BY <1>1, <2>2, <2>3, Zenon DEF MaxOK, Candidates
  <2> QED BY <1>1, <1>2, <1>3, <2>1, <2>4, <2>5, <2>6, Zenon DEF ScanInv
<1> QED BY <1>4, <1>5, Zenon

(* The choice of an outbound for a target: reading one score.               *)
LEMMA ScanScore ==
  ASSUME ProbedRoutes, BalanceTypes, ProbeInv, ScanInv, NEW h \in scan.left, CheckScan(h)
  PROVE  ScanInv'
<1>1. /\ UNCHANGED <<latency, stable, routes, generation, checkIn, checkAt>>
      /\ scan' = ScanOne(h)
  BY Zenon DEF CheckScan, networkVars, probeVars
<1>2. scan # NoScan BY DEF NoScan
<1>3. PICK u : u = TargetList[checkAt] BY Zenon
<1>4. checkAt \in 1..Len(TargetList) /\ LeftOK(u) /\ BestOK(u) /\ MaxOK(u)
  BY <1>2, <1>3, Zenon DEF ScanInv
<1>5. u \in Targets /\ routes[u] \subseteq Outbounds
  BY <1>3, <1>4, TargetFacts, RouteFacts, Zenon
<1>6. PICK n \in Int : n = HealthCheck(h)
  <2>1. h \in Handlers BY Zenon DEF BalanceTypes
  <2> QED BY <2>1, HealthType, Zenon
<1>7. Routable(h, u) /\ (Quiet(h[1]) => h[1] \in routes[u] /\ h = Current(h[1]))
  <2>1. h[1] \in Outbounds BY HandlerParts, Zenon DEF BalanceTypes
  <2> QED BY <1>4, <2>1, Zenon DEF LeftOK, Routable
<1>8. Quiet(h[1]) => n = ScoreFor(latency[h[1]])
  <2> SUFFICES ASSUME Quiet(h[1]) PROVE n = ScoreFor(latency[h[1]]) BY Zenon
  <2>1. n = ScoreFor(latencyMs[h]) BY <1>5, <1>6, <1>7, RoutedScore, Zenon
  <2>2. h = Current(h[1]) /\ h[1] \in Outbounds BY <1>5, <1>7, Zenon
  <2>3. stable[h[1]] \in Nat /\ probeIn[h] \in 0..3
    BY <2>2, CurrentFacts, Zenon DEF BalanceTypes, ProbeTicks
  <2>4. ~(stable[h[1]] + probeIn[h] <= 3) BY <2>3 DEF Quiet
  <2>5. latencyMs[h] = latency[h[1]] BY <2>2, <2>4 DEF ProbeInv
  <2> QED BY <2>1, <2>5, Zenon
<1>9. /\ scan'.left = scan.left \ {h}
      /\ scan'.best = IF n > scan.max THEN h ELSE scan.best
      /\ scan'.max = IF n > scan.max THEN n ELSE scan.max
      /\ scan.max \in Int
  BY <1>1, <1>6, Zenon DEF ScanOne, BalanceTypes
<1>10. /\ \A q : Current(q)' = Current(q) /\ Quiet(q)' = Quiet(q)
       /\ \A g : Routable(g, u)' = Routable(g, u)
  BY <1>1, Zenon DEF Current, Quiet, Routable
<1>11. LeftOK(u)' BY <1>1, <1>4, <1>9, <1>10, Zenon DEF LeftOK
<1>12. BestOK(u)'
  <2>1. CASE n > scan.max
    BY <1>1, <1>7, <1>8, <1>9, <1>10, <2>1, Zenon DEF BestOK
  <2>2. CASE ~(n > scan.max)
    BY <1>1, <1>4, <1>9, <1>10, <2>2, Zenon DEF BestOK
  <2> QED BY <2>1, <2>2, Zenon
<1>13. MaxOK(u)'
  <2> SUFFICES ASSUME \A q \in routes[u] : Quiet(q), NEW q \in routes[u],
                      Current(q) \notin scan'.left
               PROVE  scan'.max >= ScoreFor(latency[q])
    BY <1>1, <1>10, Zenon DEF MaxOK
  <2>0. ScoreFor(latency[q]) \in Int
    <3>1. latency[q] \in Latencies \cup {Down} BY <1>5, Zenon DEF BalanceTypes
    <3> QED BY <3>1, ScoreType, Zenon
  <2>1. CASE Current(q) = h
    <3>1. h[1] = q BY <2>1, Zenon DEF Current
    <3> QED BY <1>8, <1>9, <2>0, <3>1
  <2>2. CASE Current(q) # h
    <3>1. Current(q) \notin scan.left BY <1>9, <2>2, Zenon
    <3>2. scan.max >= ScoreFor(latency[q]) BY <1>4, <3>1, Zenon DEF MaxOK
    <3> QED BY <1>9, <2>0, <3>2
  <2> QED BY <2>1, <2>2, Zenon
<1> QED BY <1>1, <1>3, <1>4, <1>11, <1>12, <1>13, Zenon DEF ScanInv

(* Every step keeps what is known of a running choice. *)
LEMMA ScanStep ==
  ASSUME ProbedRoutes, BalanceTypes, BalanceTypes', ProbeInv, ScanInv, [Next]_vars
  PROVE  ScanInv'
<1>1. CASE UNCHANGED <<checkIn, checkAt, scan>> /\ ~Tick BY <1>1, ScanFrame, Zenon
<1>2. CASE CheckRoute BY <1>2, ScanRoute, Zenon
<1>3. ASSUME NEW h \in scan.left, CheckScan(h) PROVE ScanInv' BY <1>3, ScanScore, Zenon
<1>4. CASE StartCheck \/ EndCheck \/ Tick
  <2>1. scan = NoScan BY <1>4, TargetFacts DEF StartCheck, EndCheck, Tick, ScanInv
  <2>2. scan' = NoScan BY <1>4, <2>1, Zenon DEF StartCheck, EndCheck, Tick
  <2>3. checkAt' > 0 => checkIn' = CheckTicks
    BY <1>4 DEF StartCheck, EndCheck, Tick
  <2> QED BY <2>2, <2>3, Zenon DEF ScanInv
<1>5. CASE CheckStore
  <2>1. scan # NoScan /\ scan' = NoScan /\ checkIn' = checkIn
    BY <1>5 DEF CheckStore, NoScan
  <2>2. checkIn = CheckTicks BY <2>1, TargetFacts DEF ScanInv
  <2> QED BY <2>1, <2>2, Zenon DEF ScanInv
<1>6. ASSUME \/ UNCHANGED <<latency, stable, probeVars, checkVars>>
             \/ \E h \in Handlers : Probe(h)
             \/ \E o \in Outbounds : Reload(o)
             \/ \E r \in Routings : UpdateRules(r)
             \/ \E o \in Outbounds : \E l \in Latencies \cup {Down} : NetworkChanges(o, l)
      PROVE  UNCHANGED <<checkIn, checkAt, scan>>
  BY <1>6, Zenon DEF Probe, Reload, UpdateRules, NetworkChanges, checkVars
<1> QED BY <1>1, <1>2, <1>3, <1>4, <1>5, <1>6, BalanceCases, Zenon

(* A status that is not rewritten stays right or late, if late stays late.  *)
LEMMA StatusKept ==
  ASSUME BalanceTypes, BalanceTypes', NEW t \in Targets, OwnOK(t), AllOK(t),
         status'[t] = status[t],
         \A o \in Outbounds :
           Late(t, o)' \/ (latency'[o] = latency[o] /\ routes' = routes /\ ~Late(t, o))
  PROVE  OwnOK(t)' /\ AllOK(t)'
<1>1. OwnOK(t)'
  <2> SUFFICES ASSUME status[t] # NoStatus
               PROVE  /\ status[t].out \in Handlers
                      /\ routes'[t] # {} =>
                           \/ /\ status[t].out[1] \in routes'[t]
                              /\ status[t].score = ScoreFor(latency'[status[t].out[1]])
                           \/ Late(t, status[t].out[1])'
    BY Zenon DEF OwnOK
  <2>1. status[t].out \in Handlers BY Zenon DEF OwnOK
  <2>2. status[t].out[1] \in Outbounds BY <2>1, HandlerParts, Zenon
  <2> QED BY <2>1, <2>2, Zenon DEF OwnOK
<1>2. AllOK(t)'
  <2> SUFFICES ASSUME NEW p \in routes'[t]
               PROVE  \/ status[t].score >= ScoreFor(latency'[p])
                      \/ \E q \in routes'[t] : Late(t, q)'
    BY Zenon DEF AllOK
  <2>1. routes'[t] \subseteq Outbounds BY TargetFacts, Zenon DEF BalanceTypes
  <2>2. CASE Late(t, p)' BY <2>2, Zenon
  <2>3. CASE latency'[p] = latency[p] /\ routes' = routes BY <2>1, <2>3, Zenon DEF AllOK
  <2> QED BY <2>1, <2>2, <2>3, Zenon
<1> QED BY <1>1, <1>2, Zenon

(* The numbers in Late. *)
LEMMA LateTypes ==
  ASSUME BalanceTypes, NEW o \in Outbounds
  PROVE  stable[o] \in Nat /\ checkIn \in 0..2 /\ checkAt \in Nat
<1>1. stable[o] \in Nat BY Zenon DEF BalanceTypes
<1>2. checkIn \in 0..2 BY Zenon DEF BalanceTypes, CheckTicks
<1>3. checkAt \in Nat BY TargetFacts DEF BalanceTypes
<1> QED BY <1>1, <1>2, <1>3, Zenon

(* Steps outside the health check: what changed is late, and nothing that   *)
(* was late is lost.                                                        *)
LEMMA StatusFrame ==
  ASSUME BalanceTypes, BalanceTypes', StatusInv, [Next]_vars, ~Tick,
         UNCHANGED <<checkIn, checkAt, status>>
  PROVE  StatusInv'
<1> SUFFICES ASSUME NEW t \in Targets PROVE OwnOK(t)' /\ AllOK(t)'
  BY Zenon DEF StatusInv
<1>1. ASSUME NEW o \in Outbounds
      PROVE  Late(t, o)' \/ (latency'[o] = latency[o] /\ routes' = routes /\ ~Late(t, o))
  <2>1. CASE stable'[o] = 0
    <3>1. stable'[o] + checkIn' <= 5 BY <2>1, LateTypes
    <3> QED BY <3>1, Zenon DEF Late
  <2>2. CASE stable'[o] = stable[o] /\ latency'[o] = latency[o] /\ routes' = routes
    <3>1. Late(t, o)' = Late(t, o) BY <2>2, Zenon DEF Late, Pending
    <3> QED BY <2>2, <3>1, Zenon
  <2> QED BY <2>1, <2>2, SteadyStep, Zenon
<1>2. OwnOK(t) /\ AllOK(t) BY Zenon DEF StatusInv
<1> QED BY <1>1, <1>2, StatusKept, Zenon

(* When a check starts every target is still to be visited.                 *)
LEMMA StatusStart ==
  ASSUME BalanceTypes, BalanceTypes', StatusInv, StartCheck
  PROVE  StatusInv'
<1> SUFFICES ASSUME NEW t \in Targets PROVE OwnOK(t)' /\ AllOK(t)'
  BY Zenon DEF StatusInv
<1>1. /\ UNCHANGED <<latency, stable, routes, status>>
      /\ checkIn = 0 /\ checkAt = 0 /\ checkAt' = 1
  BY Zenon DEF StartCheck, networkVars, probeVars
<1>2. Pending(t)'
  <2>1. \E i \in 1..Len(TargetList) : TargetList[i] = t BY TargetFacts, Zenon
  <2> QED BY <1>1, <2>1 DEF Pending
<1>3. ASSUME NEW o \in Outbounds
      PROVE  Late(t, o)' \/ (latency'[o] = latency[o] /\ routes' = routes /\ ~Late(t, o))
  <2>1. stable[o] \in Nat BY LateTypes, Zenon
  <2>2. Late(t, o) => stable[o] <= 5 BY <1>1, <2>1 DEF Late
  <2> QED BY <1>1, <1>2, <2>2, Zenon DEF Late
<1>4. OwnOK(t) /\ AllOK(t) BY Zenon DEF StatusInv
<1> QED BY <1>1, <1>3, <1>4, StatusKept, Zenon

(* Passing a target leaves the others as they are.                          *)
LEMMA PendingNext ==
  ASSUME NEW t \in Targets, checkAt \in 1..Len(TargetList), t # TargetList[checkAt],
         checkAt' = checkAt + 1
  PROVE  Pending(t) => Pending(t)'
<1> SUFFICES ASSUME Pending(t) PROVE Pending(t)' BY Zenon
<1>1. PICK i \in checkAt..Len(TargetList) : TargetList[i] = t BY Zenon DEF Pending
<1>2. i # checkAt BY <1>1, Zenon
<1>3. checkAt \in Nat /\ Len(TargetList) \in Nat /\ i \in Int BY TargetFacts
<1>4. i \in (checkAt + 1)..Len(TargetList) BY <1>2, <1>3
<1>5. checkAt' > 0 BY <1>3
<1> QED BY <1>1, <1>4, <1>5, Zenon DEF Pending

(* A target that no outbound serves is passed over, and keeps its status.   *)
LEMMA StatusSkip ==
  ASSUME BalanceTypes, BalanceTypes', StatusInv, CheckRoute, checkAt' = checkAt + 1
  PROVE  StatusInv'
<1>1. /\ UNCHANGED <<latency, stable, routes, checkIn, status>>
      /\ checkAt \in 1..Len(TargetList)
  BY Zenon DEF CheckRoute, networkVars, probeVars
<1>2. routes[TargetList[checkAt]] = {}
  <2>1. checkAt' # checkAt BY <1>1, TargetFacts
  <2>2. Candidates(TargetList[checkAt]) = {} BY <2>1, Zenon DEF CheckRoute
  <2> QED BY <2>2, Zenon DEF Candidates
<1> SUFFICES ASSUME NEW t \in Targets PROVE OwnOK(t)' /\ AllOK(t)'
  BY Zenon DEF StatusInv
<1>3. OwnOK(t) /\ AllOK(t) BY Zenon DEF StatusInv
<1>4. CASE t = TargetList[checkAt]
  BY <1>1, <1>2, <1>3, <1>4, Zenon DEF OwnOK, AllOK
<1>5. CASE t # TargetList[checkAt]
  <2>1. Pending(t) => Pending(t)' BY <1>1, <1>5, PendingNext, Zenon
  <2>2. \A o \in Outbounds :
          Late(t, o)' \/ (latency'[o] = latency[o] /\ routes' = routes /\ ~Late(t, o))
    BY <1>1, <2>1, Zenon DEF Late
  <2> QED BY <1>1, <1>3, <2>2, StatusKept, Zenon
<1> QED BY <1>4, <1>5, Zenon

(* A status that is stored is right for every outbound that is quiet; what  *)
(* changed later than that is brought by the next check in time.            *)
LEMMA StatusStore ==
  ASSUME ProbedRoutes, BalanceTypes, BalanceTypes', ProbeInv, ScanInv, StatusInv,
  CheckStore
  PROVE  StatusInv'
<1>1. /\ UNCHANGED <<latency, stable, routes, checkIn>>
      /\ checkAt' = checkAt + 1
      /\ scan.best # NoHandler /\ scan.left = {}
      /\ status' = [status EXCEPT ![TargetList[checkAt]] =
                      [out |-> scan.best, score |-> HealthCheck(scan.best)]]
  BY Zenon DEF CheckStore, networkVars, probeVars
<1>2. scan # NoScan BY <1>1 DEF NoScan
<1>3. PICK u : u = TargetList[checkAt] BY Zenon
<1>4. checkAt \in 1..Len(TargetList) /\ LeftOK(u) /\ BestOK(u) /\ MaxOK(u)
  BY <1>2, <1>3, Zenon DEF ScanInv
<1>5. u \in Targets /\ routes[u] \subseteq Outbounds
  BY <1>3, <1>4, TargetFacts, RouteFacts, Zenon
<1>6. checkIn' = 2
  <2>1. checkAt > 0 BY <1>4
  <2> QED BY <1>1, <2>1, Zenon DEF ScanInv, CheckTicks
<1>7. PICK b : b = scan.best BY Zenon
<1>8. /\ b \in Handlers /\ b[1] \in Outbounds
      /\ Routable(b, u)
      /\ Quiet(b[1]) => /\ b[1] \in routes[u] /\ b = Current(b[1])
                        /\ scan.max = ScoreFor(latency[b[1]])
  <2>1. b \in Handlers BY <1>1, <1>7, Zenon DEF BalanceTypes
  <2>2. b[1] \in Outbounds BY <2>1, HandlerParts, Zenon
  <2> QED BY <1>1, <1>4, <1>7, <2>1, <2>2, Zenon DEF BestOK, Routable
<1>9. Quiet(b[1]) => HealthCheck(b) = ScoreFor(latency[b[1]])
  <2> SUFFICES ASSUME Quiet(b[1]) PROVE HealthCheck(b) = ScoreFor(latency[b[1]]) BY Zenon
  <2>1. HealthCheck(b) = ScoreFor(latencyMs[b]) BY <1>5, <1>8, RoutedScore, Zenon
  <2>2. b = Current(b[1]) BY <1>8, Zenon
  <2>3. stable[b[1]] \in Nat /\ probeIn[b] \in 0..3
    BY <1>8, <2>2, CurrentFacts, Zenon DEF BalanceTypes, ProbeTicks
  <2>4. ~(stable[b[1]] + probeIn[b] <= 3) BY <2>3 DEF Quiet
  <2>5. latencyMs[b] = latency[b[1]] BY <1>8, <2>2, <2>4 DEF ProbeInv
  <2> QED BY <2>1, <2>5, Zenon
<1>10. \A o \in Outbounds : ~Quiet(o) => Late(u, o)'
  <2> SUFFICES ASSUME NEW o \in Outbounds, ~Quiet(o) PROVE Late(u, o)' BY Zenon
  <2>1. stable'[o] \in Nat /\ stable'[o] = stable[o] BY <1>1, Zenon DEF BalanceTypes
  <2>2. stable'[o] <= 3 BY <2>1 DEF Quiet
  <2>3. stable'[o] + checkIn' <= 5 BY <1>6, <2>1, <2>2
  <2> QED BY <2>3, Zenon DEF Late
<1> SUFFICES ASSUME NEW t \in Targets PROVE OwnOK(t)' /\ AllOK(t)'
  BY Zenon DEF StatusInv
<1>11. CASE t = u
  <2>1. status'[t] = [out |-> b, score |-> HealthCheck(b)]
    BY <1>1, <1>3, <1>5, <1>7, <1>11, Zenon DEF BalanceTypes
  <2>2. status'[t].out = b /\ status'[t].score = HealthCheck(b) BY <2>1
  <2>3. OwnOK(t)'
    <3>1. \/ b[1] \in routes'[u] /\ HealthCheck(b) = ScoreFor(latency'[b[1]])
          \/ Late(u, b[1])'
      BY <1>1, <1>8, <1>9, <1>10, Zenon
    <3> QED BY <1>8, <1>11, <2>2, <3>1, Zenon DEF OwnOK
  <2>4. AllOK(t)'
    <3> SUFFICES ASSUME NEW p \in routes[u], \A q \in routes[u] : ~Late(u, q)'
                 PROVE  HealthCheck(b) >= ScoreFor(latency[p])
      BY <1>1, <1>11, <2>2, Zenon DEF AllOK
    <3>1. \A q \in routes[u] : Quiet(q) BY <1>5, <1>10, Zenon
    <3>2. scan.max >= ScoreFor(latency[p]) BY <1>1, <1>4, <3>1, Zenon DEF MaxOK
    <3>3. b[1] \in routes[u] BY <1>5, <1>8, <3>1, Zenon DEF Routable
    <3>4. HealthCheck(b) = scan.max BY <1>8, <1>9, <3>1, <3>3, Zenon
    <3> QED BY <3>2, <3>4, Zenon
  <2> QED BY <2>3, <2>4, Zenon
<1>12. CASE t # u
  <2>1. status'[t] = status[t] BY <1>1, <1>3, <1>12, Zenon DEF BalanceTypes
  <2>2. Pending(t) => Pending(t)' BY <1>1, <1>3, <1>4, <1>12, PendingNext, Zenon
  <2>3. \A o \in Outbounds :
          Late(t, o)' \/ (latency'[o] = latency[o] /\ routes' = routes /\ ~Late(t, o))
    BY <1>1, <2>2, Zenon DEF Late
  <2>4. OwnOK(t) /\ AllOK(t) BY Zenon DEF StatusInv
  <2> QED BY <2>1, <2>3, <2>4, StatusKept, Zenon
<1> QED BY <1>11, <1>12, Zenon

(* At the end of a check nothing is pending.                                *)
LEMMA StatusEnd ==
  ASSUME BalanceTypes, BalanceTypes', StatusInv, EndCheck
  PROVE  StatusInv'
<1>1. UNCHANGED <<latency, stable, routes, checkIn, status>> /\ checkAt = Len(TargetList) + 1
  BY Zenon DEF EndCheck, networkVars, probeVars
<1> SUFFICES ASSUME NEW t \in Targets PROVE OwnOK(t)' /\ AllOK(t)'
  BY Zenon DEF StatusInv
<1>2. ~Pending(t) BY <1>1, TargetFacts DEF Pending
<1>3. \A o \in Outbounds :
        Late(t, o)' \/ (latency'[o] = latency[o] /\ routes' = routes /\ ~Late(t, o))
  BY <1>1, <1>2, Zenon DEF Late
<1>4. OwnOK(t) /\ AllOK(t) BY Zenon DEF StatusInv
<1> QED BY <1>1, <1>3, <1>4, StatusKept, Zenon

(* A tick brings a change nearer to being old, and the next check nearer.   *)
LEMMA StatusTick ==
  ASSUME BalanceTypes, BalanceTypes', StatusInv, Tick
  PROVE  StatusInv'
<1>1. /\ UNCHANGED <<latency, routes, status, checkAt>> /\ checkAt = 0 /\ checkIn' = checkIn - 1
      /\ \A o \in Outbounds : stable'[o] = IF stable[o] < SettleTicks THEN stable[o] + 1
                                           ELSE SettleTicks
  BY Zenon DEF Tick
<1> SUFFICES ASSUME NEW t \in Targets PROVE OwnOK(t)' /\ AllOK(t)'
  BY Zenon DEF StatusInv
<1>2. ~Pending(t) BY <1>1 DEF Pending
<1>3. ASSUME NEW o \in Outbounds
      PROVE  Late(t, o)' \/ (latency'[o] = latency[o] /\ routes' = routes /\ ~Late(t, o))
  <2>2. stable[o] \in Nat /\ checkIn \in 0..2 BY LateTypes, Zenon
  <2>3. SettleTicks \in Nat BY BalanceAssumption DEF BalanceAssumption
  <2>4. stable'[o] \in Nat /\ stable'[o] <= stable[o] + 1 BY <1>1, <2>2, <2>3
  <2>5. stable[o] + checkIn <= 5 => stable'[o] + checkIn' <= 5 BY <1>1, <2>2, <2>4
  <2> QED BY <1>1, <1>2, <2>5, Zenon DEF Late
<1>4. OwnOK(t) /\ AllOK(t) BY Zenon DEF StatusInv
<1> QED BY <1>1, <1>3, <1>4, StatusKept, Zenon

(* Every step keeps what is known of the stored scores. *)
LEMMA StatusStep ==
  ASSUME ProbedRoutes, BalanceTypes, BalanceTypes', ProbeInv, ScanInv, StatusInv,
  [Next]_vars
  PROVE  StatusInv'
<1>1. CASE UNCHANGED <<checkIn, checkAt, status>> /\ ~Tick BY <1>1, StatusFrame, Zenon
<1>2. CASE CheckRoute
  <2>1. CASE checkAt' = checkAt + 1 BY <1>2, <2>1, StatusSkip, Zenon
  <2>2. CASE checkAt' = checkAt
    <3>1. ~Tick BY <1>2, TargetFacts DEF CheckRoute, Tick
    <3>2. UNCHANGED <<checkIn, status>> BY <1>2, Zenon DEF CheckRoute
    <3> QED BY <1>1, <2>2, <3>1, <3>2, Zenon
  <2> QED BY <1>2, <2>1, <2>2, Zenon DEF CheckRoute
<1>3. ASSUME \/ UNCHANGED <<latency, stable, probeVars, checkVars>>
             \/ \E h \in Handlers : Probe(h)
             \/ \E o \in Outbounds : Reload(o)
             \/ \E r \in Routings : UpdateRules(r)
             \/ \E o \in Outbounds : \E l \in Latencies \cup {Down} : NetworkChanges(o, l)
             \/ \E h \in scan.left : CheckScan(h)
      PROVE  UNCHANGED <<checkIn, checkAt, status>>
  BY <1>3, Zenon DEF Probe, Reload, UpdateRules, NetworkChanges, CheckScan, checkVars
<1>4. CASE StartCheck BY <1>4, StatusStart, Zenon
<1>5. CASE CheckStore BY <1>5, StatusStore, Zenon
<1>6. CASE EndCheck BY <1>6, StatusEnd, Zenon
<1>7. CASE Tick BY <1>7, StatusTick, Zenon
<1> QED BY <1>1, <1>2, <1>3, <1>4, <1>5, <1>6, <1>7, BalanceCases, Zenon

(* The invariant holds initially: everything is to be probed and checked.   *)
LEMMA BalanceInit ==
  ASSUME Init
  PROVE  BalanceInv
<1>0. MaxReloads \in Nat BY BalanceAssumption DEF BalanceAssumption
<1>1. BalanceTypes
  <2>1. 0 \in 0..MaxReloads BY <1>0
  <2>2. /\ generation \in [Outbounds -> 0..MaxReloads]
        /\ latencyMs \in [Handlers -> Int]
        /\ probeIn \in [Handlers -> 0..ProbeTicks]
        /\ stable \in [Outbounds -> Nat]
    BY <2>1 DEF Init, ProbeTicks
  <2>3. /\ checkIn \in 0..CheckTicks
        /\ checkAt \in 0..(Len(TargetList) + 1)
    BY TargetFacts DEF Init, CheckTicks
  <2>4. /\ scan \in [left : SUBSET Handlers, best : Handlers \cup {NoHandler}, max : Int]
        /\ status \in [Targets -> [out : Handlers \cup {NoHandler}, score : Int]]
    BY DEF Init, NoScan, NoStatus
  <2> QED BY <2>2, <2>3, <2>4, Zenon DEF BalanceTypes, Init
<1>2. ProbeInv
  <2>1. \A h \in Handlers : probeIn[h] = ProbeTicks BY Zenon DEF Init
  <2>2. ASSUME NEW o \in Outbounds PROVE stable[o] + probeIn[Current(o)] <= 3
    <3>1. probeIn[Current(o)] = 3 BY <1>1, <2>1, CurrentFacts, Zenon DEF ProbeTicks
    <3>2. stable[o] = 0 BY Zenon DEF Init
    <3> QED BY <3>1, <3>2
  <2> QED BY <2>1, <2>2, Zenon DEF ProbeInv
<1>3. ScanInv BY Zenon DEF Init, ScanInv
<1>4. StatusInv
  <2> SUFFICES ASSUME NEW t \in Targets PROVE OwnOK(t) /\ AllOK(t)
    BY Zenon DEF StatusInv
  <2>1. status[t] = NoStatus BY Zenon DEF Init
  <2>2. ASSUME NEW o \in routes[t] PROVE Late(t, o)
    <3>0. o \in Outbounds BY <1>1, RouteFacts, Zenon
    <3>1. stable[o] = 0 /\ checkIn = 2 BY <3>0, Zenon DEF Init, CheckTicks
    <3> QED BY <3>1 DEF Late
  <2> QED BY <2>1, <2>2, Zenon DEF OwnOK, AllOK
<1> QED BY <1>1, <1>2, <1>3, <1>4, Zenon DEF BalanceInv

(* The invariant holds in every reachable state. *)
LEMMA BalanceInvariant ==
  ASSUME ProbedRoutes
  PROVE  Spec => []BalanceInv
<1>1. Init => BalanceInv BY BalanceInit, Zenon
<1>2. BalanceInv /\ [Next]_vars => BalanceInv'
  BY BalanceTypesStep, ProbeStep, ScanStep, StatusStep, Zenon DEF BalanceInv
<1> QED BY <1>1, <1>2, PTL DEF Spec

(* What the status of a target says once its outbounds have settled.        *)
LEMMA SettledStatus ==
  ASSUME ProbedRoutes, BalanceInv, NEW t \in Targets
  PROVE  /\ status[t] # NoStatus =>
              /\ status[t].out[1] \in Outbounds
              /\ routes[t] # {} /\ Settled(status[t].out[1]) =>
                   /\ status[t].out[1] \in routes[t]
                   /\ status[t].score = ScoreFor(latency[status[t].out[1]])
         /\ (\A q \in routes[t] : Settled(q))
              => \A p \in routes[t] : status[t].score >= ScoreFor(latency[p])
<1>1. OwnOK(t) /\ AllOK(t) /\ BalanceTypes BY Zenon DEF BalanceInv, StatusInv
<1>2. ASSUME NEW o \in Outbounds, Settled(o) PROVE ~Late(t, o)
  <2>1. stable[o] \in Nat /\ checkIn \in 0..2 BY <1>1, LateTypes, Zenon
  <2>2. SettleTicks \in Nat /\ SettleTicks >= 6
    BY BalanceAssumption DEF BalanceAssumption, ProbedRoutes
  <2>3. stable[o] >= 6 BY <1>2, <2>1, <2>2 DEF Settled
  <2> QED BY <2>1, <2>3 DEF Late
<1>3. status[t] # NoStatus => status[t].out[1] \in Outbounds
  BY <1>1, HandlerParts, Zenon DEF OwnOK
<1>4. routes[t] \subseteq Outbounds BY <1>1, RouteFacts, Zenon
<1> QED BY <1>1, <1>2, <1>3, <1>4, Zenon DEF OwnOK, AllOK

(* Half a minute after it went down an outbound is chosen no more for a     *)
(* target that has a way, while some target has a way that is up and none   *)
(* that has changed since.                                                  *)
THEOREM FailoverTheorem ==
  ASSUME ProbedRoutes
  PROVE  Spec => []FailoverBound
<1>1. BalanceInv => FailoverBound
  <2> SUFFICES ASSUME BalanceInv, NEW t \in BestTargets, routes[t] # {},
                      latency[status[t].out[1]] = Down, Settled(status[t].out[1]),
                      NEW u \in Targets, \A q \in routes[u] : Settled(q),
                      NEW p \in routes[u], latency[p] # Down
               PROVE  FALSE
    BY Zenon DEF FailoverBound
  <2>1. t \in Targets /\ status[t] # NoStatus /\ status[u].score <= status[t].score
    BY Zenon DEF BestTargets
  <2>2. status[t].score = ScoreFor(Down) BY <2>1, SettledStatus, Zenon
  <2>3. status[u].score >= ScoreFor(latency[p]) BY SettledStatus, Zenon
  <2>4. latency[p] \in Latencies BY RouteFacts, Zenon DEF BalanceInv, BalanceTypes
  <2>5. ScoreFor(latency[p]) > ScoreFor(Down)
    <3>1. \A l \in Latencies : ScoreFor(l) > ScoreFor(Down) BY ScoreFacts, Zenon
    <3> QED BY <2>4, <3>1, Zenon
  <2>6. PICK a \in Int : a = ScoreFor(latency[p])
    <3>1. latency[p] \in Latencies \cup {Down} BY <2>4, Zenon
    <3>2. ScoreFor(latency[p]) \in Int BY <3>1, ScoreType, Zenon
    <3> QED BY <3>2, Zenon
  <2>7. PICK n \in Int : n = status[u].score BY Zenon DEF BalanceInv, BalanceTypes
  <2>8. ScoreFor(Down) = 200 BY DEF ScoreFor, Down
  <2>9. n <= 200 /\ n >= a /\ a > 200 BY <2>1, <2>2, <2>3, <2>5, <2>6, <2>7, <2>8, Zenon
  <2> QED BY <2>9
<1> QED BY <1>1, BalanceInvariant, PTL

(* Half a minute after the last change every choice for a target that has a *)
(* way is one of its ways, and the fastest that any target has.             *)
THEOREM FastestTheorem ==
  ASSUME ProbedRoutes
  PROVE  Spec => []PicksFastest
<1>1. ASSUME BalanceInv, \A o \in Outbounds : Settled(o), NEW t \in BestTargets,
             routes[t] # {}
      PROVE  status[t].out[1] \in routes[t]
  <2>1. t \in Targets /\ status[t] # NoStatus BY Zenon DEF BestTargets
  <2> QED BY <1>1, <2>1, SettledStatus, Zenon
<1>2. ASSUME BalanceInv, \A o \in Outbounds : Settled(o), NEW t \in BestTargets,
             routes[t] # {}, NEW p \in Routed
      PROVE  latency[status[t].out[1]] <= latency[p]
  <2>1. PICK u \in Targets : p \in routes[u] BY Zenon DEF Routed
  <2>2. t \in Targets /\ status[t] # NoStatus /\ status[u].score <= status[t].score
    BY Zenon DEF BestTargets
  <2>3. PICK o : o = status[t].out[1] BY Zenon
  <2>0. routes[u] \subseteq Outbounds BY <1>2, RouteFacts, Zenon DEF BalanceInv
  <2>4. o \in Outbounds /\ p \in Outbounds
    BY <1>2, <2>0, <2>1, <2>2, <2>3, SettledStatus, Zenon
  <2>5. status[t].score = ScoreFor(latency[o]) BY <1>2, <2>2, <2>3, <2>4, SettledStatus, Zenon
  <2>6. status[u].score >= ScoreFor(latency[p])
    <3>1. \A q \in routes[u] : Settled(q) BY <1>2, <2>0, Zenon
    <3> QED BY <1>2, <2>1, <3>1, SettledStatus, Zenon
  <2>7. latency[o] \in Latencies \cup {Down} /\ latency[p] \in Latencies \cup {Down}
    BY <1>2, <2>4, Zenon DEF BalanceInv, BalanceTypes
  <2>8. ScoreFor(latency[o]) \in Int BY <2>7, ScoreType, Zenon
  <2>9. ScoreFor(latency[p]) \in Int BY <2>7, ScoreType, Zenon
  <2>10. PICK n \in Int : n = status[u].score BY <1>2, Zenon DEF BalanceInv, BalanceTypes
  <2>11. PICK a \in Int : a = ScoreFor(latency[o]) BY <2>8, Zenon
  <2>12. PICK b \in Int : b = ScoreFor(latency[p]) BY <2>9, Zenon
  <2>13. n <= a /\ n >= b BY <2>2, <2>5, <2>6, <2>10, <2>11, <2>12, Zenon
  <2>14. a >= b BY <2>13
  <2>15. ScoreFor(latency[o]) >= ScoreFor(latency[p]) BY <2>11, <2>12, <2>14, Zenon
  <2> QED BY <2>3, <2>7, <2>15, ScoreFacts
<1>3. BalanceInv => PicksFastest BY <1>1, <1>2, Zenon DEF PicksFastest
<1> QED BY <1>3, BalanceInvariant, PTL

=============================================================================
