----------------------------- MODULE AgentProofs -----------------------------
(* Proofs about the agent of a node: HotReload, for any configurations and   *)
(* any number of updates, and ControlClient, the client that fetches them.   *)
EXTENDS HotReload, ControlClient, FiniteSetTheorems, TLAPS

-----------------------------------------------------------------------------
(* Types.  The wait group's counter is a natural number because it counts   *)
(* the service goroutines, each of which is started once.                   *)

TypeInv ==
  /\ TypeOK
  /\ wg = Cardinality(services)
  /\ agent = "new" => pc[0] = "idle"
  /\ pc[0] \in {"idle", "outbounds", "sync", "services"} => services = {}
  /\ pc[0] \in {"subscribe", "quic"} => services \subseteq {"admin"}

(* The set of running services is finite, so it has a cardinality. *)
LEMMA ServicesFinite == ASSUME TypeOK PROVE IsFiniteSet(services)
<1>1. IsFiniteSet({"admin"}) /\ IsFiniteSet({"quic"}) BY FS_Singleton, Zenon
<1>2. IsFiniteSet(ServiceNames)
  <2>1. ServiceNames = {"admin"} \cup {"quic"} BY Zenon DEF ServiceNames
  <2> QED BY <1>1, <2>1, FS_Union, Zenon
<1> QED BY <1>2, FS_Subset, Zenon DEF TypeOK

(* The version a worker applies is one of the versions. *)
LEMMA WorkerVersion ==
  ASSUME TypeOK, NEW w \in Workers
  PROVE  VersionOf(w) \in Versions /\ ConfigOf(w) \in Configs
BY Zenon DEF TypeOK, VersionOf, ConfigOf, Versions, Workers

(* 0 is a worker and a version. *)
LEMMA Zero == 0 \in Versions /\ 0 \in Workers
BY ConfigsAssumption DEF ConfigsAssumption, Versions, Workers

(* A stored update has a worker of its own. *)
LEMMA NextWorker ==
  ASSUME NEW v \in Versions, v < MaxUpdates
  PROVE  v + 1 \in Workers /\ v + 1 > v /\ \A u \in Versions : u <= v => u <= v + 1
<1>1. MaxUpdates \in Nat BY ConfigsAssumption, Zenon DEF ConfigsAssumption
<1> QED BY <1>1 DEF Versions, Workers

(* The steps of a reload worker keep the types. *)
LEMMA TypeWorker ==
  ASSUME TypeOK, NEW w \in Workers, WorkerStep(w)
  PROVE  TypeOK'
<1>a. VersionOf(w) \in Versions /\ ConfigOf(w) \in Configs BY WorkerVersion, Zenon
<1>1. CASE AddOutbound(w)
  <2>1. OutboundsOf[ConfigOf(w)] \in Seq(Names)
    BY <1>a, ConfigsAssumption, Zenon DEF ConfigsAssumption
  <2>2. next[w] \in 1..Len(OutboundsOf[ConfigOf(w)])
    BY <1>1, <2>1 DEF AddOutbound, TypeOK
  <2>3. OutboundsOf[ConfigOf(w)][next[w]] \in Names BY <2>1, <2>2
  <2>4. next' \in [Workers -> Nat \ {0}] BY <1>1 DEF AddOutbound, TypeOK
  <2>5. outbounds' \in [Names -> Versions \cup {None}]
    BY <1>1, <1>a, <2>3, Zenon DEF AddOutbound, TypeOK
  <2> QED BY <1>1, <2>4, <2>5, Zenon DEF AddOutbound, TypeOK, agentVars, configVars,
             inboundVars
<1>2. CASE UpdateRules(w)
  <2>1. pc' \in [Workers -> WorkerStates] BY <1>2, Zenon DEF UpdateRules, TypeOK,
                                             WorkerStates
  <2> QED BY <1>2, <1>a, <2>1, Zenon DEF UpdateRules, TypeOK, agentVars, configVars,
             inboundVars
<1>3. CASE SyncInbounds(w)
  <2>1. pc' \in [Workers -> WorkerStates] BY <1>3, Zenon DEF SyncInbounds, TypeOK,
                                             WorkerStates
  <2>2. activeInbounds' \in [Keys -> Workers \cup {None}]
    BY <1>3, Zenon DEF SyncInbounds, TypeOK
  <2>3. handlers' \in [Handlers -> HandlerStates]
    BY <1>3, Zenon DEF SyncInbounds, TypeOK, StopEffect, HandlerStates
  <2>4. stopCalled' \subseteq Handlers
    BY <1>3 DEF SyncInbounds, TypeOK, Removed, Handlers
  <2>5. stoppedEarly' \subseteq stoppedEarly \cup stopCalled' BY <1>3, Zenon DEF SyncInbounds
  <2>6. stoppedEarly' \subseteq Handlers BY <2>4, <2>5, Zenon DEF TypeOK
  <2> QED
    BY <1>3, <2>1, <2>2, <2>3, <2>4, <2>6, Zenon DEF SyncInbounds, TypeOK, agentVars,
       configVars, routerVars
<1> QED BY <1>1, <1>2, <1>3, Zenon DEF WorkerStep

(* The other steps keep the types. *)
LEMMA TypeRest ==
  ASSUME TypeOK, \/ \E c \in Configs : Update(c)
                 \/ Start \/ Subscribe \/ Stop \/ StopReturns
                 \/ \E h \in Handlers : HandlerStep(h)
                 \/ UNCHANGED vars
  PROVE  TypeOK'
<1>1. ASSUME NEW c \in Configs, Update(c) PROVE TypeOK'
  <2>1. latest + 1 \in Versions /\ latest + 1 \in Workers
    BY <1>1, ConfigsAssumption DEF ConfigsAssumption, Update, TypeOK, Versions, Workers
  <2>2. pc' \in [Workers -> WorkerStates] BY <1>1, Zenon DEF Update, TypeOK, WorkerStates
  <2> QED
    BY <1>1, <2>1, <2>2, Zenon DEF Update, TypeOK, agentVars, routerVars, inboundVars
<1>2. CASE Start \/ Subscribe \/ Stop \/ StopReturns
  BY <1>2, Zenon DEF Start, Subscribe, Stop, StopReturns, TypeOK, WorkerStates, agentVars,
     configVars, routerVars, inboundVars
<1>3. ASSUME NEW h \in Handlers, HandlerStep(h) PROVE TypeOK'
  BY <1>3, Zenon DEF HandlerStep, ListenOK, ListenFail, AcceptLoopReturns,
     HTTPServerCloses,
     Move, TypeOK, HandlerStates, agentVars, configVars, routerVars
<1>4. CASE UNCHANGED vars
  BY <1>4, Zenon DEF vars, agentVars, configVars, routerVars, inboundVars, TypeOK
<1> QED BY <1>1, <1>2, <1>3, <1>4, Zenon

(* The service steps keep the wait group equal to the number of services. *)
LEMMA TypeServices ==
  ASSUME TypeInv, \/ StartHTTPServices \/ StartQUICServer
                  \/ \E x \in ServiceNames : ServiceStops(x) \/ ServiceFails(x)
  PROVE  TypeInv'
<1> USE Zero
<1>a. IsFiniteSet(services) BY ServicesFinite, Zenon DEF TypeInv
<1>b. ASSUME wg' \in Nat, services' \subseteq ServiceNames, pc' \in [Workers -> WorkerStates],
             UNCHANGED <<agent, ctxDone, startVersion, configVars, next, routerVars,
             inboundVars>>
      PROVE  TypeOK'
  BY <1>b, Zenon DEF TypeInv, TypeOK, configVars, routerVars, inboundVars
<1>1. CASE StartHTTPServices
  <2>1. services = {} BY <1>1, Zenon DEF StartHTTPServices, TypeInv
  <2>2. Cardinality(services') = 1 /\ wg' = 1
    <3>1. services' = {"admin"} BY <1>1, <2>1, Zenon DEF StartHTTPServices
    <3>2. wg = 0 BY <2>1, FS_EmptySet, Zenon DEF TypeInv
    <3> QED BY <1>1, <3>1, <3>2, FS_Singleton DEF StartHTTPServices
  <2>3. TypeOK'
    BY <1>1, <1>b, <2>2 DEF StartHTTPServices, TypeInv, TypeOK, WorkerStates, ServiceNames
  <2> QED BY <1>1, <2>1, <2>2, <2>3, Zenon DEF StartHTTPServices, TypeInv, TypeOK
<1>2. CASE StartQUICServer
  <2>1. "quic" \notin services BY <1>2, Zenon DEF StartQUICServer, TypeInv
  <2>2. Cardinality(services') = Cardinality(services) + 1
    BY <1>2, <1>a, <2>1, FS_AddElement, Zenon DEF StartQUICServer
  <2>3. TypeOK'
    BY <1>2, <1>b DEF StartQUICServer, TypeInv, TypeOK, WorkerStates, ServiceNames
  <2> QED BY <1>2, <2>2, <2>3, Zenon DEF StartQUICServer, TypeInv, TypeOK
<1>3. ASSUME NEW x \in ServiceNames, ServiceStops(x) \/ ServiceFails(x) PROVE TypeInv'
  <2>1. x \in services /\ services' = services \ {x} /\ wg' = wg - 1
    BY <1>3, Zenon DEF ServiceStops, ServiceFails
  <2>2. Cardinality(services') = Cardinality(services) - 1 /\ IsFiniteSet(services')
    BY <1>a, <2>1, FS_RemoveElement, Zenon
  <2>3. wg' \in Nat BY <2>1, <2>2, FS_CardinalityType, Zenon DEF TypeInv
  <2>4. TypeOK'
    BY <1>3, <1>b, <2>1, <2>3, Zenon DEF ServiceStops, ServiceFails, TypeInv, TypeOK
  <2> QED BY <1>3, <2>1, <2>2, <2>4, Zenon DEF ServiceStops, ServiceFails, TypeInv
<1> QED BY <1>1, <1>2, <1>3, Zenon

(* The type invariant holds in every reachable state. *)
LEMMA TypeInvariant == Spec => []TypeInv
<1>1. Init => TypeInv
  <2> SUFFICES ASSUME Init PROVE TypeInv BY Zenon
  <2>1. TypeOK
    <3>1. InitialConfig \in Configs BY ConfigsAssumption, Zenon DEF ConfigsAssumption
    <3>2. configOf \in [Versions -> Configs] BY <3>1, Zenon DEF Init
    <3>3. outbounds \in [Names -> Versions \cup {None}] BY Zenon DEF Init
    <3>4. activeInbounds \in [Keys -> Workers \cup {None}] BY Zenon DEF Init
    <3>5. handlers \in [Handlers -> HandlerStates] BY Zenon DEF Init, HandlerStates
    <3>6. pc \in [Workers -> WorkerStates] /\ next \in [Workers -> Nat \ {0}]
      BY DEF Init, WorkerStates
    <3>7. ctxDone \in BOOLEAN /\ subscribed \in BOOLEAN BY Zenon DEF Init
    <3>8. latest \in Versions /\ startVersion \in Versions /\ rules = None
      BY Zero, Zenon DEF Init
    <3>9. /\ stopCalled \subseteq Handlers /\ stoppedEarly \subseteq Handlers
          /\ services \subseteq ServiceNames /\ wg \in Nat
      BY Zenon DEF Init
    <3>10. agent = "new" /\ disorder = {} BY Zenon DEF Init
    <3> QED
      BY <3>2, <3>3, <3>4, <3>5, <3>6, <3>7, <3>8, <3>9, <3>10, Zenon DEF TypeOK
  <2>2. wg = Cardinality(services) BY FS_EmptySet, Zenon DEF Init
  <2> QED BY <2>1, <2>2, Zero, Zenon DEF Init, TypeInv
<1>2. TypeInv /\ [Next]_vars => TypeInv'
  <2> SUFFICES ASSUME TypeInv, [Next]_vars PROVE TypeInv' BY Zenon
  <2> USE Zero
  <2>1. ASSUME TypeOK', UNCHANGED <<services, wg>>,
               agent' = "new" => agent = "new" /\ pc'[0] = pc[0],
               \/ pc'[0] = pc[0]
               \/ pc'[0] \in {"idle", "outbounds", "sync", "services"}
                    /\ pc[0] \in {"idle", "outbounds", "sync", "services"}
               \/ pc[0] = "subscribe" /\ pc'[0] = "quic"
        PROVE  TypeInv'
    BY <2>1, Zenon DEF TypeInv
  <2>2. ASSUME NEW w \in Workers, WorkerStep(w) PROVE TypeInv'
    <3>1. TypeOK' BY <2>2, TypeWorker, Zenon DEF TypeInv
    <3> QED
      BY <2>1, <2>2, <3>1, ZenonT(30) DEF WorkerStep, AddOutbound, UpdateRules, SyncInbounds,
         TypeInv, TypeOK, agentVars
  <2>3. ASSUME NEW c \in Configs, Update(c) PROVE TypeInv'
    <3>1. TypeOK' BY <2>3, TypeRest, Zenon DEF TypeInv
    <3>2. latest + 1 # 0 BY DEF TypeInv, TypeOK, Versions
    <3>3. pc'[0] = pc[0] BY <2>3, <3>2, Zenon DEF Update, TypeInv, TypeOK
    <3> QED BY <2>1, <2>3, <3>1, <3>3, Zenon DEF Update, agentVars
  <2>4. CASE Start \/ Subscribe \/ Stop \/ StopReturns
    <3>1. TypeOK' BY <2>4, TypeRest, Zenon DEF TypeInv
    <3>2. CASE Start
      <4>1. /\ pc[0] = "idle" /\ pc'[0] = "outbounds"
            /\ agent' # "new" /\ UNCHANGED <<services, wg>>
        BY <3>2, Zenon DEF Start, TypeInv, TypeOK
      <4> QED BY <2>1, <3>1, <4>1, Zenon
    <3>3. CASE Subscribe
      BY <2>1, <3>1, <3>3, Zenon DEF Subscribe, TypeInv, TypeOK, agentVars
    <3>4. CASE Stop \/ StopReturns
      BY <2>1, <3>1, <3>4, Zenon DEF Stop, StopReturns
    <3> QED BY <2>4, <3>2, <3>3, <3>4, Zenon
  <2>5. ASSUME NEW h \in Handlers, HandlerStep(h) PROVE TypeInv'
    <3>1. TypeOK' BY <2>5, TypeRest, Zenon DEF TypeInv
    <3> QED
      BY <2>1, <2>5, <3>1, Zenon DEF HandlerStep, ListenOK, ListenFail, AcceptLoopReturns,
         HTTPServerCloses, Move, agentVars
  <2>6. CASE UNCHANGED vars
    <3>1. TypeOK' BY <2>6, TypeRest, Zenon DEF TypeInv
    <3> QED BY <2>1, <2>6, <3>1, Zenon DEF vars, agentVars
  <2> QED
    BY <2>2, <2>3, <2>4, <2>5, <2>6, TypeServices, Zenon DEF Next, StartStep
<1> QED BY <1>1, <1>2, PTL DEF Spec

(* Type correctness; in particular Agent.wg never goes negative. *)
THEOREM TypeCorrect == Spec => []TypeOK
<1>1. TypeInv => TypeOK BY Zenon DEF TypeInv
<1> QED BY <1>1, TypeInvariant, PTL

-----------------------------------------------------------------------------
(* Routing.  A worker swaps in its rules only after adding its outbounds,   *)
(* and an outbound once added is only ever replaced.                        *)

Installed(c, k) == \A i \in 1..Len(OutboundsOf[c]) : i < k => outbounds[OutboundsOf[c][i]] # None

RouteInv ==
  /\ agent = "new" => pc[0] = "idle"
  /\ pc[0] # "idle" => startVersion <= latest
  /\ \A w \in Workers : w > latest => pc[w] = "idle"
  /\ \A w \in Workers : pc[w] = "idle" => next[w] = 1
  /\ \A w \in Workers : pc[w] = "outbounds" => Installed(ConfigOf(w), next[w])
  /\ rules # None =>
       /\ rules <= latest
       /\ \A n \in Declared(configOf[rules]) : outbounds[n] # None

(* A step that stores no configuration and starts no worker. *)
LEMMA RouteFrame ==
  ASSUME TypeOK, RouteInv, UNCHANGED <<latest, configOf, startVersion, next, outbounds,
  rules>>,
         agent' = agent \/ agent' # "new",
         \A w \in Workers : pc'[w] = pc[w] \/ (pc[w] # "idle" /\ pc'[w] \notin {"idle", "outbounds"})
  PROVE  RouteInv'
<1>1. \A w \in Workers : ConfigOf(w)' = ConfigOf(w) BY Zenon DEF ConfigOf, VersionOf
<1> QED BY <1>1, Zero DEF RouteInv, Installed, TypeOK

(* Storing a new configuration changes no configuration already in force. *)
LEMMA RouteUpdate ==
  ASSUME TypeOK, RouteInv, NEW c \in Configs, Update(c)
  PROVE  RouteInv'
<1> DEFINE v == latest + 1
<1>a. v \in Workers /\ v \in Versions /\ v # 0 /\ v > latest
  BY ConfigsAssumption DEF ConfigsAssumption, Update, TypeOK, Versions, Workers
<1>b. pc[v] = "idle" /\ next[v] = 1 BY <1>a, Zenon DEF RouteInv
<1>c. \A x \in Versions : x <= latest => configOf'[x] = configOf[x]
  BY <1>a DEF Update, TypeOK, Versions
<1>d. \A w \in Workers : w # v => pc'[w] = pc[w] BY Zenon DEF Update, TypeOK
<1>1. (agent' = "new" => pc'[0] = "idle") /\ (pc'[0] # "idle" => startVersion' <= latest')
  BY <1>a, <1>d, Zero DEF RouteInv, Update, agentVars, TypeOK, Versions
<1>2. \A w \in Workers : w > latest' => pc'[w] = "idle"
  BY <1>a, <1>d DEF RouteInv, Update, TypeOK, Versions, Workers
<1>3. \A w \in Workers : pc'[w] = "idle" => next'[w] = 1
  BY <1>b, <1>d, Zenon DEF RouteInv, Update
<1>4. ASSUME NEW w \in Workers, pc'[w] = "outbounds" PROVE Installed(ConfigOf(w), next[w])'
  <2>1. CASE w = v
    <3>1. next'[w] = 1 BY <1>b, <2>1, Zenon DEF Update
    <3> QED BY <3>1 DEF Installed
  <2>2. CASE w # v
    <3>1. pc[w] = "outbounds" /\ w <= latest
      BY <1>4, <1>d, <2>2 DEF RouteInv, TypeOK, Versions, Workers
    <3>2. VersionOf(w) \in Versions /\ VersionOf(w) <= latest
      BY <3>1, WorkerVersion, Zenon DEF VersionOf, RouteInv
    <3>3. ConfigOf(w)' = ConfigOf(w)
      BY <1>c, <3>2, Zenon DEF ConfigOf, VersionOf, Update, agentVars
    <3> QED BY <3>1, <3>3, Zenon DEF RouteInv, Installed, Update, routerVars
  <2> QED BY <2>1, <2>2, Zenon
<1>5. rules' # None => /\ rules' <= latest'
                       /\ \A n \in Declared(configOf'[rules']) : outbounds'[n] # None
  <2>1. UNCHANGED <<rules, outbounds>> /\ latest' = latest + 1
    BY Zenon DEF Update, routerVars
  <2>2. rules # None => rules \in Versions /\ rules <= latest /\ configOf'[rules] = configOf[rules]
    BY <1>c, Zenon DEF RouteInv, TypeOK
  <2>3. rules # None => rules <= latest + 1
    <3>1. latest \in Versions /\ latest < MaxUpdates BY Zenon DEF TypeOK, Update
    <3> QED BY <2>2, <3>1, NextWorker, Zenon
  <2>4. rules # None => \A n \in Declared(configOf[rules]) : outbounds[n] # None
    BY Zenon DEF RouteInv
  <2> QED BY <2>1, <2>2, <2>3, <2>4, Zenon
<1> QED BY <1>1, <1>2, <1>3, <1>4, <1>5, Zenon DEF RouteInv, Declared

(* The steps of a reload worker keep the routing invariant. *)
LEMMA RouteWorker ==
  ASSUME TypeOK, RouteInv, NEW w \in Workers, WorkerStep(w)
  PROVE  RouteInv'
<1>a. VersionOf(w) \in Versions /\ ConfigOf(w) \in Configs BY WorkerVersion, Zenon
<1>b. OutboundsOf[ConfigOf(w)] \in Seq(Names)
  BY <1>a, ConfigsAssumption, Zenon DEF ConfigsAssumption
<1>c. \A x \in Workers : UNCHANGED <<configOf, startVersion>> => ConfigOf(x)' = ConfigOf(x)
  BY Zenon DEF ConfigOf, VersionOf
<1>1. CASE AddOutbound(w)
  <2>1. UNCHANGED <<agent, pc, rules, latest, configOf, startVersion>>
    BY <1>1, Zenon DEF AddOutbound, agentVars, configVars
  <2>2. next[w] \in 1..Len(OutboundsOf[ConfigOf(w)]) /\ next[w] \in Nat
    BY <1>1, <1>b DEF AddOutbound, TypeOK
  <2>3. /\ outbounds'[OutboundsOf[ConfigOf(w)][next[w]]] # None
        /\ \A n \in Names : outbounds[n] # None => outbounds'[n] # None
    <3>1. VersionOf(w) # None BY <1>a DEF Versions, None
    <3>2. OutboundsOf[ConfigOf(w)][next[w]] \in Names BY <1>b, <2>2
    <3> QED BY <1>1, <3>1, <3>2, Zenon DEF AddOutbound, TypeOK
  <2>4. \A c \in Configs : \A i \in 1..Len(OutboundsOf[c]) : OutboundsOf[c][i] \in Names
    BY ConfigsAssumption DEF ConfigsAssumption
  <2>5. ASSUME NEW x \in Workers, pc'[x] = "outbounds" PROVE Installed(ConfigOf(x), next[x])'
    <3>1. Installed(ConfigOf(x), next[x]) /\ ConfigOf(x)' = ConfigOf(x) /\ ConfigOf(x) \in Configs
      BY <1>c, <2>1, <2>5, WorkerVersion, Zenon DEF RouteInv
    <3>2. CASE x # w
      <4>1. next'[x] = next[x] BY <1>1, <3>2, Zenon DEF AddOutbound, TypeOK
      <4> QED BY <2>3, <2>4, <3>1, <4>1, Zenon DEF Installed
    <3>3. CASE x = w
      <4>1. next'[w] = next[w] + 1 BY <1>1, Zenon DEF AddOutbound, TypeOK
      <4>2. \A i \in 1..Len(OutboundsOf[ConfigOf(w)]) : i < next[w] + 1 => i < next[w] \/ i = next[w]
        BY <1>b, <2>2
      <4> QED BY <2>3, <2>4, <3>1, <3>3, <4>1, <4>2, Zenon DEF Installed
    <3> QED BY <3>2, <3>3, Zenon
  <2>6. ASSUME rules # None, NEW n \in Declared(configOf[rules]) PROVE outbounds'[n] # None
    <3>1. configOf[rules] \in Configs BY <2>6, Zenon DEF TypeOK
    <3>2. n \in Names
      BY <2>6, <3>1, ConfigsAssumption DEF ConfigsAssumption, Declared
    <3> QED BY <2>3, <2>6, <3>2, Zenon DEF RouteInv
  <2>7. \A x \in Workers : pc[x] = "idle" => next'[x] = next[x]
    BY <1>1, Zenon DEF AddOutbound, TypeOK
  <2> QED BY <2>1, <2>5, <2>6, <2>7 DEF RouteInv, Declared
<1>2. CASE UpdateRules(w)
  <2>1. /\ UNCHANGED <<agent, latest, configOf, startVersion, next, outbounds>>
        /\ rules' = VersionOf(w)
        /\ pc' = [pc EXCEPT ![w] = "sync"]
        /\ pc[w] = "outbounds"
    BY <1>2, Zenon DEF UpdateRules, agentVars, configVars
  <2>2. VersionOf(w) <= latest
    BY <2>1 DEF RouteInv, VersionOf, TypeOK, Versions, Workers
  <2>3. ASSUME NEW n \in Declared(ConfigOf(w)) PROVE outbounds[n] # None
    <3>1. PICK i \in DOMAIN OutboundsOf[ConfigOf(w)] : n = OutboundsOf[ConfigOf(w)][i]
      BY Zenon DEF Declared
    <3>2. i \in 1..Len(OutboundsOf[ConfigOf(w)]) /\ i < next[w]
      BY <1>2, <1>b, <3>1 DEF UpdateRules, TypeOK
    <3> QED BY <2>1, <3>1, <3>2, Zenon DEF RouteInv, Installed
  <2>4. \A x \in Workers : pc'[x] = "idle" => pc[x] = "idle"
    BY <2>1, Zenon DEF TypeOK
  <2>5. \A x \in Workers : pc'[x] = "outbounds" => pc[x] = "outbounds"
    BY <2>1, Zenon DEF TypeOK
  <2>6. \A x \in Workers : pc[x] = "idle" => pc'[x] = "idle"
    BY <2>1, Zenon DEF TypeOK
  <2>7. \A x \in Workers : Installed(ConfigOf(x), next[x])' <=> Installed(ConfigOf(x), next[x])
    BY <1>c, <2>1, Zenon DEF Installed
  <2>8. configOf'[rules'] = ConfigOf(w) BY <2>1, Zenon DEF ConfigOf
  <2>9. (agent' = "new" => pc'[0] = "idle") /\ (pc'[0] # "idle" => startVersion' <= latest')
    BY <2>1, <2>4, <2>6, Zero, Zenon DEF RouteInv
  <2>10. \A x \in Workers : (x > latest' => pc'[x] = "idle") /\ (pc'[x] = "idle" => next'[x] = 1)
    BY <2>1, <2>4, <2>6, Zenon DEF RouteInv
  <2>11. \A x \in Workers : pc'[x] = "outbounds" => Installed(ConfigOf(x), next[x])'
    BY <2>5, <2>7, Zenon DEF RouteInv
  <2>12. rules' <= latest' /\ \A n \in Declared(configOf'[rules']) : outbounds'[n] # None
    BY <2>1, <2>2, <2>3, <2>8, Zenon
  <2> QED BY <2>9, <2>10, <2>11, <2>12, Zenon DEF RouteInv, Declared
<1>3. CASE SyncInbounds(w)
  BY <1>3, RouteFrame, Zenon DEF SyncInbounds, agentVars, configVars, routerVars, TypeOK
<1> QED BY <1>1, <1>2, <1>3, Zenon DEF WorkerStep

(* The routing invariant holds in every reachable state. *)
LEMMA RouteInvariant == Spec => []RouteInv
<1>1. Init => RouteInv
  BY Zero, Zenon DEF Init, RouteInv
<1>2. TypeOK /\ RouteInv /\ [Next]_vars => RouteInv'
  <2> SUFFICES ASSUME TypeOK, RouteInv, [Next]_vars PROVE RouteInv' BY Zenon
  <2> USE Zero
  <2>1. CASE Start
    <3>1. /\ UNCHANGED <<latest, configOf, next, outbounds, rules>>
          /\ startVersion' = latest /\ agent' = "running"
          /\ pc[0] = "idle" /\ pc' = [pc EXCEPT ![0] = "outbounds"]
      BY <2>1, Zenon DEF Start, configVars, routerVars, RouteInv
    <3>2. \A w \in Workers : w # 0 => pc'[w] = pc[w] /\ ConfigOf(w)' = ConfigOf(w)
      BY <3>1, Zenon DEF ConfigOf, VersionOf, TypeOK
    <3>3. next[0] = 1 BY <3>1, Zenon DEF RouteInv
    <3>4. Installed(ConfigOf(0), next[0])' BY <3>1, <3>3 DEF Installed
    <3>5. \A w \in Workers : pc'[w] = "outbounds" => Installed(ConfigOf(w), next[w])'
      BY <3>1, <3>2, <3>4 DEF RouteInv, Installed
    <3>6. \A w \in Workers : w > latest' => pc'[w] = "idle"
      BY <3>1, <3>2 DEF RouteInv, TypeOK, Versions
    <3>7. \A w \in Workers : pc'[w] = "idle" => next'[w] = 1
      BY <3>1, <3>2, <3>3, Zenon DEF RouteInv
    <3>8. startVersion' <= latest' BY <3>1 DEF TypeOK, Versions
    <3> QED BY <3>1, <3>5, <3>6, <3>7, <3>8, Zenon DEF RouteInv, Declared
  <2>2. CASE StartStep
    BY <2>2, RouteFrame, Zenon DEF StartStep, StartHTTPServices, Subscribe,
       StartQUICServer,
       agentVars, configVars, routerVars, TypeOK
  <2>3. CASE Stop \/ StopReturns
    BY <2>3, RouteFrame, Zenon DEF Stop, StopReturns, configVars, routerVars
  <2>4. ASSUME NEW h \in Handlers, HandlerStep(h) PROVE RouteInv'
    BY <2>4, RouteFrame, Zenon DEF HandlerStep, ListenOK, ListenFail, AcceptLoopReturns,
       HTTPServerCloses, Move, agentVars, configVars, routerVars
  <2>5. ASSUME NEW x \in ServiceNames, ServiceStops(x) \/ ServiceFails(x) PROVE RouteInv'
    BY <2>5, RouteFrame, Zenon DEF ServiceStops, ServiceFails, configVars, routerVars
  <2>6. CASE UNCHANGED vars
    BY <2>6, RouteFrame, Zenon DEF vars, agentVars, configVars, routerVars
  <2> QED BY <2>1, <2>2, <2>3, <2>4, <2>5, <2>6, RouteUpdate, RouteWorker, Zenon DEF Next
<1> QED BY <1>1, <1>2, TypeCorrect, PTL DEF Spec

(* However reloads interleave, there is no moment at which a target whose   *)
(* rule names a declared outbound has no route.                             *)
THEOREM RoutesTheorem == Spec => []RoutesByName
<1>1. TypeOK /\ RouteInv => RoutesByName
  <2> SUFFICES ASSUME TypeOK, RouteInv, rules # None, NEW t \in Targets, Matching(t) # {},
                      FirstMatch(t).outbound \in Declared(configOf[rules])
               PROVE  Route(t) = {FirstMatch(t).outbound}
    BY Zenon DEF RoutesByName
  <2>1. configOf[rules] \in Configs BY Zenon DEF TypeOK
  <2>2. FirstMatch(t).outbound \in Names
    BY <2>1, ConfigsAssumption DEF ConfigsAssumption, Declared
  <2>3. FirstMatch(t).outbound # NoName
    BY <2>2, ConfigsAssumption, Zenon DEF ConfigsAssumption
  <2>4. FirstMatch(t).outbound \in Present BY <2>2, Zenon DEF Present, RouteInv
  <2> QED BY <2>3, <2>4, Zenon DEF Route
<1> QED BY <1>1, TypeCorrect, RouteInvariant, PTL

-----------------------------------------------------------------------------
(* Inbounds.  A worker makes handlers only in its one syncInbounds call, so *)
(* before that no handler carries its number.                               *)

Synced == {"services", "subscribe", "quic", "done"}

Open == {"starting", "listening"}

InboundInv ==
  \A h \in Handlers :
    /\ handlers[h] # "none" => ((activeInbounds[h[1]] = h[2]) # (h \in stopCalled))
    /\ activeInbounds[h[1]] = h[2] => handlers[h] # "none" /\ h \notin stopCalled
    /\ handlers[h] # "none" \/ h \in stopCalled => pc[h[2]] \in Synced
    /\ h \in stopCalled => h \in stoppedEarly \/ handlers[h] \notin Open

(* Steps that leave the inbounds alone keep the inbound invariant. *)
LEMMA InboundFrame ==
  ASSUME InboundInv, TypeOK, UNCHANGED <<activeInbounds, stopCalled, stoppedEarly>>,
         \A h \in Handlers : (handlers'[h] # "none") <=> (handlers[h] # "none"),
         \A h \in Handlers : handlers'[h] \in Open => handlers[h] \in Open,
         \A w \in Workers : pc[w] \in Synced => pc'[w] \in Synced
  PROVE  InboundInv'
<1>1. \A h \in Handlers : h[1] \in Keys /\ h[2] \in Workers BY Zenon DEF Handlers
<1> QED BY <1>1, Zenon DEF InboundInv

(* SyncInbounds keeps the inbound invariant. *)
LEMMA InboundSync ==
  ASSUME InboundInv, TypeOK, NEW w \in Workers, SyncInbounds(w)
  PROVE  InboundInv'
<1> DEFINE wanted == DOMAIN InboundsOf[ConfigOf(w)]
           stopped == {<<k, activeInbounds[k]>> : k \in Removed(wanted)}
           started == Added(wanted) \X {w}
<1>a. wanted \subseteq Keys
  BY WorkerVersion, ConfigsAssumption, Zenon DEF ConfigsAssumption
<1>b. /\ pc[w] = "sync"
      /\ handlers' = [h \in Handlers |-> IF h \in stopped THEN StopEffect(h)
                                         ELSE IF h \in started THEN "starting"
                                         ELSE handlers[h]]
      /\ stopCalled' = stopCalled \cup stopped
      /\ stoppedEarly' = stoppedEarly \cup {h \in stopped : handlers[h] = "starting"}
      /\ activeInbounds' = [k \in Keys |-> IF k \in Removed(wanted) THEN None
                                           ELSE IF k \in Added(wanted) THEN w
                                           ELSE activeInbounds[k]]
      /\ pc' = [pc EXCEPT ![w] = IF w = 0 THEN "services" ELSE "done"]
  BY Zenon DEF SyncInbounds
<1>c. ASSUME NEW x \in Workers PROVE pc[x] \in Synced => pc'[x] \in Synced /\ x # w
  BY <1>b, Zenon DEF TypeOK, Synced
<1>d. pc'[w] \in Synced BY <1>b, Zenon DEF TypeOK, Synced
<1>1. ASSUME NEW h \in Handlers
      PROVE  /\ handlers'[h] # "none" => ((activeInbounds'[h[1]] = h[2]) # (h \in stopCalled'))
             /\ activeInbounds'[h[1]] = h[2] => handlers'[h] # "none" /\ h \notin stopCalled'
             /\ handlers'[h] # "none" \/ h \in stopCalled' => pc'[h[2]] \in Synced
             /\ h \in stopCalled' => h \in stoppedEarly' \/ handlers'[h] \notin Open
  <2>1. h[1] \in Keys /\ h[2] \in Workers /\ h = <<h[1], h[2]>> /\ h[2] # None
    BY DEF Handlers, Workers, None
  <2>2. h \in stopped <=> h[1] \in Removed(wanted) /\ h[2] = activeInbounds[h[1]]
    BY <2>1
  <2>3. h \in started <=> h[1] \in Added(wanted) /\ h[2] = w
    BY <2>1, Zenon
  <2>4. h[1] \in Removed(wanted) => activeInbounds[h[1]] # None /\ h[1] \notin Added(wanted)
    BY Zenon DEF Removed, Added
  <2>5. h[1] \in Added(wanted) => activeInbounds[h[1]] = None
    BY Zenon DEF Added
  <2>6. /\ handlers[h] # "none" => ((activeInbounds[h[1]] = h[2]) # (h \in stopCalled))
        /\ activeInbounds[h[1]] = h[2] => handlers[h] # "none" /\ h \notin stopCalled
        /\ handlers[h] # "none" \/ h \in stopCalled => pc[h[2]] \in Synced
        /\ h \in stopCalled => h \in stoppedEarly \/ handlers[h] \notin Open
    BY Zenon DEF InboundInv
  <2>7. CASE h \in stopped
    <3>1. handlers[h] # "none" BY <2>2, <2>6, <2>7, Zenon
    <3>2. handlers'[h] # "none" BY <1>b, <2>7, <3>1, Zenon DEF StopEffect
    <3>3. activeInbounds'[h[1]] = None BY <1>b, <2>1, <2>2, <2>7, Zenon
    <3>4. h \in stopCalled' BY <1>b, <2>7, Zenon
    <3>5. pc'[h[2]] \in Synced BY <1>c, <2>1, <2>6, <3>1, Zenon
    <3>6. handlers'[h] = StopEffect(h) BY <1>b, <2>7, Zenon
    <3>7. h \in stoppedEarly' \/ handlers'[h] \notin Open
      <4>1. CASE handlers[h] = "starting" BY <1>b, <2>7, <4>1, Zenon
      <4>2. CASE handlers[h] # "starting" BY <3>6, <4>2, Zenon DEF StopEffect, Open
      <4> QED BY <4>1, <4>2, Zenon
    <3> QED BY <2>1, <3>2, <3>3, <3>4, <3>5, <3>7, Zenon
  <2>8. CASE h \in started
    <3>1. h[2] = w /\ h[1] \notin Removed(wanted) /\ h \notin stopped
      BY <2>2, <2>3, <2>4, <2>8, Zenon
    <3>2. handlers'[h] = "starting" BY <1>b, <2>8, <3>1, Zenon
    <3>3. activeInbounds'[h[1]] = w BY <1>b, <2>1, <2>3, <2>8, <3>1, Zenon
    <3>4. h \notin stopCalled BY <1>b, <2>6, <3>1, Zenon DEF Synced
    <3> QED BY <1>b, <1>d, <3>1, <3>2, <3>3, <3>4, Zenon
  <2>9. CASE h \notin stopped /\ h \notin started
    <3>1. handlers'[h] = handlers[h] BY <1>b, <2>9, Zenon
    <3>2. h \in stopCalled' <=> h \in stopCalled BY <1>b, <2>9, Zenon
    <3>3. (activeInbounds'[h[1]] = h[2]) <=> (activeInbounds[h[1]] = h[2])
      BY <1>b, <2>1, <2>2, <2>3, <2>4, <2>5, <2>9, Zenon
    <3>4. pc[h[2]] \in Synced => pc'[h[2]] \in Synced BY <1>c, <2>1, Zenon
    <3>5. handlers'[h] # "none" => ((activeInbounds'[h[1]] = h[2]) # (h \in stopCalled'))
      <4>1. handlers[h] # "none" => ((activeInbounds[h[1]] = h[2]) <=> ~(h \in stopCalled))
        BY <2>6
      <4> QED BY <3>1, <3>2, <3>3, <4>1, ZenonT(30)
    <3>6. activeInbounds'[h[1]] = h[2] => handlers'[h] # "none" /\ h \notin stopCalled'
      BY <2>6, <3>1, <3>2, <3>3, Zenon
    <3>7. handlers'[h] # "none" \/ h \in stopCalled' => pc'[h[2]] \in Synced
      BY <2>6, <3>1, <3>2, <3>4, Zenon
    <3>8. h \in stopCalled' => h \in stoppedEarly' \/ handlers'[h] \notin Open
      BY <1>b, <2>6, <3>1, <3>2, Zenon
    <3> QED BY <3>5, <3>6, <3>7, <3>8, Zenon
  <2> QED BY <2>7, <2>8, <2>9, Zenon
<1> QED BY <1>1, Zenon DEF InboundInv

(* The inbound invariant holds in every reachable state. *)
LEMMA InboundInvariant == Spec => []InboundInv
<1>1. Init => InboundInv
  <2> SUFFICES ASSUME Init, NEW h \in Handlers
               PROVE  handlers[h] = "none" /\ h \notin stopCalled /\ activeInbounds[h[1]] # h[2]
    BY Zenon DEF InboundInv
  <2>1. h[1] \in Keys /\ h[2] # None BY DEF Handlers, Workers, None
  <2> QED BY <2>1, Zenon DEF Init
<1>2. TypeOK /\ RouteInv /\ InboundInv /\ [Next]_vars => InboundInv'
  <2> SUFFICES ASSUME TypeOK, RouteInv, InboundInv, [Next]_vars PROVE InboundInv' BY Zenon
  <2> USE Zero
  <2>1. ASSUME NEW c \in Configs, Update(c) PROVE InboundInv'
    <3>0. latest \in Versions /\ latest < MaxUpdates BY <2>1, Zenon DEF Update, TypeOK
    <3>1. latest + 1 \in Workers /\ latest + 1 > latest BY <3>0, NextWorker, Zenon
    <3>2. pc[latest + 1] = "idle" BY <3>1, Zenon DEF RouteInv
    <3>3. \A w \in Workers : pc[w] \in Synced => pc'[w] \in Synced
      BY <2>1, <3>2, Zenon DEF Update, TypeOK, Synced
    <3> QED BY <2>1, <3>3, InboundFrame, Zenon DEF Update, inboundVars
  <2>2. CASE Start
    <3>1. pc[0] = "idle" BY <2>2, Zenon DEF Start, RouteInv
    <3>2. \A w \in Workers : pc[w] \in Synced => pc'[w] \in Synced
      BY <2>2, <3>1, Zenon DEF Start, TypeOK, Synced
    <3> QED BY <2>2, <3>2, InboundFrame, Zenon DEF Start, inboundVars
  <2>3. CASE StartStep
    BY <2>3, InboundFrame, Zenon DEF StartStep, StartHTTPServices, Subscribe,
       StartQUICServer,
       inboundVars, TypeOK, Synced
  <2>4. CASE Stop \/ StopReturns
    BY <2>4, InboundFrame, Zenon DEF Stop, StopReturns, inboundVars
  <2>5. ASSUME NEW h \in Handlers, HandlerStep(h) PROVE InboundInv'
    <3>1. /\ UNCHANGED <<activeInbounds, stopCalled, stoppedEarly, pc>>
          /\ handlers[h] # "none"
          /\ \/ /\ handlers' = [handlers EXCEPT ![h] = "listening"]
                /\ handlers[h] = "starting"
             \/ handlers' = [handlers EXCEPT ![h] = "failed"]
             \/ handlers' = [handlers EXCEPT ![h] = "returned"]
      BY <2>5, Zenon DEF HandlerStep, ListenOK, ListenFail, AcceptLoopReturns,
         HTTPServerCloses, Move
    <3>2. \A x \in Handlers : (handlers'[x] # "none") <=> (handlers[x] # "none")
      BY <3>1, Zenon DEF TypeOK
    <3>3. \A x \in Handlers : handlers'[x] \in Open => handlers[x] \in Open
      BY <3>1, Zenon DEF TypeOK, Open
    <3> QED BY <3>1, <3>2, <3>3, InboundFrame, Zenon
  <2>6. ASSUME NEW x \in ServiceNames, ServiceStops(x) \/ ServiceFails(x) PROVE InboundInv'
    BY <2>6, InboundFrame, Zenon DEF ServiceStops, ServiceFails, inboundVars
  <2>7. ASSUME NEW w \in Workers, AddOutbound(w) \/ UpdateRules(w) PROVE InboundInv'
    BY <2>7, InboundFrame, Zenon DEF AddOutbound, UpdateRules, inboundVars, TypeOK, Synced
  <2>8. CASE UNCHANGED vars
    BY <2>8, InboundFrame, Zenon DEF vars, inboundVars
  <2> QED
    BY <2>1, <2>2, <2>3, <2>4, <2>5, <2>6, <2>7, <2>8, InboundSync, Zenon DEF Next,
       WorkerStep
<1> QED BY <1>1, <1>2, TypeCorrect, RouteInvariant, PTL DEF Spec

(* However reloads interleave, every handler ever started is the active one *)
(* of its key or has had its Stop called, and not both; and one that listens *)
(* without being active had its Stop called before it listened.             *)
THEOREM HandlersTheorem == Spec => []HandlersAccounted
<1>1. InboundInv => HandlersAccounted
  <2> SUFFICES ASSUME InboundInv, NEW h \in Handlers
               PROVE  /\ handlers[h] # "none" =>
                           ((activeInbounds[h[1]] = h[2]) # (h \in stopCalled))
                      /\ handlers[h] = "listening" =>
                           activeInbounds[h[1]] = h[2] \/ h \in stoppedEarly
    BY Zenon DEF HandlersAccounted
  <2>1. handlers[h] # "none" => ((activeInbounds[h[1]] = h[2]) # (h \in stopCalled))
    BY Zenon DEF InboundInv
  <2>2. h \in stopCalled => h \in stoppedEarly \/ handlers[h] \notin Open
    BY Zenon DEF InboundInv
  <2>3. handlers[h] = "listening" => activeInbounds[h[1]] = h[2] \/ h \in stopCalled
    BY <2>1
  <2> QED BY <2>1, <2>2, <2>3, Zenon DEF Open
<1> QED BY <1>1, InboundInvariant, PTL
-----------------------------------------------------------------------------
(* Reloads that do not overlap.  At most one worker applies a configuration, *)
(* it is the latest one, and what the worker has done so far is that         *)
(* configuration's, while the inbounds are still those of the configuration  *)
(* before; between two of them the agent is on the latest.                   *)

Renewed(k) ==
  \A i \in 1..Len(OutboundsOf[configOf[latest]]) :
    i < k => outbounds[OutboundsOf[configOf[latest]][i]] = latest

AllRenewed == \A n \in Declared(configOf[latest]) : outbounds[n] = latest

(* The inbounds that syncInbounds of worker w will find. *)
Found(w) ==
  IF w = 0 THEN \A k \in Keys : activeInbounds[k] = None
  ELSE startVersion < latest /\ \A u \in Versions : u + 1 = latest => InboundsAt(u)

InOrder ==
  /\ \A w, x \in Workers : Applying(w) /\ Applying(x) => w = x
  /\ \A w \in Workers : Applying(w) => VersionOf(w) = latest /\ Found(w)
  /\ \A w \in Workers : pc[w] = "outbounds" => Renewed(next[w])
  /\ \A w \in Workers : pc[w] = "sync" => rules = latest /\ AllRenewed
  /\ (\A w \in Workers : ~Applying(w)) => OnLatest

SerialInv ==
  /\ startVersion <= latest
  /\ agent = "new" => /\ ~subscribed /\ \A w \in Workers : ~Applying(w)
                      /\ \A k \in Keys : activeInbounds[k] = None
  /\ disorder = {} /\ agent # "new" => InOrder

(* What is said of the inbounds does not depend on the rest of the state. *)
LEMMA InboundsKept ==
  ASSUME UNCHANGED <<configOf, startVersion, activeInbounds>>, NEW u
  PROVE  InboundsAt(u)' <=> InboundsAt(u)
<1>1. \A w : VersionOf(w)' = VersionOf(w) BY Zenon DEF VersionOf
<1>2. \A k, v : InSince(k, v, u)' <=> InSince(k, v, u) BY Zenon DEF InSince, Handled
<1>3. \A k : k \in Handled(configOf'[u]) <=> k \in Handled(configOf[u]) BY Zenon
<1> QED BY <1>1, <1>2, <1>3, Zenon DEF InboundsAt, Handled

(* A step that applies nothing keeps the order. *)
LEMMA SerialFrame ==
  ASSUME SerialInv, agent' = "new" <=> agent = "new",
         UNCHANGED <<latest, configOf, disorder, startVersion, next, outbounds, rules,
                     activeInbounds>>,
         agent = "new" => subscribed' = subscribed,
         \A w \in Workers : pc'[w] = pc[w] \/ (~Applying(w) /\ pc'[w] \notin {"outbounds", "sync"})
  PROVE  SerialInv'
<1>1. \A w \in Workers : (Applying(w)' <=> Applying(w)) /\ (Applying(w) => pc'[w] = pc[w])
  BY Zenon DEF Applying
<1>2. \A w \in Workers : VersionOf(w)' = VersionOf(w) BY Zenon DEF VersionOf
<1>3. OnLatest' <=> OnLatest
  <2>1. PICK u : u = latest BY Zenon
  <2>2. InboundsAt(u)' <=> InboundsAt(u) BY InboundsKept, Zenon
  <2>3. InboundsAt(latest)' <=> InboundsAt(u)'
    BY <2>1, Zenon DEF InboundsAt, InSince, Handled, VersionOf
  <2>4. InboundsAt(latest)' <=> InboundsAt(latest) BY <2>1, <2>2, <2>3, Zenon
  <2>5. (\A n \in Declared(configOf'[latest']) : outbounds'[n] = latest')
        <=> \A n \in Declared(configOf[latest]) : outbounds[n] = latest
    BY Zenon
  <2>6. rules' = latest' <=> rules = latest BY Zenon
  <2>7. OnLatest' <=> /\ rules' = latest'
                      /\ \A n \in Declared(configOf'[latest']) : outbounds'[n] = latest'
                      /\ InboundsAt(latest)'
    BY Zenon DEF OnLatest, Declared
  <2>8. OnLatest <=> /\ rules = latest
                     /\ \A n \in Declared(configOf[latest]) : outbounds[n] = latest
                     /\ InboundsAt(latest)
    BY Zenon DEF OnLatest, Declared
  <2> QED BY <2>4, <2>5, <2>6, <2>7, <2>8, Zenon
<1>9. \A w : Found(w)' <=> Found(w)
  <2>1. \A u : InboundsAt(u)' <=> InboundsAt(u) BY InboundsKept, Zenon
  <2> QED BY <2>1, Zenon DEF Found
<1>4. (AllRenewed' <=> AllRenewed) /\ \A k : Renewed(k)' <=> Renewed(k)
  BY Zenon DEF AllRenewed, Renewed, Declared
<1>5. InOrder => InOrder'
  <2> SUFFICES ASSUME InOrder PROVE InOrder' BY Zenon
  <2>1. \A w \in Workers : pc'[w] = "outbounds" => pc[w] = "outbounds"
    BY <1>1, Zenon DEF Applying
  <2>2. \A w \in Workers : pc'[w] = "sync" => pc[w] = "sync"
    BY <1>1, Zenon DEF Applying
  <2>3. \A w \in Workers : pc'[w] = "outbounds" => Renewed(next[w])'
    <3> SUFFICES ASSUME NEW w \in Workers, pc'[w] = "outbounds" PROVE Renewed(next[w])'
      BY Zenon
    <3>1. Renewed(next[w]) BY <2>1, Zenon DEF InOrder
    <3> QED BY <3>1, Zenon DEF Renewed
  <2>4. \A w \in Workers : pc'[w] = "sync" => rules' = latest' /\ AllRenewed'
    BY <1>4, <2>2, Zenon DEF InOrder
  <2>5. \A w \in Workers : Applying(w)' => VersionOf(w)' = latest' /\ Found(w)'
    BY <1>1, <1>2, <1>9, Zenon DEF InOrder
  <2> QED BY <1>1, <1>3, <2>3, <2>4, <2>5, Zenon DEF InOrder
<1>6. agent' = "new" => /\ ~subscribed' /\ \A w \in Workers : ~Applying(w)'
                        /\ \A k \in Keys : activeInbounds'[k] = None
  BY <1>1, Zenon DEF SerialInv
<1>7. startVersion' <= latest' BY Zenon DEF SerialInv
<1>8. disorder' = {} /\ agent' # "new" => InOrder' BY <1>5, Zenon DEF SerialInv
<1> QED BY <1>6, <1>7, <1>8, Zenon DEF SerialInv

(* ConfigManager.Update: in order only with the callback subscribed and no  *)
(* other configuration being applied, or before Agent.Start.                *)
LEMMA SerialUpdate ==
  ASSUME TypeOK, RouteInv, SerialInv, NEW c \in Configs, Update(c)
  PROVE  SerialInv'
<1>v. PICK v : v = latest + 1 BY Zenon
<1>0. latest \in Versions /\ latest < MaxUpdates BY Zenon DEF Update, TypeOK
<1>b. v \in Workers /\ v > latest BY <1>0, <1>v, NextWorker, Zenon
<1>a. v \in Workers /\ v # 0 BY <1>0, <1>b, <1>v DEF Versions
<1>c. pc[v] = "idle" /\ next[v] = 1 BY <1>a, <1>b, Zenon DEF RouteInv
<1>d. /\ UNCHANGED <<agent, startVersion, subscribed, next, outbounds, rules, activeInbounds>>
      /\ latest' = v /\ pc' = [pc EXCEPT ![v] = IF subscribed THEN "outbounds" ELSE "done"]
  BY <1>v, Zenon DEF Update, agentVars, routerVars, inboundVars
<1>e. disorder' = {} => /\ disorder = {} /\ (agent # "new" => subscribed)
                        /\ \A w \in Workers : ~Applying(w)
  <2>1. disorder' = disorder \cup {x \in {"missed", "overlapping"} :
                                 IF x = "missed" THEN agent # "new" /\ ~subscribed
                                 ELSE \E w \in Workers : Applying(w)}
    BY Zenon DEF Update
  <2>2. "missed" \in disorder' <=> "missed" \in disorder \/ (agent # "new" /\ ~subscribed)
    BY <2>1, Zenon
  <2>3. (\E w \in Workers : Applying(w)) => "overlapping" \in disorder' BY <2>1, Zenon
  <2> QED BY <2>1, <2>2, <2>3, Zenon
<1>f. \A w \in Workers : w # v => pc'[w] = pc[w] BY <1>d, Zenon DEF TypeOK
<1>g. pc'[v] = IF subscribed THEN "outbounds" ELSE "done" BY <1>a, <1>d, Zenon DEF TypeOK
<1>1. agent' = "new" => /\ ~subscribed' /\ \A w \in Workers : ~Applying(w)'
                        /\ \A k \in Keys : activeInbounds'[k] = None
  <2>1. agent' = "new" => ~subscribed' /\ \A w \in Workers : ~Applying(w)'
    BY <1>d, <1>f, <1>g DEF SerialInv, Applying
  <2> QED BY <1>d, <2>1, Zenon DEF SerialInv
<1>h. startVersion \in Nat /\ latest \in Nat /\ startVersion <= latest /\ startVersion' < latest'
  <2>1. startVersion \in Nat /\ latest \in Nat
    BY ConfigsAssumption DEF TypeOK, Versions, ConfigsAssumption
  <2>2. startVersion <= latest BY Zenon DEF SerialInv
  <2> QED BY <1>d, <1>v, <2>1, <2>2
<1>i. ASSUME InboundsAt(latest), NEW u \in Versions, u + 1 = latest' PROVE InboundsAt(u)'
  <2>1. u = latest BY <1>d, <1>h, <1>i, <1>v DEF Versions
  <2>2. \A x \in Versions : x <= u => configOf'[x] = configOf[x]
    BY <1>h, <2>1 DEF Update, TypeOK, Versions
  <2>3. \A w : VersionOf(w)' = VersionOf(w) BY <1>d, Zenon DEF VersionOf
  <2>4. ASSUME NEW k \in Keys, activeInbounds[k] # None
        PROVE  InSince(k, VersionOf(activeInbounds[k]), u)'
    <3>1. PICK y : y = VersionOf(activeInbounds[k]) BY Zenon
    <3>2. InSince(k, y, u) BY <1>i, <2>1, <2>4, <3>1, Zenon DEF InboundsAt
    <3>3. y \in Versions BY <2>4, <3>1, WorkerVersion, Zenon DEF TypeOK
    <3>4. \A x \in y..u : x \in Versions /\ x <= u
      BY <1>h, <2>1, <3>3, ConfigsAssumption DEF Versions, ConfigsAssumption
    <3>5. \A x \in y..u : k \in Handled(configOf'[x])
      BY <2>2, <3>2, <3>4, Zenon DEF InSince
    <3>6. y = startVersion \/ k \notin Handled(configOf'[y - 1])
      <4>1. CASE y # startVersion
        <5>1. y - 1 \in Versions /\ y - 1 <= u
          BY <1>h, <2>1, <3>2, <3>3, <4>1, ConfigsAssumption DEF InSince, Versions,
             ConfigsAssumption
        <5>2. configOf'[y - 1] = configOf[y - 1] BY <2>2, <5>1, Zenon
        <5> QED BY <3>2, <4>1, <5>2, Zenon DEF InSince
      <4> QED BY <4>1, Zenon
    <3>7. VersionOf(activeInbounds[k])' = y BY <1>d, <2>3, <3>1, Zenon DEF VersionOf
    <3>8. startVersion' <= y /\ y <= u BY <1>d, <3>2, Zenon DEF InSince
    <3> QED BY <1>d, <3>5, <3>6, <3>7, <3>8, Zenon DEF InSince, Handled
  <2>5. ASSUME NEW k \in Keys, activeInbounds[k] = None PROVE k \notin Handled(configOf'[u])
    <3>1. configOf'[u] = configOf[u] BY <1>h, <2>1, <2>2
    <3> QED BY <1>i, <2>1, <2>5, <3>1, Zenon DEF InboundsAt
  <2> QED BY <1>d, <2>4, <2>5, Zenon DEF InboundsAt, Handled
<1>2. ASSUME disorder' = {}, agent' # "new" PROVE InOrder'
  <2>1. pc'[v] = "outbounds" /\ \A w \in Workers : Applying(w)' <=> w = v
    BY <1>2, <1>a, <1>d, <1>e, <1>f, <1>g, Zenon DEF Applying
  <2>2. VersionOf(v)' = latest' BY <1>a, <1>d, Zenon DEF VersionOf
  <2>3. next'[v] = 1 BY <1>c, <1>d, Zenon
  <2>4. Renewed(next[v])' BY <2>3 DEF Renewed
  <2>5. \A w \in Workers : pc'[w] = "outbounds" => w = v BY <2>1, Zenon DEF Applying
  <2>6. \A w \in Workers : pc'[w] # "sync" BY <2>1, Zenon DEF Applying
  <2>7. \A w \in Workers : pc'[w] = "outbounds" => Renewed(next[w])' BY <2>4, <2>5, Zenon
  <2>8. \A w, x \in Workers : Applying(w)' /\ Applying(x)' => w = x BY <2>1, Zenon
  <2>11. Found(v)'
    <3>1. OnLatest BY <1>2, <1>d, <1>e, Zenon DEF SerialInv, InOrder
    <3>2. \A u \in Versions : u + 1 = latest' => InboundsAt(u)'
      BY <1>i, <3>1, Zenon DEF OnLatest
    <3> QED BY <1>a, <1>h, <3>2, Zenon DEF Found
  <2>9. \A w \in Workers : Applying(w)' => VersionOf(w)' = latest' /\ Found(w)'
    BY <2>1, <2>2, <2>11, Zenon
  <2>10. ~(\A w \in Workers : ~Applying(w)') BY <1>a, <2>1, Zenon
  <2> QED BY <2>6, <2>7, <2>8, <2>9, <2>10, Zenon DEF InOrder
<1>3. startVersion' <= latest' BY <1>d, <1>h, <1>v
<1> QED BY <1>1, <1>2, <1>3, Zenon DEF SerialInv

(* Agent.Start applies the configuration that is the latest at that time. *)
LEMMA SerialStart ==
  ASSUME TypeOK, RouteInv, SerialInv, Start
  PROVE  SerialInv'
<1>1. /\ UNCHANGED <<latest, disorder, configOf, next, activeInbounds>>
      /\ startVersion' = latest /\ agent' = "running" /\ agent = "new"
      /\ pc' = [pc EXCEPT ![0] = "outbounds"] /\ pc[0] = "idle"
  BY Zenon DEF Start, configVars, inboundVars, RouteInv
<1>2. next'[0] = 1 BY <1>1, Zero, Zenon DEF RouteInv
<1>3. \A w \in Workers : ~Applying(w) BY <1>1, Zenon DEF SerialInv
<1>4. pc'[0] = "outbounds" /\ \A w \in Workers : Applying(w)' <=> w = 0
  BY <1>1, <1>3, Zero, Zenon DEF Applying, TypeOK
<1>5. VersionOf(0)' = latest' BY <1>1, Zenon DEF VersionOf
<1>6. Renewed(next[0])' BY <1>2 DEF Renewed
<1>7. \A w \in Workers : pc'[w] = "outbounds" => w = 0 BY <1>4, Zenon DEF Applying
<1>8. \A w \in Workers : pc'[w] # "sync" BY <1>4, Zenon DEF Applying
<1>9. \A w \in Workers : pc'[w] = "outbounds" => Renewed(next[w])' BY <1>6, <1>7, Zenon
<1>10. \A w, x \in Workers : Applying(w)' /\ Applying(x)' => w = x BY <1>4, Zenon
<1>14. Found(0)' BY <1>1, Zenon DEF SerialInv, Found
<1>11. \A w \in Workers : Applying(w)' => VersionOf(w)' = latest' /\ Found(w)'
  BY <1>4, <1>5, <1>14, Zenon
<1>12. ~(\A w \in Workers : ~Applying(w)') BY <1>4, Zero, Zenon
<1>13. InOrder' BY <1>8, <1>9, <1>10, <1>11, <1>12, Zenon DEF InOrder
<1>15. startVersion' <= latest' BY <1>1, ConfigsAssumption DEF TypeOK, Versions,
                                   ConfigsAssumption
<1> QED BY <1>1, <1>13, <1>15, Zenon DEF SerialInv

(* The one worker that applies a configuration in order. *)
LEMMA SerialWorker ==
  ASSUME TypeOK, RouteInv, SerialInv, NEW w \in Workers, WorkerStep(w)
  PROVE  SerialInv'
<1>0. Applying(w) BY Zenon DEF WorkerStep, AddOutbound, UpdateRules, SyncInbounds,
                     Applying
<1>a. /\ UNCHANGED <<agent, subscribed, latest, configOf, disorder, startVersion>>
      /\ agent # "new"
  BY <1>0, Zenon DEF WorkerStep, AddOutbound, UpdateRules, SyncInbounds, agentVars,
     configVars, SerialInv
<1>b. VersionOf(w) \in Versions /\ ConfigOf(w) \in Configs BY WorkerVersion, Zenon
<1>c. OutboundsOf[ConfigOf(w)] \in Seq(Names)
  BY <1>b, ConfigsAssumption, Zenon DEF ConfigsAssumption
<1>d. \A x \in Workers : VersionOf(x)' = VersionOf(x) BY <1>a, Zenon DEF VersionOf
<1>e. ASSUME InOrder
      PROVE  /\ VersionOf(w) = latest /\ ConfigOf(w) = configOf[latest]
             /\ \A x \in Workers : Applying(x) => x = w
  BY <1>0, <1>e, Zenon DEF InOrder, ConfigOf
<1>f. startVersion' <= latest' BY <1>a, Zenon DEF SerialInv
<1>g. ASSUME UNCHANGED activeInbounds PROVE \A x : Found(x)' <=> Found(x)
  <2>1. \A u : InboundsAt(u)' <=> InboundsAt(u) BY <1>a, <1>g, InboundsKept, Zenon
  <2> QED BY <1>a, <1>g, <2>1, Zenon DEF Found
<1>1. CASE AddOutbound(w)
  <2>1. /\ UNCHANGED <<pc, rules, activeInbounds>> /\ pc[w] = "outbounds"
        /\ next' = [next EXCEPT ![w] = @ + 1]
        /\ outbounds' = [outbounds EXCEPT ![OutboundsOf[ConfigOf(w)][next[w]]] = VersionOf(w)]
        /\ next[w] <= Len(OutboundsOf[ConfigOf(w)])
    BY <1>1, Zenon DEF AddOutbound, inboundVars
  <2>2. ASSUME InOrder PROVE InOrder'
    <3>1. VersionOf(w) = latest /\ ConfigOf(w) = configOf[latest] BY <1>e, <2>2, Zenon
    <3>2. Renewed(next[w]) BY <2>1, <2>2, Zenon DEF InOrder
    <3>3. next'[w] = next[w] + 1 /\ next[w] \in Nat BY <2>1, Zenon DEF TypeOK
    <3>4. \A i \in 1..Len(OutboundsOf[configOf[latest]]) : OutboundsOf[configOf[latest]][i] \in Names
      BY <1>c, <3>1
    <3>5. ASSUME NEW i \in 1..Len(OutboundsOf[configOf[latest]]), i < next'[w]
          PROVE  outbounds'[OutboundsOf[configOf[latest]][i]] = latest
      <4>1. i < next[w] \/ i = next[w] BY <3>3, <3>5
      <4>2. i < next[w] => outbounds[OutboundsOf[configOf[latest]][i]] = latest
        BY <3>2, Zenon DEF Renewed
      <4> QED BY <2>1, <3>1, <3>4, <4>1, <4>2, Zenon DEF TypeOK
    <3>6. Renewed(next[w])' BY <1>a, <3>5, Zenon DEF Renewed
    <3>7. \A x \in Workers : pc'[x] = "outbounds" \/ pc'[x] = "sync" => x = w
      BY <1>e, <2>1, <2>2, Zenon DEF Applying
    <3>8. \A x \in Workers : pc'[x] = "outbounds" => Renewed(next[x])'
      BY <3>6, <3>7, Zenon
    <3>9. \A x \in Workers : pc'[x] # "sync" BY <2>1, <3>7, Zenon
    <3>10. \A x \in Workers : Applying(x)' <=> Applying(x) BY <2>1, Zenon DEF Applying
    <3>11. \A x \in Workers : Applying(x)' => VersionOf(x)' = latest' /\ Found(x)'
      BY <1>a, <1>d, <1>g, <2>1, <3>10, <2>2, Zenon DEF InOrder
    <3>12. \A x, y \in Workers : Applying(x)' /\ Applying(y)' => x = y
      BY <3>10, <2>2, Zenon DEF InOrder
    <3> QED BY <1>0, <3>8, <3>9, <3>10, <3>11, <3>12, Zenon DEF InOrder
  <2> QED BY <1>a, <1>f, <2>1, <2>2, Zenon DEF SerialInv
<1>2. CASE UpdateRules(w)
  <2>1. /\ UNCHANGED <<next, outbounds, activeInbounds>> /\ pc[w] = "outbounds"
        /\ pc' = [pc EXCEPT ![w] = "sync"] /\ rules' = VersionOf(w)
        /\ next[w] > Len(OutboundsOf[ConfigOf(w)])
    BY <1>2, Zenon DEF UpdateRules, inboundVars
  <2>2. ASSUME InOrder PROVE InOrder'
    <3>1. VersionOf(w) = latest /\ ConfigOf(w) = configOf[latest] BY <1>e, <2>2, Zenon
    <3>2. Renewed(next[w]) /\ next[w] \in Nat BY <2>1, <2>2, Zenon DEF InOrder, TypeOK
    <3>3. ASSUME NEW n \in Declared(configOf[latest]) PROVE outbounds[n] = latest
      <4>1. PICK i \in DOMAIN OutboundsOf[configOf[latest]] : n = OutboundsOf[configOf[latest]][i]
        BY Zenon DEF Declared
      <4>2. PICK seq \in Seq(Names) : seq = OutboundsOf[configOf[latest]]
        BY <1>c, <3>1, Zenon
      <4>3. i \in 1..Len(seq) BY <4>1, <4>2
      <4>4. next[w] > Len(seq) BY <2>1, <3>1, <4>2, Zenon
      <4>5. i < next[w] BY <3>2, <4>2, <4>3, <4>4
      <4> QED BY <3>2, <4>1, <4>2, <4>3, <4>5, Zenon DEF Renewed
    <3>4. AllRenewed' BY <1>a, <2>1, <3>3 DEF AllRenewed, Declared
    <3>5. \A x \in Workers : Applying(x)' <=> Applying(x)
      BY <2>1, Zenon DEF Applying, TypeOK
    <3>6. \A x \in Workers : pc'[x] # "outbounds"
      BY <1>e, <2>1, <2>2, Zenon DEF Applying, TypeOK
    <3>7. \A x \in Workers : Applying(x)' => VersionOf(x)' = latest' /\ Found(x)'
      BY <1>a, <1>d, <1>g, <2>1, <3>5, <2>2, Zenon DEF InOrder
    <3>8. \A x, y \in Workers : Applying(x)' /\ Applying(y)' => x = y
      BY <3>5, <2>2, Zenon DEF InOrder
    <3>9. rules' = latest' BY <1>a, <2>1, <3>1, Zenon
    <3> QED BY <1>0, <3>4, <3>5, <3>6, <3>7, <3>8, <3>9, Zenon DEF InOrder
  <2>3. \A x \in Workers : Applying(x)' <=> Applying(x)
    BY <2>1, Zenon DEF Applying, TypeOK
  <2> QED BY <1>a, <1>f, <2>1, <2>2, <2>3, Zenon DEF SerialInv
<1>3. CASE SyncInbounds(w)
  <2> DEFINE wanted == DOMAIN InboundsOf[ConfigOf(w)]
  <2>1. /\ UNCHANGED <<next, outbounds, rules>> /\ pc[w] = "sync"
        /\ pc' = [pc EXCEPT ![w] = IF w = 0 THEN "services" ELSE "done"]
        /\ activeInbounds' = [k \in Keys |-> IF k \in Removed(wanted) THEN None
                                             ELSE IF k \in Added(wanted) THEN w
                                             ELSE activeInbounds[k]]
    BY <1>3, Zenon DEF SyncInbounds, routerVars
  <2>2. w # None BY DEF Workers, None
  <2>3. wanted \subseteq Keys BY <1>b, ConfigsAssumption, Zenon DEF ConfigsAssumption
  <2>4. ASSUME NEW k \in Keys
        PROVE  /\ k \in Removed(wanted) <=> activeInbounds[k] # None /\ k \notin wanted
               /\ k \in Added(wanted) <=> /\ k \in wanted /\ activeInbounds[k] = None
                                          /\ KindOf[k] # "npchain"
               /\ activeInbounds'[k] = IF k \in Removed(wanted) THEN None
                                       ELSE IF k \in Added(wanted) THEN w
                                       ELSE activeInbounds[k]
    BY <2>1, Zenon DEF Removed, Added
  <2>6. \A k \in Keys : k \in Handled(ConfigOf(w)) <=> k \in wanted /\ KindOf[k] # "npchain"
    BY Zenon DEF Handled
  <2>7. ASSUME InOrder, NEW u \in Versions, u = latest PROVE InboundsAt(u)'
    <3>1. /\ VersionOf(w) = u /\ ConfigOf(w) = configOf[u] /\ Found(w)
      BY <1>0, <1>e, <2>7, Zenon DEF InOrder
    <3>2. \A x : VersionOf(x)' = VersionOf(x) BY <1>a, Zenon DEF VersionOf
    <3>3. \A k, v : InSince(k, v, u)' <=> InSince(k, v, u) BY <1>a, Zenon DEF InSince, Handled
    <3>4. startVersion <= u /\ startVersion \in Nat /\ u \in Nat
      BY <2>7, ConfigsAssumption DEF SerialInv, TypeOK, Versions, ConfigsAssumption
    <3>5. \A x \in u..u : x = u BY <3>4
    <3>6. u <= u BY <3>4
    <3>7. CASE w = 0
      <4>1. \A k \in Keys : activeInbounds[k] = None BY <3>1, <3>7, Zenon DEF Found
      <4>2. startVersion = u BY <3>1, <3>7, Zenon DEF VersionOf
      <4>3. ASSUME NEW k \in Keys, k \in Handled(configOf[u]) PROVE InSince(k, u, u)
        BY <3>4, <3>5, <3>6, <4>2, <4>3, Zenon DEF InSince
      <4>4. ASSUME NEW k \in Keys
            PROVE  IF activeInbounds'[k] = None THEN k \notin Handled(configOf[u])
                   ELSE activeInbounds'[k] = w /\ InSince(k, u, u)
        BY <2>2, <2>4, <2>6, <3>1, <4>1, <4>3, Zenon
      <4>5. ASSUME NEW k \in Keys, activeInbounds'[k] # None
            PROVE  InSince(k, VersionOf(activeInbounds[k]), u)'
        <5>1. activeInbounds'[k] = w /\ InSince(k, u, u)' BY <3>3, <4>4, <4>5, Zenon
        <5>2. VersionOf(activeInbounds[k])' = u BY <1>a, <3>1, <5>1, Zenon DEF VersionOf
        <5> QED BY <5>1, <5>2, Zenon DEF InSince, Handled
      <4> QED BY <1>a, <4>4, <4>5, Zenon DEF InboundsAt, Handled
    <3>8. CASE w # 0
      <4>1. startVersion < u /\ \A t \in Versions : t + 1 = u => InboundsAt(t)
        BY <2>7, <3>1, <3>8, Zenon DEF Found
      <4>2. PICK t \in Versions : t + 1 = u /\ u - 1 = t
        BY <2>7, <3>4, <4>1, ConfigsAssumption DEF Versions, ConfigsAssumption
      <4>3. InboundsAt(t) BY <4>1, <4>2, Zenon
      <4>4. ASSUME NEW k \in Keys, k \in Handled(configOf[u]), activeInbounds[k] = None
            PROVE  InSince(k, u, u)
        <5>1. k \notin Handled(configOf[t]) BY <4>3, <4>4, Zenon DEF InboundsAt
        <5> QED BY <3>4, <3>5, <3>6, <4>2, <4>4, <5>1, Zenon DEF InSince
      <4>5. ASSUME NEW k \in Keys, NEW v \in Versions, InSince(k, v, t),
                   k \in Handled(configOf[u])
            PROVE  InSince(k, v, u)
        <5>1. v <= u /\ \A x \in v..u : x \in v..t \/ x = u
          <6>1. v \in Nat /\ t \in Nat /\ v <= t
            BY <4>5, ConfigsAssumption DEF InSince, Versions, ConfigsAssumption
          <6> QED BY <4>2, <6>1
        <5> QED BY <4>5, <5>1, Zenon DEF InSince
      <4>6. ASSUME NEW k \in Keys
            PROVE  IF activeInbounds'[k] = None THEN k \notin Handled(configOf[u])
                   ELSE InSince(k, VersionOf(activeInbounds'[k]), u)
        <5>1. CASE activeInbounds[k] = None
          BY <2>2, <2>4, <2>6, <3>1, <4>4, <5>1, Zenon
        <5>2. CASE activeInbounds[k] # None
          <6>1. PICK v : v = VersionOf(activeInbounds[k]) BY Zenon
          <6>2. InSince(k, v, t) BY <4>3, <5>2, <6>1, Zenon DEF InboundsAt
          <6>3. v \in Versions BY <5>2, <6>1, WorkerVersion, Zenon DEF TypeOK
          <6>4. KindOf[k] # "npchain"
            <7>1. v \in v..t
              BY <4>2, <6>2, <6>3, ConfigsAssumption DEF InSince, Versions, ConfigsAssumption
            <7>2. k \in Handled(configOf[v]) BY <6>2, <7>1, Zenon DEF InSince
            <7> QED BY <7>2, Zenon DEF Handled
          <6> QED BY <2>4, <2>6, <3>1, <4>5, <5>2, <6>1, <6>2, <6>3, <6>4, Zenon
        <5> QED BY <5>1, <5>2, Zenon
      <4>7. ASSUME NEW k \in Keys, activeInbounds'[k] # None
            PROVE  InSince(k, VersionOf(activeInbounds[k]), u)'
        <5>1. PICK v : v = VersionOf(activeInbounds'[k]) BY Zenon
        <5>2. InSince(k, v, u)' BY <3>3, <4>6, <4>7, <5>1, Zenon
        <5>3. VersionOf(activeInbounds[k])' = v BY <1>a, <5>1, Zenon DEF VersionOf
        <5> QED BY <5>2, <5>3, Zenon DEF InSince, Handled
      <4> QED BY <1>a, <4>6, <4>7, Zenon DEF InboundsAt, Handled
    <3> QED BY <3>7, <3>8, Zenon
  <2>5. ASSUME InOrder PROVE InOrder'
    <3>1. ConfigOf(w) = configOf[latest] BY <1>e, <2>5, Zenon
    <3>2. rules = latest /\ AllRenewed BY <2>1, <2>5, Zenon DEF InOrder
    <3>3. \A x \in Workers : ~Applying(x)'
      BY <1>e, <2>1, <2>5, Zenon DEF Applying, TypeOK
    <3>4. InboundsAt(latest)'
      <4>1. PICK u \in Versions : u = latest BY Zenon DEF TypeOK
      <4>2. InboundsAt(u)' BY <2>5, <2>7, <4>1, Zenon
      <4> QED BY <1>a, <4>1, <4>2, Zenon DEF InboundsAt, InSince, Handled, VersionOf
    <3>5. OnLatest'
      <4>1. rules' = latest' BY <1>a, <2>1, <3>2, Zenon
      <4>2. \A n \in Declared(configOf'[latest']) : outbounds'[n] = latest'
        BY <1>a, <2>1, <3>2, Zenon DEF AllRenewed
      <4> QED BY <3>4, <4>1, <4>2, Zenon DEF OnLatest, Declared
    <3> QED BY <3>3, <3>5, Zenon DEF InOrder, Applying
  <2> QED BY <1>a, <1>f, <2>5, Zenon DEF SerialInv
<1> QED BY <1>1, <1>2, <1>3, Zenon DEF WorkerStep

(* The order of reloads holds in every reachable state. *)
LEMMA SerialInvariant == Spec => []SerialInv
<1>1. Init => SerialInv
  <2>1. Init => startVersion <= latest BY DEF Init
  <2> QED BY <2>1, Zenon DEF Init, SerialInv, Applying
<1>2. TypeOK /\ RouteInv /\ SerialInv /\ [Next]_vars => SerialInv'
  <2> SUFFICES ASSUME TypeOK, RouteInv, SerialInv, [Next]_vars PROVE SerialInv' BY Zenon
  <2> USE Zero
  <2>1. CASE StartStep
    <3>1. agent # "new" BY <2>1, Zenon DEF StartStep, StartHTTPServices, Subscribe,
                           StartQUICServer, RouteInv
    <3> QED BY <2>1, <3>1, SerialFrame, Zenon DEF StartStep, StartHTTPServices,
               Subscribe, StartQUICServer,
       agentVars, configVars, routerVars, inboundVars, TypeOK, Applying
  <2>2. CASE Stop \/ StopReturns
    BY <2>2, SerialFrame, Zenon DEF Stop, StopReturns, configVars, routerVars, inboundVars
  <2>3. ASSUME NEW h \in Handlers, HandlerStep(h) PROVE SerialInv'
    BY <2>3, SerialFrame, Zenon DEF HandlerStep, ListenOK, ListenFail, AcceptLoopReturns,
       HTTPServerCloses, Move, agentVars, configVars, routerVars
  <2>4. ASSUME NEW x \in ServiceNames, ServiceStops(x) \/ ServiceFails(x) PROVE SerialInv'
    BY <2>4, SerialFrame, Zenon DEF ServiceStops, ServiceFails, configVars, routerVars,
       inboundVars
  <2>5. CASE UNCHANGED vars
    BY <2>5, SerialFrame, Zenon DEF vars, agentVars, configVars, routerVars, inboundVars
  <2> QED
    BY <2>1, <2>2, <2>3, <2>4, <2>5, SerialUpdate, SerialStart, SerialWorker, Zenon
       DEF Next
<1> QED BY <1>1, <1>2, TypeCorrect, RouteInvariant, PTL DEF Spec

(* Updates that neither overlap nor come between Agent.Start's read of the  *)
(* configuration and its Subscribe reach the router and the set of inbounds: *)
(* once no worker is left the router is on the latest one and the inbounds  *)
(* are its inbounds, each with the settings it came with.                   *)
THEOREM SerialTheorem == Spec => []SerialReloadsSettle
<1>1. SerialInv => SerialReloadsSettle
  <2> SUFFICES ASSUME SerialInv, Settled, disorder = {} PROVE OnLatest
    BY Zenon DEF SerialReloadsSettle
  <2>1. \A w \in Workers : ~Applying(w) BY DEF Settled, Applying
  <2>2. InOrder BY Zenon DEF SerialInv, Settled
  <2> QED BY <2>1, <2>2, Zenon DEF InOrder
<1> QED BY <1>1, SerialInvariant, PTL

-----------------------------------------------------------------------------
(* The control-plane client: Stop, for any number of configurations,        *)
(* policies and outages.                                                    *)

(* What a stop does not depend on is left out of the types. *)
StopTypes ==
  /\ loop \in {"top", "dial", "register", "sleep", "returning", "returned",
               "wait", "beat", "command", "policies"}
  /\ conn \in {"nil", "open", "closed"}
  /\ cancelled \in BOOLEAN
  /\ stop \in [Stoppers -> {"idle", "check", "close", "done", "panicked"}]

(* No goroutine but the loop itself has called Stop. *)
OnlyCommand == \A x \in Stoppers \ {"command"} : stop[x] = "idle"

(* The loop has a connection from the dial to the end of the iteration.  A  *)
(* Stop that it runs holds it at "command", with that connection; and after *)
(* it the loop goes on with the response in hand, but never dials again.    *)
StopInv ==
  /\ loop \in {"register", "wait", "beat", "command", "policies"} => conn # "nil"
  /\ cancelled => \E x \in Stoppers : stop[x] # "idle"
  /\ loop \in {"returning", "returned"} => cancelled
  /\ \A x \in Stoppers :
       /\ stop[x] # "panicked"
       /\ stop[x] # "idle" => cancelled
       /\ stop[x] \in {"check", "close"} => loop = "command"
       /\ stop[x] = "done" =>
            /\ conn = "closed"
            /\ loop \in {"command", "policies", "wait", "beat", "returning", "returned"}

ControlInv == StopTypes /\ (OnlyCommand => StopInv)

(* A step of the loop. *)
LEMMA LoopKeeps ==
  ASSUME ControlInv, LoopStep
  PROVE  ControlInv'
<1> USE DEF ControlInv, StopTypes, OnlyCommand, StopInv, stopVars, EndIteration
<1>1. CASE CloseOld BY <1>1, Zenon DEF CloseOld
<1>2. CASE DialOK BY <1>2, Zenon DEF DialOK
<1>3. CASE DialFails BY <1>3, Zenon DEF DialFails
<1>4. CASE RegisterOK BY <1>4, Zenon DEF RegisterOK
<1>5. CASE RegisterFails BY <1>5, Zenon DEF RegisterFails
<1>6. CASE BackoffElapses BY <1>6, Zenon DEF BackoffElapses
<1>7. CASE Return BY <1>7, Zenon DEF Return
<1>8. CASE Tick BY <1>8, Zenon DEF Tick
<1>9. CASE HeartbeatDone BY <1>9, Zenon DEF HeartbeatDone
<1>10. ASSUME NEW c \in Commands, HeartbeatOK(c) PROVE ControlInv'
  BY <1>10, Zenon DEF HeartbeatOK
<1>11. CASE HeartbeatFails BY <1>11, Zenon DEF HeartbeatFails
<1>12. CASE CommandDone BY <1>12, Zenon DEF CommandDone
<1>13. CASE ApplyPolicies BY <1>13, Zenon DEF ApplyPolicies
<1> HIDE DEF ControlInv, StopTypes, OnlyCommand, StopInv
<1> QED
  BY <1>1, <1>2, <1>3, <1>4, <1>5, <1>6, <1>7, <1>8, <1>9, <1>10, <1>11, <1>12, <1>13,
     Zenon DEF LoopStep

(* A step of Stop. *)
LEMMA StopKeeps ==
  ASSUME ControlInv, NEW x \in Stoppers, StopCancel(x) \/ StopStep(x)
  PROVE  ControlInv'
<1>1. OnlyCommand' => OnlyCommand /\ x = "command"
  BY Zenon DEF ControlInv, StopTypes, OnlyCommand, StopCancel, StopStep, StopCheck,
     StopClose
<1>2. CASE StopCancel(x)
  BY <1>1, <1>2, Zenon DEF StopCancel, ControlInv, StopTypes, OnlyCommand, StopInv,
     clientVars
<1>3. CASE StopCheck(x)
  BY <1>1, <1>3 DEF StopCheck, ControlInv, StopTypes, OnlyCommand, StopInv, clientVars
<1>4. CASE StopClose(x)
  BY <1>1, <1>4 DEF StopClose, ControlInv, StopTypes, OnlyCommand, StopInv, clientVars
<1> QED
  BY <1>2, <1>3, <1>4, Zenon DEF StopStep

(* Every reachable state satisfies the invariant. *)
LEMMA ControlInvariance == ControlSpec => []ControlInv
<1>1. ControlInit => ControlInv
  BY Zenon DEF ControlInit, ControlInv, StopTypes, OnlyCommand, StopInv
<1>2. ControlInv /\ [ControlNext]_controlVars => ControlInv'
  <2> SUFFICES ASSUME ControlInv, [ControlNext]_controlVars PROVE ControlInv'
    BY Zenon
  <2>1. CASE UNCHANGED <<loop, conn, stopVars>>
    BY <2>1, Zenon DEF ControlInv, StopTypes, OnlyCommand, StopInv, stopVars
  <2>2. ASSUME NEW f \in Fetches, FetchStep(f) PROVE UNCHANGED <<loop, conn, stopVars>>
    BY <2>2, Zenon DEF FetchStep, FetchServed, FetchFails, FetchApplied, clientVars
  <2>3. Publish \/ Outage \/ Recover \/ UNCHANGED controlVars => UNCHANGED <<loop, conn, stopVars>>
    BY Zenon DEF Publish, Outage, Recover, controlVars, clientVars
  <2>4. ASSUME NEW p \in 0..MaxPolicies, SetPolicies(p) PROVE UNCHANGED <<loop, conn, stopVars>>
    BY <2>4, Zenon DEF SetPolicies, clientVars
  <2> QED
    BY <2>1, <2>2, <2>3, <2>4, LoopKeeps, StopKeeps, Zenon DEF ControlNext
<1> QED
  BY <1>1, <1>2, PTL DEF ControlSpec

(* A shutdown command cleans up: Stop does not panic, and it leaves no open *)
(* connection behind once the loop has returned.                            *)
THEOREM StopTheorem == ControlSpec => []StopCleansUp
<1>1. ControlInv => StopCleansUp
  BY Zenon DEF ControlInv, StopTypes, OnlyCommand, StopInv, StopCleansUp, Stopped
<1> QED
  BY <1>1, ControlInvariance, PTL

=============================================================================
