------------------------------ MODULE HotReload ------------------------------
(***************************************************************************)
(* Starting, reconfiguring and stopping an agent: Agent.Start applies the  *)
(* configuration it finds in the ConfigManager, every later                *)
(* ConfigManager.Update starts one callback goroutine that applies the new *)
(* configuration to the router and to the inbound listeners, and           *)
(* Agent.Stop cancels the agent's context.                                 *)
(*                                                                         *)
(* A configuration is a model value; the functions *Of give its contents.  *)
(* Configurations are numbered in the order the ConfigManager stored them, *)
(* 0 being the one the agent was built with; the callback of update v is   *)
(* worker v, and Agent.Start itself is worker 0.                           *)
(***************************************************************************)
EXTENDS Integers, Sequences, FiniteSets

CONSTANTS
  Configs, InitialConfig,
  Names, DefaultName,   \* outbound names, and the name "default"
  Groups, Targets,
  OutboundsOf,          \* per config: the outbounds in file order (those of a
                        \* supported protocol, the others make no handler)
  GroupOf,              \* per config: the group of each outbound
  RulesOf,              \* per config: the routing rules in order
  Keys,                 \* "protocol-listen" keys of inbounds
  KindOf,               \* per key: "loop", "http" or "npchain"
  PortOf,               \* per key: the address it listens on
  Settings, InboundsOf, \* per config: the settings of each of its inbounds
  MaxUpdates            \* bound: updates after the initial configuration

NoName == "no outbound"
Rules == [match : SUBSET Targets, outbound : Names \cup {NoName}, group : Groups]
Versions == 0..MaxUpdates
Workers == 0..MaxUpdates
Handlers == Keys \X Workers     \* a handler: its key, the worker that made it
None == -1

ASSUME ConfigsAssumption ==
  /\ InitialConfig \in Configs
  /\ DefaultName \in Names
  /\ NoName \notin Names
  /\ OutboundsOf \in [Configs -> Seq(Names)]
  /\ GroupOf \in [Configs -> [Names -> Groups]]
  /\ RulesOf \in [Configs -> Seq(Rules)]
  /\ \A c \in Configs :
       /\ DOMAIN InboundsOf[c] \subseteq Keys
       /\ \A k \in DOMAIN InboundsOf[c] : InboundsOf[c][k] \in Settings
  /\ KindOf \in [Keys -> {"loop", "http", "npchain"}]
  /\ DOMAIN PortOf = Keys
  /\ MaxUpdates \in Nat

VARIABLES
  agent,           \* Agent.state and Stop: "new", "running", "stopping", "stopped"
  ctxDone,         \* the agent's context is cancelled
  latest,          \* ConfigManager.current: the number of the stored config
  configOf,        \* the configuration each number stands for
  subscribed,      \* ConfigManager.subs holds the agent's callback
  disorder,        \* history: "missed" once an update came between the read of
                   \* the config and Subscribe in Agent.Start, "overlapping"
                   \* once one came while another config was being applied
  startVersion,    \* the config Agent.Start read
  pc,              \* per worker: where it stands
  next,            \* per worker: the next outbound of its config to add
  outbounds,       \* BaseRouter.outbounds: per name the config that made it
  rules,           \* BaseRouter.rules: the config they come from
  activeInbounds,  \* Agent.activeInbounds: per key the worker that made it
  handlers,        \* per handler: where its Start stands
  stopCalled,      \* handlers whose Stop was called
  stoppedEarly,    \* history: those it was called of before they listened
  services,        \* the service goroutines that Agent.Start has started
  wg               \* the counter of Agent.wg

agentVars == <<agent, ctxDone, startVersion, services, wg>>
configVars == <<latest, configOf, subscribed, disorder>>
routerVars == <<outbounds, rules>>
inboundVars == <<activeInbounds, handlers, stopCalled, stoppedEarly>>
vars == <<agentVars, configVars, pc, next, routerVars, inboundVars>>

WorkerStates == {"idle", "outbounds", "sync", "services", "subscribe", "quic", "done"}
HandlerStates == {"none", "starting", "listening", "failed", "closed", "returned"}

Init ==
  /\ agent = "new"
  /\ ctxDone = FALSE
  /\ latest = 0
  /\ configOf = [v \in Versions |-> InitialConfig]
  /\ subscribed = FALSE
  /\ disorder = {}
  /\ startVersion = 0
  /\ pc = [w \in Workers |-> "idle"]
  /\ next = [w \in Workers |-> 1]
  /\ outbounds = [n \in Names |-> None]
  /\ rules = None
  /\ activeInbounds = [k \in Keys |-> None]
  /\ handlers = [h \in Handlers |-> "none"]
  /\ stopCalled = {}
  /\ stoppedEarly = {}
  /\ services = {}
  /\ wg = 0

(* The configuration a worker applies. *)
VersionOf(w) == IF w = 0 THEN startVersion ELSE w
ConfigOf(w) == configOf[VersionOf(w)]

-----------------------------------------------------------------------------
(* ConfigManager.Update with a valid configuration, at any time. *)
Applying(w) == pc[w] \in {"outbounds", "sync"}

Update(c) ==
  /\ latest < MaxUpdates
  /\ latest' = latest + 1
  /\ configOf' = [configOf EXCEPT ![latest + 1] = c]
  /\ pc' = [pc EXCEPT ![latest + 1] = IF subscribed THEN "outbounds" ELSE "done"]
  /\ disorder' = disorder \cup {x \in {"missed", "overlapping"} :
                                 IF x = "missed" THEN agent # "new" /\ ~subscribed
                                 ELSE \E w \in Workers : Applying(w)}
  /\ UNCHANGED <<agentVars, subscribed, next, routerVars, inboundVars>>

-----------------------------------------------------------------------------
(* Agent.Start up to the router set-up: the state CAS and ConfigManager.Get. *)
Start ==
  /\ agent = "new"
  /\ agent' = "running"
  /\ startVersion' = latest
  /\ pc' = [pc EXCEPT ![0] = "outbounds"]
  /\ UNCHANGED <<ctxDone, services, wg, configVars, next, routerVars, inboundVars>>

(* applyConfigToRouter: one BaseRouter.AddOutbound per outbound ... *)
AddOutbound(w) ==
  /\ pc[w] = "outbounds"
  /\ next[w] <= Len(OutboundsOf[ConfigOf(w)])
  /\ outbounds' = [outbounds EXCEPT ![OutboundsOf[ConfigOf(w)][next[w]]] = VersionOf(w)]
  /\ next' = [next EXCEPT ![w] = @ + 1]
  /\ UNCHANGED <<agentVars, configVars, pc, rules, inboundVars>>

(* Variant: the rules are swapped in before the outbounds are added. *)
UpdateRulesFirst(w) ==
  /\ pc[w] = "outbounds"
  /\ rules' = VersionOf(w)
  /\ pc' = [pc EXCEPT ![w] = "sync"]
  /\ UNCHANGED <<agentVars, configVars, next, outbounds, inboundVars>>

(* ... then BaseRouter.UpdateRules.  Outbounds are never removed. *)
UpdateRules(w) ==
  /\ pc[w] = "outbounds"
  /\ next[w] > Len(OutboundsOf[ConfigOf(w)])
  /\ rules' = VersionOf(w)
  /\ pc' = [pc EXCEPT ![w] = "sync"]
  /\ UNCHANGED <<agentVars, configVars, next, outbounds, inboundVars>>

-----------------------------------------------------------------------------
(* syncInbounds, which holds inboundMu throughout. *)

(* What InboundHandler.Stop does to a handler: nothing when its listener is *)
(* not there (yet, or any more).  An accept loop only returns when the      *)
(* context is done; http.Server.Serve returns when its listener is closed.  *)
StopEffect(h) ==
  IF handlers[h] # "listening" THEN handlers[h]
  ELSE IF KindOf[h[1]] = "http" THEN "returned" ELSE "closed"

(* Variant: inbounds that left the configuration keep running. *)
RemovedNever(wanted) == {k \in Keys : FALSE}

Removed(wanted) == {k \in Keys : activeInbounds[k] # None /\ k \notin wanted}

(* npchain inbounds have no handler here: the QUIC server serves them. *)
Added(wanted) ==
  {k \in wanted : activeInbounds[k] = None /\ KindOf[k] # "npchain"}

(* Variant: a removed inbound is stopped but stays in activeInbounds. *)
SyncWithoutDelete(w) ==
  LET wanted == DOMAIN InboundsOf[ConfigOf(w)]
      stopped == {<<k, activeInbounds[k]>> : k \in Removed(wanted)}
      started == Added(wanted) \X {w}
  IN  /\ pc[w] = "sync"
      /\ handlers' = [h \in Handlers |-> IF h \in stopped THEN StopEffect(h)
                                         ELSE IF h \in started THEN "starting"
                                         ELSE handlers[h]]
      /\ stopCalled' = stopCalled \cup stopped
      /\ stoppedEarly' = stoppedEarly \cup {h \in stopped : handlers[h] = "starting"}
      /\ activeInbounds' = [k \in Keys |-> IF k \in Added(wanted) THEN w
                                           ELSE activeInbounds[k]]
      /\ pc' = [pc EXCEPT ![w] = IF w = 0 THEN "services" ELSE "done"]
      /\ UNCHANGED <<agentVars, configVars, next, routerVars>>

SyncInbounds(w) ==
  LET wanted == DOMAIN InboundsOf[ConfigOf(w)]
      stopped == {<<k, activeInbounds[k]>> : k \in Removed(wanted)}
      started == Added(wanted) \X {w}
  IN  /\ pc[w] = "sync"
      /\ handlers' = [h \in Handlers |-> IF h \in stopped THEN StopEffect(h)
                                         ELSE IF h \in started THEN "starting"
                                         ELSE handlers[h]]
      /\ stopCalled' = stopCalled \cup stopped
      /\ stoppedEarly' = stoppedEarly \cup {h \in stopped : handlers[h] = "starting"}
      /\ activeInbounds' = [k \in Keys |-> IF k \in Removed(wanted) THEN None
                                           ELSE IF k \in Added(wanted) THEN w
                                           ELSE activeInbounds[k]]
      /\ pc' = [pc EXCEPT ![w] = IF w = 0 THEN "services" ELSE "done"]
      /\ UNCHANGED <<agentVars, configVars, next, routerVars>>

-----------------------------------------------------------------------------
(* The rest of Agent.Start: the admin server, Subscribe, the QUIC server. *)
StartHTTPServices ==
  /\ pc[0] = "services"
  /\ pc' = [pc EXCEPT ![0] = "subscribe"]
  /\ services' = services \cup {"admin"}
  /\ wg' = wg + 1
  /\ UNCHANGED <<agent, ctxDone, startVersion, configVars, next, routerVars, inboundVars>>

Subscribe ==
  /\ pc[0] = "subscribe"
  /\ pc' = [pc EXCEPT ![0] = "quic"]
  /\ subscribed' = TRUE
  /\ UNCHANGED <<agentVars, latest, configOf, disorder, next, routerVars, inboundVars>>

(* Variant: the QUIC goroutine is started without wg.Add. *)
StartQUICUncounted ==
  /\ pc[0] = "quic"
  /\ pc' = [pc EXCEPT ![0] = "done"]
  /\ services' = services \cup {"quic"}
  /\ UNCHANGED <<agent, ctxDone, startVersion, wg, configVars, next, routerVars, inboundVars>>

StartQUICServer ==
  /\ pc[0] = "quic"
  /\ pc' = [pc EXCEPT ![0] = "done"]
  /\ services' = services \cup {"quic"}
  /\ wg' = wg + 1
  /\ UNCHANGED <<agent, ctxDone, startVersion, configVars, next, routerVars, inboundVars>>

(* Agent.Stop: cancel, stop the control client (ControlClient has its       *)
(* steps), close the admin server, wait for Agent.wg.  The inbound handlers *)
(* are not stopped.  It is called once Start is over, or by a shutdown      *)
(* command: the control client runs before the QUIC server is started.      *)
Stop ==
  /\ agent = "running" /\ pc[0] \in {"quic", "done"}
  /\ agent' = "stopping"
  /\ ctxDone' = TRUE
  /\ UNCHANGED <<startVersion, services, wg, configVars, pc, next, routerVars, inboundVars>>

(* Variant: a QUIC accept loop that does not look at the context. *)
ServiceStopsLate(x) ==
  /\ ctxDone /\ x \in services \ {"quic"}
  /\ services' = services \ {x}
  /\ wg' = wg - 1
  /\ UNCHANGED <<agent, ctxDone, startVersion, configVars, pc, next, routerVars, inboundVars>>

(* A service goroutine returns: closed or cancelled by Stop ... *)
ServiceStops(x) ==
  /\ ctxDone /\ x \in services
  /\ services' = services \ {x}
  /\ wg' = wg - 1
  /\ UNCHANGED <<agent, ctxDone, startVersion, configVars, pc, next, routerVars, inboundVars>>

(* ... or because its address cannot be bound. *)
ServiceFails(x) ==
  /\ ~ctxDone /\ x \in services
  /\ services' = services \ {x}
  /\ wg' = wg - 1
  /\ UNCHANGED <<agent, ctxDone, startVersion, configVars, pc, next, routerVars, inboundVars>>

StopReturns ==
  /\ agent = "stopping" /\ wg = 0
  /\ agent' = "stopped"
  /\ UNCHANGED <<ctxDone, startVersion, services, wg, configVars, pc, next, routerVars, inboundVars>>

-----------------------------------------------------------------------------
(* InboundHandler.Start, in the goroutine that syncInbounds starts. *)

Move(h, from, to) ==
  /\ handlers[h] = from
  /\ handlers' = [handlers EXCEPT ![h] = to]
  /\ UNCHANGED <<agentVars, configVars, pc, next, routerVars, activeInbounds, stopCalled,
                 stoppedEarly>>

PortFree(port) ==
  \A h \in Handlers : handlers[h] = "listening" => PortOf[h[1]] # port

ListenOK(h) == PortFree(PortOf[h[1]]) /\ Move(h, "starting", "listening")

(* The address is taken, or the system refuses it for another reason. *)
ListenFail(h) == Move(h, "starting", "failed")

(* Accept fails on the closed listener; the loop looks at the context. *)
AcceptLoopReturns(h) == KindOf[h[1]] = "loop" /\ ctxDone /\ Move(h, "closed", "returned")

HTTPServerCloses(h) == KindOf[h[1]] = "http" /\ ctxDone /\ Move(h, "listening", "returned")

-----------------------------------------------------------------------------
WorkerStep(w) == AddOutbound(w) \/ UpdateRules(w) \/ SyncInbounds(w)
StartStep == StartHTTPServices \/ Subscribe \/ StartQUICServer
HandlerStep(h) ==
  ListenOK(h) \/ ListenFail(h) \/ AcceptLoopReturns(h) \/ HTTPServerCloses(h)
ServiceNames == {"admin", "quic"}

Next ==
  \/ \E c \in Configs : Update(c)
  \/ Start \/ StartStep \/ Stop \/ StopReturns
  \/ \E w \in Workers : WorkerStep(w)
  \/ \E h \in Handlers : HandlerStep(h)
  \/ \E x \in ServiceNames : ServiceStops(x) \/ ServiceFails(x)

Spec == Init /\ [][Next]_vars

(* Runnable goroutines are scheduled; nothing makes an operator start,      *)
(* update or stop.                                                          *)
Fairness ==
  /\ WF_vars(StartStep) /\ WF_vars(StopReturns)
  /\ \A w \in Workers : WF_vars(WorkerStep(w))
  /\ \A h \in Handlers : WF_vars(HandlerStep(h))
  /\ \A x \in ServiceNames : WF_vars(ServiceStops(x))

FairSpec == Spec /\ Fairness

-----------------------------------------------------------------------------
(* BaseRouter.Route: the outbounds it may answer with (none:                *)
(* ErrNoAvailableOutbound).  The first matching rule decides, by name or by *)
(* group; selectByStrategy picks one of the group's members.                *)
Matching(t) ==
  {i \in DOMAIN RulesOf[configOf[rules]] : t \in RulesOf[configOf[rules]][i].match}

FirstMatch(t) ==
  RulesOf[configOf[rules]][CHOOSE i \in Matching(t) : \A j \in Matching(t) : i <= j]

Present == {n \in Names : outbounds[n] # None}

CurrentGroup(n) == GroupOf[configOf[outbounds[n]]][n]

Route(t) ==
  IF Matching(t) = {} THEN Present \cap {DefaultName}
  ELSE IF FirstMatch(t).outbound # NoName THEN Present \cap {FirstMatch(t).outbound}
  ELSE {n \in Present : CurrentGroup(n) = FirstMatch(t).group}

(* The outbound names a configuration declares. *)
Declared(c) == {OutboundsOf[c][i] : i \in DOMAIN OutboundsOf[c]}

-----------------------------------------------------------------------------
(* Properties. *)

(* Every variable has its type; in particular the wait group's counter is   *)
(* never negative (sync.WaitGroup would panic).                             *)
TypeOK ==
  /\ agent \in {"new", "running", "stopping", "stopped"}
  /\ ctxDone \in BOOLEAN
  /\ latest \in Versions
  /\ configOf \in [Versions -> Configs]
  /\ subscribed \in BOOLEAN
  /\ disorder \subseteq {"missed", "overlapping"}
  /\ startVersion \in Versions
  /\ pc \in [Workers -> WorkerStates]
  /\ next \in [Workers -> Nat \ {0}]
  /\ outbounds \in [Names -> Versions \cup {None}]
  /\ rules \in Versions \cup {None}
  /\ activeInbounds \in [Keys -> Workers \cup {None}]
  /\ handlers \in [Handlers -> HandlerStates]
  /\ stopCalled \subseteq Handlers
  /\ stoppedEarly \subseteq Handlers
  /\ services \subseteq ServiceNames
  /\ wg \in Nat

(* While any number of reload callbacks interleave, a target that the rules *)
(* in force send to an outbound their configuration declares is routed to   *)
(* exactly that outbound: there is no moment without a route.               *)
RoutesByName ==
  rules # None =>
    \A t \in Targets :
      (/\ Matching(t) # {}
       /\ FirstMatch(t).outbound \in Declared(configOf[rules]))
        => Route(t) = {FirstMatch(t).outbound}

(* However reloads interleave, every handler that syncInbounds ever started *)
(* is either the active one of its key or has had its Stop called, never    *)
(* both and never neither; and one that listens is active, or its Stop came *)
(* while its Start had not yet opened the listener.  (Such a handler goes   *)
(* on listening and nothing will stop it, see StopStopsListening.)          *)
HandlersAccounted ==
  \A h \in Handlers :
    LET active == activeInbounds[h[1]] = h[2]
    IN  /\ handlers[h] # "none" => (active # (h \in stopCalled))
        /\ handlers[h] = "listening" => active \/ h \in stoppedEarly

(* No worker is applying a configuration. *)
Settled == agent # "new" /\ \A w \in Workers : pc[w] \in {"idle", "done"}

Handled(c) == {k \in DOMAIN InboundsOf[c] : KindOf[k] # "npchain"}

(* The inbound k has been in every configuration from v to u, and v is the  *)
(* first of them, or the first that was applied.                            *)
InSince(k, v, u) ==
  /\ startVersion <= v /\ v <= u
  /\ \A x \in v..u : k \in Handled(configOf[x])
  /\ v = startVersion \/ k \notin Handled(configOf[v - 1])

(* The active inbounds are those of configuration u, each with the settings *)
(* of the configuration that brought it in: syncInbounds leaves an inbound  *)
(* alone as long as its protocol and address stay.                          *)
InboundsAt(u) ==
  \A k \in Keys : IF activeInbounds[k] = None THEN k \notin Handled(configOf[u])
                  ELSE InSince(k, VersionOf(activeInbounds[k]), u)

(* The router runs the rules of the latest stored configuration, built on   *)
(* that configuration's outbounds, and the active inbounds are its inbounds. *)
OnLatest ==
  /\ rules = latest
  /\ \A n \in Declared(configOf[latest]) : outbounds[n] = latest
  /\ InboundsAt(latest)

(* Updates that come one after the other, before Agent.Start or after its   *)
(* Subscribe, reach the router and the set of inbounds: whatever the        *)
(* configurations, when no reload is under way the router is on the latest  *)
(* one and the inbounds are its inbounds.  An inbound that stayed has the   *)
(* settings it came with, and no others (see InboundSettingsCurrent).       *)
SerialReloadsSettle == (Settled /\ disorder = {}) => OnLatest

(* Agent.Stop returns: both goroutines it waits for see the cancellation.   *)
StopTerminates == (agent = "stopping") ~> (agent = "stopped")

-----------------------------------------------------------------------------
(* What a comment or a document says and the code does not do: each of the  *)
(* following is refuted by TLC, see README.md.                              *)

(* Updates that overlap, each with a reload callback of its own, are        *)
(* applied safely too: when no reload is under way the agent runs the       *)
(* latest configuration.                                                    *)
ReloadsSettle == (Settled /\ "missed" \notin disorder) => OnLatest

(* A target that the rules in force send to a group in which their          *)
(* configuration has a member always has a route.                           *)
GroupAlwaysRoutable ==
  rules # None =>
    \A t \in Targets :
      (/\ Matching(t) # {} /\ FirstMatch(t).outbound = NoName
       /\ \E n \in Declared(configOf[rules]) :
            GroupOf[configOf[rules]][n] = FirstMatch(t).group)
        => Route(t) # {}

(* When no reload is under way every active inbound runs with the settings  *)
(* of the latest stored configuration.                                      *)
InboundSettingsCurrent ==
  Settled =>
    \A k \in Handled(configOf[latest]) :
      activeInbounds[k] # None
        => InboundsOf[ConfigOf(activeInbounds[k])][k] = InboundsOf[configOf[latest]][k]

(* ApplyConfig only stores the configuration and the router is not told: a   *)
(* running agent keeps the rules it started with.                            *)
ApplyOnlyStores == [][rules # None => rules' = rules]_vars

(* When Agent.Stop has returned none of the agent's services runs: the QUIC  *)
(* server may be counted in after Stop found the wait group at zero.         *)
StoppedIsQuiet == agent = "stopped" => services = {}

(* A handler whose Stop has been called does not listen. *)
StopStopsListening == \A h \in stopCalled : handlers[h] # "listening"

(* InboundHandler.Start returns once the context is cancelled. *)
StartReturnsOnCancel ==
  \A h \in Handlers :
    (ctxDone /\ handlers[h] \in {"starting", "listening"})
      ~> (handlers[h] \in {"failed", "returned"})

=============================================================================
