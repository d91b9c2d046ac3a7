------------------------------- MODULE Balance -------------------------------
(***************************************************************************)
(* Which way a session takes: the latency probes and health scores of the  *)
(* np-chain outbounds (NPChainHandler.probeLoop, HealthCheck), the router's *)
(* choice by lowest latency (selectByStrategy), and the tcp-balance inbound *)
(* with its health check loop and its choice of a target.  A reload puts a *)
(* new handler under an outbound's name, while the old one goes on probing, *)
(* and changes the rules.                                                  *)
(*                                                                         *)
(* Time passes in ticks of five seconds.  What is due at a tick is done    *)
(* before the next one: a probe takes three seconds at most.               *)
(***************************************************************************)
EXTENDS Listener, Sequences, FiniteSets

CONSTANTS
  Outbounds,     \* names of outbounds
  Direct,        \* the direct ones among them, the others are np-chain
  TargetList,    \* TCPBalanceHandler.targets
  Routings,      \* what rules and groups may make of the targets: per target
                 \* the outbounds of the group its rule names, all with strategy
                 \* lowest-latency, or the one outbound it names, or none
  Latencies,     \* milliseconds it may take to dial a node that is up
  Budgets,       \* bounds, chosen anew for every behaviour: the clients that
                 \* connect and the numbers of network changes and reloads
  MaxReloads,    \* bound: reloads of one outbound
  SettleTicks    \* ticks after which a change must have had its effect

Targets == {TargetList[i] : i \in 1..Len(TargetList)}

ASSUME BalanceAssumption ==
  /\ TargetList \in Seq(Targets)
  /\ Direct \subseteq Outbounds
  /\ Routings \subseteq [Targets -> SUBSET Outbounds]
  /\ Latencies \subseteq 0..2999
  /\ Budgets \subseteq [clients : SUBSET Clients, changes : Nat, reloads : Nat]
  /\ MaxReloads \in Nat /\ SettleTicks \in Nat

Handlers == Outbounds \X (0..MaxReloads)   \* an outbound and its generation
Down == 9999                               \* no dial succeeds within 3 s
ProbeTicks == 3                            \* a probe every 15 seconds
CheckTicks == 2                            \* a health check every 10 seconds

NoHandler == <<"none", 0>>
NoStatus == [out |-> NoHandler, score |-> -1]

VARIABLES
  latency,      \* per outbound: what a dial takes now, or Down
  budget,       \* what is left of the behaviour's budget
  stable,       \* per outbound: ticks since latency, handler or rules changed
  routes,       \* the routing of the rules in force, one of Routings
  generation,   \* per outbound: the handler the router has under its name
  latencyMs,    \* per handler: NPChainHandler.latencyMs
  probeIn,      \* per handler: ticks until its next probe
  checkIn,      \* ticks until the next health check
  checkAt,      \* the target the running check is at, 0 when none is running
  scan,         \* selectByStrategy under way: candidates left, best, maxScore
  status,       \* per target: targetStatuses, NoStatus when absent
  counter       \* the round-robin counter, modulo the number of targets

networkVars == <<latency, budget, stable>>
probeVars == <<routes, generation, latencyMs, probeIn>>
checkVars == <<checkIn, checkAt, scan, status>>
balanceVars == <<networkVars, probeVars, checkVars, counter>>
vars == <<listenerVars, balanceVars>>

NoScan == [left |-> {}, best |-> NoHandler, max |-> -1]

Init ==
  /\ ListenerInit
  /\ latency \in [Outbounds -> Latencies \cup {Down}]
  /\ budget \in Budgets
  /\ stable = [o \in Outbounds |-> 0]
  /\ routes \in Routings
  /\ generation = [o \in Outbounds |-> 0]
  /\ latencyMs = [h \in Handlers |-> 0]
  /\ probeIn = [h \in Handlers |-> ProbeTicks]
  /\ checkIn = CheckTicks
  /\ checkAt = 1
  /\ scan = NoScan
  /\ status = [t \in Targets |-> NoStatus]
  /\ counter = 0

-----------------------------------------------------------------------------
(* Outbounds. *)

(* Variant: every node that answers is as good as any other. *)
ScoreOfAlive(h) ==
  IF h[1] \in Direct THEN 2000
  ELSE IF latencyMs[h] <= 0 THEN 1000
  ELSE IF latencyMs[h] >= 2000 THEN 200
  ELSE 2000

(* HealthCheck, times 2000. *)
HealthCheck(h) ==
  IF h[1] \in Direct THEN 2000
  ELSE IF latencyMs[h] <= 0 THEN 1000
  ELSE IF latencyMs[h] >= 2000 THEN 200
  ELSE 2000 - latencyMs[h]

Started(h) == h[2] <= generation[h[1]]
Current(o) == <<o, generation[o]>>

(* Variant: a failed probe leaves the last latency in place. *)
ProbeKeepsLast(h) ==
  /\ Started(h) /\ probeIn[h] = 0
  /\ probeIn' = [probeIn EXCEPT ![h] = ProbeTicks]
  /\ latencyMs' = [latencyMs EXCEPT ![h] = IF latency[h[1]] = Down THEN @ ELSE latency[h[1]]]
  /\ UNCHANGED <<listenerVars, networkVars, routes, generation, checkVars, counter>>

(* One round of probeLoop: the dial succeeds and takes its time, or fails   *)
(* and 9999 is stored.                                                      *)
Probe(h) ==
  /\ Started(h) /\ probeIn[h] = 0
  /\ probeIn' = [probeIn EXCEPT ![h] = ProbeTicks]
  /\ latencyMs' = [latencyMs EXCEPT ![h] = latency[h[1]]]
  /\ UNCHANGED <<listenerVars, networkVars, routes, generation, checkVars, counter>>

(* applyConfigToRouter makes a new handler for a name: NewNPChainHandler    *)
(* starts its probe loop, and nothing ends that of the old handler.         *)
Reload(o) ==
  /\ budget.reloads > 0 /\ generation[o] < MaxReloads
  /\ budget' = [budget EXCEPT !.reloads = @ - 1]
  /\ generation' = [generation EXCEPT ![o] = @ + 1]
  /\ stable' = [stable EXCEPT ![o] = 0]
  /\ UNCHANGED <<listenerVars, latency, routes, latencyMs, probeIn, checkVars, counter>>

(* It then puts the new rules in force, and a target may have other         *)
(* outbounds from now on, or none.                                          *)
UpdateRules(r) ==
  /\ budget.reloads > 0 /\ r # routes
  /\ budget' = [budget EXCEPT !.reloads = @ - 1]
  /\ routes' = r
  /\ stable' = [o \in Outbounds |-> 0]
  /\ UNCHANGED <<listenerVars, latency, generation, latencyMs, probeIn, checkVars, counter>>

-----------------------------------------------------------------------------
(* Route with a group: the candidates are collected under the lock and      *)
(* their scores read one by one after it.                                   *)

Candidates(t) == {Current(o) : o \in routes[t]}

ScanOne(h) ==
  [left |-> scan.left \ {h},
   best |-> IF HealthCheck(h) > scan.max THEN h ELSE scan.best,
   max |-> IF HealthCheck(h) > scan.max THEN HealthCheck(h) ELSE scan.max]

-----------------------------------------------------------------------------
(* healthCheckLoop. *)

StartCheck ==
  /\ checkIn = 0 /\ checkAt = 0
  /\ checkIn' = CheckTicks
  /\ checkAt' = 1
  /\ UNCHANGED <<listenerVars, networkVars, probeVars, scan, status, counter>>

(* check() at its next target: Route collects the candidates; when it finds *)
(* none the status of the target stays as it is ...                         *)
CheckRoute ==
  /\ checkAt \in 1..Len(TargetList)
  /\ scan = NoScan
  /\ LET found == Candidates(TargetList[checkAt])
     IN  IF found = {} THEN checkAt' = checkAt + 1 /\ UNCHANGED scan
         ELSE scan' = [NoScan EXCEPT !.left = found] /\ UNCHANGED checkAt
  /\ UNCHANGED <<listenerVars, networkVars, probeVars, checkIn, status, counter>>

(* ... reads their scores ... *)
CheckScan(h) ==
  /\ h \in scan.left
  /\ scan' = ScanOne(h)
  /\ UNCHANGED <<listenerVars, networkVars, probeVars, checkIn, checkAt, status,
                 counter>>

(* ... and the score of the best is read again and stored for the target. *)
CheckStore ==
  /\ scan.best # NoHandler /\ scan.left = {}
  /\ status' = [status EXCEPT ![TargetList[checkAt]] =
                  [out |-> scan.best, score |-> HealthCheck(scan.best)]]
  /\ scan' = NoScan
  /\ checkAt' = checkAt + 1
  /\ UNCHANGED <<listenerVars, networkVars, probeVars, checkIn, counter>>

EndCheck ==
  /\ checkAt = Len(TargetList) + 1
  /\ checkAt' = 0
  /\ UNCHANGED <<listenerVars, networkVars, probeVars, checkIn, scan, status,
                 counter>>

-----------------------------------------------------------------------------
(* handle: the choice of a target for a client, and the dial. *)

(* The targets a loop over the map may end with: any of the highest score. *)
BestTargets == {t \in Targets : /\ status[t] # NoStatus
                                /\ \A u \in Targets : status[u].score <= status[t].score}

FallbackBelow == 200     \* the score 0.1

(* The dial through the chosen outbound fails, or DualRelay takes over. *)
Ends(c) == Moves(c, "handle", "closed") \/ Moves(c, "handle", "relay")

Choose(c) ==
  /\ \E t \in BestTargets : status[t].score >= FallbackBelow
  /\ Ends(c)
  /\ UNCHANGED <<preamble, accepting, balanceVars>>

(* No status yet, or only low scores: the next target in turn, routed anew. *)
Fallback(c) ==
  LET next == (counter + 1) % Len(TargetList)
  IN  /\ \A t \in BestTargets : status[t].score < FallbackBelow
      /\ counter' = next
      /\ IF Candidates(TargetList[next + 1]) = {} THEN Moves(c, "handle", "closed")
         ELSE Ends(c)
      /\ UNCHANGED <<preamble, accepting, networkVars, probeVars, checkVars>>

-----------------------------------------------------------------------------
(* The network and the clock. *)

NetworkChanges(o, l) ==
  /\ budget.changes > 0
  /\ l # latency[o]
  /\ budget' = [budget EXCEPT !.changes = @ - 1]
  /\ latency' = [latency EXCEPT ![o] = l]
  /\ stable' = [stable EXCEPT ![o] = 0]
  /\ UNCHANGED <<listenerVars, probeVars, checkVars, counter>>

Running == {h \in Handlers : Started(h)}

Tick ==
  /\ \A h \in Running : probeIn[h] > 0
  /\ checkIn > 0 /\ checkAt = 0
  /\ stable' = [o \in Outbounds |-> IF stable[o] < SettleTicks THEN stable[o] + 1
                                    ELSE SettleTicks]
  /\ probeIn' = [h \in Handlers |-> IF h \in Running THEN probeIn[h] - 1 ELSE probeIn[h]]
  /\ checkIn' = checkIn - 1
  /\ UNCHANGED <<listenerVars, latency, budget, routes, generation, latencyMs,
                 checkAt, scan, status, counter>>

-----------------------------------------------------------------------------
ClientStep(c) ==
  \/ ListenerStep(c) /\ UNCHANGED balanceVars
  \/ Choose(c) \/ Fallback(c)

Sends(c) == SendPreamble(c) /\ UNCHANGED balanceVars

LoopStep ==
  \/ StartCheck \/ CheckRoute \/ CheckStore \/ EndCheck
  \/ \E h \in scan.left : CheckScan(h)
  \/ \E h \in Handlers : Probe(h)

Next ==
  \/ \E c \in Clients : ClientStep(c) \/ Sends(c)
  \/ \E c \in budget.clients : Connect(c) /\ UNCHANGED balanceVars
  \/ LoopStep
  \/ \E r \in Routings : UpdateRules(r)
  \/ \E o \in Outbounds : Reload(o) \/ \E l \in Latencies \cup {Down} : NetworkChanges(o, l)
  \/ Tick

Spec == Init /\ [][Next]_vars

(* A runnable goroutine is scheduled.  A client may never send anything. *)
Fairness == \A c \in Clients : WF_vars(ClientStep(c))

FairSpec == Spec /\ Fairness

-----------------------------------------------------------------------------
(* Properties. *)

Settled(o) == stable[o] >= SettleTicks
Routed == UNION {routes[t] : t \in Targets}

(* Half a minute after an outbound went down no session is sent its way any *)
(* more for a target that has a way at all, if some target has another way  *)
(* that is up and no way of its that has changed since: in the worst case a *)
(* probe was just over, and then a health check.                            *)
FailoverBound ==
  \A t \in BestTargets :
    LET o == status[t].out[1]
    IN  ~ /\ routes[t] # {} /\ latency[o] = Down /\ Settled(o)
          /\ \E u \in Targets : /\ \A q \in routes[u] : Settled(q)
                                /\ \E p \in routes[u] : latency[p] # Down

(* Half a minute after the last change of the network, of the outbounds or  *)
(* of the rules a session for a target that has a way at all takes one of   *)
(* its ways, and the fastest of the ways that any target has.               *)
PicksFastest ==
  (\A o \in Outbounds : Settled(o))
    => \A t \in BestTargets :
         routes[t] # {} => /\ status[t].out[1] \in routes[t]
                           /\ \A p \in Routed : latency[status[t].out[1]] <= latency[p]

(* A client that has sent nothing and that Accept waits for. *)
HoldsUp(c) == client[c] = "header" /\ preamble[c] = "none"
Handled(c) == client[c] \in {"relay", "closed", "dropped"}

(* As long as no client holds up Accept for good every connection is served *)
(* or closed, or dropped for a PROXY header that cannot be parsed, whatever *)
(* the others send: a bad header of one does not end the loop for the rest. *)
ClientsHandled ==
  []<>(\A c \in Clients : ~HoldsUp(c))
    => \A c \in Clients : client[c] = "backlog" ~> Handled(c)

-----------------------------------------------------------------------------
(* What one might expect and the code does not do: TLC refutes each on the *)
(* instance that README.md names.                                          *)

(* Every connection is served, closed or dropped: a client that connects    *)
(* and says nothing makes the ones behind it wait in the backlog for ever.  *)
NeverHeldUp == \A c \in Clients : client[c] = "backlog" ~> Handled(c)

(* A connection with a PROXY header that cannot be parsed is closed: neither *)
(* WrapProxyProto nor Accept nor the loop does it.                          *)
DroppedClosed == \A c \in Clients : client[c] = "dropped" ~> client[c] = "closed"

(* Half a minute after the last change no session takes a way that the      *)
(* rules do not give its target: a target without a way keeps the status of *)
(* the last check that found one, and may go on being the best.             *)
StatusRouted ==
  (\A o \in Outbounds : Settled(o))
    => \A t \in BestTargets : status[t].out[1] \in routes[t]

=============================================================================
