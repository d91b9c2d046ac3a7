---------------------------- MODULE ControlClient ----------------------------
(***************************************************************************)
(* The agent's connection to the controller: reconnectLoop with its        *)
(* exponential backoff, register, heartbeatLoop, the fetches of new        *)
(* configurations it starts, and Stop, called from outside ("signal") or   *)
(* by the loop itself on a shutdown command ("command").                   *)
(*                                                                         *)
(* The controller is external.  A HeartbeatRequest does not say which      *)
(* configuration the node has, so the controller announces each version    *)
(* once, and again to a node that registers anew.  Calls fail only while   *)
(* it is unreachable, or when the connection or the context is closed.     *)
(***************************************************************************)
EXTENDS Integers

CONSTANTS
  Stoppers,    \* subset of {"signal", "command"}: who may call Stop
  MaxVersions, \* bound: configurations published
  MaxPolicies, \* bound: the lists of policies, numbered from 1; 0 is the empty one
  MaxOutages   \* bound: times the controller becomes unreachable

ASSUME ControlAssumption ==
  /\ Stoppers \subseteq {"signal", "command"}
  /\ MaxVersions \in Nat /\ MaxPolicies \in Nat /\ MaxOutages \in Nat

Fetches == 1..(MaxVersions + MaxOutages)
MinBackoff == 1
MaxBackoff == 60

VARIABLES
  loop,       \* reconnectLoop and heartbeatLoop, as in ControlTypes
  backoff,    \* seconds
  conn,       \* ControlClient.conn: "nil", "open" or "closed"
  cancelled,  \* ControlClient.ctx
  stop,       \* per stopper: "idle", "check", "close", "done" or "panicked"
  hand,       \* the policies of the heartbeat response in hand
  policy,     \* the policies last given to onPolicyUpdate
  fetches,    \* calls of fetchAndApplyConfig so far
  fetch,      \* per call: "none", "call", "got", "applied" or "failed"
  got,        \* per call: the version it was served
  config,     \* the version last given to onConfigUpdate
  up,         \* the controller is reachable
  outages,    \* how often it became unreachable
  version,    \* its configuration
  announced,  \* the last version it has announced
  policies    \* its policies

clientVars == <<loop, backoff, hand, policy>>
stopVars == <<cancelled, stop>>
fetchVars == <<fetches, fetch, got, config>>
controllerVars == <<up, outages, version, announced, policies>>
controlVars == <<clientVars, conn, stopVars, fetchVars, controllerVars>>

ControlInit ==
  /\ loop = "top" /\ backoff = MinBackoff /\ conn = "nil"
  /\ cancelled = FALSE /\ stop = [x \in Stoppers |-> "idle"]
  /\ hand = 0 /\ policy = 0
  /\ fetches = 0 /\ config = 0
  /\ fetch = [f \in Fetches |-> "none"] /\ got = [f \in Fetches |-> 0]
  /\ up = TRUE /\ outages = 0 /\ version = 0 /\ announced = 0 /\ policies = 0

(* Closing a connection fails the calls on it. *)
CallsBroken == [f \in Fetches |-> IF fetch[f] = "call" THEN "failed" ELSE fetch[f]]
CallOK == up /\ ~cancelled /\ conn = "open"
CallFails == ~up \/ cancelled \/ conn = "closed"

-----------------------------------------------------------------------------
(* reconnectLoop. *)
CloseOld ==
  /\ loop = "top"
  /\ loop' = "dial"
  /\ conn' = "nil"
  /\ fetch' = CallsBroken
  /\ UNCHANGED <<backoff, hand, policy, stopVars, fetches, got, config, controllerVars>>

(* grpc.DialContext does not wait for the connection. *)
DialOK ==
  /\ loop = "dial"
  /\ loop' = "register" /\ conn' = "open"
  /\ UNCHANGED <<backoff, hand, policy, stopVars, fetchVars, controllerVars>>

(* The select at the end of an iteration: with the context already done the *)
(* timer cannot win.                                                        *)
EndIteration == loop' = IF cancelled THEN "returning" ELSE "sleep"

DialFails ==
  /\ loop = "dial" /\ cancelled
  /\ EndIteration
  /\ UNCHANGED <<backoff, hand, policy, conn, stopVars, fetchVars, controllerVars>>

RegisterOK ==
  /\ loop = "register" /\ CallOK
  /\ loop' = "wait" /\ backoff' = MinBackoff
  /\ announced' = 0
  /\ UNCHANGED <<hand, policy, conn, stopVars, fetchVars, up, outages, version, policies>>

(* Variant: the goroutine gives up when it cannot register. *)
RegisterGivesUp ==
  /\ loop = "register" /\ CallFails
  /\ loop' = "returned"
  /\ UNCHANGED <<backoff, hand, policy, conn, stopVars, fetchVars, controllerVars>>

RegisterFails ==
  /\ loop = "register" /\ CallFails
  /\ EndIteration
  /\ UNCHANGED <<backoff, hand, policy, conn, stopVars, fetchVars, controllerVars>>

Doubled(b) == IF 2 * b > MaxBackoff THEN MaxBackoff ELSE 2 * b

BackoffElapses ==
  /\ loop = "sleep"
  /\ loop' = "top" /\ backoff' = Doubled(backoff)
  /\ UNCHANGED <<hand, policy, conn, stopVars, fetchVars, controllerVars>>

(* Variant: the select has no case for the context. *)
ReturnNever == FALSE /\ UNCHANGED controlVars

Return ==
  /\ loop = "returning" \/ (loop = "sleep" /\ cancelled)
  /\ loop' = "returned"
  /\ UNCHANGED <<backoff, hand, policy, conn, stopVars, fetchVars, controllerVars>>

-----------------------------------------------------------------------------
(* heartbeatLoop. *)
Tick ==
  /\ loop = "wait"
  /\ loop' = "beat"
  /\ UNCHANGED <<backoff, hand, policy, conn, stopVars, fetchVars, controllerVars>>

HeartbeatDone ==
  /\ loop = "wait" /\ cancelled
  /\ EndIteration
  /\ UNCHANGED <<backoff, hand, policy, conn, stopVars, fetchVars, controllerVars>>

(* The response: a new configuration starts a fetch, then the command is    *)
(* run, then the policies are applied.                                      *)
HeartbeatOK(command) ==
  /\ loop = "beat" /\ CallOK
  /\ loop' = IF command = "shutdown" THEN "command" ELSE "policies"
  /\ hand' = policies
  /\ announced' = version
  /\ IF version > announced
     THEN fetches' = fetches + 1 /\ fetch' = [fetch EXCEPT ![fetches + 1] = "call"]
     ELSE UNCHANGED <<fetches, fetch>>
  /\ UNCHANGED <<backoff, policy, conn, stopVars, got, config, up, outages, version, policies>>

HeartbeatFails ==
  /\ loop = "beat" /\ CallFails
  /\ EndIteration
  /\ UNCHANGED <<backoff, hand, policy, conn, stopVars, fetchVars, controllerVars>>

(* handleRemoteCommand has returned from Agent.Stop. *)
CommandDone ==
  /\ loop = "command" /\ stop["command"] = "done"
  /\ loop' = "policies"
  /\ UNCHANGED <<backoff, hand, policy, conn, stopVars, fetchVars, controllerVars>>

(* An empty list is not handed on. *)
ApplyPolicies ==
  /\ loop = "policies"
  /\ loop' = "wait" /\ policy' = IF hand = 0 THEN policy ELSE hand
  /\ UNCHANGED <<backoff, hand, conn, stopVars, fetchVars, controllerVars>>

-----------------------------------------------------------------------------
(* fetchAndApplyConfig, a goroutine per announcement. *)
FetchServed(f) ==
  /\ fetch[f] = "call" /\ up /\ ~cancelled
  /\ fetch' = [fetch EXCEPT ![f] = "got"]
  /\ got' = [got EXCEPT ![f] = version]
  /\ UNCHANGED <<clientVars, conn, stopVars, fetches, config, controllerVars>>

FetchFails(f) ==
  /\ fetch[f] = "call" /\ (~up \/ cancelled)
  /\ fetch' = [fetch EXCEPT ![f] = "failed"]
  /\ UNCHANGED <<clientVars, conn, stopVars, fetches, got, config, controllerVars>>

FetchApplied(f) ==
  /\ fetch[f] = "got"
  /\ fetch' = [fetch EXCEPT ![f] = "applied"]
  /\ config' = got[f]
  /\ UNCHANGED <<clientVars, conn, stopVars, fetches, got, controllerVars>>

-----------------------------------------------------------------------------
(* Stop.  The read of conn, and the call of Close on it, are two steps. *)
StopCancel(x) ==
  /\ stop[x] = "idle" /\ (x = "command" => loop = "command")
  /\ stop' = [stop EXCEPT ![x] = "check"]
  /\ cancelled' = TRUE
  /\ UNCHANGED <<clientVars, conn, fetchVars, controllerVars>>

StopCheck(x) ==
  /\ stop[x] = "check"
  /\ stop' = [stop EXCEPT ![x] = IF conn = "nil" THEN "done" ELSE "close"]
  /\ UNCHANGED <<clientVars, conn, cancelled, fetchVars, controllerVars>>

(* Variant: the connection is left to the loop. *)
StopKeepsConn(x) ==
  /\ stop[x] = "close"
  /\ stop' = [stop EXCEPT ![x] = "done"]
  /\ UNCHANGED <<clientVars, conn, cancelled, fetchVars, controllerVars>>

(* Close of a nil connection ends the process with a panic. *)
StopClose(x) ==
  /\ stop[x] = "close"
  /\ stop' = [stop EXCEPT ![x] = IF conn = "nil" THEN "panicked" ELSE "done"]
  /\ conn' = IF conn = "nil" THEN "nil" ELSE "closed"
  /\ fetch' = CallsBroken
  /\ UNCHANGED <<clientVars, cancelled, fetches, got, config, controllerVars>>

-----------------------------------------------------------------------------
(* The controller. *)
Publish ==
  /\ version < MaxVersions
  /\ version' = version + 1
  /\ UNCHANGED <<clientVars, conn, stopVars, fetchVars, up, outages, announced, policies>>

SetPolicies(p) ==
  /\ p # policies
  /\ policies' = p
  /\ UNCHANGED <<clientVars, conn, stopVars, fetchVars, up, outages, version, announced>>

Outage ==
  /\ up /\ outages < MaxOutages
  /\ up' = FALSE /\ outages' = outages + 1
  /\ UNCHANGED <<clientVars, conn, stopVars, fetchVars, version, announced, policies>>

Recover ==
  /\ ~up
  /\ up' = TRUE
  /\ UNCHANGED <<clientVars, conn, stopVars, fetchVars, outages, version, announced, policies>>

-----------------------------------------------------------------------------
Commands == {"none"} \cup (IF "command" \in Stoppers THEN {"shutdown"} ELSE {})

LoopStep ==
  \/ CloseOld \/ DialOK \/ DialFails \/ RegisterOK \/ RegisterFails
  \/ BackoffElapses \/ Return
  \/ Tick \/ HeartbeatDone \/ (\E c \in Commands : HeartbeatOK(c)) \/ HeartbeatFails
  \/ CommandDone \/ ApplyPolicies
FetchStep(f) == FetchServed(f) \/ FetchFails(f) \/ FetchApplied(f)
StopStep(x) == StopCheck(x) \/ StopClose(x)

ControlNext ==
  \/ LoopStep
  \/ \E f \in Fetches : FetchStep(f)
  \/ \E x \in Stoppers : StopCancel(x) \/ StopStep(x)
  \/ Publish \/ (\E p \in 0..MaxPolicies : SetPolicies(p)) \/ Outage \/ Recover

ControlSpec == ControlInit /\ [][ControlNext]_controlVars

(* Goroutines run and timers fire; the shutdown command, once received, is  *)
(* run; an outage ends.  A call ends, with a response or an error: that is  *)
(* assumed of gRPC and the network, the calls carry no deadline.            *)
ControlFairness ==
  /\ WF_controlVars(LoopStep)
  /\ \A f \in Fetches : WF_controlVars(FetchStep(f))
  /\ \A x \in Stoppers : WF_controlVars(StopStep(x))
  /\ "command" \in Stoppers => WF_controlVars(StopCancel("command"))
  /\ WF_controlVars(Recover)

ControlFairSpec == ControlSpec /\ ControlFairness

-----------------------------------------------------------------------------
(* Every variable has its type; the backoff stays between one second and    *)
(* one minute.                                                              *)
ControlTypes ==
  /\ loop \in {"top", "dial", "register", "sleep", "returning", "returned",
               "wait", "beat", "command", "policies"}
  /\ backoff \in MinBackoff..MaxBackoff
  /\ conn \in {"nil", "open", "closed"}
  /\ cancelled \in BOOLEAN
  /\ stop \in [Stoppers -> {"idle", "check", "close", "done", "panicked"}]
  /\ hand \in 0..MaxPolicies /\ policy \in 0..MaxPolicies /\ policies \in 0..MaxPolicies
  /\ fetches \in 0..(MaxVersions + MaxOutages)
  /\ fetch \in [Fetches -> {"none", "call", "got", "applied", "failed"}]
  /\ got \in [Fetches -> 0..MaxVersions]
  /\ config \in 0..MaxVersions /\ version \in 0..MaxVersions /\ announced \in 0..MaxVersions
  /\ up \in BOOLEAN /\ outages \in 0..MaxOutages

Stopped == \A x \in Stoppers : stop[x] # "idle" => stop[x] = "done"

(* A shutdown command cleans up: unless another goroutine calls Stop, the   *)
(* connection to the controller is closed when Stop and reconnectLoop have  *)
(* returned, and Stop has not panicked on the way, although the loop went   *)
(* on with the response in hand after Stop.                                 *)
StopCleansUp ==
  (\A x \in Stoppers \ {"command"} : stop[x] = "idle") =>
    /\ \A x \in Stoppers : stop[x] # "panicked"
    /\ (cancelled /\ Stopped /\ loop = "returned") => conn # "open"

(* After Stop, reconnectLoop returns, whatever it was doing. *)
LoopReturns == cancelled ~> (loop = "returned")

(* Unless Stop is called, a list of policies that the controller settles on *)
(* becomes, and stays, the one last given to onPolicyUpdate, through outages *)
(* and reconnections.  The empty list is never given.                       *)
PoliciesReachNode ==
  \A p \in 1..MaxPolicies : <>[](policies = p) => <>cancelled \/ <>[](policy = p)

-----------------------------------------------------------------------------
(* What a comment or a document says and the code does not do; TLC  *)
(* refutes it, see README.md.                                               *)

(* Unless Stop is called, the node ends up with the controller's latest     *)
(* configuration.                                                           *)
LatestConfigApplied == <>cancelled \/ <>[](config = version)

=============================================================================
