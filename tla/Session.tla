------------------------------- MODULE Session -------------------------------
(***************************************************************************)
(* The life of a proxied TCP session: an inbound handler dials the target, *)
(* common.DualRelay registers the session and runs one common.Relay per    *)
(* direction, and the first relay to end takes the session down.  Around   *)
(* it: the traffic quota (QuotaManager), the bandwidth limiters            *)
(* (LimiterManager, LimitReader), the active-session counter and its       *)
(* gauge, and the operator's kick, quota reset and policy updates.         *)
(*                                                                         *)
(* Bytes are counted, not carried.  The upstream relay reads the client    *)
(* connection and writes the target connection, downstream the reverse.    *)
(* A local variable of the code is set back to 0 here once it is dead.     *)
(***************************************************************************)
EXTENDS Integers, FiniteSets

CONSTANTS
  Sessions,        \* accepted client connections, one session id each
  Users,           \* user ids
  UserOf,          \* the user each session authenticated as
  Metered,         \* the sessions of the socks5 and http inbounds: only these
                   \* hand a limiter and the quota manager to DualRelay
  LimitValues,     \* the quotas a policy update may set
  DefaultLimited,  \* is limits.per_user_bandwidth_mbps positive?
  Orders,          \* the operator orders given in this instance, some of
                   \* "kick", "reset", "revoke", "bandwidth" and "quota"
  MaxBytes,        \* bound: bytes each peer sends in each direction
  MaxLimiter       \* bound: limiter objects created per user

ASSUME ConstantsAssumption ==
  /\ IsFiniteSet(Sessions)
  /\ UserOf \in [Sessions -> Users]
  /\ Metered \subseteq Sessions
  /\ LimitValues \subseteq Nat \ {0}
  /\ DefaultLimited \in BOOLEAN
  /\ Orders \subseteq {"kick", "reset", "revoke", "bandwidth", "quota"}
  /\ MaxBytes \in Nat
  /\ MaxLimiter \in Nat

Dirs == {"upstream", "downstream"}
Relays == Sessions \X Dirs
Sides == {"client", "target"}

(* The connection a relay reads (src) and the one it writes (dst). *)
SrcOf(r) == IF r[2] = "upstream" THEN "client" ELSE "target"
DstOf(r) == IF r[2] = "upstream" THEN "target" ELSE "client"
RelayUser(r) == UserOf[r[1]]

(* Values of a limiter reference: no entry in LimiterManager.limiters, an   *)
(* entry that is a nil *BandwidthLimiter, and from RealLimiter on one       *)
(* number per object created for the user.                                 *)
NoEntry == 0
NilLimiter == 1
RealLimiter == 2

VARIABLES
  handler,      \* per session: where its inbound handler / DualRelay stands
  conn,         \* per session and side: "none", "open", "eof" (the peer has
                \* closed) or "closed" (closed by this process)
  cancelled,    \* per session: DualRelay's context is cancelled
  registry,     \* ActiveSessionMap: the sessions it holds
  errCh,        \* per session: relay results in the channel
  activeCount,  \* common.activeCount
  loaded,       \* per session: the count loaded for the gauge, not yet set
  gauge,        \* the value of the np_active_sessions gauge
  relay,        \* per relay: where it stands
  left,         \* per relay: bytes the peer may still send
  hand,         \* per relay: bytes in the relay's buffer
  readErr,      \* per relay: the last Read returned an error beside its bytes
  limitSeen,    \* per relay: the limit AddUsage has loaded
  totalRead,    \* per relay: Relay's totalRead
  sentSeen,     \* per relay: BytesSent as loaded by the deferred update
  bytesSent,    \* per session: SessionInfo.BytesSent
  used,         \* per user: the QuotaManager counter
  limits,       \* per user: the QuotaManager limit, 0 when there is none
  limiters,     \* per user: LimiterManager.limiters
  limiterOf,    \* per session: the limiter its handler obtained
  sent,         \* history, per relay: bytes written to the destination
  granted,      \* history, per user: bytes AddUsage let through since Reset
  loosest,      \* history, per user: the loosest limit that AddUsage calls
                \* since Reset may have seen (0: unlimited)
  allowance,    \* history, per user: sum of loosest over the quota periods
                \* that Reset has ended (Unbounded if one had no limit)
  revoked       \* history: users whose access a policy update revoked

sessionVars == <<handler, conn, cancelled, registry, errCh>>
gaugeVars == <<activeCount, loaded, gauge>>
relayVars == <<relay, left, hand, readErr, limitSeen, totalRead, sent>>
infoVars == <<sentSeen, bytesSent>>
quotaVars == <<used, limits, granted, loosest, allowance>>
limiterVars == <<limiters, limiterOf>>
vars == <<sessionVars, gaugeVars, relayVars, infoVars, quotaVars, limiterVars, revoked>>

HandlerStates == {"new", "dial", "inc", "incload", "incset", "store", "wait",
                  "dec", "decload", "decset", "closetarget", "closeclient", "end"}
RelayStates == {"none", "read", "limit", "quota", "add", "write", "flush",
                "bytessent", "send", "done"}

Unbounded == -1

(* The looser of two limits, 0 meaning no limit. *)
Looser(a, b) == IF a = 0 \/ b = 0 THEN 0 ELSE IF a > b THEN a ELSE b

(* A policy update may have set a limit before the first session. *)
Init ==
  /\ handler = [s \in Sessions |-> "new"]
  /\ conn = [s \in Sessions |-> [c \in Sides |-> "none"]]
  /\ cancelled = [s \in Sessions |-> FALSE]
  /\ registry = {}
  /\ errCh = [s \in Sessions |-> 0]
  /\ activeCount = 0
  /\ loaded = [s \in Sessions |-> 0]
  /\ gauge = 0
  /\ relay = [r \in Relays |-> "none"]
  /\ left = [r \in Relays |-> MaxBytes]
  /\ hand = [r \in Relays |-> 0]
  /\ readErr = [r \in Relays |-> FALSE]
  /\ limitSeen = [r \in Relays |-> 0]
  /\ totalRead = [r \in Relays |-> 0]
  /\ sentSeen = [r \in Relays |-> 0]
  /\ bytesSent = [s \in Sessions |-> 0]
  /\ used = [u \in Users |-> 0]
  /\ limits \in [Users -> LimitValues \cup {0}]
  /\ limiters = [u \in Users |-> NoEntry]
  /\ limiterOf = [s \in Sessions |-> NilLimiter]
  /\ sent = [r \in Relays |-> 0]
  /\ granted = [u \in Users |-> 0]
  /\ loosest = limits
  /\ allowance = [u \in Users |-> 0]
  /\ revoked = {}

-----------------------------------------------------------------------------
(* The inbound handler, up to DualRelay. *)

(* LimiterManager.GetOrCreate: the entry, created from the default rate     *)
(* when there is none.  NewBandwidthLimiter returns nil for a rate <= 0.    *)
GetOrCreate(u) ==
  IF limiters[u] # NoEntry THEN limiters[u]
  ELSE IF DefaultLimited THEN RealLimiter ELSE NilLimiter

(* A client connection is accepted, its user is authenticated and, on a    *)
(* metered inbound, the user's limiter is looked up.  A client that is     *)
(* refused leaves no trace in the state modelled here and is no session.   *)
Accept(s) ==
  /\ handler[s] = "new"
  /\ handler' = [handler EXCEPT ![s] = "dial"]
  /\ conn' = [conn EXCEPT ![s]["client"] = "open"]
  /\ IF s \in Metered
     THEN /\ limiters' = [limiters EXCEPT ![UserOf[s]] = GetOrCreate(UserOf[s])]
          /\ limiterOf' = [limiterOf EXCEPT ![s] = GetOrCreate(UserOf[s])]
     ELSE UNCHANGED limiterVars
  /\ UNCHANGED <<cancelled, registry, errCh, gaugeVars, relayVars, infoVars,
                 quotaVars, revoked>>

(* router.Route or outbound.Dial fails: the deferred Close is all that is   *)
(* left to do.                                                             *)
DialFail(s) ==
  /\ handler[s] = "dial"
  /\ handler' = [handler EXCEPT ![s] = "end"]
  /\ conn' = [conn EXCEPT ![s]["client"] = "closed"]
  /\ UNCHANGED <<cancelled, registry, errCh, gaugeVars, relayVars, infoVars,
                 quotaVars, limiterVars, revoked>>

DialOK(s) ==
  /\ handler[s] = "dial"
  /\ handler' = [handler EXCEPT ![s] = "inc"]
  /\ conn' = [conn EXCEPT ![s]["target"] = "open"]
  /\ UNCHANGED <<cancelled, registry, errCh, gaugeVars, relayVars, infoVars,
                 quotaVars, limiterVars, revoked>>

-----------------------------------------------------------------------------
(* DualRelay: IncActiveSessions, registration, the wait for the first      *)
(* relay, and the deferred calls in reverse order.  IncActiveSessions and  *)
(* DecActiveSessions add, load and set in three separate steps.            *)

Step(s, from, to) ==
  /\ handler[s] = from
  /\ handler' = [handler EXCEPT ![s] = to]

AddActive(s) ==
  /\ Step(s, "inc", "incload")
  /\ activeCount' = activeCount + 1
  /\ UNCHANGED <<conn, cancelled, registry, errCh, loaded, gauge, relayVars,
                 infoVars, quotaVars, limiterVars, revoked>>

LoadActive(s) ==
  /\ \/ Step(s, "incload", "incset")
     \/ Step(s, "decload", "decset")
  /\ loaded' = [loaded EXCEPT ![s] = activeCount]
  /\ UNCHANGED <<conn, cancelled, registry, errCh, activeCount, gauge,
                 relayVars, infoVars, quotaVars, limiterVars, revoked>>

SetGauge(s) ==
  /\ \/ Step(s, "incset", "store")
     \/ Step(s, "decset", "closetarget")
  /\ gauge' = loaded[s]
  /\ loaded' = [loaded EXCEPT ![s] = 0]
  /\ UNCHANGED <<conn, cancelled, registry, errCh, activeCount, relayVars,
                 infoVars, quotaVars, limiterVars, revoked>>

(* ActiveSessionMap.Store, then the two relay goroutines are started. *)
StoreSession(s) ==
  /\ Step(s, "store", "wait")
  /\ registry' = registry \cup {s}
  /\ relay' = [r \in Relays |-> IF r[1] = s THEN "read" ELSE relay[r]]
  /\ UNCHANGED <<conn, cancelled, errCh, gaugeVars, left, hand, readErr,
                 limitSeen, totalRead, sent, infoVars, quotaVars, limiterVars,
                 revoked>>

(* The receive from errCh and the deferred ActiveSessionMap.Delete. *)
FirstRelayEnded(s) ==
  /\ errCh[s] > 0
  /\ Step(s, "wait", "dec")
  /\ errCh' = [errCh EXCEPT ![s] = @ - 1]
  /\ registry' = registry \ {s}
  /\ UNCHANGED <<conn, cancelled, gaugeVars, relayVars, infoVars, quotaVars,
                 limiterVars, revoked>>

(* Variant: DualRelay without the deferred DecActiveSessions. *)
CancelWithoutSub(s) ==
  /\ Step(s, "dec", "decload")
  /\ cancelled' = [cancelled EXCEPT ![s] = TRUE]
  /\ UNCHANGED <<conn, registry, errCh, gaugeVars, relayVars, infoVars,
                 quotaVars, limiterVars, revoked>>

(* The deferred cancel and the decrement of DecActiveSessions. *)
CancelAndSub(s) ==
  /\ Step(s, "dec", "decload")
  /\ cancelled' = [cancelled EXCEPT ![s] = TRUE]
  /\ activeCount' = activeCount - 1
  /\ UNCHANGED <<conn, registry, errCh, loaded, gauge, relayVars, infoVars,
                 quotaVars, limiterVars, revoked>>

(* Variants: handlers without defer targetConn.Close() or defer conn.Close(). *)
ForgetTarget(s) ==
  /\ Step(s, "closetarget", "closeclient")
  /\ UNCHANGED <<conn, cancelled, registry, errCh, gaugeVars, relayVars, infoVars,
                 quotaVars, limiterVars, revoked>>

ForgetClient(s) ==
  /\ Step(s, "closeclient", "end")
  /\ UNCHANGED <<conn, cancelled, registry, errCh, gaugeVars, relayVars, infoVars,
                 quotaVars, limiterVars, revoked>>

(* The handler's deferred targetConn.Close, then its deferred conn.Close. *)
CloseTarget(s) ==
  /\ Step(s, "closetarget", "closeclient")
  /\ conn' = [conn EXCEPT ![s]["target"] = "closed"]
  /\ UNCHANGED <<cancelled, registry, errCh, gaugeVars, relayVars, infoVars,
                 quotaVars, limiterVars, revoked>>

CloseClient(s) ==
  /\ Step(s, "closeclient", "end")
  /\ conn' = [conn EXCEPT ![s]["client"] = "closed"]
  /\ UNCHANGED <<cancelled, registry, errCh, gaugeVars, relayVars, infoVars,
                 quotaVars, limiterVars, revoked>>

-----------------------------------------------------------------------------
(* Relay. *)

(* Variant: the quota manager is never consulted. *)
SkipQuota(r) == "write"

(* Where a relay goes once its Read has returned bytes. *)
AfterRead(r) == IF r[1] \in Metered THEN "quota" ELSE "write"

(* reader.Read returns n > 0 bytes; LimitReader then waits for tokens. *)
ReadData(r, n) ==
  /\ relay[r] = "read"
  /\ conn[r[1]][SrcOf(r)] \in {"open", "eof"}
  /\ n <= left[r]
  /\ left' = [left EXCEPT ![r] = @ - n]
  /\ hand' = [hand EXCEPT ![r] = n]
  /\ relay' = [relay EXCEPT ![r] =
                 IF limiterOf[r[1]] >= RealLimiter THEN "limit" ELSE AfterRead(r)]
  /\ UNCHANGED <<sessionVars, gaugeVars, readErr, limitSeen, totalRead, sent,
                 infoVars, quotaVars, limiterVars, revoked>>

(* reader.Read returns no bytes: the peer has closed, or this process has. *)
ReadEnd(r) ==
  /\ relay[r] = "read"
  /\ conn[r[1]][SrcOf(r)] \in {"eof", "closed"}
  /\ relay' = [relay EXCEPT ![r] = "flush"]
  /\ UNCHANGED <<sessionVars, gaugeVars, left, hand, readErr, limitSeen,
                 totalRead, sent, infoVars, quotaVars, limiterVars, revoked>>

(* BandwidthLimiter.Wait returns: nil, or the error of a cancelled context, *)
(* which LimitReader.Read returns beside the bytes already read.            *)
LimitWait(r) ==
  /\ relay[r] = "limit"
  /\ readErr' = [readErr EXCEPT ![r] = cancelled[r[1]]]
  /\ relay' = [relay EXCEPT ![r] = AfterRead(r)]
  /\ UNCHANGED <<sessionVars, gaugeVars, left, hand, limitSeen, totalRead, sent,
                 infoVars, quotaVars, limiterVars, revoked>>

(* AddUsage, first half: the limit is read under the read lock. *)
LoadLimit(r) ==
  /\ relay[r] = "quota"
  /\ limitSeen' = [limitSeen EXCEPT ![r] = limits[RelayUser(r)]]
  /\ relay' = [relay EXCEPT ![r] = "add"]
  /\ UNCHANGED <<sessionVars, gaugeVars, left, hand, readErr, totalRead, sent,
                 infoVars, quotaVars, limiterVars, revoked>>

(* Variant: the counter is compared before the chunk is added to it. *)
ExceededBefore(r) ==
  /\ limitSeen[r] > 0
  /\ used[RelayUser(r)] > limitSeen[r]

(* AddUsage, second half: counter.Add(n) is atomic, and the sum it returns  *)
(* is compared with the limit loaded before.  On excess Relay returns and   *)
(* the bytes are dropped.                                                  *)
Exceeded(r) ==
  /\ limitSeen[r] > 0
  /\ used[RelayUser(r)] + hand[r] > limitSeen[r]

(* Variant: over quota the chunk is dropped and the loop continues. *)
DropAndContinue(r) ==
  /\ relay[r] = "add"
  /\ used' = [used EXCEPT ![RelayUser(r)] = @ + hand[r]]
  /\ IF Exceeded(r)
     THEN /\ relay' = [relay EXCEPT ![r] = "read"]
          /\ hand' = [hand EXCEPT ![r] = 0]
          /\ UNCHANGED granted
     ELSE /\ relay' = [relay EXCEPT ![r] = "write"]
          /\ granted' = [granted EXCEPT ![RelayUser(r)] = @ + hand[r]]
          /\ UNCHANGED hand
  /\ limitSeen' = [limitSeen EXCEPT ![r] = 0]
  /\ UNCHANGED <<sessionVars, gaugeVars, left, readErr, totalRead, sent,
                 infoVars, limits, loosest, allowance, limiterVars, revoked>>

AddUsage(r) ==
  /\ relay[r] = "add"
  /\ used' = [used EXCEPT ![RelayUser(r)] = @ + hand[r]]
  /\ IF Exceeded(r)
     THEN /\ relay' = [relay EXCEPT ![r] = "flush"]
          /\ hand' = [hand EXCEPT ![r] = 0]
          /\ UNCHANGED granted
     ELSE /\ relay' = [relay EXCEPT ![r] = "write"]
          /\ granted' = [granted EXCEPT ![RelayUser(r)] = @ + hand[r]]
          /\ UNCHANGED hand
  /\ limitSeen' = [limitSeen EXCEPT ![r] = 0]
  /\ UNCHANGED <<sessionVars, gaugeVars, left, readErr, totalRead, sent,
                 infoVars, limits, loosest, allowance, limiterVars, revoked>>

(* Variant: BytesSent is also advanced on every write. *)
WriteAndCount(r) ==
  /\ relay[r] = "write"
  /\ conn[r[1]][DstOf(r)] \in {"open", "eof"}
  /\ totalRead' = [totalRead EXCEPT ![r] = @ + hand[r]]
  /\ sent' = [sent EXCEPT ![r] = @ + hand[r]]
  /\ bytesSent' = [bytesSent EXCEPT ![r[1]] = @ + hand[r]]
  /\ hand' = [hand EXCEPT ![r] = 0]
  /\ relay' = [relay EXCEPT ![r] = IF readErr[r] THEN "flush" ELSE "read"]
  /\ UNCHANGED <<sessionVars, gaugeVars, left, readErr, limitSeen, sentSeen,
                 quotaVars, limiterVars, revoked>>

(* dst.Write accepts the bytes.  It blocks, and so may never return, while  *)
(* the destination's peer does not read.                                    *)
WriteOK(r) ==
  /\ relay[r] = "write"
  /\ conn[r[1]][DstOf(r)] \in {"open", "eof"}
  /\ totalRead' = [totalRead EXCEPT ![r] = @ + hand[r]]
  /\ sent' = [sent EXCEPT ![r] = @ + hand[r]]
  /\ hand' = [hand EXCEPT ![r] = 0]
  /\ relay' = [relay EXCEPT ![r] = IF readErr[r] THEN "flush" ELSE "read"]
  /\ UNCHANGED <<sessionVars, gaugeVars, left, readErr, limitSeen, infoVars,
                 quotaVars, limiterVars, revoked>>

WriteFail(r) ==
  /\ relay[r] = "write"
  /\ conn[r[1]][DstOf(r)] \in {"eof", "closed"}
  /\ totalRead' = [totalRead EXCEPT ![r] = @ + hand[r]]
  /\ hand' = [hand EXCEPT ![r] = 0]
  /\ relay' = [relay EXCEPT ![r] = "flush"]
  /\ UNCHANGED <<sessionVars, gaugeVars, left, readErr, limitSeen, sent, infoVars,
                 quotaVars, limiterVars, revoked>>

(* The deferred update of SessionInfo.BytesSent, unsynchronised between the *)
(* two relays of a session: a load ...                                      *)
LoadBytesSent(r) ==
  /\ relay[r] = "flush"
  /\ IF totalRead[r] > 0 /\ r[1] \in registry
     THEN /\ sentSeen' = [sentSeen EXCEPT ![r] = bytesSent[r[1]]]
          /\ relay' = [relay EXCEPT ![r] = "bytessent"]
     ELSE /\ relay' = [relay EXCEPT ![r] = "send"]
          /\ UNCHANGED sentSeen
  /\ UNCHANGED <<sessionVars, gaugeVars, left, hand, readErr, limitSeen,
                 totalRead, sent, bytesSent, quotaVars, limiterVars, revoked>>

(* ... and a store. *)
StoreBytesSent(r) ==
  /\ relay[r] = "bytessent"
  /\ bytesSent' = [bytesSent EXCEPT ![r[1]] = sentSeen[r] + totalRead[r]]
  /\ sentSeen' = [sentSeen EXCEPT ![r] = 0]
  /\ relay' = [relay EXCEPT ![r] = "send"]
  /\ UNCHANGED <<sessionVars, gaugeVars, left, hand, readErr, limitSeen,
                 totalRead, sent, quotaVars, limiterVars, revoked>>

(* The relay goroutine's send to errCh, whose capacity is 2. *)
ErrChCap == 2

SendResult(r) ==
  /\ relay[r] = "send"
  /\ errCh[r[1]] < ErrChCap
  /\ errCh' = [errCh EXCEPT ![r[1]] = @ + 1]
  /\ relay' = [relay EXCEPT ![r] = "done"]
  /\ UNCHANGED <<handler, conn, cancelled, registry, gaugeVars, left, hand,
                 readErr, limitSeen, totalRead, sent, infoVars, quotaVars,
                 limiterVars, revoked>>

-----------------------------------------------------------------------------
(* The peers, the admin API and the control plane. *)

(* The client or the target closes its end. *)
PeerClose(s, c) ==
  /\ conn[s][c] = "open"
  /\ conn' = [conn EXCEPT ![s][c] = "eof"]
  /\ UNCHANGED <<handler, cancelled, registry, errCh, gaugeVars, relayVars,
                 infoVars, quotaVars, limiterVars, revoked>>

(* handleAdminKick, and one visit of the Range loop of handleAdminKickUser. *)
Kick(s) ==
  /\ "kick" \in Orders
  /\ s \in registry
  /\ cancelled' = [cancelled EXCEPT ![s] = TRUE]
  /\ UNCHANGED <<handler, conn, registry, errCh, gaugeVars, relayVars, infoVars,
                 quotaVars, limiterVars, revoked>>

(* handleAdminQuotaReset, QuotaManager.Reset.  A call of AddUsage that has   *)
(* loaded its limit is not stopped by the reset, so the new period is only   *)
(* governed by the current limit when no such call is under way.             *)
AddInFlight(u) == \E r \in Relays : RelayUser(r) = u /\ relay[r] = "add"

(* Variant: Reset takes the limit off the counter instead of storing 0. *)
ResetByLimit(u) ==
  /\ "reset" \in Orders
  /\ used[u] > 0
  /\ used' = [used EXCEPT ![u] = @ - limits[u]]
  /\ granted' = [granted EXCEPT ![u] = 0]
  /\ loosest' = [loosest EXCEPT ![u] = IF AddInFlight(u) THEN @ ELSE limits[u]]
  /\ allowance' = [allowance EXCEPT ![u] =
                     IF @ = Unbounded \/ loosest[u] = 0 THEN Unbounded
                     ELSE @ + loosest[u]]
  /\ UNCHANGED <<sessionVars, gaugeVars, relayVars, infoVars, limits,
                 limiterVars, revoked>>

Reset(u) ==
  /\ "reset" \in Orders
  /\ used[u] > 0
  /\ used' = [used EXCEPT ![u] = 0]
  /\ granted' = [granted EXCEPT ![u] = 0]
  /\ loosest' = [loosest EXCEPT ![u] = IF AddInFlight(u) THEN @ ELSE limits[u]]
  /\ allowance' = [allowance EXCEPT ![u] =
                     IF @ = Unbounded \/ loosest[u] = 0 THEN Unbounded
                     ELSE @ + loosest[u]]
  /\ UNCHANGED <<sessionVars, gaugeVars, relayVars, infoVars, limits,
                 limiterVars, revoked>>

(* handlePolicyUpdate for one policy: a revocation is skipped ... *)
Revoke(u) ==
  /\ "revoke" \in Orders
  /\ revoked' = revoked \cup {u}
  /\ UNCHANGED <<sessionVars, gaugeVars, relayVars, infoVars, quotaVars,
                 limiterVars>>

(* ... a bandwidth replaces the user's limiter, a quota sets the limit. *)
UpdateLimiter(u) ==
  LET fresh == IF limiters[u] < RealLimiter THEN RealLimiter ELSE limiters[u] + 1
  IN  /\ "bandwidth" \in Orders
      /\ fresh <= MaxLimiter
      /\ limiters' = [limiters EXCEPT ![u] = fresh]
      /\ UNCHANGED <<sessionVars, gaugeVars, relayVars, infoVars, quotaVars,
                     limiterOf, revoked>>

SetLimit(u, limit) ==
  /\ "quota" \in Orders
  /\ limits' = [limits EXCEPT ![u] = limit]
  /\ loosest' = [loosest EXCEPT ![u] = Looser(@, limit)]
  /\ UNCHANGED <<sessionVars, gaugeVars, relayVars, infoVars, used, granted,
                 allowance, limiterVars, revoked>>

-----------------------------------------------------------------------------
(* What the process does by itself, once the goroutine is runnable. *)
HandlerStep(s) ==
  \/ DialFail(s) \/ DialOK(s)
  \/ AddActive(s) \/ LoadActive(s) \/ SetGauge(s) \/ StoreSession(s)
  \/ FirstRelayEnded(s) \/ CancelAndSub(s) \/ CloseTarget(s) \/ CloseClient(s)

RelayStep(r) ==
  \/ ReadEnd(r) \/ LimitWait(r) \/ LoadLimit(r) \/ AddUsage(r) \/ WriteFail(r)
  \/ LoadBytesSent(r) \/ StoreBytesSent(r) \/ SendResult(r)

(* What depends on the peers: data arrives, or is accepted. *)
PeerStep(r) ==
  \/ \E n \in 1..MaxBytes : ReadData(r, n)
  \/ WriteOK(r)

OperatorStep(u) ==
  \/ Reset(u) \/ Revoke(u) \/ UpdateLimiter(u)
  \/ \E limit \in LimitValues : SetLimit(u, limit)

Next ==
  \/ \E s \in Sessions : Accept(s) \/ HandlerStep(s) \/ Kick(s)
  \/ \E s \in Sessions, c \in Sides : PeerClose(s, c)
  \/ \E r \in Relays : RelayStep(r) \/ PeerStep(r)
  \/ \E u \in Users : OperatorStep(u)

Spec == Init /\ [][Next]_vars

(* A runnable goroutine is scheduled, a dial ends within its timeout and    *)
(* tokens keep arriving.  Nothing is assumed of peers and operators.        *)
Fairness ==
  /\ \A s \in Sessions : WF_vars(HandlerStep(s))
  /\ \A r \in Relays : WF_vars(RelayStep(r))

FairSpec == Spec /\ Fairness

-----------------------------------------------------------------------------
(* Properties. *)

(* Every variable has its type. *)
TypeOK ==
  /\ handler \in [Sessions -> HandlerStates]
  /\ conn \in [Sessions -> [Sides -> {"none", "open", "eof", "closed"}]]
  /\ cancelled \in [Sessions -> BOOLEAN]
  /\ registry \subseteq Sessions
  /\ errCh \in [Sessions -> 0..ErrChCap]
  /\ activeCount \in Int
  /\ loaded \in [Sessions -> Int]
  /\ gauge \in Int
  /\ relay \in [Relays -> RelayStates]
  /\ left \in [Relays -> 0..MaxBytes]
  /\ hand \in [Relays -> 0..MaxBytes]
  /\ readErr \in [Relays -> BOOLEAN]
  /\ limitSeen \in [Relays -> Nat]
  /\ totalRead \in [Relays -> Nat]
  /\ sentSeen \in [Relays -> Nat]
  /\ bytesSent \in [Sessions -> Nat]
  /\ used \in [Users -> Nat]
  /\ limits \in [Users -> Nat]
  /\ limiters \in [Users -> Nat]
  /\ limiterOf \in [Sessions -> Nat]
  /\ sent \in [Relays -> Nat]
  /\ granted \in [Users -> Nat]
  /\ loosest \in [Users -> Nat]
  /\ allowance \in [Users -> Nat \cup {Unbounded}]
  /\ revoked \subseteq Users

(* However many relays of a user race in QuotaManager.AddUsage, and however *)
(* resets and limit changes interleave with them, the bytes let through     *)
(* since the last reset stay within the loosest limit of that period.       *)
QuotaRespected ==
  \A u \in Users : loosest[u] > 0 => granted[u] <= loosest[u]

(* The bytes written to the peers of a user's metered sessions, in both     *)
(* directions: the i-th byte a relay wrote is the pair of the relay and i.  *)
MeteredRelays(u) == {r \in Relays : RelayUser(r) = u /\ r[1] \in Metered}
Written(u) == UNION {{r} \X (1..sent[r]) : r \in MeteredRelays(u)}

(* The bytes actually written to the peers of a user's metered sessions, in *)
(* both directions and over all quota periods, stay within the sum of the   *)
(* periods' limits: Relay writes nothing AddUsage has not let through.      *)
ForwardedWithinQuota ==
  \A u \in Users :
    (loosest[u] > 0 /\ allowance[u] # Unbounded)
      => Cardinality(Written(u)) <= allowance[u] + loosest[u]

(* A relay loses no byte while it runs: what the source has sent has been   *)
(* written or is in the buffer, whatever the limiter, a cancelled context   *)
(* or the quota did meanwhile.                                              *)
RelayLossless ==
  \A r \in Relays :
    relay[r] \in {"read", "limit", "quota", "add", "write"}
      => sent[r] + hand[r] + left[r] = MaxBytes

(* SessionInfo.BytesSent, updated without synchronisation by both relays,   *)
(* never shows more than they have read (it may show less).                 *)
BytesSentNeverOvercounts ==
  \A s \in Sessions :
    bytesSent[s] <= totalRead[<<s, "upstream">>] + totalRead[<<s, "downstream">>]

(* The sessions whose DualRelay is between its increment and its decrement. *)
InDualRelay == {"incload", "incset", "store", "wait", "dec"}
ActiveSet == {s \in Sessions : handler[s] \in InDualRelay}

(* activeCount is the number of DualRelay calls between their increment and *)
(* their decrement, so it returns to 0 when every session is over.          *)
ActiveCountExact == activeCount = Cardinality(ActiveSet)

(* Once the handler has closed both connections nothing more is forwarded,  *)
(* although the second relay may still be running.                          *)
NothingForwardedAfterClose ==
  [][\A r \in Relays : handler[r[1]] = "end" => sent'[r] = sent[r]]_vars

(* When one relay of a session ends, for whatever reason, the whole session *)
(* ends: the other relay is unblocked, both connections are closed and both *)
(* goroutines finish (no leak).                                             *)
SessionDrains ==
  \A s \in Sessions :
    (\E d \in Dirs : relay[<<s, d>>] = "flush")
      ~> (handler[s] = "end" /\ \A d \in Dirs : relay[<<s, d>>] = "done")

-----------------------------------------------------------------------------
(* What a comment or a document says and the code does not do: each of the  *)
(* following is refuted by TLC, see README.md.                              *)

(* The np_active_sessions gauge ("Total number of active sessions") shows   *)
(* the number of active sessions whenever no update of it is under way.     *)
GaugeExact ==
  (\A s \in Sessions : handler[s] \notin {"incload", "incset", "decload", "decset"})
    => gauge = activeCount

(* A session the operator kicks is cut. *)
KickCutsSession ==
  \A s \in Sessions : (cancelled[s] /\ s \in registry) ~> handler[s] = "end"

(* The live sessions of a revoked user are cut. *)
RevokeCutsSessions ==
  \A s \in Sessions : (UserOf[s] \in revoked /\ s \in registry) ~> handler[s] = "end"

(* A live metered session runs under its user's current limiter. *)
LimiterCurrent ==
  \A s \in registry \cap Metered : limiterOf[s] = limiters[UserOf[s]]

=============================================================================
