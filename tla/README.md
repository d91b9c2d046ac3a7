# A TLA+ model of NodePro

NodePro is a proxy agent: it accepts client connections on several inbound
protocols, routes each to an outbound, relays the bytes under per-user limits,
and is reconfigured while it runs, by file or by a controller. This directory
holds TLA+ modules of its concurrent parts, the TLC instances that check them
and TLAPS proofs of the properties that matter most. `PROJECT.json` is the
index: components, runs, mutants, the map from definitions to source lines,
findings, hazards and theorems.

    tlc -workers 2 -config MCSession_quota.cfg MCSession     # one run
    tlapm SessionProofs.tla                                  # one proof module

## The system and its parts

| part | state | operations | what is hard |
|---|---|---|---|
| relay (`common/utils.go`, `metrics.go`) | session map, two goroutines and a result channel per session, a counter, a gauge | `DualRelay`, `Relay`, `IncActiveSessions` | the end of one direction must end the other; unsynchronised counters |
| limits (`common/quota.go`, `ratelimit.go`) | bytes used and limit per user, a limiter per user | `AddUsage`, `SetLimit`, `Reset`, `GetOrCreate`, `Update` | the limit is read before the counter is advanced; live sessions hold old limiters |
| TCP inbounds (`inbound/`) | listener, connections | `Start`, `Stop`, one handler per connection | `Stop` before the listener exists; cancellation |
| UDP inbounds (`inbound/udp_*.go`, SOCKS5 associate) | session map, a lock and an outbound connection per session | `GetOrCreate`, `ForwardPacket`, `handleReverseFlow`, `CleanupLoop` | dialling under a lock, cleaning concurrently, timeouts |
| agent (`agent/agent.go`, `common/config_manager.go`) | current configuration, subscribers, active inbounds, a wait group | `Start`, `Stop`, `Update`, `applyConfigToRouter`, `syncInbounds`, admin orders | overlapping reloads, updates during start |
| router (`routing/router.go`) | outbounds by name, rules | `Route`, `AddOutbound`, `UpdateRules` | routed while it is being replaced |
| DNS (`routing/dns.go`) | reply cache, fake-address pool | `Query`, `raceQuery`, `Flush`, `Get`, `Lookup` | racing upstreams, a pool that wraps around |
| multiplexer (`mux/`) | chunks by number, a channel, a window | `Write`, `Push`, `Read` | chunks overtake each other; flow control; 16-bit lengths |
| control client (`control/client.go`) | connection, backoff, calls in flight | `reconnectLoop`, `heartbeatLoop`, `fetchAndApplyConfig`, `Stop` | outages, overlapping fetches, `Stop` from another goroutine |
| np-chain (`protocol/npchain/codec.go`, `inbound/npchain.go`, `outbound/npchain.go`, `common/obfs.go`, `transport/quic*.go`) | a stream per link, a handler per node, heartbeat goroutines | `EncodeHeader`, `DecodeNextHop`, `Dial`, `HandleRelay`, `ObfsConn` | a header must be read as it was written; half-closed streams; the end of a session at every node |
| balancing (`inbound/tcp_balance.go`, `outbound/npchain.go`, `routing/router.go`) | a latency per handler, a score per target | `probeLoop`, `HealthCheck`, `selectByStrategy`, `healthCheckLoop`, `handle` | old scores of old latencies; reloads |
| listeners (`common/proxyproto.go`, `sniffer.go`) | connections not yet accepted | `Accept`, `WrapProxyProto`, `SniffConn` | one connection's header holds up the next |

The parts meet in few places: inbound handlers call the router and `DualRelay`
or the UDP session manager; the router asks the resolver to restore fake
addresses; the control client feeds the configuration manager, the quota and
the limiters. Each module keeps the part of its neighbours it depends on (a
dial that succeeds or fails, a configuration that arrives) as an environment
action. `HotReload` holds agent, configuration manager, router and inbounds
together; `Tunnel` is built on `Codec` and composes the nodes of a chain;
`Balance` is built on `Listener` and composes inbound, router and outbounds.

## Modules

`Session` follows a session from `Accept` to the closing of both connections.
Handler, relays, peers and operator interleave; each memory access that another
goroutine can separate is a step of its own (`LoadLimit` / `AddUsage`,
`LoadBytesSent` / `StoreBytesSent`, `AddActive` / `LoadActive` / `SetGauge`).
Bytes are counted. `sent`, `granted`, `loosest`, `allowance` and `revoked` are
history variables for the properties.

`HotReload` has one worker per reload callback, and `Agent.Start` as worker 0.
A worker adds its outbounds one by one, replaces the rules and synchronises the
inbounds under `inboundMu`. Handlers start in goroutines of their own.
The history variable `disorder` records whether an update came while another
was being applied, or between `Agent.Start`'s read of the configuration and its
subscription; `stoppedEarly` holds the handlers that were stopped before they had
bound their listener. `Stop` may come as soon as `Agent.Start` has started the
control client, whose shutdown command calls it. `Route` is an operator: the outbounds a call could return in the
present state.

`Mux` models `Aggregator.Write`, the connections (FIFO each, in any order among
each other), `Reassembler.Push` with its lock and blocking channel, and `Read`.
A chunk is the interval of the positions of its bytes. The history variable
`paused` says that the last drain ended because of the window. `ByteStream` is the
abstract specification: bytes are put, got in order, and the end is seen only
after the last of them. `ImplementsStream` is the refinement.

`FakeIP` is the address pool with addresses as numbers below `Space` (32-bit
arithmetic included), what `Route` restores and what the outbound then dials. A
target that is an IPv6 address ends the process (`ConnectIPv6`).

`Resolver` is `Query`: cache look-up, choice of the upstream group, one
exchange goroutine per upstream with the two buffered channels, cache write. An
upstream's reply answers what it was asked: over UDP and TLS `dns.Client` sees to
it, over HTTPS the code compares neither id nor name and the server is trusted.
Queries, flushes, routing changes and the clock interleave.

`UDPSession` has the reading goroutines, one goroutine per packet, the reverse
goroutine of each session and the cleaner, with the map lock and the session
locks. Two readers may have the same key, as SOCKS5 associations of one client do
(`Shared`), and some sockets are closed at any time (`Closable`). Time is reduced
to a flag, idle; a read of the reverse goroutine may fail at any time, by its
deadline or otherwise. The history variable `missed` is, for a reader that has
looked a key up in vain, the number of sessions made until then.

`ControlClient` is the reconnect loop with the heartbeat loop it calls, the
fetch goroutines and `Stop`. The controller is external. The heartbeat request
does not carry the node's version, so the controller announces a version once,
and anew to a node that registers; this is the weakest thing in the model that
is not in the code, and what is said below of `LatestConfigApplied` depends on
it. `policy` is the list last given to `onPolicyUpdate`; what the agent does with
it is in `Session`.

`Codec` has `EncodeHeader` and `DecodeNextHop` as operators on streams of
cells: a magic cell, a cell of fixed fields, `EntryCells` cells per hop entry,
padding, payload. An address is a host and the length of its encoding, which is
what the truncation to 30 bytes depends on.

`Tunnel` follows one session from the client through up to three nodes to the
target. Link *n* is what node *n* was dialled on; each direction of a link is a
stream of units, a frame of `ObfsConn` or a single cell. `IngressDial`,
`RelayDial` and `EgressDial` are the three dials, `AcceptStream`, `Decode` and
`DecodeError` the beginning of `HandleRelay`, `Forward` and `RelayEnds` its
relays, `CloseTarget` and `CloseConn` its deferred calls. Close on TCP ends both
directions for the closer, Close on a QUIC stream only the one it writes. Read
and Write of one relay round are one step: unlike in `Session`, no other
goroutine looks at what lies between them. Nor are the writes of the two headers
and the start of the relays separate steps: the reader takes what was written at
its own pace. A dial that fails after the link was opened is one that fails, or
one that succeeds on a link that then breaks. A relay's direct outbound, whose
dial may reach a TCP inbound on the next node's address, is left out.
`Connection` is the abstract specification, what `OutboundHandler.Dial` promises
its caller: once connected, each side sends and the other receives, in order.
`ActsAsConnection` is the refinement: connected when the target is dialled,
received what has arrived at the target and at the client.

`Listener` is the way of a connection from the backlog through the PROXY header
and the sniffer to its handler, for any TCP inbound; one whose header cannot be
read is dropped and stays open. `Balance` adds the tcp-balance inbound's choice
of a target to it, with the probes behind the scores. Time passes in ticks of
five seconds, the greatest common divisor of the 15 s of `probeLoop` and the 10
s of `healthCheckLoop`. A handler is an outbound with a generation: a reload
makes a new one, the old one goes on probing. The rules, too, change while all
this goes on (`UpdateRules`), and may leave a target without a route, whose
stored score then stays as it was. Scores are `HealthCheck` times 2000, so that
they are integers.

`MC*` modules give the constants of a component their values. `*Proofs` modules
extend the component and TLAPS. Definitions marked *Variant* in a comment are
mutated forms of the definition that follows them and are not used by the
specification; they show that a property can fail.

## Runs that pass

| run | shows |
|---|---|
| `session_quota` | quota bounds, no lost or doubly counted bytes, nothing forwarded after close, with limit changes and resets at any moment |
| `session_drain` | one direction's end ends the session, also with a limiter, a kick, a revocation and a new bandwidth; the session counter is exact (one session here; `ActiveCountTheorem` has any number) |
| `reload_any` | routes by name never fail, a handler is active or was stopped, and listens afterwards only if it was stopped before it had bound, the wait group is never negative, with reloads that overlap each other, the start and the stop; reloads that do not overlap bring the router and the set of inbounds to the latest configuration, each inbound with the settings it came with; `Agent.Stop` returns |
| `mux_stream` | one `Write` through a window that pauses the drain: refinement of the byte stream, an exact window counter, nothing lost once all is quiet (`QuietMeansRead`); everything is delivered unless a chunk that is due is held back after the last `Push` (`HeldBack`) |
| `fakeip_pool` | what is restored and handed out over several wraparounds |
| `resolver` | reply identity, age and group for concurrent queries with a flush and a rerouting; a race fails only if all its upstreams fail, never hangs and leaks no goroutine |
| `udp` | two readers of one key: one dial per session; a session is replaced only by a reader that looked the key up before it was stored; packets are handled to the end and idle sessions go |
| `control` | policies the controller settles on arrive through an outage; the loop ends after `Stop`, by whomever; a shutdown command closes the connection |
| `tunnel` | both sides receive exactly what the other sent, and the nodes together refine one connection (`ActsAsConnection`), with chains of none, one and two hops, padding, frames and heartbeats, failing dials and broken links; the egress of a one-hop chain learns the target; a session that ends at one node ends at all |
| `balance` | half a minute after a change dead nodes are avoided and the fastest way is taken (25 s are not enough: TLC refutes both with `SettleTicks = 5`), with reloads and changes of the rules; as long as no silent client holds up the listener for ever, every client is served, ended, or dropped for its malformed header |

Bounds. One session suffices because sessions of a user share only the counters,
and the two relays of one session already race on them. Two updates give every
order of two callbacks and the start. Seven chunks over three connections let a
chunk be overtaken twice, and fill a window of three, so that drains pause and
resume. Five domains in a pool of two addresses wrap around twice. Two packets
and two sessions let a packet meet a session that is being made, dialled or
removed, and two readers of one key meet in the gap between look-up and store;
one of the two sockets is closed at any time. Two queries and two upstreams in
the remote group let a late outcome meet a finished race and a written cache,
and one clock tick is the difference between the two lifetimes in use. Two
versions and lists of policies and one outage let an old answer meet a newer
one. Three nodes give every role (ingress, relay, egress), and one cell of
payload each way already meets header, padding and close; `TunnelProofs` has any
padding, payload, number of heartbeats and failures, and for the codec any
chain. Two nodes and two targets, one of them behind both nodes, let a score be
read while another changes; of the two routings one leaves a target without a
way. The behaviours of `balance` have either clients or changes (`Budgets`),
since the listener and the scores meet only in `handle`, which reads the latter.
The constants of the cfg files are named for what they bound. Deadlock is
checked in `balance`, whose clock never stops. In the others every instance is
finite and ends when its sessions, updates or packets are used up, and a wait
that should end is stated as a liveness property instead (in `Resolver`, whose
instance is too large for a liveness check, as the invariant `RaceNeverHangs`).

Fairness. Weak fairness is assumed of goroutines that can run, of timers and of
calls that have a timeout in the code. Peers, operators and the controller are
assumed to do nothing, with these exceptions: in `Mux` the application keeps
reading, frames on a connection arrive, and the mutex does not starve a waiter
(strong fairness of `PushBegin`; Go's mutex hands over to a waiter after 1 ms),
likewise the locks of `UDPSession`; in `ControlClient` an outage ends, and so
does a call, although `Heartbeat` has no deadline in the code: that is left to
gRPC and the network; in `Tunnel` client and target accept what is written to
them. Of the clients of `Balance` nothing is assumed: `Accept` waits for the
header of a silent one, and `ClientsHandled` has it as a premise that no client
holds up the listener for ever.

Type invariants are checked in the runs of `Session`, `HotReload` and `FakeIP`,
where they carry a bound (a counter or a wait group that is never negative, an
address in its range); `TypeOK` of the other modules documents their state.

## Deviations

Two runs check one sentence of the documentation or a comment each, and TLC
refutes it; `PROJECT.json` quotes the sentence.

| run | the code |
|---|---|
| `session_kick` | an idle session survives a kick: both relays stay in `Read` |
| `reload_reorder` | of two overlapping updates the older may be applied last |

The last section of each module holds further statements of this kind. They
have no run of their own; TLC refutes each on the instance described here.

| statement | instance | the code |
|---|---|---|
| `GaugeExact` | `session_drain` with `Sessions = {s1, s2}`, `MaxBytes = 0` | the gauge may keep a stale value after two sessions interleave |
| `RevokeCutsSessions`, `LimiterCurrent` | `session_drain` | a revocation cuts no live session; a bandwidth policy does not reach them |
| `SerialReloadsSettle` with `"overlapping" \notin disorder` | `reload_any` | an update between `Agent.Start`'s `Get` and `Subscribe` is missed |
| `GroupAlwaysRoutable`, `InboundSettingsCurrent` | `reload_any` | a group may be empty during a reload; changed settings of a kept inbound are ignored |
| `StopStopsListening`, `StartReturnsOnCancel` | `reload_any` | `Stop` before listening is lost, and the handler listens although it is no longer active; accept loops outlive the context |
| `StoppedIsQuiet` | `reload_any` | `Agent.Stop`, called by a shutdown command while `Agent.Start` still runs, may return before the QUIC server is counted in and started |
| `ApplyOnlyStores` | `reload_any` | `test/e2e/hotreload_test.go:97` says that `ApplyConfig` only updates the configuration manager ("并没有通知 Router", the router is not told); the agent subscribes to it (`agent.go:105`) and renews outbounds, rules and inbounds |
| `EOFReached`, `BufferWithinWindow` | `mux_stream`; the first with `MaxWindow = 20` | a last chunk that overtakes hides the end; out-of-order chunks exceed the window |
| `NeverHeldBack` | `mux_stream` | a paused drain is resumed only by another `Push`; after the last one the reader waits for ever |
| `NoPanic` | `mux_stream` with `First = 2`, `Second = 4` | a second `Write` starts at number 0 again; if it is longer than the first, its later chunks are sent on the channel that the end of the first has closed, a panic |
| `AllDelivered` | `mux_stream` with `Second = 4`, or with `SizeMod = 2` | what the second `Write` sends under numbers already used is not delivered; a 64 KB chunk has length 0 on the wire |
| `BoundBothWays`, `DialsRestoredDomain`, `FlushClearsFakeIP` | `fakeip_pool` | after a wraparound two domains share an address; the fake address is dialled; a flush leaves the pool |
| `IPv6Routable` | `fakeip_pool` | `docs/protocol.md:38` has IPv6 targets; with fake addresses enabled, `Route` looks every address up in the pool, and `Lookup` reads four bytes of `To4()`, which is nil: a panic |
| `AddressesUsable` | `fakeip_pool` with `NetSize = 2` | a /31 has no usable range |
| `GroupFollowsRule` | `resolver` without its conjunct on `served`, or with `Outbounds = {"direct-out"}` | cached replies ignore new rules; the group goes by the outbound's name |
| `ClosedWithSession` | `udp` | a packet that waits while its session is removed dials afterwards, and nothing closes that connection |
| `AnswerIsRead` | `udp` | the reverse goroutine ends on a read error, such as its timeout, and is not started again |
| `NotReplaced`, `AnswerIsSentBack` | `udp` | associations with one key replace each other's session; answers go to a closed socket |
| `StopCleansUp` without its condition | `control` | a `Stop` beside the loop may leave the new connection open, or close a nil one |
| `LatestConfigApplied` | `control` with `Stoppers = {}` | of two fetches the older may be applied last; a failed fetch is not repeated |
| `ObfuscatedReached` | `tunnel` | with obfuscation the header is one frame, and the decoder's first read, of four bytes, refuses it (`io.ErrShortBuffer`): no session is understood |
| `ChainReached` | `tunnel` | a relay's `Dial` writes a header without hops before the remaining one, and the next node answers "no more hops" |
| `LongTargetDialled` | `tunnel` with `TargetLengths = {31}` | a host name of more than 30 bytes is cut, and another name is dialled |
| `HeartbeatsEnd` | `tunnel` | `defer conn.Close()` is bound to the connection before it is wrapped, so the wrapper's heartbeat goroutine is never cancelled |
| `FailoverBound` | `balance` with `Latencies = {50, 1900}` | a live node slower than 1.8 s scores below a dead one (0.1) |
| `PicksFastest` | `balance` with `Latencies = {0, 50}` or `Direct = {o1}` | a latency below 1 ms counts as never probed (0.5); a direct outbound always scores 1.0 |
| `NeverHeldUp`, `DroppedClosed` | `balance` | `Accept` waits for the PROXY header of a silent client, and nobody behind it is served; a connection whose header is malformed is neither served nor closed |
| `StatusRouted` | `balance` | a target that the rules no longer route keeps the score of its last route and is still chosen by it |
| `ClientsHandled` | `balance` with `Serve = TRUE` | a malformed PROXY header ends `http.Server.Serve`, and the http inbound with it |

Seen while reading, outside what the models tell apart: tcp-balance without
targets divides by zero (`tcp_balance.go:119`); a sniffed domain replaces the
target the balancer has chosen; tcp-balance, redirect and tproxy set no
`HopChain`, so that a node they reach over np-chain refuses the session (the
chain of length 0 in `tunnel`); `docs/protocol.md` puts the padding before the
hop entries, the code after them; a `dummy_size` of 256 makes the padding length
byte of a heartbeat 0; `nextConn` of the aggregator is an `int32` whose increments
wrap to a negative index after 2^31 chunks; the QUIC connection under a stream is never closed by the
side that dialled it; the agent's UDP session table only grows.

## Proofs

Every theorem holds for all values of the constants that satisfy the named
assumptions of the component's module.

* `SessionProofs`. `QuotaTheorem` needs `QuotaInv`: the used counter bounds
  what was granted, and the limit a relay has read is no looser than the
  loosest of the period; without the second part a relay that waits between
  `LoadLimit` and `AddUsage` would break induction. `LosslessTheorem` rests on
  `RelayInv` (byte accounting by relay state), `NoForwardAfterClose` on
  `ConnInv` (a handler at its end has closed both sides), `ActiveCountTheorem`
  on the finiteness of the session set. `BytesSentTheorem` needs `BytesInv`: the
  two relays read and write `BytesSent` without a lock, so what one of them has
  loaded is bounded by what the other has already counted. `ForwardedTheorem`
  needs `ClearedInv`: the bytes a relay has written, and those it holds that
  `AddUsage` has let through, number no more than what was granted; every relay
  adds pairs of its own to one finite set, whose size is compared with the
  grants.
* `AgentProofs`, about `HotReload` and `ControlClient`. `RoutesTheorem` needs `RouteInv`: the outbounds a worker
  has passed are present, and the rules in force come from a worker that has
  passed all of its own. `HandlersTheorem` needs that a worker which has not
  synchronised has made no handler, and that a handler stopped with its listener
  bound stays closed. `TypeCorrect` carries the equation between
  the wait group and the set of running services. `SerialTheorem` needs
  `SerialInv`: as long as nothing was out of order, at most one worker applies a
  configuration, it is the latest one, what the worker has passed is renewed, and
  the inbounds are still those of the configuration before (`Found`), so that
  `syncInbounds` adds exactly what came in with the latest one; with no worker at
  it, everything is renewed and each inbound has the settings of the version it
  came with (`InSince`). `StopTheorem`: once the loop is at a
  shutdown command, and no other goroutine calls `Stop`, the connection `Stop`
  closes is the one the loop uses.
* `MuxProofs`. `StreamTheorem` is the refinement, under `SingleWrite`: one call of
  `Write`, chunks shorter than the modulus of the length field; neither half can
  be dropped (see Deviations). The invariant `MuxInv` says which interval each
  sequence number stands for, wherever its chunk is. `BufferTheorem`, under the
  same assumption: the intervals of chunks, channel and pending rest are
  disjoint, so that the counter and the size of their union move together.
  `NothingLostTheorem` is `QuietMeansRead`, the safety part of `AllDelivered`, for
  any window: every
  number sent is under way, waits, or is handed on (`Accounted`), so once no frame
  is under way, no due chunk is held back by the window and the reader has taken
  what it was given, it has read everything sent.
* `FakeIPProofs`, for networks of at least four addresses (`UsableNetwork`;
  smaller ones have no usable range). `PoolInv` places the latest allocations in the
  addresses behind the next one, across the wraparound.
* `UDPSessionProofs`. `DialledOnceTheorem`: `DialInv` says that a dialling
  packet holds its session's lock, and that a session without a connection has
  not dialled. `GapTheorem` is an action property, for readers that share keys
  or not: `GetOrCreate` gives the lock up between look-up and store, and only a
  reader that had missed before another stored overwrites its session. `KeyInv`
  says that a session found under the key at the store was made after the look-up
  that missed. `LockTheorem`: a session's lock
  is held only by a packet of that session that dials, a step that takes no other
  lock, and the cleaner waits for one only during a sweep, so that no wait is
  circular. `LockInv` adds that a goroutine not yet started holds nothing.
* `ResolverProofs`. One inductive invariant, `IInv`: `ReplyInv` ties every
  reply, in a race or in the cache, to its name, its lifetime and the time it was
  stored; `RaceInv` places each upstream's outcome in exactly one of exchange,
  channel and receiver, which gives the counting argument behind
  `RaceNeverHangsHolds` (a channel always has room) and
  `FailsOnlyIfAllFailHolds` (as many errors received as upstreams). `GroupFollowsRuleHolds`
  assumes `DirectByName`: the choice goes by the outbound's name, so only the
  outbound called `direct` may be direct, and both groups have upstreams.
* `BalanceProofs`. `FailoverTheorem` and `FastestTheorem`, for any outbounds,
  targets and routings and any number of changes, reloads and rule changes, under
  `ProbedRoutes`: no direct outbound among the ways, latencies from 1 to
  1799 ms, and at least six ticks to settle; each part is needed (see
  Deviations). `BalanceInv` follows the age of what was read. `ProbeInv`: a
  handler knows its outbound's latency unless the last change and the time to
  the handler's next probe together are at most three ticks. `ScanInv`: what a
  running choice has read of an outbound quiet for four ticks is still so, as no
  tick passes during a check; after a change of the rules within a check its best
  may no longer be routed, and nothing is quiet then (`Routable`). `StatusInv`: a stored score is right unless the
  check that will correct it is still to come, within five ticks of the change.
* `TunnelProofs`. `FirstHopDecoded` and `UnpaddedRelayed` follow from `HeaderLaid`,
  which says where each part of a header lies in a stream that goes on behind it.
  With padding the second fails for chains of two or more: the decoder drops as
  many bytes behind the first entry as there are behind the last.
  `TunnelTheorem` needs `TunnelInv`, as `TunnelFaithful` looks only at the two
  ends while header and payload are still on the way between them. The invariant
  says how far each node can have come, given the session's chain and framing,
  and for each direction what is under way and in which order: a header with payload
  behind it on a link that is not decoded yet, payload alone behind a decoded
  one, and on the way back what the target has sent, split over the links it has
  passed. With obfuscation, where no header is understood, only heartbeats come
  back. `ConnectionTheorem` shows from the same invariant, action by action, that
  a step connects, sends, delivers, or changes nothing a user of the connection
  can see. `OneHopTheorem` is the limit behind
  `ObfuscatedReached` and `ChainReached` (see Deviations): only a one-hop chain
  without obfuscation ever has its target dialled. Both other theorems are
  therefore about data for such chains, and for the rest say that nothing arrives.

Two properties are stated so that a proof can follow them. `ForwardedWithinQuota`
and `BufferAccounting` count the elements of a set of bytes instead of adding
numbers up over a set: the laws of such a sum need an induction that the prover
cannot do, those of cardinality are in its library. `FailoverBound` asks that a
target with a way that is up has no way that has changed lately. Without that
it is false with three outbounds, as TLC shows: a node that goes down after it
was chosen as its group's best and before its score is read again and stored
(`CheckStore`) gives its whole group the score of a dead one, although another
of its nodes is up; the group then ties with a dead target, and the round robin
takes either.

Every safety property of a passing run is a theorem. Only model-checked are the
liveness properties, which are outside the prover's reach: `SessionDrains`,
`StopTerminates`, `AllDelivered`, `PacketsHandled`, `IdleRemoved`, `LoopReturns`,
`PoliciesReachNode`, `TargetReached`, `TunnelDrains` and `ClientsHandled`.

## Not modelled

* Parsing and authentication of SOCKS5 and HTTP, plain HTTP requests (handled by
  the HTTP library), the datagram codecs, and what the sniffer reads: byte
  layout, which every model here abstracts.
* TLS, QUIC, gRPC and certificate handling: libraries. What the code relies on
  (dial, streams, close, timeouts) is an environment action.
* `QUICPool`, the generic WebSocket/TLS transports and the datagram router: nothing
  in the agent calls them. The connections that `poolLoop` collects are rotated
  and never used.
* Configuration files, logging, tracing, the audit file, GeoIP data, `npctl`,
  generated code: no state that another part depends on.
* `ControlClient` and `HotReload` are not composed: they meet in
  `ConfigManager.Update`, which is an action of `HotReload` with any
  configuration at any time, and so allows every order of updates that the
  control client can produce.
