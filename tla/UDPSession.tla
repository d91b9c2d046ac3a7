----------------------------- MODULE UDPSession ------------------------------
(***************************************************************************)
(* UDP associations.  The reading goroutine of each listening socket (a    *)
(* UDP forward has one, a UDP range one per port, socks5 one per           *)
(* association) looks up or creates a udpSession and starts ForwardPacket; *)
(* the first packet of a session dials and starts handleReverseFlow;       *)
(* CleanupLoop removes idle sessions.  All share one UDPSessionManager.    *)
(*                                                                         *)
(* Time is abstracted to what has passed its limit: a session is idle when *)
(* lastSeen is older than the timeout.                                     *)
(***************************************************************************)
EXTENDS Integers

CONSTANTS
  Readers,      \* listening sockets, with their reading goroutines
  Keys, KeysOf, \* session keys, and per reader those of its packets
  NoReader, NoKey,
  Closable,     \* bound: the readers whose socket may be closed
  OnNewSession, \* the handler reports new sessions to the agent (not socks5)
  MaxPackets,   \* bound: packets received
  MaxSessions,  \* bound: session objects created
  MaxReplies    \* bound: replies of the targets that are read

ASSUME UDPAssumption ==
  /\ KeysOf \in [Readers -> SUBSET Keys]
  /\ Closable \subseteq Readers
  /\ NoReader \notin Readers /\ NoKey \notin Keys
  /\ OnNewSession \in BOOLEAN
  /\ MaxPackets \in Nat /\ MaxSessions \in Nat /\ MaxReplies \in Nat

Sessions == 1..MaxSessions
Packets == 1..MaxPackets
NoSession == 0
Unlocked == 0    \* udpSession.mu is free; otherwise the packet that holds it

VARIABLES
  open,       \* per reader: its socket is open
  reader,     \* per reader: "read", "get", "found", "route" or "create"
  key,        \* per reader: the key of the packet in hand
  found,      \* per reader: the session GetOrCreate has looked up
  missed,     \* history: per reader, the sessions made before its lookup missed
  received,   \* packets read so far
  sessions,   \* UDPSessionManager.sessions: per key a session or NoSession
  created,    \* session objects created so far
  agentSessions, \* Agent.udpSessions
  sess,       \* per session: the udpSession and its reverse goroutine
  replies,    \* replies of the targets read so far
  spawned,    \* ForwardPacket goroutines so far
  packet,     \* per packet: its session
  via,        \* per packet: the reader it came in over
  forward,    \* per packet: "none", "quota", "lock", "dial", "write", "sent", "dropped"
  cleanup,    \* "wait" for the ticker, "sweep" with UDPSessionManager.mu held, or "ended"
  todo,       \* sessions the sweep has not looked at
  closing     \* the session the sweep waits to lock

readVars == <<open, reader, key, found, missed, received>>
mapVars == <<sessions, created, agentSessions>>
connVars == <<sess, replies>>
packetVars == <<spawned, packet, via, forward>>
cleanupVars == <<cleanup, todo, closing>>
vars == <<readVars, mapVars, connVars, packetVars, cleanupVars>>

NewSession ==
  [key |-> NoKey, inbound |-> NoReader, idle |-> FALSE, mu |-> Unlocked, conn |-> "none",
   reverse |-> "none", dials |-> 0]

Init ==
  /\ open = [r \in Readers |-> TRUE]
  /\ reader = [r \in Readers |-> "read"]
  /\ key = [r \in Readers |-> NoKey]
  /\ found = [r \in Readers |-> NoSession]
  /\ missed = [r \in Readers |-> 0]
  /\ sessions = [k \in Keys |-> NoSession]
  /\ sess = [s \in Sessions |-> NewSession]
  /\ received = 0 /\ created = 0 /\ replies = 0 /\ spawned = 0
  /\ agentSessions = {}
  /\ packet = [p \in Packets |-> NoSession]
  /\ via = [p \in Packets |-> NoReader]
  /\ forward = [p \in Packets |-> "none"]
  /\ cleanup = "wait" /\ todo = {} /\ closing = NoSession

InMap(s) == \E k \in Keys : sessions[k] = s
MapUnlocked == cleanup # "sweep"

-----------------------------------------------------------------------------
(* A reading goroutine: ReadFromUDP, GetOrCreate, go ForwardPacket. *)
ReaderAt(r, from, to) == reader[r] = from /\ reader' = [reader EXCEPT ![r] = to]

Receive(r, k) ==
  /\ open[r] /\ received < MaxPackets
  /\ ReaderAt(r, "read", "get")
  /\ key' = [key EXCEPT ![r] = k]
  /\ received' = received + 1
  /\ UNCHANGED <<open, found, missed, mapVars, connVars, packetVars, cleanupVars>>

(* Variant: the lookup never finds a session. *)
LookupMisses(r) ==
  /\ MapUnlocked
  /\ ReaderAt(r, "get", "route")
  /\ missed' = [missed EXCEPT ![r] = created]
  /\ UNCHANGED <<open, key, found, received, mapVars, connVars, packetVars, cleanupVars>>

(* The lookup under the read lock. *)
Lookup(r) ==
  /\ MapUnlocked
  /\ ReaderAt(r, "get", IF sessions[key[r]] = NoSession THEN "route" ELSE "found")
  /\ found' = [found EXCEPT ![r] = sessions[key[r]]]
  /\ missed' = [missed EXCEPT ![r] = IF sessions[key[r]] = NoSession THEN created ELSE @]
  /\ UNCHANGED <<open, key, received, mapVars, connVars, packetVars, cleanupVars>>

Spawn(r, s) ==
  /\ spawned' = spawned + 1
  /\ packet' = [packet EXCEPT ![spawned + 1] = s]
  /\ via' = [via EXCEPT ![spawned + 1] = r]
  /\ forward' = [forward EXCEPT ![spawned + 1] = "quota"]
  /\ key' = [key EXCEPT ![r] = NoKey]
  /\ found' = [found EXCEPT ![r] = NoSession]
  /\ missed' = [missed EXCEPT ![r] = 0]

(* An existing session: lastSeen is set after the lock is released. *)
Touch(r) ==
  /\ ReaderAt(r, "found", "read")
  /\ sess' = [sess EXCEPT ![found[r]].idle = FALSE]
  /\ Spawn(r, found[r])
  /\ UNCHANGED <<open, received, mapVars, replies, cleanupVars>>

(* Router.Route finds an outbound, or the packet is dropped. *)
RouteOK(r) ==
  /\ ReaderAt(r, "route", "create")
  /\ UNCHANGED <<open, key, found, missed, received, mapVars, connVars, packetVars, cleanupVars>>

RouteFails(r) ==
  /\ ReaderAt(r, "route", "read")
  /\ key' = [key EXCEPT ![r] = NoKey]
  /\ missed' = [missed EXCEPT ![r] = 0]
  /\ UNCHANGED <<open, found, received, mapVars, connVars, packetVars, cleanupVars>>

(* The new session is stored under the write lock, without a second look.   *)
Create(r) ==
  /\ MapUnlocked /\ created < MaxSessions
  /\ ReaderAt(r, "create", "read")
  /\ created' = created + 1
  /\ sessions' = [sessions EXCEPT ![key[r]] = created + 1]
  /\ sess' = [sess EXCEPT ![created + 1].key = key[r], ![created + 1].inbound = r]
  /\ agentSessions' = IF OnNewSession THEN agentSessions \cup {created + 1} ELSE agentSessions
  /\ Spawn(r, created + 1)
  /\ UNCHANGED <<open, received, replies, cleanupVars>>

(* The socket is closed: Stop, or the end of a socks5 association. *)
CloseSocket(r) ==
  /\ open[r] /\ r \in Closable
  /\ open' = [open EXCEPT ![r] = FALSE]
  /\ UNCHANGED <<reader, key, found, missed, received, mapVars, connVars, packetVars, cleanupVars>>

-----------------------------------------------------------------------------
(* ForwardPacket. *)
ForwardAt(p, from, to) == forward[p] = from /\ forward' = [forward EXCEPT ![p] = to]
KeepPacket == UNCHANGED <<spawned, packet, via>>
KeepSockets == UNCHANGED <<readVars, mapVars, replies, cleanupVars>>

(* AddUsage and the wait for the limiter. *)
OverQuota(p) == ForwardAt(p, "quota", "dropped") /\ KeepPacket /\ KeepSockets /\ UNCHANGED sess
Admit(p) == ForwardAt(p, "quota", "lock") /\ KeepPacket /\ KeepSockets /\ UNCHANGED sess

(* Variant: the session is not locked while it is dialled. *)
LockBriefly(p) ==
  /\ forward[p] = "lock" /\ sess[packet[p]].mu = Unlocked
  /\ ForwardAt(p, "lock", IF sess[packet[p]].conn = "none" THEN "dial" ELSE "write")
  /\ KeepPacket /\ KeepSockets /\ UNCHANGED sess

(* The session is locked, and stays so for the dial when it has no          *)
(* connection.                                                              *)
Lock(p) ==
  /\ forward[p] = "lock" /\ sess[packet[p]].mu = Unlocked
  /\ \/ /\ sess[packet[p]].conn = "none"
        /\ ForwardAt(p, "lock", "dial")
        /\ sess' = [sess EXCEPT ![packet[p]].mu = p]
     \/ /\ sess[packet[p]].conn # "none"
        /\ ForwardAt(p, "lock", "write")
        /\ UNCHANGED sess
  /\ KeepPacket /\ KeepSockets

DialOK(p) ==
  /\ ForwardAt(p, "dial", "write")
  /\ sess' = [sess EXCEPT ![packet[p]].mu = Unlocked, ![packet[p]].conn = "open",
                          ![packet[p]].reverse = "loop", ![packet[p]].dials = @ + 1]
  /\ KeepPacket /\ KeepSockets

(* Variant: the error path returns without unlocking. *)
DialFailsLocked(p) == ForwardAt(p, "dial", "dropped") /\ KeepPacket /\ KeepSockets /\ UNCHANGED sess

DialFails(p) ==
  /\ ForwardAt(p, "dial", "dropped")
  /\ sess' = [sess EXCEPT ![packet[p]].mu = Unlocked]
  /\ KeepPacket /\ KeepSockets

(* The write, outside the lock; on a closed connection its error is ignored. *)
Write(p) ==
  /\ ForwardAt(p, "write", IF sess[packet[p]].conn = "open" THEN "sent" ELSE "dropped")
  /\ KeepPacket /\ KeepSockets /\ UNCHANGED sess

-----------------------------------------------------------------------------
(* handleReverseFlow: take outboundConn under the lock, set the deadline    *)
(* and read.                                                                *)
KeepRest == UNCHANGED <<readVars, mapVars, packetVars, cleanupVars>>

SetDeadline(s) ==
  /\ sess[s].reverse = "loop" /\ sess[s].mu = Unlocked
  /\ sess' = [sess EXCEPT ![s].reverse = "read"]
  /\ KeepRest /\ UNCHANGED replies

(* A reply goes to the client over the session's listening socket, or       *)
(* nowhere when that is closed: the error of WriteTo is ignored.            *)
ReverseReply(s) ==
  /\ sess[s].reverse = "read" /\ sess[s].conn = "open" /\ replies < MaxReplies
  /\ sess' = [sess EXCEPT ![s].idle = FALSE, ![s].reverse = "loop"]
  /\ replies' = replies + 1
  /\ KeepRest

(* Read fails: the deadline has passed, the connection was closed, or the   *)
(* network reports an error, which can be at any time.                      *)
ReverseEnds(s) ==
  /\ sess[s].reverse = "read"
  /\ sess' = [sess EXCEPT ![s].reverse = "ended"]
  /\ KeepRest /\ UNCHANGED replies

(* Time, for the sessions CleanupLoop looks at. *)
BecomeIdle(s) ==
  /\ InMap(s) /\ ~sess[s].idle
  /\ sess' = [sess EXCEPT ![s].idle = TRUE]
  /\ KeepRest /\ UNCHANGED replies

-----------------------------------------------------------------------------
(* CleanupLoop: a sweep over the map with UDPSessionManager.mu held. *)
KeepOthers == UNCHANGED <<readVars, created, agentSessions, replies, packetVars>>

CleanupTick ==
  /\ cleanup = "wait" /\ \E k \in Keys : sessions[k] # NoSession
  /\ cleanup' = "sweep" /\ todo' = {s \in Sessions : InMap(s)}
  /\ KeepOthers /\ UNCHANGED <<sessions, sess, closing>>

(* One session of the range: an idle one is to be closed. *)
CleanupTest(s) ==
  /\ cleanup = "sweep" /\ closing = NoSession /\ s \in todo
  /\ todo' = todo \ {s}
  /\ closing' = IF sess[s].idle THEN s ELSE NoSession
  /\ KeepOthers /\ UNCHANGED <<sessions, sess, cleanup>>

CloseConn(s) == [sess EXCEPT ![s].conn = IF @ = "open" THEN "closed" ELSE @]

(* Variant: an idle session is closed but stays in the map. *)
CleanupKeeps ==
  /\ closing # NoSession /\ sess[closing].mu = Unlocked
  /\ sess' = CloseConn(closing)
  /\ closing' = NoSession
  /\ KeepOthers /\ UNCHANGED <<sessions, cleanup, todo>>

(* Its connection is closed under its lock, and it leaves the map. *)
CleanupClose ==
  /\ closing # NoSession /\ sess[closing].mu = Unlocked
  /\ sess' = CloseConn(closing)
  /\ sessions' = [sessions EXCEPT ![sess[closing].key] = NoSession]
  /\ closing' = NoSession
  /\ KeepOthers /\ UNCHANGED <<cleanup, todo>>

CleanupDone ==
  /\ cleanup = "sweep" /\ todo = {} /\ closing = NoSession
  /\ cleanup' = "wait"
  /\ KeepOthers /\ UNCHANGED <<sessions, sess, todo, closing>>

(* The context is done; nothing else here looks at it. *)
CleanupReturns ==
  /\ cleanup = "wait"
  /\ cleanup' = "ended"
  /\ KeepOthers /\ UNCHANGED <<sessions, sess, todo, closing>>

-----------------------------------------------------------------------------
ReaderStep(r) == Lookup(r) \/ Touch(r) \/ RouteOK(r) \/ RouteFails(r) \/ Create(r)
PacketStep(p) == OverQuota(p) \/ Admit(p) \/ Lock(p) \/ DialOK(p) \/ DialFails(p) \/ Write(p)
ReverseStep(s) == SetDeadline(s) \/ ReverseReply(s) \/ ReverseEnds(s)
SweepStep == (\E s \in Sessions : CleanupTest(s)) \/ CleanupClose \/ CleanupDone

Next ==
  \/ \E r \in Readers : (\E k \in KeysOf[r] : Receive(r, k)) \/ CloseSocket(r) \/ ReaderStep(r)
  \/ \E p \in Packets : PacketStep(p)
  \/ \E s \in Sessions : ReverseStep(s) \/ BecomeIdle(s)
  \/ SweepStep
  \/ CleanupTick
  \/ CleanupReturns

Spec == Init /\ [][Next]_vars

(* Goroutines run, a dial ends, and the ticker fires again and again.  The  *)
(* mutexes do not starve a waiter, hence strong fairness where one is taken. *)
Fairness ==
  /\ \A r \in Readers : SF_vars(ReaderStep(r))
  /\ \A p \in Packets : SF_vars(PacketStep(p))
  /\ SF_vars(SweepStep) /\ WF_vars(CleanupTick)

FairSpec == Spec /\ Fairness

-----------------------------------------------------------------------------
(* Every variable has its type. *)
TypeOK ==
  /\ open \in [Readers -> BOOLEAN]
  /\ reader \in [Readers -> {"read", "get", "found", "route", "create"}]
  /\ key \in [Readers -> Keys \cup {NoKey}]
  /\ found \in [Readers -> 0..MaxSessions]
  /\ missed \in [Readers -> 0..MaxSessions]
  /\ received \in 0..MaxPackets
  /\ sessions \in [Keys -> 0..MaxSessions]
  /\ created \in 0..MaxSessions
  /\ agentSessions \subseteq Sessions
  /\ sess \in [Sessions -> [key : Keys \cup {NoKey}, inbound : Readers \cup {NoReader},
                            idle : BOOLEAN, mu : 0..MaxPackets,
                            conn : {"none", "open", "closed"},
                            reverse : {"none", "loop", "read", "ended"},
                            dials : Nat]]
  /\ replies \in 0..MaxReplies
  /\ spawned \in 0..MaxPackets
  /\ packet \in [Packets -> 0..MaxSessions]
  /\ via \in [Packets -> Readers \cup {NoReader}]
  /\ forward \in [Packets -> {"none", "quota", "lock", "dial", "write", "sent", "dropped"}]
  /\ cleanup \in {"wait", "sweep", "ended"}
  /\ todo \subseteq Sessions /\ closing \in 0..MaxSessions

(* However many packets of a session are forwarded at once, and whatever    *)
(* the cleanup does meanwhile, ForwardPacket dials a session at most once   *)
(* and starts its reverse reader exactly when it has dialled.               *)
DialledOnce ==
  \A s \in Sessions : sess[s].dials <= 1 /\ (sess[s].dials = 1 <=> sess[s].reverse # "none")

(* GetOrCreate stores a new session without a second look at the map, so    *)
(* readers that share a key may replace each other's session.  It happens   *)
(* only in the gap between its two lock sections: the session that is       *)
(* replaced was stored after the replacing reader's lookup had missed.      *)
ReplacedOnlyInGap ==
  [][\A k \in Keys :
       (sessions[k] # NoSession /\ sessions'[k] \notin {sessions[k], NoSession})
         => \E r \in Readers :
              /\ reader[r] = "create" /\ key[r] = k
              /\ sess'[sessions'[k]].inbound = r /\ sessions[k] > missed[r]]_vars

(* Every packet read is handled to its end, although ForwardPacket dials    *)
(* with the session locked, and the sweep waits for that lock with the map  *)
(* locked, which blocks the readers.                                        *)
PacketsHandled ==
  /\ \A r \in Readers : (reader[r] = "get") ~> (reader[r] = "read")
  /\ \A p \in Packets : (forward[p] = "quota") ~> (forward[p] \in {"sent", "dropped"})

(* A session that stays idle is removed from the map by CleanupLoop. *)
IdleRemoved ==
  \A s \in Sessions :
    <>[](s <= created /\ sess[s].idle /\ cleanup # "ended") => <>[](~InMap(s))

-----------------------------------------------------------------------------
(* What a comment or a document says and the code does not do: each of the  *)
(* following is refuted by TLC, see README.md.                              *)

(* A session leaves the map only through CleanupLoop: GetOrCreate does not  *)
(* put another session in its place.                                        *)
NotReplaced ==
  [][\A k \in Keys :
       (sessions[k] # NoSession /\ sessions'[k] # sessions[k]) => sessions'[k] = NoSession]_vars

(* CleanupLoop's work is complete: a connection is open only as long as its *)
(* session is in the map or a packet of the session is under way.           *)
ClosedWithSession ==
  \A s \in Sessions :
    (sess[s].conn = "open" /\ \A p \in Packets : packet[p] = s => forward[p] \in {"sent", "dropped"})
      => InMap(s)

(* ForwardPacket takes the cached connection for a packet only when         *)
(* handleReverseFlow is still there to read the answer.                     *)
AnswerIsRead ==
  [][\A p \in Packets :
       (forward[p] = "lock" /\ forward'[p] = "write" /\ sess[packet[p]].conn = "open")
         => sess[packet[p]].reverse # "ended"]_vars

(* A packet that came in over an open socket is sent on a session whose     *)
(* answers go out over an open socket.                                      *)
AnswerIsSentBack ==
  [][\A p \in Packets :
       (forward[p] = "write" /\ forward'[p] = "sent" /\ open[via[p]])
         => open[sess[packet[p]].inbound]]_vars

=============================================================================
