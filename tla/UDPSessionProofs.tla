-------------------------- MODULE UDPSessionProofs ---------------------------
(***************************************************************************)
(* For any number of readers, keys, packets and sessions: a udpSession is  *)
(* dialled at most once, and has a reverse reader exactly when it was;     *)
(* a session takes the place of another only if that one was stored while  *)
(* its reader was between lookup and store; and whoever waits for a        *)
(* session's lock waits for a packet that dials.                           *)
(***************************************************************************)
EXTENDS UDPSession, TLAPS

SessionType ==
  [key : Keys \cup {NoKey}, inbound : Readers \cup {NoReader}, idle : BOOLEAN,
   mu : Nat, conn : {"none", "open", "closed"}, reverse : {"none", "loop", "read",
   "ended"},
   dials : Nat]

(* The types the argument needs.  The session a goroutine works on exists. *)
MapTypes ==
  /\ sess \in [Sessions -> SessionType]
  /\ sessions \in [Keys -> 0..MaxSessions]
  /\ created \in 0..MaxSessions /\ closing \in 0..MaxSessions /\ todo \subseteq Sessions

ReaderTypes ==
  /\ reader \in [Readers -> {"read", "get", "found", "route", "create"}]
  /\ found \in [Readers -> 0..MaxSessions]
  /\ key \in [Readers -> Keys \cup {NoKey}]
  /\ \A r \in Readers : reader[r] \in {"get", "route", "create"} => key[r] \in Keys
  /\ \A r \in Readers : reader[r] = "found" => found[r] \in Sessions

PacketTypes ==
  /\ forward \in [Packets -> {"none", "quota", "lock", "dial", "write", "sent", "dropped"}]
  /\ packet \in [Packets -> 0..MaxSessions]
  /\ \A p \in Packets : forward[p] \in {"quota", "lock", "dial", "write"} => packet[p] \in Sessions

Types == MapTypes /\ ReaderTypes /\ PacketTypes

(* A packet that dials holds the lock of its session, which has no          *)
(* connection yet: two packets never dial for one session.                  *)
DialHoldsLock ==
  \A p \in Packets :
    forward[p] = "dial" => sess[packet[p]].mu = p /\ sess[packet[p]].conn = "none"

(* A session has a connection and a reverse reader exactly when it was      *)
(* dialled, and that was once.                                              *)
ConnByDial ==
  \A s \in Sessions :
    /\ sess[s].conn = "none" => sess[s].dials = 0 /\ sess[s].reverse = "none"
    /\ sess[s].conn # "none" => sess[s].dials = 1 /\ sess[s].reverse # "none"

DialInv == Types /\ DialHoldsLock /\ ConnByDial

(* Before the first packet no session exists. *)
LEMMA InitDialInv == Init => DialInv
  BY UDPAssumption
     DEF UDPAssumption, Init, DialInv, Types, MapTypes, ReaderTypes, PacketTypes,
     DialHoldsLock, ConnByDial, SessionType, NewSession,
         Sessions, Packets, NoSession, Unlocked

(* Two records of a session agree on its upstream connection and its lock.  *)
SameDial(x, y) == x.conn = y.conn /\ x.mu = y.mu /\ x.dials = y.dials /\ x.reverse = y.reverse

(* Setting lastSeen keeps the record of a session well typed and leaves its *)
(* upstream connection and its lock alone.                                  *)
LEMMA TouchTyped ==
  ASSUME NEW x \in SessionType
  PROVE  [x EXCEPT !.idle = FALSE] \in SessionType /\ SameDial([x EXCEPT !.idle = FALSE], x)
BY Zenon DEF SessionType, SameDial

(* The same of key and socket. *)
LEMMA CreateTyped ==
  ASSUME NEW x \in SessionType, NEW k \in Keys, NEW r \in Readers
  PROVE  /\ [x EXCEPT !.key = k, !.inbound = r] \in SessionType
         /\ SameDial([x EXCEPT !.key = k, !.inbound = r], x)
BY Zenon DEF SessionType, SameDial

(* A dialled session is well typed. *)
LEMMA DialTyped ==
  ASSUME NEW x \in SessionType
  PROVE  [x EXCEPT !.mu = 0, !.conn = "open", !.reverse = "loop",
  !.dials = @ + 1] \in SessionType
<1>1. x.dials + 1 \in Nat BY DEF SessionType
<1> QED BY <1>1, Zenon DEF SessionType

(* A change of one such record. *)
LEMMA OneRecord ==
  ASSUME sess \in [Sessions -> SessionType], NEW f \in Sessions, NEW n \in SessionType,
         SameDial(n, sess[f]), sess' = [sess EXCEPT ![f] = n]
  PROVE  sess' \in [Sessions -> SessionType] /\ \A s \in Sessions : SameDial(sess'[s],
  sess[s])
<1>1. \A s \in Sessions : sess'[s] = IF s = f THEN n ELSE sess[s] BY Zenon
<1>2. \A s \in Sessions : SameDial(sess[s], sess[s]) BY Zenon DEF SameDial
<1> QED BY <1>1, <1>2, Zenon

(* A step of a reader that makes no packet and no session. *)
LEMMA ReaderFrame ==
  ASSUME DialInv, ReaderTypes',
         UNCHANGED <<sess, sessions, created, closing, todo, forward, packet>>
  PROVE  DialInv'
<1>1. MapTypes' BY Zenon DEF DialInv, Types, MapTypes
<1>2. PacketTypes' BY Zenon DEF DialInv, Types, PacketTypes
<1>3. DialHoldsLock' BY Zenon DEF DialInv, DialHoldsLock
<1>4. ConnByDial' BY Zenon DEF DialInv, ConnByDial
<1> QED BY <1>1, <1>2, <1>3, <1>4, Zenon DEF DialInv, Types

(* The steps of a reader leave connections and locks alone; they only add   *)
(* packets that have not come to the lock.                                  *)
LEMMA ReaderStepInv ==
  ASSUME DialInv, NEW r \in Readers,
         ReaderStep(r) \/ (\E k \in KeysOf[r] : Receive(r, k)) \/ CloseSocket(r)
  PROVE  DialInv'
<1> USE UDPAssumption DEF UDPAssumption, Sessions, Packets, NoSession, ReaderAt
<1>1. ASSUME NEW k \in KeysOf[r], Receive(r, k)
      PROVE  DialInv'
  <2>1. k \in Keys
    BY Zenon
  <2>2. ReaderTypes'
    BY <1>1, <2>1, Zenon DEF Receive, DialInv, Types, ReaderTypes
  <2> QED
    BY <1>1, <2>2, ReaderFrame, Zenon DEF Receive, mapVars, connVars, packetVars,
       cleanupVars
<1>2. CASE CloseSocket(r)
  <2>1. ReaderTypes'
    BY <1>2, Zenon DEF CloseSocket, DialInv, Types, ReaderTypes
  <2> QED
    BY <1>2, <2>1, ReaderFrame, Zenon DEF CloseSocket, mapVars, connVars, packetVars,
       cleanupVars
<1>3. CASE Lookup(r)
  <2>1. key[r] \in Keys /\ sessions[key[r]] \in 0..MaxSessions
    BY <1>3, Zenon DEF Lookup, DialInv, Types, MapTypes, ReaderTypes, PacketTypes
  <2>2. ReaderTypes'
    BY <1>3, <2>1 DEF Lookup, DialInv, Types, ReaderTypes
  <2> QED
    BY <1>3, <2>2, ReaderFrame, Zenon DEF Lookup, mapVars, connVars, packetVars,
       cleanupVars
<1>4. CASE RouteOK(r) \/ RouteFails(r)
  <2>1. ReaderTypes'
    BY <1>4 DEF RouteOK, RouteFails, DialInv, Types, ReaderTypes
  <2> QED
    BY <1>4, <2>1, ReaderFrame, Zenon DEF RouteOK, RouteFails, mapVars, connVars,
       packetVars, cleanupVars
<1>5. CASE Touch(r)
  <2>1. found[r] \in Sessions
    BY <1>5, Zenon DEF Touch, DialInv, Types, MapTypes, ReaderTypes, PacketTypes
  <2> DEFINE new == [sess[found[r]] EXCEPT !.idle = FALSE]
  <2>a. sess \in [Sessions -> SessionType] /\ sess' = [sess EXCEPT ![found[r]] = new]
    BY <1>5, Zenon DEF Touch, DialInv, Types, MapTypes
  <2>f. sess[found[r]] \in SessionType BY <2>1, <2>a, Zenon
  <2>g. new \in SessionType /\ SameDial(new, sess[found[r]]) BY <2>f, TouchTyped, Zenon
  <2> HIDE DEF new
  <2>b. sess' \in [Sessions -> SessionType] /\ \A s \in Sessions : SameDial(sess'[s], sess[s])
    BY <2>1, <2>a, <2>g, OneRecord, Zenon
  <2>2. \A s \in Sessions : /\ sess'[s].conn = sess[s].conn /\ sess'[s].mu = sess[s].mu
                            /\ sess'[s].dials = sess[s].dials
                            /\ sess'[s].reverse = sess[s].reverse
    BY <2>b, Zenon DEF SameDial
  <2>c. MapTypes'
    BY <1>5, <2>1, <2>b, Zenon DEF Touch, DialInv, Types, MapTypes, mapVars, cleanupVars
  <2>d. ReaderTypes'
    BY <1>5, <2>1 DEF Touch, Spawn, DialInv, Types, ReaderTypes
  <2>e. PacketTypes'
    <3>1. PICK n, f : n = spawned + 1 /\ f = found[r]
      BY Zenon
    <3>2. packet' = [packet EXCEPT ![n] = f] /\ forward' = [forward EXCEPT ![n] = "quota"]
      BY <1>5, <3>1, Zenon DEF Touch, Spawn
    <3>3. f \in Sessions /\ f \in 0..MaxSessions
      BY <2>1, <3>1
    <3> QED
      BY <3>2, <3>3, Zenon DEF DialInv, Types, PacketTypes
  <2>3. Types'
    BY <2>c, <2>d, <2>e, Zenon DEF Types
  <2>4. DialHoldsLock'
    <3> SUFFICES ASSUME NEW p \in Packets, forward'[p] = "dial"
                 PROVE  sess'[packet'[p]].mu = p /\ sess'[packet'[p]].conn = "none"
      BY Zenon DEF DialHoldsLock
    <3>1. p # spawned + 1 /\ forward[p] = "dial" /\ packet'[p] = packet[p]
      BY <1>5, Zenon DEF Touch, Spawn, DialInv, Types, MapTypes, ReaderTypes, PacketTypes
    <3>2. packet[p] \in Sessions BY <3>1, Zenon DEF DialInv, Types, PacketTypes
    <3>3. sess[packet[p]].mu = p /\ sess[packet[p]].conn = "none"
      BY <3>1, Zenon DEF DialInv, DialHoldsLock
    <3> QED
      BY <2>2, <3>1, <3>2, <3>3, Zenon
  <2> QED
    BY <2>2, <2>3, <2>4 DEF DialInv, ConnByDial
<1>6. CASE Create(r)
  <2>1. created + 1 \in Sessions /\ key[r] \in Keys
    BY <1>6 DEF Create, DialInv, Types, MapTypes, ReaderTypes, PacketTypes
  <2> DEFINE new == [sess[created + 1] EXCEPT !.key = key[r], !.inbound = r]
  <2>a. sess \in [Sessions -> SessionType] /\ sess' = [sess EXCEPT ![created + 1] = new]
    BY <1>6, <2>1, Zenon DEF Create, DialInv, Types, MapTypes
  <2>f. sess[created + 1] \in SessionType BY <2>1, <2>a, Zenon
  <2>g. new \in SessionType /\ SameDial(new, sess[created + 1])
    BY <2>1, <2>f, CreateTyped, Zenon
  <2> HIDE DEF new
  <2>b. sess' \in [Sessions -> SessionType] /\ \A s \in Sessions : SameDial(sess'[s], sess[s])
    BY <2>1, <2>a, <2>g, OneRecord, Zenon
  <2>2. \A s \in Sessions : /\ sess'[s].conn = sess[s].conn /\ sess'[s].mu = sess[s].mu
                            /\ sess'[s].dials = sess[s].dials
                            /\ sess'[s].reverse = sess[s].reverse
    BY <2>b, Zenon DEF SameDial
  <2>c. MapTypes'
    BY <1>6, <2>1, <2>b DEF Create, DialInv, Types, MapTypes, cleanupVars
  <2>d. ReaderTypes'
    BY <1>6, <2>1 DEF Create, Spawn, DialInv, Types, ReaderTypes
  <2>e. PacketTypes'
    <3>1. PICK n, f : n = spawned + 1 /\ f = created + 1
      BY Zenon
    <3>2. packet' = [packet EXCEPT ![n] = f] /\ forward' = [forward EXCEPT ![n] = "quota"]
      BY <1>6, <3>1, Zenon DEF Create, Spawn
    <3>3. f \in Sessions /\ f \in 0..MaxSessions
      BY <2>1, <3>1
    <3> QED
      BY <3>2, <3>3, Zenon DEF DialInv, Types, PacketTypes
  <2>3. Types'
    BY <2>c, <2>d, <2>e, Zenon DEF Types
  <2>4. DialHoldsLock'
    <3> SUFFICES ASSUME NEW p \in Packets, forward'[p] = "dial"
                 PROVE  sess'[packet'[p]].mu = p /\ sess'[packet'[p]].conn = "none"
      BY Zenon DEF DialHoldsLock
    <3>1. p # spawned + 1 /\ forward[p] = "dial" /\ packet'[p] = packet[p]
      BY <1>6, Zenon DEF Create, Spawn, DialInv, Types, MapTypes, ReaderTypes, PacketTypes
    <3>2. packet[p] \in Sessions BY <3>1, Zenon DEF DialInv, Types, PacketTypes
    <3>3. sess[packet[p]].mu = p /\ sess[packet[p]].conn = "none"
      BY <3>1, Zenon DEF DialInv, DialHoldsLock
    <3> QED
      BY <2>2, <3>1, <3>2, <3>3, Zenon
  <2> QED
    BY <2>2, <2>3, <2>4 DEF DialInv, ConnByDial
<1> QED
  BY <1>1, <1>2, <1>3, <1>4, <1>5, <1>6, Zenon DEF ReaderStep

(* What a step does when it changes one session only, without touching its  *)
(* lock, and keeps the invariant of that session.                           *)
LEMMA OneSessionInv ==
  ASSUME DialInv, NEW s \in Sessions,
         UNCHANGED <<reader, found, key, forward, packet, created>>,
         sessions' \in [Keys -> 0..MaxSessions], closing' \in 0..MaxSessions,
         todo' \subseteq Sessions,
         sess' \in [Sessions -> SessionType],
         \A x \in Sessions : x # s => sess'[x] = sess[x],
         sess'[s].mu = sess[s].mu, sess'[s].dials = sess[s].dials,
         sess'[s].conn = "none" <=> sess[s].conn = "none",
         sess'[s].reverse = "none" <=> sess[s].reverse = "none"
  PROVE  DialInv'
<1>1. Types'
  BY Zenon DEF DialInv, Types, MapTypes, ReaderTypes, PacketTypes
<1>2. \A x \in Sessions : /\ sess'[x].mu = sess[x].mu /\ sess'[x].dials = sess[x].dials
                          /\ sess'[x].conn = "none" <=> sess[x].conn = "none"
                          /\ sess'[x].reverse = "none" <=> sess[x].reverse = "none"
  BY Zenon
<1>3. DialHoldsLock'
  BY <1>2 DEF DialInv, DialHoldsLock, Types, MapTypes, ReaderTypes, PacketTypes
<1>4. ConnByDial'
  BY <1>2, Zenon DEF DialInv, ConnByDial
<1> QED
  BY <1>1, <1>3, <1>4, Zenon DEF DialInv

(* The reverse reader and time do not touch locks and dials. *)
LEMMA SessionStepInv ==
  ASSUME DialInv, NEW s \in Sessions,
  ReverseStep(s) \/ BecomeIdle(s)
  PROVE  DialInv'
<1> DEFINE Rest == UNCHANGED <<reader, found, key, forward, packet, created, sessions, closing, todo>>
           Alike(n) == /\ n.mu = sess[s].mu /\ n.dials = sess[s].dials
                       /\ n.conn = "none" <=> sess[s].conn = "none"
                       /\ n.reverse = "none" <=> sess[s].reverse = "none"
<1>0. sess \in [Sessions -> SessionType] /\ sessions \in [Keys -> 0..MaxSessions]
      /\ closing \in 0..MaxSessions /\ todo \subseteq Sessions
  BY Zenon DEF DialInv, Types, MapTypes, ReaderTypes, PacketTypes
<1>b. sess[s] \in SessionType BY <1>0, Zenon
<1>a. ASSUME NEW n \in SessionType, Rest, Alike(n), sess' = [sess EXCEPT ![s] = n] PROVE DialInv'
  <2>1. sess' \in [Sessions -> SessionType] /\ sess'[s] = n BY <1>0, <1>a, Zenon
  <2>2. \A x \in Sessions : x # s => sess'[x] = sess[x] BY <1>0, <1>a, Zenon
  <2> QED BY <1>0, <1>a, <2>1, <2>2, OneSessionInv, Zenon
<1>1. CASE SetDeadline(s)
  <2> DEFINE new == [sess[s] EXCEPT !.reverse = "read"]
  <2>1. Rest /\ sess' = [sess EXCEPT ![s] = new]
    BY <1>1, Zenon DEF SetDeadline, KeepRest, readVars, mapVars, packetVars, cleanupVars
  <2>2. new \in SessionType BY <1>b, Zenon DEF SessionType
  <2>3. Alike(new) BY <1>b, <1>1, Zenon DEF SessionType, SetDeadline
  <2> QED BY <1>a, <2>1, <2>2, <2>3, Zenon
<1>2. CASE ReverseReply(s)
  <2> DEFINE new == [sess[s] EXCEPT !.idle = FALSE, !.reverse = "loop"]
  <2>1. Rest /\ sess' = [sess EXCEPT ![s] = new]
    BY <1>2, Zenon DEF ReverseReply, KeepRest, readVars, mapVars, packetVars, cleanupVars
  <2>2. new \in SessionType BY <1>b, Zenon DEF SessionType
  <2>3. Alike(new) BY <1>b, <1>2, Zenon DEF SessionType, ReverseReply
  <2> QED BY <1>a, <2>1, <2>2, <2>3, Zenon
<1>3. CASE ReverseEnds(s)
  <2> DEFINE new == [sess[s] EXCEPT !.reverse = "ended"]
  <2>1. Rest /\ sess' = [sess EXCEPT ![s] = new]
    BY <1>3, Zenon DEF ReverseEnds, KeepRest, readVars, mapVars, packetVars, cleanupVars
  <2>2. new \in SessionType BY <1>b, Zenon DEF SessionType
  <2>3. Alike(new) BY <1>b, <1>3, Zenon DEF SessionType, ReverseEnds
  <2> QED BY <1>a, <2>1, <2>2, <2>3, Zenon
<1>4. CASE BecomeIdle(s)
  <2> DEFINE new == [sess[s] EXCEPT !.idle = TRUE]
  <2>1. Rest /\ sess' = [sess EXCEPT ![s] = new]
    BY <1>4, Zenon DEF BecomeIdle, KeepRest, readVars, mapVars, packetVars, cleanupVars
  <2>2. new \in SessionType BY <1>b, Zenon DEF SessionType
  <2>3. Alike(new) BY <1>b, Zenon DEF SessionType
  <2> QED BY <1>a, <2>1, <2>2, <2>3, Zenon
<1> QED
  BY <1>1, <1>2, <1>3, <1>4, Zenon DEF ReverseStep

(* CleanupLoop closes a connection only with the session's lock free, and   *)
(* a closed connection is not dialled again.                                *)
LEMMA CleanupStepInv ==
  ASSUME DialInv, SweepStep \/ CleanupTick \/ CleanupReturns
  PROVE  DialInv'
<1> USE DEF KeepOthers, readVars, packetVars
<1>0. sess \in [Sessions -> SessionType] /\ sessions \in [Keys -> 0..MaxSessions]
      /\ closing \in 0..MaxSessions /\ todo \subseteq Sessions
  BY Zenon DEF DialInv, Types, MapTypes, ReaderTypes, PacketTypes
<1>1. CASE CleanupClose
  <2>1. closing \in Sessions
    BY <1>0, <1>1, UDPAssumption DEF CleanupClose, Sessions, NoSession, UDPAssumption
  <2>2. sessions' \in [Keys -> 0..MaxSessions] /\ closing' \in 0..MaxSessions
        /\ todo' \subseteq Sessions
    <3>1. PICK k : k = sess[closing].key
      BY Zenon
    <3>2. sessions' = [sessions EXCEPT ![k] = 0] /\ closing' = 0 /\ todo' = todo
      BY <1>1, <3>1, Zenon DEF CleanupClose, NoSession
    <3>3. 0 \in 0..MaxSessions
      BY UDPAssumption DEF UDPAssumption
    <3> QED
      BY <1>0, <3>2, <3>3, Zenon
  <2>3. sess' \in [Sessions -> SessionType]
        /\ (\A x \in Sessions : x # closing => sess'[x] = sess[x])
        /\ sess'[closing].mu = sess[closing].mu /\ sess'[closing].dials = sess[closing].dials
        /\ (sess'[closing].conn = "none" <=> sess[closing].conn = "none")
        /\ sess'[closing].reverse = sess[closing].reverse
    BY <1>0, <1>1, <2>1 DEF CleanupClose, CloseConn, SessionType
  <2> QED
    BY <1>1, <2>1, <2>2, <2>3, OneSessionInv, Zenon DEF CleanupClose
<1>2. CASE \E s \in Sessions : CleanupTest(s)
  BY <1>0, <1>2, UDPAssumption
     DEF CleanupTest, DialInv, Types, MapTypes, ReaderTypes, PacketTypes, DialHoldsLock,
     ConnByDial, Sessions, NoSession, UDPAssumption
<1>3. CASE CleanupTick
  BY <1>3, Zenon DEF CleanupTick, DialInv, Types, MapTypes, ReaderTypes, PacketTypes,
     DialHoldsLock, ConnByDial
<1>4. CASE CleanupDone \/ CleanupReturns
  BY <1>4 DEF CleanupDone, CleanupReturns, DialInv, Types, MapTypes, ReaderTypes,
     PacketTypes, DialHoldsLock, ConnByDial,
              mapVars, connVars
<1> QED
  BY <1>1, <1>2, <1>3, <1>4, Zenon DEF SweepStep

(* ForwardPacket: the lock is taken for a dial and released after it. *)
LEMMA PacketStepInv ==
  ASSUME DialInv, NEW p \in Packets, PacketStep(p)
  PROVE  DialInv'
<1> USE DEF KeepPacket, KeepSockets, readVars, mapVars, cleanupVars, ForwardAt
<1> DEFINE s == packet[p]
<1>1. CASE OverQuota(p) \/ Admit(p) \/ Write(p)
  BY <1>1 DEF OverQuota, Admit, Write, DialInv, Types, MapTypes, ReaderTypes,
     PacketTypes, DialHoldsLock, ConnByDial
<1>2. CASE Lock(p) /\ sess[s].conn # "none"
  BY <1>2 DEF Lock, DialInv, Types, MapTypes, ReaderTypes, PacketTypes, DialHoldsLock,
     ConnByDial
<1>3. CASE Lock(p) /\ sess[s].conn = "none"
  <2>1. s \in Sessions /\ p \in Nat /\ p # Unlocked
    BY <1>3, UDPAssumption DEF Lock, DialInv, Types, MapTypes, ReaderTypes, PacketTypes,
       Packets, Unlocked, UDPAssumption
  <2>2. sess' = [sess EXCEPT ![s].mu = p] /\ sess[s].mu = Unlocked /\ packet' = packet
        /\ forward[p] = "lock" /\ forward' = [forward EXCEPT ![p] = "dial"]
    BY <1>3, Zenon DEF Lock
  <2>3. sess' \in [Sessions -> SessionType]
        /\ (\A x \in Sessions : /\ sess'[x].conn = sess[x].conn /\ sess'[x].dials = sess[x].dials
                                /\ sess'[x].reverse = sess[x].reverse
                                /\ x # s => sess'[x].mu = sess[x].mu)
        /\ sess'[s].mu = p
    <3> DEFINE new == [sess[s] EXCEPT !.mu = p]
    <3>1. sess \in [Sessions -> SessionType] /\ sess' = [sess EXCEPT ![s] = new]
      BY <2>2, Zenon DEF DialInv, Types, MapTypes
    <3>2. sess[s] \in SessionType BY <2>1, <3>1, Zenon
    <3>3. /\ new \in SessionType /\ new.mu = p /\ new.conn = sess[s].conn
          /\ new.dials = sess[s].dials /\ new.reverse = sess[s].reverse
      BY <2>1, <3>2, Zenon DEF SessionType
    <3> HIDE DEF new
    <3>4. \A x \in Sessions : sess'[x] = IF x = s THEN new ELSE sess[x] BY <3>1, Zenon
    <3> QED BY <2>1, <3>1, <3>3, <3>4, Zenon
  <2>4. Types'
    BY <1>3, <2>1, <2>2, <2>3 DEF Lock, DialInv, Types, MapTypes, ReaderTypes, PacketTypes
  <2>5. DialHoldsLock'
    <3> SUFFICES ASSUME NEW q \in Packets, forward'[q] = "dial"
                 PROVE  sess'[packet[q]].mu = q /\ sess'[packet[q]].conn = "none"
      BY <2>2, Zenon DEF DialHoldsLock
    <3>1. CASE q = p
      BY <1>3, <2>1, <2>3, <3>1, Zenon
    <3>2. CASE q # p
      <4>1. forward[q] = "dial"
        BY <2>2, <3>2, Zenon DEF DialInv, Types, MapTypes, ReaderTypes, PacketTypes
      <4>2. packet[q] \in Sessions /\ sess[packet[q]].mu = q /\ sess[packet[q]].conn = "none"
        BY <4>1, Zenon DEF DialInv, Types, MapTypes, ReaderTypes, PacketTypes,
           DialHoldsLock
      <4>3. packet[q] # s
        BY <2>2, <4>2, UDPAssumption DEF Unlocked, Packets, UDPAssumption
      <4> QED
        BY <2>3, <4>2, <4>3, Zenon
    <3> QED
      BY <3>1, <3>2, Zenon
  <2> QED
    BY <2>3, <2>4, <2>5 DEF DialInv, ConnByDial
<1>4. ASSUME DialOK(p) \/ DialFails(p)
      PROVE  DialInv'
  <2>1. s \in Sessions /\ sess[s].mu = p /\ sess[s].conn = "none" /\ sess[s].dials = 0
        /\ sess[s].reverse = "none"
    BY <1>4, Zenon DEF DialOK, DialFails, DialInv, Types, MapTypes, ReaderTypes,
       PacketTypes, DialHoldsLock, ConnByDial
  <2>2. packet' = packet /\ \A q \in Packets : forward'[q] = "dial" => q # p /\ forward[q] = "dial"
    BY <1>4, Zenon DEF DialOK, DialFails, DialInv, Types, MapTypes, ReaderTypes,
       PacketTypes
  <2>3. sess' \in [Sessions -> SessionType] /\ \A x \in Sessions : x # s => sess'[x] = sess[x]
    <3>1. sess \in [Sessions -> SessionType]
      BY Zenon DEF DialInv, Types, MapTypes
    <3>2. CASE DialOK(p)
      <4> DEFINE new == [sess[s] EXCEPT !.mu = 0, !.conn = "open", !.reverse = "loop", !.dials = @ + 1]
      <4>1. sess' = [sess EXCEPT ![s] = new] BY <3>2, Zenon DEF DialOK, Unlocked
      <4>2. sess[s] \in SessionType BY <2>1, <3>1, Zenon
      <4>3. new \in SessionType BY <4>2, DialTyped, Zenon
      <4> HIDE DEF new
      <4> QED BY <2>1, <3>1, <4>1, <4>3, Zenon
    <3>3. CASE DialFails(p)
      BY <2>1, <3>1, <3>3 DEF DialFails, SessionType, Unlocked
    <3> QED
      BY <1>4, <3>2, <3>3, Zenon
  <2>4. \/ sess'[s].conn = "open" /\ sess'[s].reverse = "loop" /\ sess'[s].dials = 1
        \/ sess'[s].conn = "none" /\ sess'[s].reverse = "none" /\ sess'[s].dials = 0
    BY <1>4, <2>1 DEF DialOK, DialFails, DialInv, Types, MapTypes, ReaderTypes,
       PacketTypes, SessionType
  <2>5. Types'
    BY <1>4, <2>1, <2>3 DEF DialOK, DialFails, DialInv, Types, MapTypes, ReaderTypes,
       PacketTypes
  <2>6. DialHoldsLock'
    <3> SUFFICES ASSUME NEW q \in Packets, forward'[q] = "dial"
                 PROVE  sess'[packet[q]].mu = q /\ sess'[packet[q]].conn = "none"
      BY <2>2, Zenon DEF DialHoldsLock
    <3>1. packet[q] \in Sessions /\ sess[packet[q]].mu = q /\ sess[packet[q]].conn = "none"
      BY <2>2, Zenon DEF DialInv, Types, MapTypes, ReaderTypes, PacketTypes, DialHoldsLock
    <3>2. packet[q] # s
      BY <2>1, <2>2, <3>1, Zenon
    <3> QED
      BY <2>3, <3>1, <3>2, Zenon
  <2>7. ConnByDial'
    BY <2>3, <2>4 DEF DialInv, ConnByDial
  <2> QED
    BY <2>5, <2>6, <2>7, Zenon DEF DialInv
<1> QED
  BY <1>1, <1>2, <1>3, <1>4, Zenon DEF PacketStep

(* Every reachable state satisfies the invariant of the dials. *)
LEMMA DialInvariant == Spec => []DialInv
<1>1. DialInv /\ [Next]_vars => DialInv'
  <2> SUFFICES ASSUME DialInv, [Next]_vars
               PROVE  DialInv'
    BY Zenon
  <2>1. CASE UNCHANGED vars
    BY <2>1, Zenon DEF vars, readVars, mapVars, connVars, packetVars, cleanupVars,
       DialInv, Types, MapTypes, ReaderTypes, PacketTypes,
                DialHoldsLock, ConnByDial
  <2>2. CASE Next
    BY <2>2, ReaderStepInv, PacketStepInv, SessionStepInv, CleanupStepInv, Zenon DEF Next
  <2> QED
    BY <2>1, <2>2, Zenon
<1> QED
  BY InitDialInv, <1>1, PTL DEF Spec

(* DialledOnce: ForwardPacket's lock makes concurrent first packets of a    *)
(* session share one dial and one handleReverseFlow, for every number of    *)
(* packets, sessions and readers, with the cleanup running beside them.     *)
THEOREM DialledOnceTheorem == Spec => []DialledOnce
<1>1. DialInv => DialledOnce
  BY DEF DialInv, Types, MapTypes, ReaderTypes, PacketTypes, ConnByDial, DialledOnce,
     SessionType
<1> QED
  BY DialInvariant, <1>1, PTL

-----------------------------------------------------------------------------
(* From the lookup that missed to the store, only sessions made since the   *)
(* lookup are under the key.                                                *)
KeyInv ==
  /\ missed \in [Readers -> 0..MaxSessions]
  /\ \A r \in Readers : missed[r] <= created
  /\ \A r \in Readers :
       reader[r] \in {"route", "create"} =>
         sessions[key[r]] = NoSession \/ sessions[key[r]] > missed[r]

(* A step of CleanupLoop only takes sessions out of the map. *)
LEMMA SweepOnlyRemoves ==
  ASSUME DialInv, SweepStep \/ CleanupTick \/ CleanupReturns
  PROVE  \A k \in Keys : sessions'[k] = sessions[k] \/ sessions'[k] = NoSession
<1>1. sessions \in [Keys -> 0..MaxSessions] BY Zenon DEF DialInv, Types, MapTypes
<1>2. CASE CleanupClose BY <1>1, <1>2, Zenon DEF CleanupClose
<1>3. CASE ~CleanupClose
  BY <1>3, Zenon DEF SweepStep, CleanupTest, CleanupDone, CleanupTick, CleanupReturns
<1> QED BY <1>2, <1>3, Zenon

(* GetOrCreate stores a session of its own reader under that reader's key,  *)
(* and under no other key.                                                  *)
LEMMA CreateStores ==
  ASSUME DialInv, NEW r \in Readers, Create(r)
  PROVE  /\ reader[r] = "create" /\ key[r] \in Keys
         /\ sessions'[key[r]] = created + 1 /\ created' = created + 1
         /\ sess'[created + 1].inbound = r
         /\ \A k \in Keys : k # key[r] => sessions'[k] = sessions[k]
<1>1. sessions \in [Keys -> 0..MaxSessions] /\ sess \in [Sessions -> SessionType]
  BY Zenon DEF DialInv, Types, MapTypes
<1>2. reader[r] = "create" BY Zenon DEF Create, ReaderAt
<1>3. key[r] \in Keys BY <1>2, Zenon DEF DialInv, Types, ReaderTypes
<1>4. created + 1 \in Sessions
  BY UDPAssumption DEF Create, DialInv, Types, MapTypes, Sessions, UDPAssumption
<1>5. sess'[created + 1].inbound = r BY <1>1, <1>4 DEF Create, SessionType
<1> QED BY <1>1, <1>2, <1>3, <1>5, Zenon DEF Create

(* The steps of the others leave a reader and its key alone. *)
LEMMA KeyFrame ==
  ASSUME DialInv, KeyInv, UNCHANGED <<reader, key, missed, created>>,
         \A k \in Keys : sessions'[k] = sessions[k] \/ sessions'[k] = NoSession
  PROVE  KeyInv'
<1> SUFFICES ASSUME NEW r \in Readers, reader[r] \in {"route", "create"}
             PROVE  sessions'[key[r]] = NoSession \/ sessions'[key[r]] > missed[r]
  BY Zenon DEF KeyInv
<1>1. key[r] \in Keys BY Zenon DEF DialInv, Types, ReaderTypes
<1> QED BY <1>1, Zenon DEF KeyInv

(* The steps of a reader: a session it stores is newer than every lookup    *)
(* that has missed, its own and those of the others.                        *)
LEMMA KeyReader ==
  ASSUME DialInv, KeyInv, NEW r \in Readers,
         ReaderStep(r) \/ (\E k \in KeysOf[r] : Receive(r, k)) \/ CloseSocket(r)
  PROVE  KeyInv'
<1>a. /\ reader \in [Readers -> {"read", "get", "found", "route", "create"}]
      /\ key \in [Readers -> Keys \cup {NoKey}] /\ missed \in [Readers -> 0..MaxSessions]
      /\ \A q \in Readers : reader[q] \in {"get", "route", "create"} => key[q] \in Keys
      /\ created \in 0..MaxSessions /\ 0 \in 0..MaxSessions /\ 0 <= created
  <2>1. created \in 0..MaxSessions BY Zenon DEF DialInv, Types, MapTypes
  <2>2. 0 \in 0..MaxSessions /\ 0 <= created BY <2>1, UDPAssumption DEF UDPAssumption
  <2> QED BY <2>1, <2>2, Zenon DEF DialInv, Types, ReaderTypes, KeyInv
<1>b. ASSUME NEW q \in Readers
      PROVE  /\ missed[q] <= created
             /\ reader[q] \in {"route", "create"} =>
                  sessions[key[q]] = NoSession \/ sessions[key[q]] > missed[q]
  BY Zenon DEF KeyInv
<1>1. CASE CloseSocket(r)
  <2>1. UNCHANGED <<reader, key, missed, created, sessions>>
    BY <1>1, Zenon DEF CloseSocket, mapVars
  <2> QED BY <2>1, KeyFrame, Zenon
<1>2. CASE \E k \in KeysOf[r] : Receive(r, k)
  <2>1. PICK k \in KeysOf[r] : Receive(r, k) BY <1>2, Zenon
  <2>2. /\ reader' = [reader EXCEPT ![r] = "get"] /\ key' = [key EXCEPT ![r] = k]
        /\ UNCHANGED <<missed, created, sessions>>
    BY <2>1, Zenon DEF Receive, ReaderAt, mapVars
  <2> QED BY <1>a, <1>b, <2>2, Zenon DEF KeyInv
<1>3. CASE Lookup(r)
  <2>1. UNCHANGED <<key, created, sessions>> BY <1>3, Zenon DEF Lookup, mapVars
  <2>2. CASE sessions[key[r]] = NoSession
    <3>1. reader' = [reader EXCEPT ![r] = "route"] /\ missed' = [missed EXCEPT ![r] = created]
      BY <1>3, <2>2, Zenon DEF Lookup, ReaderAt
    <3>2. created <= created BY <1>a
    <3> QED BY <1>a, <1>b, <2>1, <2>2, <3>1, <3>2, Zenon DEF KeyInv
  <2>3. CASE sessions[key[r]] # NoSession
    <3>1. reader' = [reader EXCEPT ![r] = "found"] /\ missed' = [missed EXCEPT ![r] = missed[r]]
      BY <1>3, <2>3, Zenon DEF Lookup, ReaderAt
    <3> QED BY <1>a, <1>b, <2>1, <3>1, Zenon DEF KeyInv
  <2> QED BY <2>2, <2>3, Zenon
<1>4. CASE RouteOK(r)
  <2>1. /\ reader[r] = "route" /\ reader' = [reader EXCEPT ![r] = "create"]
        /\ UNCHANGED <<key, missed, created, sessions>>
    BY <1>4, Zenon DEF RouteOK, ReaderAt, mapVars
  <2> QED BY <1>a, <1>b, <2>1, Zenon DEF KeyInv
<1>5. CASE RouteFails(r) \/ Touch(r)
  <2>1. /\ reader' = [reader EXCEPT ![r] = "read"] /\ key' = [key EXCEPT ![r] = NoKey]
        /\ missed' = [missed EXCEPT ![r] = 0] /\ UNCHANGED <<created, sessions>>
    BY <1>5, Zenon DEF RouteFails, Touch, Spawn, ReaderAt, mapVars
  <2> QED BY <1>a, <1>b, <2>1, Zenon DEF KeyInv
<1>6. CASE Create(r)
  <2>1. /\ reader' = [reader EXCEPT ![r] = "read"] /\ key' = [key EXCEPT ![r] = NoKey]
        /\ missed' = [missed EXCEPT ![r] = 0]
    BY <1>6, Zenon DEF Create, Spawn, ReaderAt
  <2>2. /\ sessions'[key[r]] = created + 1 /\ created' = created + 1
        /\ \A k \in Keys : k # key[r] => sessions'[k] = sessions[k]
    BY <1>6, CreateStores, Zenon
  <2>3. ASSUME NEW q \in Readers, q # r PROVE missed[q] <= created' /\ created + 1 > missed[q]
    BY <1>a, <1>b, <2>2
  <2>4. missed' \in [Readers -> 0..MaxSessions] /\ 0 <= created' BY <1>a, <2>1, <2>2
  <2>5. ASSUME NEW q \in Readers PROVE missed'[q] <= created'
    BY <1>a, <2>1, <2>3, <2>4, Zenon
  <2>6. ASSUME NEW q \in Readers, reader'[q] \in {"route", "create"}
        PROVE  sessions'[key'[q]] = NoSession \/ sessions'[key'[q]] > missed'[q]
    <3>1. q # r /\ reader[q] \in {"route", "create"} /\ key'[q] = key[q] /\ missed'[q] = missed[q]
      BY <1>a, <2>1, <2>6, Zenon
    <3>2. key[q] \in Keys BY <1>a, <3>1, Zenon
    <3>3. CASE key[q] = key[r] BY <2>2, <2>3, <3>1, <3>3, Zenon
    <3>4. CASE key[q] # key[r] BY <1>b, <2>2, <3>1, <3>2, <3>4, Zenon
    <3> QED BY <3>3, <3>4, Zenon
  <2> QED BY <2>4, <2>5, <2>6, Zenon DEF KeyInv
<1> QED BY <1>1, <1>2, <1>3, <1>4, <1>5, <1>6, Zenon DEF ReaderStep

(* ReplacedOnlyInGap, for every number of readers, keys and packets, and    *)
(* whoever shares a key with whom: GetOrCreate stores without a second look *)
(* at the map, and the only session it can replace is one stored since its  *)
(* lookup.  Where no two readers share a key, as with UDP forwards and      *)
(* ranges, there is none.                                                   *)
THEOREM GapTheorem == Spec => ReplacedOnlyInGap
<1>1. Init => KeyInv BY UDPAssumption DEF Init, KeyInv, UDPAssumption
<1>2. DialInv /\ KeyInv /\ [Next]_vars => KeyInv'
  <2> SUFFICES ASSUME DialInv, KeyInv, [Next]_vars PROVE KeyInv' BY Zenon
  <2>1. ASSUME NEW r \in Readers, (\E k \in KeysOf[r] : Receive(r, k)) \/ CloseSocket(r) \/ ReaderStep(r)
        PROVE  KeyInv'
    BY <2>1, KeyReader, Zenon
  <2>2. ASSUME NEW p \in Packets, PacketStep(p) PROVE KeyInv'
    <3>1. UNCHANGED <<reader, key, missed, created, sessions>>
      BY <2>2, Zenon DEF PacketStep, OverQuota, Admit, Lock, DialOK, DialFails, Write,
         KeepSockets, readVars, mapVars
    <3> QED BY <3>1, KeyFrame, Zenon
  <2>3. ASSUME NEW s \in Sessions, ReverseStep(s) \/ BecomeIdle(s) PROVE KeyInv'
    <3>1. UNCHANGED <<reader, key, missed, created, sessions>>
      BY <2>3, Zenon DEF ReverseStep, SetDeadline, ReverseReply, ReverseEnds, BecomeIdle,
         KeepRest, readVars, mapVars
    <3> QED BY <3>1, KeyFrame, Zenon
  <2>4. CASE SweepStep \/ CleanupTick \/ CleanupReturns
    <3>1. UNCHANGED <<reader, key, missed, created>>
      BY <2>4, Zenon DEF SweepStep, CleanupTest, CleanupClose, CleanupDone, CleanupTick,
         CleanupReturns, KeepOthers, readVars
    <3> QED BY <2>4, <3>1, KeyFrame, SweepOnlyRemoves, Zenon
  <2>5. CASE UNCHANGED vars BY <2>5, KeyFrame, Zenon DEF vars, readVars, mapVars
  <2> QED BY <2>1, <2>2, <2>3, <2>4, <2>5, Zenon DEF Next
<1>3. DialInv /\ KeyInv /\ [Next]_vars =>
        [\A k \in Keys :
           (sessions[k] # NoSession /\ sessions'[k] \notin {sessions[k], NoSession})
             => \E r \in Readers :
                  /\ reader[r] = "create" /\ key[r] = k
                  /\ sess'[sessions'[k]].inbound = r /\ sessions[k] > missed[r]]_vars
  <2> SUFFICES ASSUME DialInv, KeyInv, Next, NEW k \in Keys, sessions[k] # NoSession,
                      sessions'[k] \notin {sessions[k], NoSession}
               PROVE  \E r \in Readers :
                        /\ reader[r] = "create" /\ key[r] = k
                        /\ sess'[sessions'[k]].inbound = r /\ sessions[k] > missed[r]
    BY Zenon
  <2>1. CASE SweepStep \/ CleanupTick \/ CleanupReturns BY <2>1, SweepOnlyRemoves, Zenon
  <2>2. ASSUME NEW r \in Readers, Create(r)
        PROVE  /\ reader[r] = "create" /\ key[r] = k
               /\ sess'[sessions'[k]].inbound = r /\ sessions[k] > missed[r]
    <3>1. reader[r] = "create" /\ key[r] = k /\ sess'[sessions'[k]].inbound = r
      BY <2>2, CreateStores, Zenon
    <3> QED BY <3>1, Zenon DEF KeyInv
  <2>3. ASSUME NEW r \in Readers,
               (\E x \in KeysOf[r] : Receive(r, x)) \/ CloseSocket(r) \/ ReaderStep(r), ~Create(r)
        PROVE  FALSE
    BY <2>3, Zenon DEF ReaderStep, Receive, CloseSocket, Lookup, RouteOK, RouteFails,
       Touch, mapVars
  <2>4. ASSUME NEW p \in Packets, PacketStep(p) PROVE FALSE
    BY <2>4, Zenon DEF PacketStep, OverQuota, Admit, Lock, DialOK, DialFails, Write,
       KeepSockets, mapVars
  <2>5. ASSUME NEW s \in Sessions, ReverseStep(s) \/ BecomeIdle(s) PROVE FALSE
    BY <2>5, Zenon DEF ReverseStep, SetDeadline, ReverseReply, ReverseEnds, BecomeIdle,
       KeepRest, mapVars
  <2> QED BY <2>1, <2>2, <2>3, <2>4, <2>5, Zenon DEF Next
<1> QED BY <1>1, <1>2, <1>3, DialInvariant, PTL DEF Spec, ReplacedOnlyInGap

-----------------------------------------------------------------------------
(* The packets of a session that is locked. *)
Holds(p, s) == sess[s].mu = p /\ packet[p] = s /\ forward[p] = "dial"

(* A session's lock is held only by a packet of the session that dials, a   *)
(* step that takes no other lock; and CleanupLoop waits for one only during *)
(* a sweep.  So every wait for a lock ends with a dial.                     *)
NoCircularWait ==
  /\ \A s \in Sessions : sess[s].mu # Unlocked => \E p \in Packets : Holds(p, s)
  /\ closing # NoSession => cleanup = "sweep"

(* A goroutine that is not yet started holds no lock. *)
SpawnInv == spawned \in Nat /\ \A p \in Packets : p > spawned => forward[p] = "none"

LockInv == NoCircularWait /\ SpawnInv

(* What a dialling packet holds stays held. *)
LEMMA WaitKept ==
  ASSUME NoCircularWait, \A s \in Sessions : sess'[s].mu = sess[s].mu,
         \A p \in Packets : forward[p] = "dial" => packet'[p] = packet[p] /\ forward'[p] = "dial",
         closing' # NoSession => cleanup' = "sweep"
  PROVE  NoCircularWait'
<1>1. ASSUME NEW s \in Sessions, sess'[s].mu # Unlocked
      PROVE  \E p \in Packets : Holds(p, s)'
  <2>1. PICK p \in Packets : Holds(p, s) BY <1>1, Zenon DEF NoCircularWait
  <2>2. Holds(p, s)' BY <2>1, Zenon DEF Holds
  <2> QED BY <2>2, Zenon
<1> QED BY <1>1, Zenon DEF NoCircularWait

(* A step that neither touches a lock nor moves a packet. *)
LEMMA LockFrame ==
  ASSUME LockInv, UNCHANGED <<packetVars>>, \A s \in Sessions : sess'[s].mu = sess[s].mu,
         closing' # NoSession => cleanup' = "sweep"
  PROVE  LockInv'
<1>1. SpawnInv' BY Zenon DEF LockInv, SpawnInv, packetVars
<1>2. NoCircularWait' BY WaitKept, Zenon DEF LockInv, packetVars
<1> QED BY <1>1, <1>2, Zenon DEF LockInv

(* A new packet takes no lock. *)
LEMMA LockSpawn ==
  ASSUME DialInv, LockInv, NEW r, NEW f, Spawn(r, f), UNCHANGED cleanupVars,
         \A s \in Sessions : sess'[s].mu = sess[s].mu
  PROVE  LockInv'
<1>1. PICK n : n = spawned + 1 OBVIOUS
<1>2. /\ spawned' = n /\ packet' = [packet EXCEPT ![n] = f]
      /\ forward' = [forward EXCEPT ![n] = "quota"]
  BY <1>1, Zenon DEF Spawn
<1>3. /\ packet \in [Packets -> 0..MaxSessions]
      /\ forward \in [Packets -> {"none", "quota", "lock", "dial", "write", "sent", "dropped"}]
  BY Zenon DEF DialInv, Types, PacketTypes
<1>4. \A p \in Packets : p # n => packet'[p] = packet[p] /\ forward'[p] = forward[p]
  BY <1>2, <1>3, Zenon
<1>5. n \in Nat /\ n > spawned BY <1>1 DEF LockInv, SpawnInv
<1>6. ASSUME NEW p \in Packets, forward[p] = "dial" PROVE p # n
  BY <1>5, <1>6 DEF LockInv, SpawnInv
<1>7. SpawnInv'
  <2>1. \A p \in Packets : p > n => p # n /\ p > spawned
    BY <1>1, UDPAssumption DEF LockInv, SpawnInv, Packets, UDPAssumption
  <2> QED BY <1>2, <1>4, <1>5, <2>1, Zenon DEF LockInv, SpawnInv
<1>8. closing' # NoSession => cleanup' = "sweep"
  BY Zenon DEF LockInv, NoCircularWait, cleanupVars
<1>9. NoCircularWait' BY <1>4, <1>6, <1>8, WaitKept, Zenon DEF LockInv
<1> QED BY <1>7, <1>9, Zenon DEF LockInv

(* The readers. *)
LEMMA LockReader ==
  ASSUME DialInv, LockInv, NEW r \in Readers,
         ReaderStep(r) \/ (\E k \in KeysOf[r] : Receive(r, k)) \/ CloseSocket(r)
  PROVE  LockInv'
<1>0. sess \in [Sessions -> SessionType] BY Zenon DEF DialInv, Types, MapTypes
<1>c. closing # NoSession => cleanup = "sweep" BY Zenon DEF LockInv, NoCircularWait
<1>1. ASSUME UNCHANGED <<sess, packetVars, cleanupVars>> PROVE LockInv'
  BY <1>1, <1>c, LockFrame, Zenon DEF cleanupVars
<1>2. CASE Touch(r)
  <2>1. sess' = [sess EXCEPT ![found[r]].idle = FALSE] /\ Spawn(r, found[r])
        /\ UNCHANGED cleanupVars
    BY <1>2, Zenon DEF Touch
  <2>2. \A s \in Sessions : sess'[s].mu = sess[s].mu BY <1>0, <2>1 DEF SessionType
  <2> QED BY <2>1, <2>2, LockSpawn, Zenon
<1>3. CASE Create(r)
  <2>1. /\ sess' = [sess EXCEPT ![created + 1].key = key[r], ![created + 1].inbound = r]
        /\ Spawn(r, created + 1) /\ UNCHANGED cleanupVars
    BY <1>3, Zenon DEF Create
  <2>2. \A s \in Sessions : sess'[s].mu = sess[s].mu BY <1>0, <2>1 DEF SessionType
  <2> QED BY <2>1, <2>2, LockSpawn, Zenon
<1>4. CASE CloseSocket(r) BY <1>1, <1>4, Zenon DEF CloseSocket, connVars
<1>5. CASE \E k \in KeysOf[r] : Receive(r, k) BY <1>1, <1>5, Zenon DEF Receive, connVars
<1>6. CASE Lookup(r) \/ RouteOK(r) \/ RouteFails(r)
  BY <1>1, <1>6, Zenon DEF Lookup, RouteOK, RouteFails, connVars
<1> QED BY <1>2, <1>3, <1>4, <1>5, <1>6, Zenon DEF ReaderStep

(* A packet goes on without its session's lock. *)
LEMMA LockPacket ==
  ASSUME DialInv, LockInv, NEW p \in Packets, NEW h, forward' = [forward EXCEPT ![p] = h],
         forward[p] # "dial", forward[p] # "none", UNCHANGED <<sess, spawned, packet, cleanupVars>>
  PROVE  LockInv'
<1>1. forward \in [Packets -> {"none", "quota", "lock", "dial", "write", "sent", "dropped"}]
  BY Zenon DEF DialInv, Types, PacketTypes
<1>2. \A q \in Packets : q # p => forward'[q] = forward[q] BY <1>1, Zenon
<1>3. SpawnInv'
  <2>1. ~(p > spawned) BY Zenon DEF LockInv, SpawnInv
  <2> QED BY <1>2, <2>1, Zenon DEF LockInv, SpawnInv
<1>4. closing' # NoSession => cleanup' = "sweep"
  BY Zenon DEF LockInv, NoCircularWait, cleanupVars
<1>5. NoCircularWait' BY <1>2, <1>4, WaitKept, Zenon DEF LockInv
<1> QED BY <1>3, <1>5, Zenon DEF LockInv

(* ForwardPacket takes the lock of its session, or gives it back. *)
LEMMA LockForward ==
  ASSUME DialInv, LockInv, NEW p \in Packets, PacketStep(p)
  PROVE  LockInv'
<1> USE DEF KeepPacket, KeepSockets, ForwardAt
<1>0. /\ sess \in [Sessions -> SessionType] /\ p # Unlocked
      /\ forward \in [Packets -> {"none", "quota", "lock", "dial", "write", "sent", "dropped"}]
  BY UDPAssumption DEF DialInv, Types, MapTypes, PacketTypes, Packets, Unlocked, UDPAssumption
<1>1. CASE OverQuota(p) \/ Admit(p) \/ Write(p) \/ (Lock(p) /\ sess[packet[p]].conn # "none")
  <2>1. PICK h : forward' = [forward EXCEPT ![p] = h]
    BY <1>1, Zenon DEF OverQuota, Admit, Write, Lock
  <2>2. forward[p] = "quota" \/ forward[p] = "write" \/ forward[p] = "lock"
    BY <1>1, Zenon DEF OverQuota, Admit, Write, Lock
  <2>3. forward[p] # "dial" /\ forward[p] # "none" BY <2>2
  <2>4. UNCHANGED <<sess, spawned, packet, cleanupVars>>
    BY <1>1, Zenon DEF OverQuota, Admit, Write, Lock
  <2> QED BY <2>1, <2>3, <2>4, LockPacket, Zenon
<1>2. ASSUME NEW m, \/ Lock(p) /\ sess[packet[p]].conn = "none" /\ m = p
                    \/ (DialOK(p) \/ DialFails(p)) /\ m = Unlocked
      PROVE  LockInv'
  <2>1. forward[p] = "lock" \/ forward[p] = "dial" BY <1>2, Zenon DEF Lock, DialOK, DialFails
  <2>2. forward[p] # "none" /\ forward[p] \in {"quota", "lock", "dial", "write"} BY <2>1
  <2>3. packet[p] \in Sessions BY <2>2, Zenon DEF DialInv, Types, PacketTypes
  <2>4. UNCHANGED <<spawned, packet, cleanupVars>> BY <1>2, Zenon DEF Lock, DialOK, DialFails
  <2>5. PICK h : forward' = [forward EXCEPT ![p] = h] /\ (m = p => h = "dial")
    <3>1. CASE Lock(p) /\ sess[packet[p]].conn = "none" BY <3>1, Zenon DEF Lock
    <3>2. CASE DialOK(p) \/ DialFails(p)
      <4>1. m # p BY <1>0, <1>2, <3>2, Zenon DEF Lock, DialOK, DialFails
      <4> QED BY <3>2, <4>1, Zenon DEF DialOK, DialFails
    <3> QED BY <1>2, <3>1, <3>2, Zenon
  <2>6. /\ \A s \in Sessions : s # packet[p] => sess'[s] = sess[s]
        /\ sess'[packet[p]].mu = m
    <3>1. CASE Lock(p) /\ sess[packet[p]].conn = "none"
      <4>1. sess' = [sess EXCEPT ![packet[p]].mu = p] BY <3>1, Zenon DEF Lock
      <4>2. m = p BY <1>2, <3>1 DEF Lock, DialOK, DialFails
      <4> QED BY <1>0, <2>3, <4>1, <4>2 DEF SessionType
    <3>2. CASE DialOK(p)
      <4>1. m = Unlocked BY <1>2, <3>2 DEF Lock, DialOK
      <4> QED BY <1>0, <2>3, <3>2, <4>1 DEF DialOK, SessionType
    <3>3. CASE DialFails(p)
      <4>1. m = Unlocked BY <1>2, <3>3 DEF Lock, DialFails
      <4> QED BY <1>0, <2>3, <3>3, <4>1 DEF DialFails, SessionType
    <3> QED BY <1>2, <3>1, <3>2, <3>3, Zenon
  <2>7. forward'[p] = h /\ \A q \in Packets : q # p => forward'[q] = forward[q]
    BY <1>0, <2>5, Zenon
  <2>8. SpawnInv'
    <3>1. ~(p > spawned) BY <2>2, Zenon DEF LockInv, SpawnInv
    <3> QED BY <2>4, <2>7, <3>1, Zenon DEF LockInv, SpawnInv
  <2>9. NoCircularWait'
    <3>1. ASSUME NEW s \in Sessions, sess'[s].mu # Unlocked
          PROVE  \E q \in Packets : Holds(q, s)'
      <4>1. CASE s = packet[p]
        <5>1. m = p BY <1>2, <2>6, <3>1, <4>1, Zenon
        <5> QED BY <2>4, <2>5, <2>6, <2>7, <4>1, <5>1, Zenon DEF Holds
      <4>2. CASE s # packet[p]
        <5>1. PICK q \in Packets : Holds(q, s)
          BY <2>6, <3>1, <4>2, Zenon DEF LockInv, NoCircularWait
        <5>2. q # p BY <4>2, <5>1, Zenon DEF Holds
        <5> QED BY <2>4, <2>6, <2>7, <4>2, <5>1, <5>2, Zenon DEF Holds
      <4> QED BY <4>1, <4>2, Zenon
    <3> QED BY <2>4, <3>1, Zenon DEF LockInv, NoCircularWait, cleanupVars
  <2> QED BY <2>8, <2>9, Zenon DEF LockInv
<1>3. Lock(p) => sess[packet[p]].conn = "none" \/ sess[packet[p]].conn # "none" BY Zenon
<1> QED BY <1>1, <1>2, <1>3, Zenon DEF PacketStep

(* The reverse readers, the targets and time. *)
LEMMA LockSession ==
  ASSUME DialInv, LockInv, NEW s \in Sessions,
         ReverseStep(s) \/ BecomeIdle(s)
  PROVE  LockInv'
<1>0. sess \in [Sessions -> SessionType] BY Zenon DEF DialInv, Types, MapTypes
<1>1. UNCHANGED <<packetVars, cleanupVars>>
  BY Zenon DEF ReverseStep, SetDeadline, ReverseReply, ReverseEnds, BecomeIdle,
     KeepRest
<1>2. \A x \in Sessions : sess'[x].mu = sess[x].mu
  <2>1. CASE SetDeadline(s) BY <1>0, <2>1 DEF SetDeadline, SessionType
  <2>2. CASE ReverseReply(s) BY <1>0, <2>2 DEF ReverseReply, SessionType
  <2>3. CASE ReverseEnds(s) BY <1>0, <2>3 DEF ReverseEnds, SessionType
  <2>4. CASE BecomeIdle(s) BY <1>0, <2>4 DEF BecomeIdle, SessionType
  <2> QED BY <2>1, <2>2, <2>3, <2>4, Zenon DEF ReverseStep
<1>3. closing' # NoSession => cleanup' = "sweep"
  BY <1>1, Zenon DEF LockInv, NoCircularWait, cleanupVars
<1> QED BY <1>1, <1>2, <1>3, LockFrame, Zenon

(* CleanupLoop. *)
LEMMA LockCleanup ==
  ASSUME DialInv, LockInv, SweepStep \/ CleanupTick \/ CleanupReturns
  PROVE  LockInv'
<1> USE DEF KeepOthers
<1>0. sess \in [Sessions -> SessionType] BY Zenon DEF DialInv, Types, MapTypes
<1>c. closing # NoSession => cleanup = "sweep" BY Zenon DEF LockInv, NoCircularWait
<1>1. UNCHANGED packetVars
  BY Zenon DEF SweepStep, CleanupTest, CleanupClose, CleanupDone, CleanupTick, CleanupReturns
<1>2. \A s \in Sessions : sess'[s].mu = sess[s].mu
  <2>1. CASE CleanupClose BY <1>0, <2>1 DEF CleanupClose, CloseConn, SessionType
  <2>2. CASE ~CleanupClose
    BY <2>2, Zenon DEF SweepStep, CleanupTest, CleanupDone, CleanupTick, CleanupReturns
  <2> QED BY <2>1, <2>2, Zenon
<1>3. closing' # NoSession => cleanup' = "sweep"
  <2>1. CASE CleanupClose BY <2>1, Zenon DEF CleanupClose
  <2>2. CASE \E s \in Sessions : CleanupTest(s) BY <2>2, Zenon DEF CleanupTest
  <2>3. CASE CleanupDone BY <2>3, Zenon DEF CleanupDone
  <2>4. CASE CleanupTick BY <2>4, Zenon DEF CleanupTick
  <2>5. CASE CleanupReturns BY <1>c, <2>5 DEF CleanupReturns
  <2> QED BY <2>1, <2>2, <2>3, <2>4, <2>5, Zenon DEF SweepStep
<1> QED BY <1>1, <1>2, <1>3, LockFrame, Zenon

(* No goroutine waits in a circle: although ForwardPacket dials with its    *)
(* session locked and CleanupLoop waits for that lock with the map locked,  *)
(* every lock that is waited for is in the hands of a dialling packet, for  *)
(* every number of packets, sessions and readers.                           *)
THEOREM LockTheorem == Spec => []NoCircularWait
<1>1. Init => LockInv
  <2>1. Init => SpawnInv BY DEF Init, SpawnInv
  <2>2. Init => NoCircularWait BY DEF Init, NoCircularWait, NewSession
  <2> QED BY <2>1, <2>2, Zenon DEF LockInv
<1>2. DialInv /\ LockInv /\ [Next]_vars => LockInv'
  <2> SUFFICES ASSUME DialInv, LockInv, [Next]_vars PROVE LockInv' BY Zenon
  <2>1. CASE UNCHANGED vars
    <3>1. closing' # NoSession => cleanup' = "sweep"
      BY <2>1, Zenon DEF LockInv, NoCircularWait, vars, cleanupVars
    <3> QED BY <2>1, <3>1, LockFrame, Zenon DEF vars, connVars
  <2>2. CASE Next
    BY <2>2, LockReader, LockForward, LockSession, LockCleanup, Zenon DEF Next
  <2> QED BY <2>1, <2>2, Zenon
<1>3. LockInv => NoCircularWait BY Zenon DEF LockInv
<1> QED BY DialInvariant, <1>1, <1>2, <1>3, PTL DEF Spec

=============================================================================
