------------------------------- MODULE Tunnel -------------------------------
(***************************************************************************)
(* A TCP session that an np-chain outbound carries to other nodes:         *)
(* NPChainHandler.Dial at the ingress (node 0), HandleRelay at the nodes   *)
(* 1 and 2, DualRelay at each of them, and ObfsConn around the QUIC        *)
(* streams between them.  Node n holds the far end of link n, on which it  *)
(* was dialled, and the near end of link n + 1, which it dials.  Link 0 is *)
(* the client's TCP connection, a QUIC link is one stream of a connection  *)
(* of its own, and an egress node dials the target over TCP.               *)
(*                                                                         *)
(* A stream holds what was written and not yet read, as a sequence of      *)
(* units: an ObfsConn frame with its payload, or a single cell where there *)
(* is no framing.  What reaches the client or the target stays in the      *)
(* stream towards it.  The streams of a session stay within the QUIC flow  *)
(* control window (16 MB), so that a write to a stream does not block.     *)
(***************************************************************************)
EXTENDS Codec, FiniteSets

CONSTANTS
  Settings,       \* pairs of the length of SessionMeta.HopChain (1 for the
                  \* inbounds that set it, 0 for those that do not, 2 for a
                  \* chain of nodes) and whether obfuscation is configured
                  \* (on both ends of every link)
  TargetLengths,  \* lengths of the target's host name
  PadLengths,     \* the padding EncodeHeader may draw
  MaxCells,       \* bound: payload cells the client and the target send
  MaxHeartbeats   \* bound: heartbeat frames waiting in a stream

ASSUME TunnelAssumption ==
  /\ Settings \subseteq (0..2) \X BOOLEAN
  /\ TargetLengths \subseteq Nat
  /\ PadLengths \subseteq Nat
  /\ MaxCells \in Nat
  /\ MaxHeartbeats \in Nat

Nodes == 0..2
Links == 0..3
Dirs == {"up", "down"}
Relays == Nodes \X Dirs
Streams == Links \X Dirs

VARIABLES
  chainLen,   \* the length of the session's HopChain
  obfs,       \* obfuscation is on
  target,     \* the address the client asked for
  kind,       \* per link: "none" (not dialled), "tcp" or "quic"
  lost,       \* per link: the connection has broken
  closed,     \* per link: the ends that have called Close ("near", "far")
  stream,     \* per link and direction: the units under way
  handler,    \* per node: where its handler stands
  todo,       \* per node: what DecodeNextHop has returned
  relay,      \* per node and direction: "none", "run" or "done"
  beating,    \* the ends <<link, end>> whose heartbeat goroutine runs
  dialled,    \* the entry an egress has dialled, <<>> when none has
  sent        \* per direction: payload cells sent by the client or the target

session == <<chainLen, obfs, target>>
vars == <<session, kind, lost, closed, stream, handler, todo, relay, beating,
          dialled, sent>>

Node2 == Address("node2", 9)
HopChain ==
  CASE chainLen = 0 -> <<>>
    [] chainLen = 1 -> <<target>>
    [] chainLen = 2 -> <<Node2, target>>

NoHop == [hop |-> <<>>, header |-> <<>>]

Init ==
  /\ \E setting \in Settings : chainLen = setting[1] /\ obfs = setting[2]
  /\ target \in {Address("target", n) : n \in TargetLengths}
  /\ kind = [l \in Links |-> IF l = 0 THEN "tcp" ELSE "none"]
  /\ lost = [l \in Links |-> FALSE]
  /\ closed = [l \in Links |-> {}]
  /\ stream = [s \in Streams |-> <<>>]
  /\ handler = [n \in Nodes |-> IF n = 0 THEN "dial" ELSE "idle"]
  /\ todo = [n \in Nodes |-> NoHop]
  /\ relay = [r \in Relays |-> "none"]
  /\ beating = {}
  /\ dialled = <<>>
  /\ sent = [d \in Dirs |-> 0]

-----------------------------------------------------------------------------
(* Connections. *)

WriterEnd(s) == IF s[2] = "up" THEN "near" ELSE "far"
ReaderEnd(s) == IF s[2] = "up" THEN "far" ELSE "near"

Framed(l) == obfs /\ kind[l] = "quic"

(* ObfsConn.Write makes one frame of what it is given. *)
AsUnits(framed, cells) ==
  IF framed THEN <<cells>> ELSE [i \in 1..Len(cells) |-> <<cells[i]>>]

(* The numbers of units one Read may take: ObfsConn.Read skips empty frames *)
(* and returns the next frame, a plain connection returns what it has.      *)
Readable(s) ==
  LET units == stream[s]
  IN  IF Framed(s[1])
      THEN {k \in 1..Len(units) :
              units[k] # <<>> /\ \A j \in 1..(k - 1) : units[j] = <<>>}
      ELSE 1..Len(units)

(* The cells of a stream without frames, and what a Read of k units returns. *)
CellsOf(s) == [i \in DOMAIN stream[s] |-> stream[s][i][1]]
Take(s, k) == IF Framed(s[1]) THEN stream[s][k] ELSE SubSeq(CellsOf(s), 1, k)
Drop(s, k) == SubSeq(stream[s], k + 1, Len(stream[s]))

(* Close on a TCP connection ends both directions for the closer, Close on  *)
(* a StreamConn only the direction it writes.                               *)
ReadClosed(s) == kind[s[1]] = "tcp" /\ ReaderEnd(s) \in closed[s[1]]

(* A Read that returns an error: the connection broke, this process has     *)
(* closed it, or all that the closed writer had sent is read.               *)
ReadFails(s) ==
  \/ lost[s[1]]
  \/ ReadClosed(s)
  \/ WriterEnd(s) \in closed[s[1]] /\ Readable(s) = {}

WriteFails(s) ==
  \/ lost[s[1]]
  \/ WriterEnd(s) \in closed[s[1]]
  \/ kind[s[1]] = "tcp" /\ ReaderEnd(s) \in closed[s[1]]

WriteWorks(s) == ~lost[s[1]] /\ WriterEnd(s) \notin closed[s[1]]

Close(l, end) == closed' = [closed EXCEPT ![l] = @ \cup {end}]

(* NewObfsConn starts a heartbeat goroutine for a wrapped connection. *)
StartBeating(ends) == beating' = beating \cup (IF obfs THEN ends ELSE {})

-----------------------------------------------------------------------------
(* Dialling: NPChainHandler.Dial for a QUIC link, net.Dialer for a TCP one. *)

StartRelays(n) ==
  relay' = [r \in Relays |-> IF r[1] = n THEN "run" ELSE relay[r]]

(* getStreamConn opens a connection and a stream, and Dial writes the       *)
(* header to it; HandleRelay writes the remaining header after that and     *)
(* starts the relays.  The reader takes the units at its own pace, which    *)
(* covers the moments between these calls.                                  *)
DialNode(n, chain, padLen, header) ==
  /\ kind' = [kind EXCEPT ![n + 1] = "quic"]
  /\ stream' = [stream EXCEPT ![<<n + 1, "up">>] =
                  AsUnits(obfs, EncodeHeader(chain, padLen))
                    \o (IF header = <<>> THEN <<>> ELSE AsUnits(obfs, header))]
  /\ StartBeating({<<n + 1, "near">>})
  /\ handler' = [handler EXCEPT ![n] = "wait"]
  /\ StartRelays(n)

(* The ingress: an inbound handler's outbound.Dial. *)
IngressDial(padLen) ==
  /\ handler[0] = "dial"
  /\ DialNode(0, HopChain, padLen, <<>>)
  /\ UNCHANGED <<session, lost, closed, todo, dialled, sent>>

(* Route, Dial or a write of the header fails: what is left to do is the    *)
(* deferred Close of the connection the handler was given.  A write fails   *)
(* when the connection just opened is lost; that connection is closed too,  *)
(* and is not shown: no node accepts a stream of it, or the node that did   *)
(* is in the state that DialNode followed by a loss of the link leads to.   *)
DialFails(n) ==
  /\ handler[n] \in {"dial", "egress", "relay"}
  /\ handler' = [handler EXCEPT ![n] = "closein"]
  /\ UNCHANGED <<session, kind, lost, closed, stream, todo, relay, beating,
                 dialled, sent>>

-----------------------------------------------------------------------------
(* HandleRelay. *)

(* QUICServer.handleConnection accepts the stream once something of it has  *)
(* arrived, and HandleRelay wraps it.                                       *)
AcceptStream(n) ==
  /\ handler[n] = "idle"
  /\ kind[n] = "quic"
  /\ ~lost[n]
  /\ handler' = [handler EXCEPT ![n] = "decode"]
  /\ StartBeating({<<n, "far">>})
  /\ UNCHANGED <<session, kind, lost, closed, stream, todo, relay, dialled, sent>>

(* The first Read of DecodeNextHop asks for the magic alone.  ObfsConn.Read *)
(* refuses a frame longer than that (io.ErrShortBuffer), and so the header, *)
(* which Dial has written as one frame.                                     *)
ShortBuffer(n) ==
  /\ Framed(n)
  /\ \E k \in Readable(<<n, "up">>) : Len(stream[<<n, "up">>][k]) > 1

(* DecodeNextHop returns an error. *)
DecodeError(n) ==
  /\ handler[n] = "decode"
  /\ \/ ReadFails(<<n, "up">>)
     \/ ShortBuffer(n)
     \/ /\ ~Framed(n)
        /\ stream[<<n, "up">>] # <<>>
        /\ DecodeFails(CellsOf(<<n, "up">>))
  /\ handler' = [handler EXCEPT ![n] = "closein"]
  /\ UNCHANGED <<session, kind, lost, closed, stream, todo, relay, beating,
                 dialled, sent>>

(* DecodeNextHop succeeds: with no hop left the node is the egress, else it *)
(* is a relay.                                                              *)
Decode(n) ==
  LET cells == CellsOf(<<n, "up">>)
  IN  /\ handler[n] = "decode"
      /\ ~Framed(n)
      /\ cells # <<>>
      /\ ~DecodeFails(cells)
      /\ todo' = [todo EXCEPT ![n] = [hop |-> NextHop(cells),
                                      header |-> RemainingHeader(cells)]]
      /\ handler' = [handler EXCEPT ![n] =
                       IF HopsLeft(cells) = 0 THEN "egress" ELSE "relay"]
      /\ stream' = [stream EXCEPT ![<<n, "up">>] = AsUnits(FALSE, StreamAfter(cells))]
      /\ UNCHANGED <<session, kind, lost, closed, relay, beating, dialled, sent>>

(* Variant: the egress branch, too, writes the remaining header to what it  *)
(* has dialled.                                                             *)
EgressWritesHeader(n) ==
  /\ handler[n] = "egress"
  /\ kind' = [kind EXCEPT ![n + 1] = "tcp"]
  /\ dialled' = todo[n].hop
  /\ stream' = [stream EXCEPT ![<<n + 1, "up">>] = AsUnits(FALSE, todo[n].header)]
  /\ handler' = [handler EXCEPT ![n] = "wait"]
  /\ StartRelays(n)
  /\ UNCHANGED <<session, lost, closed, todo, beating, sent>>

(* The egress branch: the next hop is the target. *)
EgressDial(n) ==
  /\ handler[n] = "egress"
  /\ kind' = [kind EXCEPT ![n + 1] = "tcp"]
  /\ dialled' = todo[n].hop
  /\ handler' = [handler EXCEPT ![n] = "wait"]
  /\ StartRelays(n)
  /\ UNCHANGED <<session, lost, closed, stream, todo, beating, sent>>

(* The relay branch, when Route returns an np-chain outbound: its metadata  *)
(* has no HopChain.  (A direct outbound dials the next node over TCP, where *)
(* its QUIC server does not listen: the dial fails, or reaches an inbound   *)
(* that has the same address and does not speak np-chain.  The second is    *)
(* not modelled.)                                                           *)
RelayDial(n, padLen) ==
  /\ handler[n] = "relay"
  /\ n + 1 \in Nodes
  /\ DialNode(n, <<>>, padLen, todo[n].header)
  /\ UNCHANGED <<session, lost, closed, todo, dialled, sent>>

-----------------------------------------------------------------------------
(* DualRelay at a node, and the deferred calls of the handler after it. *)

Src(r) == IF r[2] = "up" THEN <<r[1], "up">> ELSE <<r[1] + 1, "down">>
Dst(r) == IF r[2] = "up" THEN <<r[1] + 1, "up">> ELSE <<r[1], "down">>

(* One round of Relay: a Read and a Write of what it returned. *)
Forward(r, k) ==
  /\ relay[r] = "run"
  /\ ~ReadClosed(Src(r))
  /\ k \in Readable(Src(r))
  /\ WriteWorks(Dst(r))
  /\ stream' = [stream EXCEPT
       ![Src(r)] = Drop(Src(r), k),
       ![Dst(r)] = @ \o AsUnits(Framed(Dst(r)[1]), Take(Src(r), k))]
  /\ UNCHANGED <<session, kind, lost, closed, handler, todo, relay, beating,
                 dialled, sent>>

(* Relay returns: its Read has failed, or its Write of what it had read. *)
RelayEnds(r) ==
  /\ relay[r] = "run"
  /\ \/ ReadFails(Src(r))
     \/ Readable(Src(r)) # {} /\ WriteFails(Dst(r))
  /\ relay' = [relay EXCEPT ![r] = "done"]
  /\ UNCHANGED <<session, kind, lost, closed, stream, handler, todo, beating,
                 dialled, sent>>

(* The first result makes DualRelay return; then targetConn.Close(), which  *)
(* for a wrapped connection also ends its heartbeat.                        *)
CloseTarget(n) ==
  /\ handler[n] = "wait"
  /\ \E d \in Dirs : relay[<<n, d>>] = "done"
  /\ handler' = [handler EXCEPT ![n] = "closein"]
  /\ Close(n + 1, "near")
  /\ beating' = beating \ {<<n + 1, "near">>}
  /\ UNCHANGED <<session, kind, lost, stream, todo, relay, dialled, sent>>

(* Variant: HandleRelay without defer conn.Close(). *)
ForgetConn(n) ==
  /\ handler[n] = "closein"
  /\ handler' = [handler EXCEPT ![n] = "end"]
  /\ UNCHANGED <<session, kind, lost, closed, stream, todo, relay, beating,
                 dialled, sent>>

(* conn.Close(), deferred by HandleRelay before it wraps the connection. *)
CloseConn(n) ==
  /\ handler[n] = "closein"
  /\ handler' = [handler EXCEPT ![n] = "end"]
  /\ Close(n, "far")
  /\ UNCHANGED <<session, kind, lost, stream, todo, relay, beating, dialled, sent>>

-----------------------------------------------------------------------------
(* The heartbeat goroutines and the outside world. *)

(* heartbeatLoop sends an empty frame; an error of the write is ignored. *)
Heartbeat(b) ==
  LET s == <<b[1], IF b[2] = "near" THEN "up" ELSE "down">>
  IN  /\ b \in beating
      /\ WriteWorks(s)
      /\ Cardinality({k \in 1..Len(stream[s]) : stream[s][k] = <<>>}) < MaxHeartbeats
      /\ stream' = [stream EXCEPT ![s] = Append(@, <<>>)]
      /\ UNCHANGED <<session, kind, lost, closed, handler, todo, relay, beating,
                     dialled, sent>>

TargetLinks == {l \in Links \ {0} : kind[l] = "tcp"}

PeerSends(s) ==
  /\ s \in {<<0, "up">>} \cup {<<l, "down">> : l \in TargetLinks}
  /\ WriteWorks(s)
  /\ sent[s[2]] < MaxCells
  /\ sent' = [sent EXCEPT ![s[2]] = @ + 1]
  /\ stream' = [stream EXCEPT ![s] = Append(@, << <<"data", s[2], sent[s[2]] + 1>> >>)]
  /\ UNCHANGED <<session, kind, lost, closed, handler, todo, relay, beating, dialled>>

(* The client or the target closes its connection. *)
PeerCloses(l, end) ==
  /\ <<l, end>> \in {<<0, "near">>} \cup {<<t, "far">> : t \in TargetLinks}
  /\ end \notin closed[l]
  /\ Close(l, end)
  /\ UNCHANGED <<session, kind, lost, stream, handler, todo, relay, beating,
                 dialled, sent>>

(* A connection breaks: a reset, or the QUIC idle timeout. *)
Breaks(l) ==
  /\ kind[l] # "none"
  /\ ~lost[l]
  /\ lost' = [lost EXCEPT ![l] = TRUE]
  /\ UNCHANGED <<session, kind, closed, stream, handler, todo, relay, beating,
                 dialled, sent>>

-----------------------------------------------------------------------------
NodeStep(n) ==
  \/ \E p \in PadLengths : (n = 0 /\ IngressDial(p)) \/ RelayDial(n, p)
  \/ DialFails(n) \/ AcceptStream(n) \/ DecodeError(n) \/ Decode(n)
  \/ EgressDial(n) \/ CloseTarget(n) \/ CloseConn(n)

RelayStep(r) == RelayEnds(r) \/ \E k \in Readable(Src(r)) : Forward(r, k)

Next ==
  \/ \E n \in Nodes : NodeStep(n)
  \/ \E r \in Relays : RelayStep(r)
  \/ \E b \in beating : Heartbeat(b)
  \/ \E s \in Streams : PeerSends(s)
  \/ \E l \in Links : Breaks(l) \/ \E end \in {"near", "far"} : PeerCloses(l, end)

Spec == Init /\ [][Next]_vars

(* A runnable goroutine is scheduled, a dial ends within its timeout, and   *)
(* what is written to a connection arrives or the connection breaks.  The   *)
(* client and the target accept what is written to them for as long as they *)
(* are connected; nothing else is assumed of them.                          *)
Fairness ==
  /\ \A n \in Nodes : WF_vars(NodeStep(n))
  /\ \A r \in Relays : WF_vars(RelayStep(r))

FairSpec == Spec /\ Fairness

-----------------------------------------------------------------------------
(* Properties. *)

(* The payload one side has sent, in order. *)
Payload(d) == [i \in 1..sent[d] |-> <<"data", d, i>>]

(* What has arrived on a stream is what one side has sent: in order, from   *)
(* the start, and nothing else.                                             *)
Arrived(s, d) ==
  LET cells == CellsOf(s)
  IN  Len(cells) <= sent[d] /\ cells = SubSeq(Payload(d), 1, Len(cells))

(* Whatever chain, padding, framing and failures a session meets, an egress *)
(* dials the address the client asked for (if an entry can hold it), the    *)
(* target receives what the client sent and the client what the target      *)
(* sent: in order, from the start, with no part of a header or padding.     *)
TunnelFaithful ==
  /\ target.len <= AddrCap => \A i \in DOMAIN dialled : dialled[i] = <<"hop", target, i>>
  /\ \A l \in TargetLinks : Arrived(<<l, "up">>, "up")
  /\ Arrived(<<0, "down">>, "down")

(* What has arrived at the target (up) and at the client (down). *)
Received(d) ==
  IF d = "down" THEN CellsOf(<<0, "down">>)
  ELSE IF TargetLinks = {} THEN <<>>
  ELSE CellsOf(<<CHOOSE l \in TargetLinks : TRUE, "up">>)

EndToEnd == INSTANCE Connection WITH
  connected <- TargetLinks # {},
  got <- [d \in Dirs |-> Received(d)]

(* The nodes together act as the one connection that Dial stands for: each  *)
(* step of a handler, a relay or a heartbeat either changes nothing for the *)
(* two sides, connects the target (once), or hands over the next cells of   *)
(* what was sent; nothing that has arrived is taken back or comes again.    *)
ActsAsConnection == EndToEnd!Spec

(* Once dialled, node n learns the target from the header, unless the       *)
(* connection to it breaks.                                                 *)
Learns(n) == kind[n] = "quic" ~> (todo[n].hop = HopEntry(target) \/ lost[n])

(* A session with a one-hop chain, as the inbounds make it, is understood   *)
(* by the egress: it decodes the target the ingress has encoded, with any   *)
(* padding and with payload behind the header.                              *)
TargetReached == (chainLen = 1 /\ ~obfs) => Learns(1)

(* Handler and relays of a node have ended, or were never started. *)
Over(n) == /\ handler[n] \in {"idle", "end"}
           /\ \A d \in Dirs : relay[<<n, d>>] # "run"

(* When the session ends at one node, by an end of either peer, a refused   *)
(* header, a failed dial or a broken connection, it ends at every node: all *)
(* handlers return and all relay goroutines finish, although Close on a     *)
(* QUIC stream leaves the closer's own Read blocked.                        *)
TunnelDrains ==
  (\E n \in Nodes : handler[n] = "end") ~> (\A n \in Nodes : Over(n))

-----------------------------------------------------------------------------
(* What a comment or a document says and the code does not do: each of the  *)
(* following is refuted by TLC, see README.md.                              *)

(* With the same obfuscation settings at both ends a session works as well. *)
ObfuscatedReached == (chainLen = 1 /\ obfs) => Learns(1)

(* A relay strips its hop and forwards the rest of the header to the next.  *)
ChainReached == (chainLen = 2 /\ ~obfs) => Learns(2)

(* An egress dials the address the client asked for, however long. *)
LongTargetDialled == \A i \in DOMAIN dialled : dialled[i] = <<"hop", target, i>>

(* The heartbeats of a session end with it. *)
HeartbeatsEnd ==
  (\A n \in Nodes : Over(n) /\ (n = 0 => handler[n] = "end")) ~> beating = {}

=============================================================================
