------------------------------ MODULE Listener ------------------------------
(***************************************************************************)
(* How a TCP inbound comes to a connection it can serve: common.Listen,    *)
(* ProxyProtoListener.Accept with WrapProxyProto, the accept loop of the   *)
(* inbound, and common.SniffConn at the start of its handler.              *)
(***************************************************************************)
EXTENDS Integers

CONSTANTS
  Clients,        \* connections made to the inbound
  ProxyProtocol,  \* proxy_protocol is set, there is a proxy in front
  Serve           \* the inbound is http, whose loop is http.Server.Serve

ASSUME ListenerAssumption ==
  /\ ProxyProtocol \in BOOLEAN
  /\ Serve \in BOOLEAN

(* What has come on a connection: nothing yet, or first bytes that          *)
(* WrapProxyProto makes a connection of (a PROXY header of version 1 or 2   *)
(* with an address or without one, or no such header), or first bytes it    *)
(* cannot parse ("PROXY UNKNOWN" is one, for having too few parts, and so   *)
(* is an end of the connection within the header).                          *)
Preambles == {"none", "good", "bad"}

VARIABLES
  client,     \* per client: where its connection stands
  preamble,   \* per client: what it has sent, until its header is read
  accepting   \* the accept loop is running

listenerVars == <<client, preamble, accepting>>

ListenerInit ==
  /\ client = [c \in Clients |-> "new"]
  /\ preamble = [c \in Clients |-> "none"]
  /\ accepting = TRUE

Moves(c, from, to) ==
  /\ client[c] = from
  /\ client' = [client EXCEPT ![c] = to]

-----------------------------------------------------------------------------
(* The outside world. *)

Connect(c) ==
  /\ Moves(c, "new", "backlog")
  /\ UNCHANGED <<preamble, accepting>>

SendPreamble(c) ==
  /\ ProxyProtocol
  /\ client[c] \in {"backlog", "header"}
  /\ preamble[c] = "none"
  /\ \E p \in Preambles \ {"none"} : preamble' = [preamble EXCEPT ![c] = p]
  /\ UNCHANGED <<client, accepting>>

-----------------------------------------------------------------------------
(* Accept. *)

(* The listener's own Accept.  The loop is back here only once the wrapper  *)
(* has returned the connection before.                                      *)
Accept(c) ==
  /\ accepting
  /\ \A b \in Clients : client[b] # "header"
  /\ Moves(c, "backlog", IF ProxyProtocol THEN "header" ELSE "sniff")
  /\ UNCHANGED <<preamble, accepting>>

(* WrapProxyProto returns: Peek(12) and the rest of the header have come,   *)
(* however long that took.                                                  *)
Wrap(c) ==
  /\ preamble[c] = "good"
  /\ Moves(c, "header", "sniff")
  /\ preamble' = [preamble EXCEPT ![c] = "none"]
  /\ UNCHANGED accepting

(* Variant: the loop ends on an error of Accept. *)
WrapFailsForGood(c) ==
  /\ preamble[c] = "bad"
  /\ Moves(c, "header", "dropped")
  /\ preamble' = [preamble EXCEPT ![c] = "none"]
  /\ accepting' = FALSE

(* It returns an error, and Accept with it: the loops of the inbounds go    *)
(* on, http.Server.Serve returns.  Nobody closes the connection or keeps    *)
(* it: it stays open and unserved, at least until the garbage collector     *)
(* comes upon it.                                                           *)
WrapFails(c) ==
  /\ preamble[c] = "bad"
  /\ Moves(c, "header", "dropped")
  /\ preamble' = [preamble EXCEPT ![c] = "none"]
  /\ accepting' = ~Serve

(* SniffConn looks for a domain in what comes within 100 ms and returns,    *)
(* with one or without; the bytes stay in the PeekedConn.                   *)
SniffConn(c) ==
  /\ Moves(c, "sniff", "handle")
  /\ UNCHANGED <<preamble, accepting>>

ListenerStep(c) == Accept(c) \/ Wrap(c) \/ WrapFails(c) \/ SniffConn(c)

=============================================================================
