----------------------------- MODULE Connection -----------------------------
(* What OutboundHandler.Dial promises the inbound that calls it: one         *)
(* connection between the client and the target, whatever is in between.     *)
(* The target can be heard from only once it has been dialled, and each side *)
(* receives what the other has sent: in order, from the start, nothing twice *)
(* and nothing else.  How much of it arrives, and when, is left open.        *)
EXTENDS Integers, Sequences

VARIABLES
  connected,   \* the target has been dialled
  sent,        \* per direction: the number of cells sent
  got          \* per direction: the cells received so far

vars == <<connected, sent, got>>

Cells(d, n) == [i \in 1..n |-> <<"data", d, i>>]

Init ==
  /\ connected = FALSE
  /\ sent = [d \in {"up", "down"} |-> 0]
  /\ got = [d \in {"up", "down"} |-> <<>>]

Connect ==
  /\ ~connected
  /\ connected' = TRUE
  /\ UNCHANGED <<sent, got>>

Send(d) ==
  /\ d = "down" => connected
  /\ sent' = [sent EXCEPT ![d] = @ + 1]
  /\ UNCHANGED <<connected, got>>

Receive(d) ==
  /\ d = "up" => connected
  /\ \E n \in (Len(got[d]) + 1)..sent[d] : got' = [got EXCEPT ![d] = Cells(d, n)]
  /\ UNCHANGED <<connected, sent>>

Next == Connect \/ \E d \in {"up", "down"} : Send(d) \/ Receive(d)

Spec == Init /\ [][Next]_vars

=============================================================================
