----------------------------- MODULE ByteStream -----------------------------
(* What a pair of Aggregator and Reassembler is for: a byte stream.  Bytes   *)
(* are numbered from 1; Read returns the next bytes of what was written, and *)
(* reports io.EOF only after all of it.                                      *)
EXTENDS Integers

CONSTANT Total     \* the number of bytes to be written, a natural number

VARIABLES
  sent,    \* bytes written so far
  read,    \* bytes returned by Read so far
  last,    \* the bytes returned by the last Read, first and last number
  eof      \* Read has returned io.EOF

vars == <<sent, read, last, eof>>

Init ==
  /\ sent = 0
  /\ read = 0
  /\ last = [lo |-> 1, hi |-> 0]
  /\ eof = FALSE

Put(n) ==
  /\ sent + n <= Total
  /\ sent' = sent + n
  /\ UNCHANGED <<read, last, eof>>

Get(n) ==
  /\ ~eof
  /\ read + n <= sent
  /\ read' = read + n
  /\ last' = [lo |-> read + 1, hi |-> read + n]
  /\ UNCHANGED <<sent, eof>>

End ==
  /\ read = Total
  /\ eof' = TRUE
  /\ UNCHANGED <<sent, read, last>>

Next == (\E n \in 1..Total : Put(n) \/ Get(n)) \/ End

Spec == Init /\ [][Next]_vars

=============================================================================
