--------------------------------- MODULE Mux ---------------------------------
(***************************************************************************)
(* Bandwidth aggregation: mux.Aggregator splits what is written to it into *)
(* numbered chunks and spreads them over several connections, one receiver *)
(* per connection hands them to mux.Reassembler.Push, and Read returns the *)
(* bytes in order.  mux.WindowFlowController counts the buffered bytes.    *)
(*                                                                         *)
(* Bytes are numbered from 1 over all calls of Write, and a run of bytes   *)
(* is an interval.  The 2-byte size field of a chunk header wraps at       *)
(* SizeMod, 2^16 in the code.                                              *)
(***************************************************************************)
EXTENDS Integers, Sequences, FiniteSets

CONSTANTS
  Ends,        \* per call of Write, the number of its last byte
  ChunkSize,   \* Aggregator.chunkSize
  SizeMod,     \* 2^16: where the header's size field wraps
  Conns,       \* the number of connections
  MaxWindow,   \* WindowFlowController.maxWindow
  OutCap,      \* capacity of Reassembler.output, 1024 in the code
  MaxRead      \* bound: the longest buffer passed to Read

ASSUME MuxAssumption ==
  /\ Ends \in Seq(Nat \ {0}) /\ Ends # <<>>
  /\ \A i, j \in DOMAIN Ends : i < j => Ends[i] < Ends[j]
  /\ {ChunkSize, SizeMod, Conns, MaxWindow, OutCap, MaxRead} \subseteq Nat \ {0}

Total == Ends[Len(Ends)]

Paths == 0..(Conns - 1)

(* The bytes lo..hi; none when lo = hi + 1. *)
Interval(lo, hi) == [lo |-> lo, hi |-> hi]
Size(b) == b.hi - b.lo + 1
Intervals == [lo : 1..(Total + 1), hi : 0..Total]
Chunks == [seq : Nat, bytes : Intervals]
Frames == [seq : Nat, bytes : Intervals, size : 0..(SizeMod - 1), fin : BOOLEAN]

VARIABLES
  write,      \* which call of Write is under way
  pos,        \* the number of the last byte put into a frame
  seq,        \* Write's local seq
  failed,     \* a connection has failed: Write has returned its error
  nextConn,   \* Aggregator.nextConn
  path,       \* per connection: the frames on it
  holder,     \* the Push that holds Reassembler.mu: its seq and FIN flag
  chunks,     \* Reassembler.chunks
  nextSeq,    \* Reassembler.nextSeq
  isClosed,   \* Reassembler.isClosed
  paused,     \* history: a full window stopped the last Push
  output,     \* Reassembler.output
  buffered,   \* WindowFlowController.buffered
  pending,    \* Reassembler.pending
  read,       \* history: bytes returned by Read so far
  last,       \* history: the bytes returned by the last Read
  eof         \* history: Read has returned io.EOF

writerVars == <<write, pos, seq, failed, nextConn>>
pushVars == <<holder, chunks, nextSeq, isClosed, paused>>
readVars == <<pending, read, last, eof>>
vars == <<writerVars, path, pushVars, output, buffered, readVars>>

NoHolder == [seq |-> -1, fin |-> FALSE]

Init ==
  /\ write = 1 /\ pos = 0 /\ seq = 0 /\ failed = FALSE /\ nextConn = 0
  /\ path = [p \in Paths |-> <<>>]
  /\ holder = NoHolder
  /\ chunks = {} /\ nextSeq = 0 /\ isClosed = FALSE /\ paused = FALSE
  /\ output = <<>>
  /\ buffered = 0
  /\ pending = Interval(1, 0) /\ read = 0 /\ last = Interval(1, 0) /\ eof = FALSE

-----------------------------------------------------------------------------
(* Aggregator.Write: one round of its loop.  seq starts at 0 in every call. *)
(* nextConn is an int32 in the code: the instances stay far below 2^31.     *)
ChunkLen == IF Ends[write] - pos > ChunkSize THEN ChunkSize ELSE Ends[write] - pos

Frame ==
  [seq |-> seq, bytes |-> Interval(pos + 1, pos + ChunkLen),
   size |-> ChunkLen % SizeMod, fin |-> pos + ChunkLen = Ends[write]]

WriteChunk ==
  /\ ~failed /\ write <= Len(Ends)
  /\ path' = [path EXCEPT ![nextConn % Conns] = Append(@, Frame)]
  /\ nextConn' = nextConn + 1
  /\ pos' = pos + ChunkLen
  /\ seq' = IF Frame.fin THEN 0 ELSE seq + 1
  /\ write' = IF Frame.fin THEN write + 1 ELSE write
  /\ UNCHANGED <<failed, pushVars, output, buffered, readVars>>

(* conn.Write fails: Write returns the error and the rest is not sent. *)
WriteFails ==
  /\ ~failed /\ write <= Len(Ends)
  /\ failed' = TRUE
  /\ UNCHANGED <<write, pos, seq, nextConn, path, pushVars, output, buffered, readVars>>

-----------------------------------------------------------------------------
(* Reassembler.Push, which holds mu from the sequence check to its return. *)

(* The bytes a frame's size field lets the receiver see. *)
Visible(f) == Interval(f.bytes.lo, f.bytes.lo + f.size - 1)

(* Variant: the chunk that is due counts as seen already. *)
PushDropsDue(p) ==
  LET f == Head(path[p])
  IN  /\ holder = NoHolder /\ path[p] # <<>>
      /\ path' = [path EXCEPT ![p] = Tail(@)]
      /\ IF f.seq <= nextSeq
         THEN UNCHANGED <<holder, chunks, buffered>>
         ELSE /\ holder' = [seq |-> f.seq, fin |-> f.fin]
              /\ chunks' = {c \in chunks : c.seq # f.seq}
                             \cup {[seq |-> f.seq, bytes |-> Visible(f)]}
              /\ buffered' = buffered + f.size
      /\ UNCHANGED <<writerVars, nextSeq, isClosed, paused, output, readVars>>

PushBegin(p) ==
  LET f == Head(path[p])
  IN  /\ holder = NoHolder /\ path[p] # <<>>
      /\ path' = [path EXCEPT ![p] = Tail(@)]
      /\ IF f.seq < nextSeq
         THEN UNCHANGED <<holder, chunks, buffered>>
         ELSE /\ holder' = [seq |-> f.seq, fin |-> f.fin]
              /\ chunks' = {c \in chunks : c.seq # f.seq}
                             \cup {[seq |-> f.seq, bytes |-> Visible(f)]}
              /\ buffered' = buffered + f.size
      /\ UNCHANGED <<writerVars, nextSeq, isClosed, paused, output, readVars>>

ShouldPause == buffered >= MaxWindow

Due == {c \in chunks : c.seq = nextSeq}

(* Variant: Push hands on at most one chunk. *)
DrainOne ==
  /\ holder # NoHolder /\ Due # {} /\ ~ShouldPause /\ ~isClosed
  /\ Len(output) < OutCap
  /\ \E c \in Due : output' = Append(output, c.bytes)
  /\ chunks' = chunks \ Due
  /\ nextSeq' = nextSeq + 1
  /\ isClosed' = (holder.fin /\ chunks' = {})
  /\ holder' = NoHolder
  /\ UNCHANGED <<writerVars, path, paused, buffered, readVars>>

(* One round of the loop that hands chunks on.  The send blocks while       *)
(* output is full, and panics when output is closed: the guard ~isClosed    *)
(* stops the model there, see NoPanic.  The FIN flag looked at is that of   *)
(* the pushed chunk.                                                        *)
Drain ==
  /\ holder # NoHolder /\ Due # {} /\ ~ShouldPause /\ ~isClosed
  /\ Len(output) < OutCap
  /\ \E c \in Due : output' = Append(output, c.bytes)
  /\ chunks' = chunks \ Due
  /\ nextSeq' = nextSeq + 1
  /\ isClosed' = (holder.fin /\ chunks' = {})
  /\ holder' = IF isClosed' THEN NoHolder ELSE holder
  /\ UNCHANGED <<writerVars, path, paused, buffered, readVars>>

PushEnd ==
  /\ holder # NoHolder /\ (Due = {} \/ ShouldPause)
  /\ holder' = NoHolder
  /\ paused' = (Due # {} /\ ShouldPause)
  /\ UNCHANGED <<writerVars, path, chunks, nextSeq, isClosed, output,
                 buffered, readVars>>

-----------------------------------------------------------------------------
(* Reassembler.Read with a buffer of m bytes. *)

(* What Read returns of the bytes b, and what it keeps.  OnConsumed is told *)
(* the bytes returned.                                                      *)
Copied(b, m) == IF Size(b) < m THEN Size(b) ELSE m

(* Variant: what does not fit into the buffer is lost. *)
TakeAndDrop(b, m) ==
  /\ last' = Interval(b.lo, b.lo + Copied(b, m) - 1)
  /\ read' = read + Copied(b, m)
  /\ pending' = Interval(b.hi + 1, b.hi)
  /\ buffered' = buffered - Copied(b, m)
  /\ UNCHANGED <<writerVars, path, pushVars, eof>>

Take(b, m) ==
  /\ last' = Interval(b.lo, b.lo + Copied(b, m) - 1)
  /\ read' = read + Copied(b, m)
  /\ pending' = Interval(b.lo + Copied(b, m), b.hi)
  /\ buffered' = buffered - Copied(b, m)
  /\ UNCHANGED <<writerVars, path, pushVars, eof>>

ReadPending(m) ==
  /\ ~eof /\ Size(pending) > 0
  /\ Take(pending, m)
  /\ UNCHANGED output

ReadChunk(m) ==
  /\ ~eof /\ Size(pending) = 0 /\ output # <<>>
  /\ Take(Head(output), m)
  /\ output' = Tail(output)

ReadEOF ==
  /\ ~eof /\ Size(pending) = 0 /\ output = <<>> /\ isClosed
  /\ eof' = TRUE
  /\ UNCHANGED <<writerVars, path, pushVars, output, buffered, pending, read, last>>

-----------------------------------------------------------------------------
Writer == WriteChunk \/ WriteFails
Push == Drain \/ PushEnd
Reader == (\E m \in 1..MaxRead : ReadPending(m) \/ ReadChunk(m)) \/ ReadEOF

Next == Writer \/ (\E p \in Paths : PushBegin(p)) \/ Push \/ Reader

Spec == Init /\ [][Next]_vars

(* The writer finishes or fails, frames arrive, a Push that can go on does, *)
(* and the application keeps reading.  Strong fairness for the lock: a      *)
(* sync.Mutex is not held back for ever from one of its waiters.            *)
Fairness ==
  /\ WF_vars(Writer) /\ WF_vars(Push) /\ WF_vars(Reader)
  /\ \A p \in Paths : SF_vars(PushBegin(p))

FairSpec == Spec /\ Fairness

-----------------------------------------------------------------------------
(* Properties. *)

(* Every variable has its type; the flow controller never counts below 0.  *)
TypeOK ==
  /\ write \in 1..(Len(Ends) + 1)
  /\ pos \in 0..Total
  /\ seq \in Nat
  /\ failed \in BOOLEAN
  /\ nextConn \in Nat
  /\ path \in [Paths -> Seq(Frames)]
  /\ holder \in [seq : Nat, fin : BOOLEAN] \cup {NoHolder}
  /\ chunks \subseteq Chunks
  /\ nextSeq \in Nat
  /\ isClosed \in BOOLEAN
  /\ paused \in BOOLEAN
  /\ output \in Seq(Intervals)
  /\ buffered \in Nat
  /\ pending \in Intervals
  /\ read \in Nat
  /\ last \in Intervals
  /\ eof \in BOOLEAN

Stream == INSTANCE ByteStream WITH sent <- pos

(* Whatever the order in which the chunks of a Write arrive over the        *)
(* connections, and however small the buffers passed to Read, Read returns  *)
(* the bytes in order, each once, and io.EOF only after the last one.       *)
ImplementsStream == Stream!Spec

(* The numbers of the bytes held for the reader. *)
BytesIn(b) == b.lo..b.hi

HeldBytes ==
  UNION {BytesIn(b) : b \in {c.bytes : c \in chunks}
                               \cup {output[i] : i \in DOMAIN output} \cup {pending}}

(* The flow controller's count is the number of bytes held for the reader,  *)
(* however Push and Read interleave.                                        *)
BufferAccounting == buffered = Cardinality(HeldBytes)

(* Nothing that may still move holds a byte, and no due chunk waits for     *)
(* the window to reopen.                                                    *)
Quiet == /\ \A p \in Paths : path[p] = <<>>
         /\ Due = {} /\ output = <<>> /\ Size(pending) = 0

(* Reassembly loses nothing of a Write, whatever order the connections      *)
(* deliver its chunks in and however often a full window stops Push: once   *)
(* the pair is quiet, every byte sent has been read.                        *)
QuietMeansRead == Quiet => read = pos

(* The end of delivery with data left: the writer is done, no frame is      *)
(* under way, the reader has taken all it was given, and the next chunk is  *)
(* still in the map, where a full window made the last Push leave it.       *)
HeldBack ==
  /\ write > Len(Ends) /\ \A p \in Paths : path[p] = <<>>
  /\ holder = NoHolder /\ paused /\ Due # {} /\ output = <<>> /\ Size(pending) = 0

(* All bytes of a Write are read, unless a connection fails or the last     *)
(* Push met a full window: then nothing takes up the loop of Push again and *)
(* the reader waits for ever (reassembler.go:46).  There is no other way    *)
(* for delivery to stop short.                                              *)
AllDelivered == <>(failed \/ read = Total \/ HeldBack)

-----------------------------------------------------------------------------
(* What a comment or a document says and the code does not do: each of the  *)
(* following is refuted by TLC, see README.md.                              *)

(* Push never comes to send on the output channel after it was closed,      *)
(* which ends the process: chunks of a second, longer Write do, as the      *)
(* numbers start at 0 again and those beyond the first Write are due.       *)
NoPanic == ~(isClosed /\ holder # NoHolder /\ Due # {} /\ ~ShouldPause)

(* All bytes are read in the end, unless a connection fails. *)
NeverHeldBack == <>(failed \/ read = Total)

(* The reader learns that the stream has ended, unless a connection fails. *)
EOFReached == <>(failed \/ eof)

(* No more than the window, and the chunk that fills it, is buffered. *)
BufferWithinWindow == buffered < MaxWindow + ChunkSize

=============================================================================
