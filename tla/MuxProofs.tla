------------------------------ MODULE MuxProofs ------------------------------
(* Proofs about Mux: one call of Write, of any length, with chunks of any   *)
(* size the header can express, over any number of connections.             *)
EXTENDS Mux, SequenceTheorems, FiniteSetTheorems, TLAPS

SingleWrite == Len(Ends) = 1 /\ ChunkSize < SizeMod

(* The last byte of the first k chunks, and the bytes of chunk k. *)
EndOf(k) == IF k * ChunkSize <= Total THEN k * ChunkSize ELSE Total
BytesOf(k) == Interval(EndOf(k) + 1, EndOf(k + 1))

(* The numbers the constants stand for. *)
LEMMA ConstantFacts ==
  /\ Total \in Nat \ {0} /\ ChunkSize \in Nat \ {0} /\ SizeMod \in Nat \ {0}
  /\ Conns \in Nat \ {0} /\ MaxRead \in Nat
  /\ Len(Ends) \in Nat \ {0}
<1>1. Len(Ends) \in Nat \ {0} /\ Ends[Len(Ends)] \in Nat \ {0}
  BY MuxAssumption, EmptySeq, LenProperties DEF MuxAssumption
<1> QED BY <1>1, MuxAssumption, Zenon DEF MuxAssumption, Total

(* Where the data of one more chunk ends. *)
LEMMA EndStep ==
  ASSUME NEW k \in Nat
  PROVE  /\ EndOf(k) \in 0..Total /\ EndOf(k + 1) \in 0..Total
         /\ EndOf(k + 1) = IF EndOf(k) + ChunkSize <= Total THEN EndOf(k) + ChunkSize ELSE Total
<1> DEFINE x == k * ChunkSize
<1>1. x \in Nat /\ (k + 1) * ChunkSize = x + ChunkSize BY ConstantFacts
<1> HIDE DEF x
<1>2. EndOf(k) = IF x <= Total THEN x ELSE Total BY Zenon DEF EndOf, x
<1>3. EndOf(k + 1) = IF x + ChunkSize <= Total THEN x + ChunkSize ELSE Total
  BY <1>1, Zenon DEF EndOf
<1> QED BY <1>1, <1>2, <1>3, ConstantFacts

(* No chunk, no data. *)
LEMMA EndZero == EndOf(0) = 0
BY ConstantFacts DEF EndOf

(* A later chunk ends no earlier. *)
LEMMA EndMonotone ==
  ASSUME NEW k \in Nat, NEW m \in Nat, k <= m
  PROVE  EndOf(k) <= EndOf(m)
<1> DEFINE x == k * ChunkSize
           y == (m - k) * ChunkSize
<1>1. x \in Nat /\ y \in Nat /\ m * ChunkSize = x + y
  <2>1. m - k \in Nat OBVIOUS
  <2>2. y \in Nat BY <2>1, ConstantFacts
  <2>3. m * ChunkSize = k * ChunkSize + (m - k) * ChunkSize BY ConstantFacts
  <2> QED BY <2>2, <2>3, ConstantFacts
<1> HIDE DEF x, y
<1>2. EndOf(k) = IF x <= Total THEN x ELSE Total BY Zenon DEF EndOf, x
<1>3. EndOf(m) = IF x + y <= Total THEN x + y ELSE Total BY <1>1, Zenon DEF EndOf
<1> QED BY <1>1, <1>2, <1>3, ConstantFacts


-----------------------------------------------------------------------------
(* The inductive invariant.  A chunk carries the bytes its number stands    *)
(* for, wherever it is; the chunks in output are consecutive and end before *)
(* nextSeq; pending continues where Read stopped.                           *)

(* The number of the first chunk in output. *)
Base == nextSeq - Len(output)

WriterInv ==
  /\ seq \in Nat /\ nextConn \in Nat
  /\ \/ write = 1 /\ pos = EndOf(seq) /\ pos < Total
     \/ write = 2 /\ pos = Total

GoodFrame(f, sent) ==
  /\ f.bytes = BytesOf(f.seq) /\ f.bytes.hi <= sent
  /\ f.size = Size(f.bytes) /\ f.size > 0
  /\ f.fin => f.bytes.hi = Total

PathInv ==
  /\ path \in [Paths -> Seq(Frames)]
  /\ \A p \in Paths : \A i \in 1..Len(path[p]) : GoodFrame(path[p][i], pos)

ChunkInv ==
  /\ nextSeq \in Nat
  /\ \A c \in chunks :
       /\ c.seq \in Nat /\ c.bytes = BytesOf(c.seq)
       /\ c.bytes.lo <= c.bytes.hi /\ c.bytes.hi <= pos

HolderInv ==
  /\ isClosed \in BOOLEAN
  /\ isClosed => EndOf(nextSeq) = Total /\ holder = NoHolder
  /\ holder # NoHolder =>
       /\ holder.seq \in Nat
       /\ holder.fin =>
            /\ EndOf(holder.seq + 1) = Total
            /\ (\E c \in chunks : c.seq = holder.seq) \/ holder.seq < nextSeq

ReadInv ==
  /\ output \in Seq(Intervals)
  /\ Base \in Nat
  /\ \A i \in 1..Len(output) :
       /\ output[i] = BytesOf(Base + i - 1)
       /\ output[i].lo <= output[i].hi /\ output[i].hi <= pos
  /\ read \in Nat /\ read <= EndOf(Base) /\ EndOf(Base) <= pos
  /\ pending = Interval(read + 1, EndOf(Base))

MuxInv == WriterInv /\ PathInv /\ ChunkInv /\ HolderInv /\ ReadInv

(* The bytes of a chunk are an interval of the data. *)
LEMMA BytesType ==
  ASSUME NEW k \in Nat
  PROVE  BytesOf(k) \in Intervals
<1>1. EndOf(k) \in 0..Total /\ EndOf(k + 1) \in 0..Total BY EndStep, Zenon
<1>2. EndOf(k) + 1 \in 1..(Total + 1) BY <1>1, ConstantFacts
<1> QED BY <1>1, <1>2, Zenon DEF BytesOf, Interval, Intervals

(* The position of the writer lies within the data. *)
LEMMA PosType == ASSUME WriterInv PROVE pos \in 0..Total
<1>1. seq \in Nat BY Zenon DEF WriterInv
<1>2. EndOf(seq) \in 0..Total BY <1>1, EndStep, Zenon
<1> QED BY <1>2, ConstantFacts DEF WriterInv

(* The reassembly invariant holds initially. *)
LEMMA MuxInit == ASSUME Init PROVE MuxInv
<1>1. WriterInv BY EndZero, ConstantFacts DEF Init, WriterInv
<1>2. PathInv BY DEF Init, PathInv
<1>3. ChunkInv /\ HolderInv BY Zenon DEF Init, ChunkInv, HolderInv
<1>4. Len(output) = 0 /\ output \in Seq(Intervals) /\ nextSeq = 0 BY DEF Init
<1>4a. Base = 0 BY <1>4 DEF Base
<1>5. ReadInv BY <1>4, <1>4a, EndZero DEF Init, ReadInv, Interval
<1> QED BY <1>1, <1>2, <1>3, <1>5, Zenon DEF MuxInv

(* The bytes a good frame shows the receiver are those of its number. *)
LEMMA GoodVisible ==
  ASSUME NEW f \in Frames, GoodFrame(f, pos), WriterInv
  PROVE  Visible(f) = BytesOf(f.seq) /\ EndOf(f.seq) < EndOf(f.seq + 1)
<1>1. f.seq \in Nat BY Zenon DEF Frames
<1>2. f.bytes = [lo |-> EndOf(f.seq) + 1, hi |-> EndOf(f.seq + 1)]
  BY Zenon DEF GoodFrame, BytesOf, Interval
<1>3. f.size = EndOf(f.seq + 1) - EndOf(f.seq) /\ f.size > 0
  BY <1>1, <1>2, EndStep DEF GoodFrame, Size
<1> QED BY <1>1, <1>2, <1>3, EndStep DEF Visible, Interval, BytesOf

(* The writer keeps the reassembly invariant. *)
LEMMA WriteStep ==
  ASSUME SingleWrite, MuxInv, WriteChunk
  PROVE  MuxInv' /\ Stream!Put(ChunkLen) /\ ChunkLen \in 1..Total
<1>a. write = 1 /\ pos = EndOf(seq) /\ pos < Total /\ seq \in Nat /\ nextConn \in Nat
  <2>1. write <= 1 BY Zenon DEF WriteChunk, SingleWrite
  <2> QED BY <2>1 DEF MuxInv, WriterInv
<1>b. Ends[write] = Total BY <1>a, Zenon DEF SingleWrite, Total
<1>c. /\ ChunkLen \in 1..Total /\ ChunkLen <= ChunkSize
      /\ pos + ChunkLen = EndOf(seq + 1) /\ EndOf(seq + 1) \in 0..Total /\ pos \in Nat
  <2>1. /\ EndOf(seq) \in 0..Total /\ EndOf(seq + 1) \in 0..Total
        /\ EndOf(seq + 1) = IF pos + ChunkSize <= Total THEN pos + ChunkSize ELSE Total
    BY <1>a, EndStep, Zenon
  <2>2. ChunkLen = IF Total - pos > ChunkSize THEN ChunkSize ELSE Total - pos
    BY <1>b, Zenon DEF ChunkLen
  <2> QED BY <1>a, <2>1, <2>2, ConstantFacts
<1>d. ChunkLen % SizeMod = ChunkLen
  BY <1>c, ConstantFacts DEF SingleWrite
<1>e. pos' = EndOf(seq + 1) /\ pos' \in 0..Total /\ pos < pos' /\ pos \in Nat
  <2>1. pos' = pos + ChunkLen BY Zenon DEF WriteChunk
  <2> QED BY <1>c, <2>1, ConstantFacts
<1>f. /\ Frame.seq = seq /\ Frame.bytes = BytesOf(seq) /\ Frame.size = ChunkLen
      /\ Frame.fin <=> pos' = Total
  BY <1>a, <1>b, <1>c, <1>d, <1>e, Zenon DEF Frame, BytesOf, Interval, WriteChunk
<1>g. Frame \in Frames
  <2>1. Frame.bytes \in Intervals BY <1>a, <1>f, BytesType, Zenon
  <2>2. ChunkLen \in 0..(SizeMod - 1) BY <1>c, ConstantFacts DEF SingleWrite
  <2>3. Frame = [seq |-> seq, bytes |-> Frame.bytes, size |-> ChunkLen, fin |-> Frame.fin]
    BY <1>d, Zenon DEF Frame
  <2>4. Frame.fin \in BOOLEAN BY Zenon DEF Frame
  <2> QED BY <1>a, <2>1, <2>2, <2>3, <2>4 DEF Frames
<1> DEFINE g == Frame
<1>h. /\ path' = [path EXCEPT ![nextConn % Conns] = Append(@, g)]
      /\ nextConn' = nextConn + 1
      /\ seq' = IF g.fin THEN 0 ELSE seq + 1
      /\ write' = IF g.fin THEN write + 1 ELSE write
      /\ UNCHANGED <<failed, pushVars, output, buffered, readVars>>
  BY Zenon DEF WriteChunk
<1>i. g \in Frames /\ GoodFrame(g, pos')
  <2>1. g.bytes.hi = pos' BY <1>e, <1>f DEF BytesOf, Interval
  <2>2. g.size = Size(g.bytes) /\ g.size > 0
    BY <1>a, <1>c, <1>e, <1>f DEF BytesOf, Interval, Size
  <2> QED BY <1>e, <1>f, <1>g, <2>1, <2>2 DEF GoodFrame
<1>j. g.fin <=> pos' = Total BY <1>f, Zenon
<1> HIDE DEF g
<1>1. WriterInv'
  <2>1. CASE g.fin
    <3>1. write' = 2 /\ seq' = 0 /\ nextConn' \in Nat BY <1>a, <1>h, <2>1
    <3> QED BY <1>j, <2>1, <3>1, Zenon DEF WriterInv
  <2>2. CASE ~g.fin
    <3>1. pos' < Total BY <1>e, <1>j, <2>2, ConstantFacts
    <3> QED BY <1>a, <1>e, <1>h, <2>2, <3>1 DEF WriterInv
  <2> QED BY <2>1, <2>2, Zenon
<1>2. PathInv'
  <2>1. nextConn % Conns \in Paths BY <1>a, ConstantFacts DEF Paths
  <2>2. \A f \in Frames : GoodFrame(f, pos) => GoodFrame(f, pos')
    BY <1>e, ConstantFacts DEF GoodFrame, Frames, Intervals
  <2>3. path' \in [Paths -> Seq(Frames)]
    BY <1>h, <1>i, <2>1 DEF MuxInv, PathInv
  <2>4. ASSUME NEW p \in Paths, NEW i \in 1..Len(path'[p]) PROVE GoodFrame(path'[p][i], pos')
    <3>1. path[p] \in Seq(Frames) /\ \A j \in 1..Len(path[p]) : GoodFrame(path[p][j], pos)
      BY Zenon DEF MuxInv, PathInv
    <3>2. CASE p # nextConn % Conns
      <4>1. path'[p] = path[p] BY <1>h, <3>2, Zenon DEF MuxInv, PathInv
      <4> QED BY <2>2, <3>1, <4>1
    <3>3. CASE p = nextConn % Conns
      <4>1. path'[p] = Append(path[p], g) BY <1>h, <3>3, Zenon DEF MuxInv, PathInv
      <4>2. CASE i = Len(path[p]) + 1 BY <1>i, <3>1, <4>1, <4>2
      <4>3. CASE i # Len(path[p]) + 1
        <5>1. i \in 1..Len(path[p]) /\ path'[p][i] = path[p][i] BY <3>1, <4>1, <4>3
        <5> QED BY <2>2, <3>1, <5>1
      <4> QED BY <4>2, <4>3, Zenon
    <3> QED BY <3>2, <3>3, Zenon
  <2> QED BY <2>3, <2>4, Zenon DEF PathInv
<1>3. ChunkInv'
  <2>1. \A c \in chunks : (c.seq \in Nat /\ c.bytes = BytesOf(c.seq)) => c.bytes \in Intervals
    BY BytesType, Zenon
  <2>2. UNCHANGED <<chunks, nextSeq>> BY <1>h, Zenon DEF pushVars
  <2> QED BY <1>e, <2>1, <2>2, ConstantFacts DEF MuxInv, ChunkInv, Intervals
<1>4. HolderInv' BY <1>h, Zenon DEF MuxInv, HolderInv, pushVars
<1>5. ReadInv'
  <2>1. UNCHANGED <<output, nextSeq, read, pending>> BY <1>h, Zenon DEF pushVars, readVars
  <2>2. UNCHANGED Base BY <2>1, Zenon DEF Base
  <2>3. Base \in Nat /\ EndOf(Base) \in 0..Total BY EndStep, Zenon DEF MuxInv, ReadInv
  <2>4. ASSUME NEW i \in 1..Len(output) PROVE output[i] = BytesOf(Base + i - 1) /\ output[i].hi <= pos'
    <3>1. output[i] = BytesOf(Base + i - 1) /\ output[i].hi <= pos /\ output[i] \in Intervals
      BY DEF MuxInv, ReadInv
    <3> QED BY <1>e, <3>1, ConstantFacts DEF Intervals
  <2>5. EndOf(Base) <= pos' BY <1>e, <2>3 DEF MuxInv, ReadInv
  <2> QED BY <2>1, <2>2, <2>4, <2>5, Zenon DEF MuxInv, ReadInv
<1>6. Stream!Put(ChunkLen) BY <1>c, <1>e, <1>h DEF Stream!Put, readVars, WriteChunk
<1> QED BY <1>1, <1>2, <1>3, <1>4, <1>5, <1>6, <1>c, Zenon DEF MuxInv

(* The arrival of a frame keeps the reassembly invariant. *)
LEMMA PushStep ==
  ASSUME MuxInv, NEW p \in Paths, PushBegin(p)
  PROVE  MuxInv' /\ UNCHANGED <<pos, readVars>>
<1> DEFINE f == Head(path[p])
<1>a. path[p] \in Seq(Frames) /\ path[p] # <<>> /\ \A i \in 1..Len(path[p]) : GoodFrame(path[p][i], pos)
  BY Zenon DEF PushBegin, MuxInv, PathInv
<1>b. f \in Frames /\ GoodFrame(f, pos) BY <1>a
<1>c. f.seq \in Nat /\ f.fin \in BOOLEAN /\ nextSeq \in Nat
  BY <1>b, Zenon DEF Frames, MuxInv, ChunkInv
<1>d. Visible(f) = BytesOf(f.seq) /\ EndOf(f.seq) < EndOf(f.seq + 1)
  BY <1>b, GoodVisible, Zenon DEF MuxInv
<1>e. /\ path' = [path EXCEPT ![p] = Tail(@)]
      /\ UNCHANGED <<writerVars, nextSeq, isClosed, output, readVars>>
      /\ holder = NoHolder
      /\ \/ f.seq < nextSeq /\ UNCHANGED <<holder, chunks>>
         \/ /\ ~(f.seq < nextSeq)
            /\ holder' = [seq |-> f.seq, fin |-> f.fin]
            /\ chunks' = {c \in chunks : c.seq # f.seq}
                           \cup {[seq |-> f.seq, bytes |-> Visible(f)]}
  BY Zenon DEF PushBegin
<1>f. f.bytes.hi = EndOf(f.seq + 1) /\ f.bytes.hi <= pos /\ (f.fin => f.bytes.hi = Total)
  BY <1>b DEF GoodFrame, BytesOf, Interval
<1> HIDE DEF f
<1>1. WriterInv' BY <1>e, Zenon DEF MuxInv, WriterInv, writerVars
<1>2. PathInv'
  <2>1. Tail(path[p]) \in Seq(Frames) /\ Len(Tail(path[p])) = Len(path[p]) - 1
        /\ \A i \in 1..Len(Tail(path[p])) : Tail(path[p])[i] = path[p][i + 1]
    BY <1>a
  <2>2. path' \in [Paths -> Seq(Frames)] BY <1>e, <2>1, Zenon DEF MuxInv, PathInv
  <2>3. UNCHANGED pos BY <1>e, Zenon DEF writerVars
  <2>4. ASSUME NEW q \in Paths, NEW i \in 1..Len(path'[q]) PROVE GoodFrame(path'[q][i], pos)
    <3>1. CASE q # p
      <4>1. path'[q] = path[q] BY <1>e, <3>1, Zenon DEF MuxInv, PathInv
      <4> QED BY <4>1, Zenon DEF MuxInv, PathInv
    <3>2. CASE q = p
      <4>1. path'[q] = Tail(path[p]) BY <1>e, <3>2, Zenon DEF MuxInv, PathInv
      <4>2. i + 1 \in 1..Len(path[p]) /\ path'[q][i] = path[p][i + 1]
        BY <1>a, <2>1, <4>1
      <4> QED BY <1>a, <4>2, Zenon
    <3> QED BY <3>1, <3>2, Zenon
  <2> QED BY <2>2, <2>3, <2>4, Zenon DEF PathInv
<1>3. ChunkInv'
  <2>1. UNCHANGED <<pos, nextSeq>> BY <1>e, Zenon DEF writerVars
  <2>2. CASE UNCHANGED chunks BY <2>1, <2>2, Zenon DEF MuxInv, ChunkInv
  <2>3. CASE chunks' = {c \in chunks : c.seq # f.seq} \cup {[seq |-> f.seq, bytes |-> Visible(f)]}
    <3>1. ASSUME NEW c \in chunks'
          PROVE  /\ c.seq \in Nat /\ c.bytes = BytesOf(c.seq)
                 /\ c.bytes.lo <= c.bytes.hi /\ c.bytes.hi <= pos
      <4>1. CASE c \in chunks BY <4>1, Zenon DEF MuxInv, ChunkInv
      <4>2. CASE c = [seq |-> f.seq, bytes |-> Visible(f)]
        <5>1. EndOf(f.seq) \in 0..Total /\ EndOf(f.seq + 1) \in 0..Total
          BY <1>c, EndStep, Zenon
        <5> QED BY <1>c, <1>d, <1>f, <4>2, <5>1, ConstantFacts DEF BytesOf, Interval
      <4> QED BY <2>3, <4>1, <4>2, Zenon
    <3> QED BY <2>1, <3>1, Zenon DEF MuxInv, ChunkInv
  <2> QED BY <1>e, <2>2, <2>3, Zenon
<1>4. HolderInv'
  <2>1. CASE f.seq < nextSeq /\ UNCHANGED <<holder, chunks>>
    BY <1>e, <2>1, Zenon DEF MuxInv, HolderInv
  <2>2. CASE /\ ~(f.seq < nextSeq)
             /\ holder' = [seq |-> f.seq, fin |-> f.fin]
             /\ chunks' = {c \in chunks : c.seq # f.seq}
                            \cup {[seq |-> f.seq, bytes |-> Visible(f)]}
    <3>1. ~isClosed
      <4> SUFFICES ASSUME isClosed PROVE FALSE BY Zenon
      <4>1. EndOf(nextSeq) = Total BY Zenon DEF MuxInv, HolderInv
      <4>2. EndOf(nextSeq) <= EndOf(f.seq) BY <1>c, <2>2, EndMonotone
      <4>3. EndOf(f.seq) \in 0..Total /\ EndOf(f.seq + 1) \in 0..Total
        BY <1>c, EndStep, Zenon
      <4> QED BY <1>d, <4>1, <4>2, <4>3, ConstantFacts
    <3>2. holder'.seq = f.seq /\ holder'.fin = f.fin BY <2>2, Zenon
    <3>3. \E c \in chunks' : c.seq = f.seq
      <4>1. [seq |-> f.seq, bytes |-> Visible(f)] \in chunks' BY <2>2, Zenon
      <4> QED BY <4>1, Zenon
    <3>4. f.fin => EndOf(f.seq + 1) = Total BY <1>f, Zenon
    <3> QED BY <1>c, <1>e, <3>1, <3>2, <3>3, <3>4, Zenon DEF MuxInv, HolderInv
  <2> QED BY <1>e, <2>1, <2>2, Zenon
<1>5. ReadInv'
  <2>1. UNCHANGED <<pos, nextSeq, output, read, pending>>
    BY <1>e, Zenon DEF writerVars, readVars
  <2> QED BY <2>1, Zenon DEF MuxInv, ReadInv, Base
<1> QED BY <1>1, <1>2, <1>3, <1>4, <1>5, <1>e, Zenon DEF MuxInv, writerVars

(* Moving the due chunks to the channel keeps the reassembly invariant. *)
LEMMA DrainStep ==
  ASSUME MuxInv, Drain
  PROVE  MuxInv' /\ UNCHANGED <<pos, readVars>>
<1>a. PICK c \in Due : output' = Append(output, c.bytes) BY Zenon DEF Drain
<1>b. /\ c \in chunks /\ c.seq = nextSeq /\ nextSeq \in Nat
      /\ c.bytes = BytesOf(nextSeq) /\ c.bytes.hi = EndOf(nextSeq + 1)
      /\ c.bytes.lo <= c.bytes.hi /\ c.bytes.hi <= pos
  BY <1>a DEF Due, MuxInv, ChunkInv, BytesOf, Interval
<1>c. /\ chunks' = chunks \ Due /\ nextSeq' = nextSeq + 1
      /\ isClosed' = (holder.fin /\ chunks' = {})
      /\ holder' = IF isClosed' THEN NoHolder ELSE holder
      /\ UNCHANGED <<writerVars, path, readVars>>
      /\ holder # NoHolder
  BY Zenon DEF Drain
<1>d. UNCHANGED <<pos, read, pending>> BY <1>c, Zenon DEF writerVars, readVars
<1>1. WriterInv' BY <1>c, Zenon DEF MuxInv, WriterInv, writerVars
<1>2. PathInv' BY <1>c, <1>d, Zenon DEF MuxInv, PathInv
<1>3. ChunkInv' BY <1>b, <1>c, <1>d DEF MuxInv, ChunkInv
<1>4. HolderInv'
  <2>1. \A x \in chunks : x.seq # nextSeq => x \in chunks' BY <1>c, Zenon DEF Due
  <2>2. holder.seq \in Nat /\ nextSeq \in Nat BY <1>b, <1>c, Zenon DEF MuxInv, HolderInv
  <2>3. ASSUME holder.fin
        PROVE  /\ EndOf(holder.seq + 1) = Total
               /\ (\E x \in chunks' : x.seq = holder.seq) \/ holder.seq < nextSeq'
    <3>1. EndOf(holder.seq + 1) = Total /\ ((\E x \in chunks : x.seq = holder.seq) \/ holder.seq < nextSeq)
      BY <1>c, <2>3, Zenon DEF MuxInv, HolderInv
    <3>2. CASE holder.seq < nextSeq + 1 BY <1>c, <3>1, <3>2, Zenon
    <3>3. CASE ~(holder.seq < nextSeq + 1)
      <4>1. ~(holder.seq < nextSeq) /\ holder.seq # nextSeq BY <2>2, <3>3
      <4>2. PICK x \in chunks : x.seq = holder.seq BY <3>1, <4>1, Zenon
      <4>3. x \in chunks' BY <2>1, <4>1, <4>2, Zenon
      <4> QED BY <3>1, <4>2, <4>3, Zenon
    <3> QED BY <3>2, <3>3, Zenon
  <2>4. isClosed' => EndOf(nextSeq') = Total
    <3> SUFFICES ASSUME isClosed' PROVE EndOf(nextSeq') = Total BY Zenon
    <3>1. holder.fin /\ chunks' = {} BY <1>c, Zenon
    <3>2. EndOf(holder.seq + 1) = Total /\ holder.seq < nextSeq + 1
      BY <1>c, <2>3, <3>1, Zenon
    <3>3. EndOf(holder.seq + 1) <= EndOf(nextSeq + 1) BY <2>2, <3>2, EndMonotone
    <3>4. EndOf(nextSeq + 1) \in 0..Total BY <2>2, EndStep, Zenon
    <3> QED BY <1>c, <3>2, <3>3, <3>4, ConstantFacts
  <2>5. isClosed' \in BOOLEAN BY <1>c, Zenon
  <2>7. CASE isClosed' BY <1>c, <2>4, <2>5, <2>7, Zenon DEF HolderInv
  <2>8. CASE ~isClosed'
    <3>1. holder' = holder BY <1>c, <2>8, Zenon
    <3> QED BY <2>2, <2>3, <2>5, <2>8, <3>1, Zenon DEF HolderInv
  <2> QED BY <2>7, <2>8, Zenon
<1>5. ReadInv'
  <2>1. output \in Seq(Intervals) /\ Len(output) \in Nat /\ Base = nextSeq - Len(output) /\ Base \in Nat
    BY DEF MuxInv, ReadInv, Base
  <2>2. output' \in Seq(Intervals) /\ Len(output') = Len(output) + 1
    BY <1>a, <1>b, <2>1, BytesType
  <2>3. Base' = Base BY <1>b, <1>c, <2>1, <2>2 DEF Base
  <2>4. ASSUME NEW i \in 1..Len(output')
        PROVE  /\ output'[i] = BytesOf(Base + i - 1)
               /\ output'[i].lo <= output'[i].hi /\ output'[i].hi <= pos
    <3>1. CASE i = Len(output) + 1
      <4>1. output'[i] = c.bytes /\ Base + i - 1 = nextSeq BY <1>a, <1>b, <2>1, <3>1
      <4> QED BY <1>b, <4>1, Zenon
    <3>2. CASE i # Len(output) + 1
      <4>1. i \in 1..Len(output) /\ output'[i] = output[i] BY <1>a, <2>1, <2>2, <3>2
      <4> QED BY <4>1, Zenon DEF MuxInv, ReadInv
    <3> QED BY <3>1, <3>2, Zenon
  <2> QED BY <1>d, <2>1, <2>2, <2>3, <2>4, Zenon DEF MuxInv, ReadInv
<1> QED BY <1>1, <1>2, <1>3, <1>4, <1>5, <1>c, <1>d, Zenon DEF MuxInv

(* The end of Push keeps the reassembly invariant. *)
LEMMA PushRest ==
  ASSUME MuxInv, PushEnd \/ WriteFails \/ UNCHANGED vars
  PROVE  MuxInv' /\ UNCHANGED <<pos, readVars>>
<1>2. /\ UNCHANGED <<write, pos, seq, nextConn, path, chunks, nextSeq, isClosed,
                     output, readVars>>
      /\ holder' = holder \/ holder' = NoHolder
  BY Zenon DEF PushEnd, WriteFails, vars, writerVars, pushVars
<1>3. UNCHANGED Base /\ UNCHANGED <<read, pending>> BY <1>2, Zenon DEF Base, readVars
<1>4. WriterInv' BY <1>2, Zenon DEF MuxInv, WriterInv
<1>5. PathInv' BY <1>2, Zenon DEF MuxInv, PathInv
<1>6. ChunkInv' BY <1>2, Zenon DEF MuxInv, ChunkInv
<1>7. HolderInv' BY <1>2, Zenon DEF MuxInv, HolderInv
<1>8. ReadInv' BY <1>2, <1>3, Zenon DEF MuxInv, ReadInv
<1> QED BY <1>2, <1>4, <1>5, <1>6, <1>7, <1>8, Zenon DEF MuxInv

-----------------------------------------------------------------------------
(* Read: what Take does to bytes b that start where Read stopped. *)
LEMMA TakeStep ==
  ASSUME NEW h \in 0..Total, NEW m \in 1..MaxRead, read \in Nat, read < h, h <= pos,
         WriterInv, ~eof, Take(Interval(read + 1, h), m)
  PROVE  /\ \E n \in 1..Total : Stream!Get(n)
         /\ read' \in Nat /\ read' <= h /\ pending' = Interval(read' + 1, h)
         /\ UNCHANGED <<writerVars, path, pushVars>>
<1> DEFINE b == Interval(read + 1, h)
           n == Copied(b, m)
<1>1. Size(b) = h - read /\ b.lo = read + 1 /\ b.hi = h /\ h \in Nat /\ m \in Nat \ {0}
  BY ConstantFacts DEF Size, Interval
<1>2. n \in 1..Total /\ read + n <= h BY <1>1, ConstantFacts DEF Copied
<1>3. /\ last' = Interval(read + 1, read + 1 + n - 1)
      /\ read' = read + n
      /\ pending' = Interval(read + 1 + n, h)
      /\ UNCHANGED <<writerVars, path, pushVars, eof>>
  BY <1>1, Zenon DEF Take
<1> HIDE DEF n
<1>4. pos \in 0..Total BY PosType, Zenon
<1>5. read + n <= pos /\ read + 1 + n - 1 = read + n /\ read + n \in Nat /\ read + 1 + n = read + n + 1
  BY <1>1, <1>2, <1>4, ConstantFacts
<1>6. UNCHANGED pos BY <1>3, Zenon DEF writerVars
<1>7. Stream!Get(n) BY <1>3, <1>5, <1>6, Zenon DEF Stream!Get, Interval
<1> QED BY <1>2, <1>3, <1>5, <1>7, Zenon

(* The reader keeps the reassembly invariant. *)
LEMMA ReadStep ==
  ASSUME MuxInv, Reader
  PROVE  MuxInv' /\ ((\E n \in 1..Total : Stream!Get(n)) \/ Stream!End)
<1>a. /\ output \in Seq(Intervals) /\ Len(output) \in Nat /\ Base = nextSeq - Len(output)
      /\ Base \in Nat /\ nextSeq \in Nat /\ read \in Nat
      /\ read <= EndOf(Base) /\ EndOf(Base) <= pos /\ pending = Interval(read + 1, EndOf(Base))
  BY DEF MuxInv, ReadInv, ChunkInv, Base
<1>b. EndOf(Base) \in 0..Total /\ EndOf(Base + 1) \in 0..Total BY <1>a, EndStep, Zenon
<1>c. Size(pending) = EndOf(Base) - read BY <1>a, <1>b, ConstantFacts DEF Size, Interval
<1>d. WriterInv BY Zenon DEF MuxInv
<1>1. ASSUME NEW m \in 1..MaxRead, ReadPending(m)
      PROVE  MuxInv' /\ \E n \in 1..Total : Stream!Get(n)
  <2>1. ~eof /\ Size(pending) > 0 /\ Take(pending, m) /\ UNCHANGED output
    BY <1>1, Zenon DEF ReadPending
  <2>2. read < EndOf(Base) BY <1>a, <1>b, <1>c, <2>1, ConstantFacts
  <2>3. Take(Interval(read + 1, EndOf(Base)), m) BY <1>a, <2>1, Zenon
  <2>4. /\ \E n \in 1..Total : Stream!Get(n)
        /\ read' \in Nat /\ read' <= EndOf(Base) /\ pending' = Interval(read' + 1, EndOf(Base))
        /\ UNCHANGED <<writerVars, path, pushVars>>
    BY <1>a, <1>b, <1>d, <2>1, <2>2, <2>3, TakeStep, Zenon
  <2>5. UNCHANGED <<Base, pos>> BY <2>1, <2>4, Zenon DEF Base, pushVars, writerVars
  <2>6. ReadInv' BY <1>a, <2>1, <2>4, <2>5, Zenon DEF MuxInv, ReadInv
  <2>7. WriterInv' /\ PathInv' /\ ChunkInv' /\ HolderInv'
    BY <2>4, Zenon DEF MuxInv, WriterInv, PathInv, ChunkInv, HolderInv, writerVars,
       pushVars
  <2> QED BY <2>4, <2>6, <2>7, Zenon DEF MuxInv
<1>2. ASSUME NEW m \in 1..MaxRead, ReadChunk(m)
      PROVE  MuxInv' /\ \E n \in 1..Total : Stream!Get(n)
  <2>1. ~eof /\ Size(pending) = 0 /\ output # <<>> /\ Take(Head(output), m) /\ output' = Tail(output)
    BY <1>2, Zenon DEF ReadChunk
  <2>2. read = EndOf(Base) BY <1>a, <1>b, <1>c, <2>1, ConstantFacts
  <2>3. 1 \in 1..Len(output) /\ Head(output) = output[1] BY <1>a, <2>1
  <2>4. /\ output[1] = BytesOf(Base + 1 - 1)
        /\ output[1].lo <= output[1].hi /\ output[1].hi <= pos
    BY <2>3, Zenon DEF MuxInv, ReadInv
  <2>5. Head(output) = Interval(read + 1, EndOf(Base + 1)) /\ read < EndOf(Base + 1)
        /\ EndOf(Base + 1) <= pos
    <3>1. Base + 1 - 1 = Base BY <1>a
    <3>2. output[1] = Interval(read + 1, EndOf(Base + 1))
      BY <2>2, <2>4, <3>1, Zenon DEF BytesOf
    <3>3. read + 1 <= EndOf(Base + 1) /\ EndOf(Base + 1) <= pos BY <2>4, <3>2 DEF Interval
    <3> QED BY <1>a, <1>b, <2>3, <3>2, <3>3, ConstantFacts
  <2>6. /\ \E n \in 1..Total : Stream!Get(n)
        /\ read' \in Nat /\ read' <= EndOf(Base + 1) /\ pending' = Interval(read' + 1, EndOf(Base + 1))
        /\ UNCHANGED <<writerVars, path, pushVars>>
    BY <1>a, <1>b, <1>d, <2>1, <2>5, TakeStep, Zenon
  <2>7. /\ output' \in Seq(Intervals) /\ Len(output') = Len(output) - 1
        /\ \A i \in 1..Len(output') : output'[i] = output[i + 1]
    BY <1>a, <2>1
  <2>8. Base' = Base + 1 /\ pos' = pos
    BY <1>a, <2>6, <2>7 DEF Base, pushVars, writerVars
  <2>9. ASSUME NEW i \in 1..Len(output')
        PROVE  /\ output'[i] = BytesOf(Base' + i - 1)
               /\ output'[i].lo <= output'[i].hi /\ output'[i].hi <= pos
    <3>1. i + 1 \in 1..Len(output) /\ Base + (i + 1) - 1 = Base' + i - 1
      BY <1>a, <2>7, <2>8
    <3> QED BY <2>7, <3>1, Zenon DEF MuxInv, ReadInv
  <2>10. ReadInv'
    <3>1. output' \in Seq(Intervals) /\ Base' \in Nat BY <1>a, <2>7, <2>8
    <3>2. /\ read' \in Nat /\ read' <= EndOf(Base') /\ EndOf(Base') <= pos'
          /\ pending' = Interval(read' + 1, EndOf(Base'))
      BY <2>5, <2>6, <2>8, Zenon
    <3>3. \A i \in 1..Len(output') :
            /\ output'[i] = BytesOf(Base' + i - 1)
            /\ output'[i].lo <= output'[i].hi /\ output'[i].hi <= pos'
      BY <2>8, <2>9, Zenon
    <3> QED BY <3>1, <3>2, <3>3, Zenon DEF ReadInv, EndOf, BytesOf
  <2>11. WriterInv' /\ PathInv' /\ ChunkInv' /\ HolderInv'
    BY <2>6, Zenon DEF MuxInv, WriterInv, PathInv, ChunkInv, HolderInv, writerVars,
       pushVars
  <2> QED BY <2>6, <2>10, <2>11, Zenon DEF MuxInv
<1>3. ASSUME ReadEOF PROVE MuxInv' /\ Stream!End
  <2>1. /\ Size(pending) = 0 /\ output = <<>> /\ isClosed /\ eof' = TRUE
        /\ UNCHANGED <<writerVars, path, pushVars, output, pending, read, last>>
    BY <1>3, Zenon DEF ReadEOF
  <2>2. UNCHANGED <<Base, pos>> BY <2>1, Zenon DEF Base, pushVars, writerVars
  <2>3. Base = nextSeq BY <1>a, <2>1
  <2>4. read = Total
    <3>1. EndOf(nextSeq) = Total BY <2>1, Zenon DEF MuxInv, HolderInv
    <3> QED BY <1>a, <1>b, <1>c, <2>1, <2>3, <3>1, ConstantFacts
  <2>5. Stream!End BY <2>1, <2>2, <2>4, Zenon DEF Stream!End
  <2>6. ReadInv' BY <2>1, <2>2, Zenon DEF MuxInv, ReadInv
  <2>7. WriterInv' /\ PathInv' /\ ChunkInv' /\ HolderInv'
    BY <2>1, Zenon DEF MuxInv, WriterInv, PathInv, ChunkInv, HolderInv, writerVars,
       pushVars
  <2> QED BY <2>5, <2>6, <2>7, Zenon DEF MuxInv
<1> QED BY <1>1, <1>2, <1>3, Zenon DEF Reader

-----------------------------------------------------------------------------
(* One step of the pair is a step of the byte stream, or none. *)
LEMMA StreamStep ==
  ASSUME SingleWrite, MuxInv, [Next]_vars
  PROVE  MuxInv' /\ [Stream!Next]_(Stream!vars)
<1>1. CASE WriteChunk BY <1>1, WriteStep, Zenon DEF Stream!Next
<1>2. CASE \E p \in Paths : PushBegin(p) BY <1>2, PushStep, Zenon DEF Stream!vars,
                                            readVars
<1>3. CASE Drain BY <1>3, DrainStep, Zenon DEF Stream!vars, readVars
<1>4. CASE PushEnd \/ WriteFails \/ UNCHANGED vars
  BY <1>4, PushRest, Zenon DEF Stream!vars, readVars
<1>5. CASE Reader BY <1>5, ReadStep, Zenon DEF Stream!Next
<1> QED BY <1>1, <1>2, <1>3, <1>4, <1>5, Zenon DEF Next, Writer, Push

(* A single Write, of any length, cut into chunks that the header can       *)
(* express, over any number of connections, is read back as a byte stream:  *)
(* mux.Aggregator and mux.Reassembler implement ByteStream.                 *)
THEOREM StreamTheorem == ASSUME SingleWrite PROVE Spec => ImplementsStream
<1>1. Init => MuxInv /\ Stream!Init
  BY MuxInit, Zenon DEF Init, Stream!Init, Interval
<1>2. MuxInv /\ [Next]_vars => MuxInv' /\ [Stream!Next]_(Stream!vars) BY StreamStep, Zenon
<1> QED BY <1>1, <1>2, PTL DEF Spec, ImplementsStream, Stream!Spec

-----------------------------------------------------------------------------
(* The flow controller's count.  A frame is counted when it is pushed, so   *)
(* no number may be held twice: the numbers of the frames under way differ  *)
(* from each other and from those of the waiting chunks, which come after   *)
(* everything handed on.                                                    *)
SeqInv ==
  /\ \A c \in chunks : c.seq >= nextSeq /\ (write = 1 => c.seq < seq)
  /\ \A p \in Paths : \A i \in 1..Len(path[p]) :
       /\ write = 1 => path[p][i].seq < seq
       /\ \A c \in chunks : c.seq # path[p][i].seq
  /\ \A p, q \in Paths : \A i \in 1..Len(path[p]), j \in 1..Len(path[q]) :
       path[p][i].seq = path[q][j].seq => p = q /\ i = j

(* Where a byte is held. *)
LEMMA HeldMember ==
  ASSUME output \in Seq(Intervals)
  PROVE  \A x : x \in HeldBytes <=> \/ \E c \in chunks : x \in BytesIn(c.bytes)
                                    \/ \E i \in 1..Len(output) : x \in BytesIn(output[i])
                                    \/ x \in BytesIn(pending)
<1>1. DOMAIN output = 1..Len(output) OBVIOUS
<1> QED BY <1>1, Zenon DEF HeldBytes

(* The same in the next state. *)
LEMMA HeldMemberNext ==
  ASSUME output' \in Seq(Intervals)
  PROVE  \A x : x \in HeldBytes' <=> \/ \E c \in chunks' : x \in BytesIn(c.bytes)
                                     \/ \E i \in 1..Len(output') : x \in BytesIn(output'[i])
                                     \/ x \in BytesIn(pending')
<1>1. DOMAIN output' = 1..Len(output') OBVIOUS
<1> QED BY <1>1, Zenon DEF HeldBytes, BytesIn

(* The bytes of chunk k. *)
LEMMA ChunkBytes ==
  ASSUME NEW k \in Nat
  PROVE  /\ BytesIn(BytesOf(k)) = (EndOf(k) + 1)..EndOf(k + 1)
         /\ BytesIn(BytesOf(k)) \subseteq 1..Total
<1>1. EndOf(k) \in 0..Total /\ EndOf(k + 1) \in 0..Total BY EndStep, Zenon
<1>2. BytesIn(BytesOf(k)) = (EndOf(k) + 1)..EndOf(k + 1)
  BY Zenon DEF BytesIn, BytesOf, Interval
<1> QED BY <1>1, <1>2, ConstantFacts

(* Chunks of different numbers have no byte in common. *)
LEMMA ChunksDisjoint ==
  ASSUME NEW k \in Nat, NEW m \in Nat, k # m
  PROVE  BytesIn(BytesOf(k)) \cap BytesIn(BytesOf(m)) = {}
<1>1. ASSUME NEW a \in Nat, NEW b \in Nat, a < b PROVE BytesIn(BytesOf(a)) \cap BytesIn(BytesOf(b)) = {}
  <2>1. a + 1 \in Nat /\ a + 1 <= b BY <1>1
  <2>2. EndOf(a + 1) <= EndOf(b) BY <2>1, EndMonotone, Zenon
  <2>3. EndOf(a + 1) \in 0..Total /\ EndOf(b) \in 0..Total BY EndStep, Zenon
  <2>4. /\ BytesIn(BytesOf(a)) = (EndOf(a) + 1)..EndOf(a + 1)
        /\ BytesIn(BytesOf(b)) = (EndOf(b) + 1)..EndOf(b + 1)
    BY ChunkBytes, Zenon
  <2> QED BY <2>2, <2>3, <2>4, ConstantFacts
<1>2. k < m \/ m < k OBVIOUS
<1> QED BY <1>1, <1>2, Zenon

(* What is held is part of the data, hence a finite set. *)
LEMMA HeldFinite ==
  ASSUME MuxInv
  PROVE  HeldBytes \subseteq 1..Total /\ IsFiniteSet(HeldBytes)
<1>0. output \in Seq(Intervals) BY Zenon DEF MuxInv, ReadInv
<1>1. ASSUME NEW c \in chunks PROVE BytesIn(c.bytes) \subseteq 1..Total
  <2>1. c.seq \in Nat /\ c.bytes = BytesOf(c.seq) BY Zenon DEF MuxInv, ChunkInv
  <2> QED BY <2>1, ChunkBytes, Zenon
<1>2. ASSUME NEW i \in 1..Len(output) PROVE BytesIn(output[i]) \subseteq 1..Total
  <2>1. output[i] = BytesOf(Base + i - 1) /\ Base + i - 1 \in Nat BY DEF MuxInv, ReadInv
  <2> QED BY <2>1, ChunkBytes, Zenon
<1>3. BytesIn(pending) \subseteq 1..Total
  <2>1. pending = Interval(read + 1, EndOf(Base)) /\ read \in Nat /\ Base \in Nat
    BY Zenon DEF MuxInv, ReadInv
  <2>2. EndOf(Base) \in 0..Total BY <2>1, EndStep, Zenon
  <2> QED BY <2>1, <2>2, ConstantFacts DEF BytesIn, Interval
<1>4. HeldBytes \subseteq 1..Total BY <1>0, <1>1, <1>2, <1>3, HeldMember, Zenon
<1>5. IsFiniteSet(1..Total) BY FS_Interval, ConstantFacts
<1> QED BY <1>4, <1>5, FS_Subset, Zenon

(* The writer gives a frame the next number. *)
LEMMA SeqWrite ==
  ASSUME SingleWrite, MuxInv, SeqInv, WriteChunk
  PROVE  SeqInv'
<1>a. write = 1 /\ seq \in Nat /\ nextConn \in Nat
  <2>1. write <= 1 BY Zenon DEF WriteChunk, SingleWrite
  <2> QED BY <2>1 DEF MuxInv, WriterInv
<1>b. PICK g : g = Frame BY Zenon
<1>c. PICK r : r = nextConn % Conns BY Zenon
<1>d. /\ g.seq = seq /\ path' = [path EXCEPT ![r] = Append(@, g)]
      /\ (seq' = seq + 1 /\ write' = 1) \/ write' = 2
      /\ UNCHANGED <<chunks, nextSeq>>
  BY <1>a, <1>b, <1>c DEF WriteChunk, Frame, pushVars
<1>e. r \in Paths BY <1>a, <1>c, ConstantFacts DEF Paths
<1>f. path \in [Paths -> Seq(Frames)] /\ \A p \in Paths : path[p] \in Seq(Frames) /\ Len(path[p]) \in Nat
  BY DEF MuxInv, PathInv
<1>g. \A p \in Paths : \A i \in 1..Len(path[p]) : path[p][i].seq \in Nat
  <2>1. \A p \in Paths : \A i \in 1..Len(path[p]) : path[p][i] \in Frames
    BY <1>f, ElementOfSeq, Zenon
  <2> QED BY <2>1, Zenon DEF Frames
<1>h. \A c \in chunks : c.seq \in Nat BY Zenon DEF MuxInv, ChunkInv
<1>1. ASSUME NEW p \in Paths, NEW i \in 1..Len(path'[p])
      PROVE  \/ i \in 1..Len(path[p]) /\ path'[p][i] = path[p][i] /\ path[p][i].seq < seq
             \/ p = r /\ i = Len(path[p]) + 1 /\ path'[p][i].seq = seq
  <2>1. CASE p # r
    <3>1. path'[p] = path[p] BY <1>d, <1>f, <2>1, Zenon
    <3> QED BY <1>a, <1>1, <3>1, Zenon DEF SeqInv
  <2>2. CASE p = r
    <3>1. path'[p] = Append(path[p], g) BY <1>d, <1>f, <2>2, Zenon
    <3>2. CASE i = Len(path[p]) + 1 BY <1>d, <1>f, <2>2, <3>1, <3>2
    <3>3. CASE i # Len(path[p]) + 1
      <4>1. i \in 1..Len(path[p]) /\ path'[p][i] = path[p][i] BY <1>f, <3>1, <3>3
      <4> QED BY <1>a, <4>1, Zenon DEF SeqInv
    <3> QED BY <3>2, <3>3, Zenon
  <2> QED BY <2>1, <2>2, Zenon
<1>2. \A c \in chunks' : c.seq >= nextSeq' /\ (write' = 1 => c.seq < seq')
  BY <1>a, <1>d, <1>h DEF SeqInv
<1>3. \A p \in Paths : \A i \in 1..Len(path'[p]) :
        /\ write' = 1 => path'[p][i].seq < seq'
        /\ \A c \in chunks' : c.seq # path'[p][i].seq
  <2> SUFFICES ASSUME NEW p \in Paths, NEW i \in 1..Len(path'[p])
               PROVE  /\ write' = 1 => path'[p][i].seq < seq'
                      /\ \A c \in chunks : c.seq # path'[p][i].seq
    BY <1>d, Zenon
  <2>1. CASE i \in 1..Len(path[p]) /\ path'[p][i] = path[p][i] /\ path[p][i].seq < seq
    BY <1>a, <1>d, <1>g, <2>1 DEF SeqInv
  <2>2. CASE path'[p][i].seq = seq
    BY <1>a, <1>d, <1>h, <2>2 DEF SeqInv
  <2> QED BY <1>1, <2>1, <2>2, Zenon
<1>4. ASSUME NEW p \in Paths, NEW q \in Paths, NEW i \in 1..Len(path'[p]), NEW j \in 1..Len(path'[q]),
             path'[p][i].seq = path'[q][j].seq
      PROVE  p = q /\ i = j
  <2>1. CASE /\ i \in 1..Len(path[p]) /\ path'[p][i] = path[p][i]
             /\ j \in 1..Len(path[q]) /\ path'[q][j] = path[q][j]
    BY <1>4, <2>1, SMTT(30) DEF SeqInv
  <2>2. (path'[p][i].seq < seq \/ (p = r /\ i = Len(path[r]) + 1 /\ path'[p][i].seq = seq))
        /\ (path'[q][j].seq < seq \/ (q = r /\ j = Len(path[r]) + 1 /\ path'[q][j].seq = seq))
    BY <1>1, Zenon
  <2> QED BY <1>1, <1>4, <1>a, <2>1, <2>2
<1> QED BY <1>2, <1>3, <1>4, Zenon DEF SeqInv

(* A frame that arrives leaves its connection. *)
LEMMA SeqPush ==
  ASSUME MuxInv, SeqInv, NEW p \in Paths, PushBegin(p)
  PROVE  SeqInv'
<1>b. PICK f : f = Head(path[p]) BY Zenon
<1>c. /\ path \in [Paths -> Seq(Frames)] /\ path[p] # <<>>
      /\ \A q \in Paths : path[q] \in Seq(Frames) /\ Len(path[q]) \in Nat
  <2>1. path \in [Paths -> Seq(Frames)] BY Zenon DEF MuxInv, PathInv
  <2>2. path[p] # <<>> BY Zenon DEF PushBegin
  <2> QED BY <2>1, <2>2
<1>d. f = path[p][1] /\ 1 \in 1..Len(path[p]) /\ f.seq \in Nat
  <2>1. f = path[p][1] /\ 1 \in 1..Len(path[p]) BY <1>b, <1>c
  <2>2. f \in Frames BY <1>c, <2>1, ElementOfSeq, Zenon
  <2> QED BY <2>1, <2>2, Zenon DEF Frames
<1>u. write' = write /\ seq' = seq /\ nextSeq' = nextSeq
  BY Zenon DEF PushBegin, writerVars
<1>e. /\ path' = [path EXCEPT ![p] = Tail(@)]
      /\ UNCHANGED <<write, seq, nextSeq>>
      /\ \/ UNCHANGED chunks
         \/ /\ ~(f.seq < nextSeq)
            /\ chunks' = {c \in chunks : c.seq # f.seq}
                           \cup {[seq |-> f.seq, bytes |-> Visible(f)]}
  BY <1>b, Zenon DEF PushBegin, writerVars
<1>f. nextSeq \in Nat BY Zenon DEF MuxInv, ChunkInv
<1>1. ASSUME NEW q \in Paths, NEW i \in 1..Len(path'[q])
      PROVE  \/ q = p /\ i + 1 \in 1..Len(path[q]) /\ path'[q][i] = path[q][i + 1]
             \/ q # p /\ i \in 1..Len(path[q]) /\ path'[q][i] = path[q][i]
  <2>1. CASE q # p BY <1>1, <1>c, <1>e, <2>1, Zenon
  <2>2. CASE q = p
    <3>1. path'[q] = Tail(path[p]) BY <1>c, <1>e, <2>2, Zenon
    <3>2. Len(Tail(path[p])) = Len(path[p]) - 1
          /\ \A k \in 1..Len(Tail(path[p])) : Tail(path[p])[k] = path[p][k + 1]
      BY <1>c
    <3> QED BY <1>c, <2>2, <3>1, <3>2
  <2> QED BY <2>1, <2>2, Zenon
<1>2. ASSUME NEW q \in Paths, NEW i \in 1..Len(path'[q])
      PROVE  path'[q][i].seq # f.seq /\ \E k \in 1..Len(path[q]) : path'[q][i] = path[q][k]
  <2>1. CASE q = p /\ i + 1 \in 1..Len(path[q]) /\ path'[q][i] = path[q][i + 1]
    <3>1. i + 1 # 1 BY <1>2
    <3> QED BY <1>d, <2>1, <3>1 DEF SeqInv
  <2>2. CASE q # p /\ i \in 1..Len(path[q]) /\ path'[q][i] = path[q][i]
    BY <1>d, <2>2 DEF SeqInv
  <2> QED BY <1>1, <2>1, <2>2, Zenon
<1>3. \A c \in chunks' : c \in chunks \/ (c.seq = f.seq /\ ~(f.seq < nextSeq))
  BY <1>e
<1>4. \A c \in chunks' : c.seq >= nextSeq' /\ (write' = 1 => c.seq < seq')
  <2> SUFFICES ASSUME NEW c \in chunks' PROVE c.seq >= nextSeq /\ (write = 1 => c.seq < seq)
    BY <1>u, Zenon
  <2>1. CASE c \in chunks BY <2>1, Zenon DEF SeqInv
  <2>2. CASE c.seq = f.seq /\ ~(f.seq < nextSeq)
    <3>1. write = 1 => f.seq < seq BY <1>d, Zenon DEF SeqInv
    <3> QED BY <1>d, <1>f, <2>2, <3>1
  <2> QED BY <1>3, <2>1, <2>2, Zenon
<1>5. \A q \in Paths : \A i \in 1..Len(path'[q]) :
        /\ write' = 1 => path'[q][i].seq < seq'
        /\ \A c \in chunks' : c.seq # path'[q][i].seq
  <2> SUFFICES ASSUME NEW q \in Paths, NEW i \in 1..Len(path'[q])
               PROVE  /\ write = 1 => path'[q][i].seq < seq
                      /\ \A c \in chunks' : c.seq # path'[q][i].seq
    BY <1>u, Zenon
  <2>1. PICK k \in 1..Len(path[q]) : path'[q][i] = path[q][k] BY <1>2, Zenon
  <2>2. (write = 1 => path[q][k].seq < seq) /\ \A c \in chunks : c.seq # path[q][k].seq
    BY Zenon DEF SeqInv
  <2> QED BY <1>2, <1>3, <2>1, <2>2, Zenon
<1>6. ASSUME NEW q \in Paths, NEW s \in Paths, NEW i \in 1..Len(path'[q]), NEW j \in 1..Len(path'[s]),
             path'[q][i].seq = path'[s][j].seq
      PROVE  q = s /\ i = j
  <2>1. PICK k \in 1..Len(path[q]) :
          path'[q][i] = path[q][k] /\ k = IF q = p THEN i + 1 ELSE i
    BY <1>1, Zenon
  <2>2. PICK m \in 1..Len(path[s]) :
          path'[s][j] = path[s][m] /\ m = IF s = p THEN j + 1 ELSE j
    BY <1>1, Zenon
  <2>3. q = s /\ k = m BY <1>6, <2>1, <2>2, SMTT(30) DEF SeqInv
  <2> QED BY <2>1, <2>2, <2>3
<1> QED BY <1>4, <1>5, <1>6, Zenon DEF SeqInv

(* The other steps number nothing anew. *)
LEMMA SeqRest ==
  ASSUME MuxInv, SeqInv, Drain \/ PushEnd \/ WriteFails \/ Reader \/ UNCHANGED vars
  PROVE  SeqInv'
<1>1. CASE Drain
  <2>1. chunks' = chunks \ Due /\ nextSeq' = nextSeq + 1 /\ UNCHANGED <<write, seq, path>>
    BY <1>1, Zenon DEF Drain, writerVars
  <2>2. \A c \in chunks' : c \in chunks /\ c.seq # nextSeq BY <2>1, Zenon DEF Due
  <2>3. nextSeq \in Nat /\ \A c \in chunks : c.seq \in Nat BY Zenon DEF MuxInv, ChunkInv
  <2>4. \A c \in chunks' : c.seq >= nextSeq' /\ (write' = 1 => c.seq < seq')
    BY <2>1, <2>2, <2>3 DEF SeqInv
  <2> QED BY <2>1, <2>2, <2>4 DEF SeqInv
<1>2. CASE ~Drain
  <2>1. UNCHANGED <<write, seq, path, chunks, nextSeq>>
    BY <1>2, Zenon DEF PushEnd, WriteFails, Reader, ReadPending, ReadChunk, ReadEOF,
       Take, vars,
       writerVars, pushVars
  <2> QED BY <2>1 DEF SeqInv
<1> QED BY <1>1, <1>2, Zenon

(* Push counts the bytes of the frame, which nothing holds yet. *)
LEMMA CountPush ==
  ASSUME MuxInv, MuxInv', SeqInv, BufferAccounting, NEW p \in Paths, PushBegin(p)
  PROVE  BufferAccounting'
<1>b. PICK f : f = Head(path[p]) BY Zenon
<1>c. path[p] \in Seq(Frames) /\ path[p] # <<>> /\ \A i \in 1..Len(path[p]) : GoodFrame(path[p][i], pos)
  BY Zenon DEF PushBegin, MuxInv, PathInv
<1>d. f \in Frames /\ GoodFrame(f, pos) /\ f = path[p][1] /\ 1 \in 1..Len(path[p])
  BY <1>b, <1>c
<1>e. f.seq \in Nat /\ Visible(f) = BytesOf(f.seq) /\ EndOf(f.seq) < EndOf(f.seq + 1)
  BY <1>d, GoodVisible, Zenon DEF Frames, MuxInv
<1>f. UNCHANGED <<output, pending>>
  BY Zenon DEF PushBegin, readVars
<1>g. output \in Seq(Intervals) /\ nextSeq \in Nat /\ Base \in Nat /\ nextSeq = Base + Len(output)
      /\ Len(output) \in Nat
  BY DEF MuxInv, ReadInv, ChunkInv, Base
<1>1. CASE UNCHANGED <<chunks, buffered>>
  BY <1>f, <1>1 DEF BufferAccounting, HeldBytes, BytesIn
<1>2. CASE /\ ~(f.seq < nextSeq)
           /\ chunks' = {c \in chunks : c.seq # f.seq} \cup {[seq |-> f.seq, bytes |-> Visible(f)]}
           /\ buffered' = buffered + f.size
  <2> DEFINE new == BytesIn(BytesOf(f.seq))
  <2>0. PICK n : n = [seq |-> f.seq, bytes |-> BytesOf(f.seq)] BY Zenon
  <2>1. chunks' = chunks \cup {n} /\ n.bytes = BytesOf(f.seq)
    <3>1. \A c \in chunks : c.seq # f.seq BY <1>d DEF SeqInv
    <3>2. {c \in chunks : c.seq # f.seq} = chunks BY <3>1, Zenon
    <3> QED BY <1>2, <1>e, <2>0, <3>2, Zenon
  <2>2. HeldBytes' = HeldBytes \cup new
    <3>1. \A x : x \in HeldBytes' <=> x \in HeldBytes \/ x \in new
      <4>1. \A x : (\E c \in chunks' : x \in BytesIn(c.bytes)) <=> (\E c \in chunks : x \in BytesIn(c.bytes)) \/ x \in new
        BY <2>1, Zenon
      <4>2. output' \in Seq(Intervals) BY <1>f, <1>g, Zenon
      <4> QED BY <1>f, <1>g, <4>1, <4>2, HeldMember, HeldMemberNext, Zenon
    <3> QED BY <3>1, Zenon
  <2>3. HeldBytes \cap new = {}
    <3>1. ASSUME NEW x \in new, NEW c \in chunks PROVE x \notin BytesIn(c.bytes)
      <4>1. c.seq \in Nat /\ c.bytes = BytesOf(c.seq) /\ c.seq # f.seq
        BY <1>d DEF SeqInv, MuxInv, ChunkInv
      <4> QED BY <1>e, <4>1, ChunksDisjoint, Zenon
    <3>2. ASSUME NEW x \in new, NEW i \in 1..Len(output) PROVE x \notin BytesIn(output[i])
      <4>1. output[i] = BytesOf(Base + i - 1) /\ Base + i - 1 \in Nat /\ Base + i - 1 # f.seq
        <5>1. output[i] = BytesOf(Base + i - 1) BY Zenon DEF MuxInv, ReadInv
        <5>2. i \in Nat /\ 1 <= i /\ i <= Len(output) BY <1>g
        <5>3. nextSeq <= f.seq BY <1>2, <1>e, <1>g
        <5> QED BY <1>e, <1>g, <5>1, <5>2, <5>3
      <4> QED BY <1>e, <4>1, ChunksDisjoint, Zenon
    <3>3. ASSUME NEW x \in new PROVE x \notin BytesIn(pending)
      <4>1. x \in (EndOf(f.seq) + 1)..EndOf(f.seq + 1) BY <1>e, ChunkBytes, Zenon
      <4>2. pending = Interval(read + 1, EndOf(Base)) BY Zenon DEF MuxInv, ReadInv
      <4>3. Base <= f.seq BY <1>2, <1>e, <1>g
      <4>4. EndOf(Base) <= EndOf(f.seq) BY <1>e, <1>g, <4>3, EndMonotone, Zenon
      <4>5. EndOf(Base) \in 0..Total /\ EndOf(f.seq) \in 0..Total
        BY <1>e, <1>g, EndStep, Zenon
      <4> QED BY <4>1, <4>2, <4>4, <4>5, ConstantFacts DEF BytesIn, Interval
    <3> QED BY <1>g, <3>1, <3>2, <3>3, HeldMember, Zenon
  <2>4. IsFiniteSet(new) /\ Cardinality(new) = f.size
    <3>1. EndOf(f.seq) \in 0..Total /\ EndOf(f.seq + 1) \in 0..Total
      BY <1>e, EndStep, Zenon
    <3>2. f.size = EndOf(f.seq + 1) - (EndOf(f.seq) + 1) + 1
      BY <1>d DEF GoodFrame, Size, BytesOf, Interval
    <3>3. new = (EndOf(f.seq) + 1)..EndOf(f.seq + 1) BY <1>e, ChunkBytes, Zenon
    <3>4. EndOf(f.seq) + 1 \in Int /\ EndOf(f.seq + 1) \in Int /\ EndOf(f.seq) + 1 <= EndOf(f.seq + 1)
      BY <1>e, <3>1, ConstantFacts
    <3> HIDE DEF new
    <3>5. IsFiniteSet(new)
          /\ Cardinality(new) = IF EndOf(f.seq) + 1 > EndOf(f.seq + 1) THEN 0
                                ELSE EndOf(f.seq + 1) - (EndOf(f.seq) + 1) + 1
      BY <3>3, <3>4, FS_Interval, Zenon
    <3> QED BY <3>2, <3>4, <3>5
  <2> HIDE DEF new
  <2>5. IsFiniteSet(HeldBytes) BY HeldFinite, Zenon
  <2>6. Cardinality(HeldBytes \cup new) = Cardinality(HeldBytes) + Cardinality(new) - Cardinality(HeldBytes \cap new)
    BY <2>4, <2>5, FS_Union, Zenon
  <2>7. Cardinality(HeldBytes \cap new) = 0 BY <2>3, FS_EmptySet, Zenon
  <2>8. Cardinality(HeldBytes) \in Nat /\ Cardinality(new) \in Nat
    BY <2>4, <2>5, FS_CardinalityType, Zenon
  <2> QED BY <1>2, <2>2, <2>4, <2>6, <2>7, <2>8 DEF BufferAccounting
<1> QED BY <1>b, <1>1, <1>2, Zenon DEF PushBegin

(* Handing a chunk on changes where it is held, not what is held. *)
LEMMA CountDrain ==
  ASSUME MuxInv, BufferAccounting, Drain
  PROVE  BufferAccounting'
<1>1. PICK c \in Due : output' = Append(output, c.bytes) BY Zenon DEF Drain
<1>2. /\ c \in chunks /\ c.bytes = BytesOf(nextSeq) /\ nextSeq \in Nat
      /\ \A d \in Due : d.bytes = c.bytes
  BY <1>1, Zenon DEF Due, MuxInv, ChunkInv
<1>3. chunks' = chunks \ Due /\ UNCHANGED <<buffered, pending>>
  BY Zenon DEF Drain, readVars
<1>4. output \in Seq(Intervals) /\ Len(output) \in Nat BY DEF MuxInv, ReadInv
<1>5. output' \in Seq(Intervals) /\ Len(output') = Len(output) + 1
      /\ (\A i \in 1..Len(output) : output'[i] = output[i]) /\ output'[Len(output) + 1] = c.bytes
  BY <1>1, <1>2, <1>4, BytesType
<1>6. \A x : (\E i \in 1..Len(output') : x \in BytesIn(output'[i]))
               <=> (\E i \in 1..Len(output) : x \in BytesIn(output[i])) \/ x \in BytesIn(c.bytes)
  <2>1. \A i \in 1..Len(output') : i \in 1..Len(output) \/ i = Len(output) + 1
    BY <1>4, <1>5
  <2>2. \A i \in 1..Len(output) : i \in 1..Len(output') BY <1>4, <1>5
  <2>3. Len(output) + 1 \in 1..Len(output') BY <1>4, <1>5
  <2> QED BY <1>5, <2>1, <2>2, <2>3, Zenon
<1>7. \A x : (\E d \in chunks : x \in BytesIn(d.bytes))
               <=> (\E d \in chunks' : x \in BytesIn(d.bytes)) \/ x \in BytesIn(c.bytes)
  BY <1>1, <1>2, <1>3, Zenon DEF Due
<1>8. \A x : x \in HeldBytes' <=> x \in HeldBytes
  BY <1>3, <1>4, <1>5, <1>6, <1>7, HeldMember, HeldMemberNext, Zenon
<1>9. HeldBytes' = HeldBytes BY <1>8, Zenon
<1> QED BY <1>3, <1>9, Zenon DEF BufferAccounting

(* Read uncounts what it returns: bytes read + 1 to h are held in front of  *)
(* all others, and Take returns the first of them.                          *)
LEMMA CountTake ==
  ASSUME NEW h \in 0..Total, NEW m \in 1..MaxRead, read \in Nat, read < h,
         Take(Interval(read + 1, h), m), BufferAccounting,
         NEW Rest \in SUBSET (1..Total), \A x \in Rest : x > h,
         HeldBytes = Rest \cup ((read + 1)..h), HeldBytes' = Rest \cup BytesIn(pending')
  PROVE  BufferAccounting'
<1>1. PICK n : n = Copied(Interval(read + 1, h), m) BY Zenon
<1>2. n \in Nat /\ 1 <= n /\ read + n <= h
  <2>1. Size(Interval(read + 1, h)) = h - read /\ h \in Nat
    BY ConstantFacts DEF Size, Interval
  <2>2. n = IF h - read < m THEN h - read ELSE m BY <1>1, <2>1, Zenon DEF Copied
  <2> QED BY <2>1, <2>2, ConstantFacts
<1>3. pending' = Interval(read + 1 + n, h) /\ buffered' = buffered - n
  BY <1>1, Zenon DEF Take, Interval
<1>4. BytesIn(pending') = (read + 1 + n)..h BY <1>3, Zenon DEF BytesIn, Interval
<1> DEFINE out == (read + 1)..(read + n)
<1>5. HeldBytes' = HeldBytes \ out
  <2>1. \A x \in Rest : x \notin out BY <1>2, ConstantFacts
  <2>2. (read + 1 + n)..h = ((read + 1)..h) \ out BY <1>2, ConstantFacts
  <2> QED BY <1>4, <2>1, <2>2, Zenon
<1>6. HeldBytes \cap out = out BY <1>2, ConstantFacts
<1>7. IsFiniteSet(HeldBytes)
  <2>1. HeldBytes \subseteq 1..Total BY ConstantFacts
  <2>2. IsFiniteSet(1..Total) BY FS_Interval, ConstantFacts
  <2> QED BY <2>1, <2>2, FS_Subset, Zenon
<1>8. Cardinality(out) = n
  <2>1. read + 1 \in Int /\ read + n \in Int /\ ~(read + 1 > read + n) BY <1>2
  <2>2. Cardinality(out) = IF read + 1 > read + n THEN 0 ELSE (read + n) - (read + 1) + 1
    BY <2>1, FS_Interval, Zenon
  <2> QED BY <1>2, <2>1, <2>2
<1> HIDE DEF out
<1>9. Cardinality(HeldBytes \ out) = Cardinality(HeldBytes) - Cardinality(HeldBytes \cap out)
  BY <1>7, FS_Difference, Zenon
<1> QED BY <1>3, <1>5, <1>6, <1>8, <1>9, Zenon DEF BufferAccounting

(* Everything but the bytes that Read looks at comes after them. *)
LEMMA CountRead ==
  ASSUME MuxInv, SeqInv, BufferAccounting, NEW m \in 1..MaxRead,
  ReadPending(m) \/ ReadChunk(m)
  PROVE  BufferAccounting'
<1>a. /\ output \in Seq(Intervals) /\ Len(output) \in Nat /\ nextSeq = Base + Len(output)
      /\ Base \in Nat /\ nextSeq \in Nat /\ read \in Nat
      /\ read <= EndOf(Base) /\ pending = Interval(read + 1, EndOf(Base))
  BY DEF MuxInv, ReadInv, ChunkInv, Base
<1>b. EndOf(Base) \in 0..Total /\ EndOf(Base + 1) \in 0..Total BY <1>a, EndStep, Zenon
<1>c. Size(pending) = EndOf(Base) - read BY <1>a, <1>b, ConstantFacts DEF Size, Interval
<1>d. ASSUME NEW b \in Nat, NEW k \in Nat, b <= k, NEW x \in BytesIn(BytesOf(k))
      PROVE  x \in 1..Total /\ x > EndOf(b)
  <2>1. EndOf(b) <= EndOf(k) BY <1>d, EndMonotone, Zenon
  <2>2. EndOf(b) \in 0..Total /\ EndOf(k) \in 0..Total BY EndStep, Zenon
  <2>3. x \in (EndOf(k) + 1)..EndOf(k + 1) /\ x \in 1..Total BY ChunkBytes, Zenon
  <2> QED BY <2>1, <2>2, <2>3, ConstantFacts
<1>e. ASSUME NEW c \in chunks, NEW x \in BytesIn(c.bytes), NEW b \in Nat, b <= nextSeq
      PROVE  x \in 1..Total /\ x > EndOf(b)
  <2>1. c.seq \in Nat /\ c.bytes = BytesOf(c.seq) /\ c.seq >= nextSeq
    BY Zenon DEF MuxInv, ChunkInv, SeqInv
  <2>2. b <= c.seq BY <1>a, <1>e, <2>1
  <2> QED BY <1>d, <2>1, <2>2, Zenon
<1>f. ASSUME NEW i \in 1..Len(output), NEW x \in BytesIn(output[i]), NEW b \in Nat, b <= Base + i - 1
      PROVE  x \in 1..Total /\ x > EndOf(b)
  <2>1. output[i] = BytesOf(Base + i - 1) BY Zenon DEF MuxInv, ReadInv
  <2>2. Base + i - 1 \in Nat BY <1>a
  <2> QED BY <1>d, <1>f, <2>1, <2>2, Zenon
<1>1. CASE ReadPending(m)
  <2>1. Size(pending) > 0 /\ Take(Interval(read + 1, EndOf(Base)), m) /\ UNCHANGED output
    BY <1>1, <1>a, Zenon DEF ReadPending
  <2>2. UNCHANGED chunks BY <2>1, Zenon DEF Take, pushVars
  <2>3. read < EndOf(Base) BY <1>a, <1>b, <1>c, <2>1, ConstantFacts
  <2> DEFINE Rest == {x \in 1..Total : \/ \E c \in chunks : x \in BytesIn(c.bytes)
                                       \/ \E i \in 1..Len(output) : x \in BytesIn(output[i])}
  <2>4. \A x : x \in Rest <=> \/ \E c \in chunks : x \in BytesIn(c.bytes)
                              \/ \E i \in 1..Len(output) : x \in BytesIn(output[i])
    <3>1. Base <= nextSeq BY <1>a
    <3>2. \A i \in 1..Len(output) : Base <= Base + i - 1 BY <1>a
    <3> QED BY <1>a, <1>e, <1>f, <3>1, <3>2, Zenon
  <2>5. \A x \in Rest : x > EndOf(Base)
    <3>1. Base <= nextSeq BY <1>a
    <3>2. \A i \in 1..Len(output) : Base <= Base + i - 1 BY <1>a
    <3> QED BY <1>a, <1>e, <1>f, <2>4, <3>1, <3>2
  <2>6. Rest \in SUBSET (1..Total) BY Zenon
  <2> HIDE DEF Rest
  <2>7. BytesIn(pending) = (read + 1)..EndOf(Base) BY <1>a, Zenon DEF BytesIn, Interval
  <2>8. \A x : x \in HeldBytes <=> x \in Rest \/ x \in (read + 1)..EndOf(Base)
    BY <1>a, <2>4, <2>7, HeldMember, Zenon
  <2>9. \A x : x \in HeldBytes' <=> x \in Rest \/ x \in BytesIn(pending')
    BY <1>a, <2>1, <2>2, <2>4, HeldMemberNext, Zenon
  <2>10. HeldBytes = Rest \cup ((read + 1)..EndOf(Base)) BY <2>8, Zenon
  <2>11. HeldBytes' = Rest \cup BytesIn(pending') BY <2>9, Zenon
  <2> QED BY <1>a, <1>b, <2>1, <2>3, <2>5, <2>6, <2>10, <2>11, CountTake,
             Zenon
<1>2. CASE ReadChunk(m)
  <2>1. Size(pending) = 0 /\ output # <<>> /\ Take(Head(output), m) /\ output' = Tail(output)
    BY <1>2, Zenon DEF ReadChunk
  <2>2. UNCHANGED chunks BY <2>1, Zenon DEF Take, pushVars
  <2>3. read = EndOf(Base) BY <1>a, <1>b, <1>c, <2>1, ConstantFacts, SMTT(30)
  <2>4. 1 \in 1..Len(output) /\ Head(output) = output[1] BY <1>a, <2>1
  <2>5. output[1] = Interval(read + 1, EndOf(Base + 1)) /\ read < EndOf(Base + 1)
    <3>1. /\ output[1] = BytesOf(Base + 1 - 1)
          /\ output[1].lo <= output[1].hi
      BY <2>4, Zenon DEF MuxInv, ReadInv
    <3>2. Base + 1 - 1 = Base BY <1>a
    <3>3. output[1] = Interval(read + 1, EndOf(Base + 1))
      BY <2>3, <3>1, <3>2, Zenon DEF BytesOf
    <3>4. read + 1 <= EndOf(Base + 1) BY <3>1, <3>3 DEF Interval
    <3> QED BY <1>a, <1>b, <3>3, <3>4, ConstantFacts
  <2>6. /\ output' \in Seq(Intervals) /\ Len(output') = Len(output) - 1
        /\ \A i \in 1..Len(output') : output'[i] = output[i + 1]
    BY <1>a, <2>1
  <2> DEFINE Rest == {x \in 1..Total : \/ \E c \in chunks : x \in BytesIn(c.bytes)
                                       \/ \E i \in 2..Len(output) : x \in BytesIn(output[i])}
  <2>a. Base + 1 <= nextSeq /\ Base + 1 \in Nat BY <1>a, <2>4
  <2>b. \A i \in 2..Len(output) : i \in 1..Len(output) /\ Base + 1 <= Base + i - 1 BY <1>a
  <2>7. \A x : x \in Rest <=> \/ \E c \in chunks : x \in BytesIn(c.bytes)
                              \/ \E i \in 2..Len(output) : x \in BytesIn(output[i])
    BY <1>e, <1>f, <2>a, <2>b, Zenon
  <2>8. \A x \in Rest : x > EndOf(Base + 1) BY <1>e, <1>f, <2>7, <2>a, <2>b, Zenon
  <2>9. Rest \in SUBSET (1..Total) BY Zenon
  <2> HIDE DEF Rest
  <2>10. BytesIn(pending) = {} /\ BytesIn(output[1]) = (read + 1)..EndOf(Base + 1)
    BY <1>a, <1>b, <2>3, <2>5, ConstantFacts DEF BytesIn, Interval
  <2>11. \A i : i \in 1..Len(output) <=> i = 1 \/ i \in 2..Len(output) BY <1>a, <2>4
  <2>12. \A x : x \in HeldBytes <=> x \in Rest \/ x \in (read + 1)..EndOf(Base + 1)
    BY <1>a, <2>7, <2>10, <2>11, HeldMember, Zenon
  <2>13. \A x : (\E i \in 1..Len(output') : x \in BytesIn(output'[i]))
                  <=> (\E i \in 2..Len(output) : x \in BytesIn(output[i]))
    <3>1. \A i \in 1..Len(output') : i + 1 \in 2..Len(output) BY <1>a, <2>6
    <3>2. \A i \in 2..Len(output) : i - 1 \in 1..Len(output') /\ (i - 1) + 1 = i
      BY <1>a, <2>6
    <3> QED BY <2>6, <3>1, <3>2, Zenon
  <2>14. \A x : x \in HeldBytes' <=> x \in Rest \/ x \in BytesIn(pending')
    BY <2>2, <2>6, <2>7, <2>13, HeldMemberNext, Zenon
  <2>15. HeldBytes = Rest \cup ((read + 1)..EndOf(Base + 1)) BY <2>12, Zenon
  <2>16. HeldBytes' = Rest \cup BytesIn(pending') BY <2>14, Zenon
  <2>17. Take(Interval(read + 1, EndOf(Base + 1)), m) BY <2>1, <2>4, <2>5, Zenon
  <2> QED BY <1>a, <1>b, <2>5, <2>8, <2>9, <2>15, <2>16, <2>17, CountTake,
             Zenon
<1> QED BY <1>1, <1>2, Zenon

(* The flow controller's count, on which Push pauses, is the number of      *)
(* bytes held for the reader, in whatever order chunks arrive and however   *)
(* Push and Read interleave, as long as one Write uses the Reassembler.     *)
THEOREM BufferTheorem == ASSUME SingleWrite PROVE Spec => []BufferAccounting
<1>1. Init => MuxInv /\ SeqInv /\ BufferAccounting
  <2> SUFFICES ASSUME Init PROVE SeqInv /\ BufferAccounting BY MuxInit, Zenon
  <2>1. SeqInv BY DEF Init, SeqInv
  <2>2. HeldBytes = {} BY DEF Init, HeldBytes, BytesIn, Interval
  <2> QED BY <2>1, <2>2, FS_EmptySet, Zenon DEF Init, BufferAccounting
<1>2. MuxInv /\ SeqInv /\ BufferAccounting /\ [Next]_vars => MuxInv' /\ SeqInv' /\ BufferAccounting'
  <2> SUFFICES ASSUME MuxInv, SeqInv, BufferAccounting, [Next]_vars
               PROVE  MuxInv' /\ SeqInv' /\ BufferAccounting'
    BY Zenon
  <2>1. MuxInv' BY StreamStep, Zenon
  <2>2. SeqInv' BY SeqWrite, SeqPush, SeqRest, Zenon DEF Next, Writer, Push
  <2>3. CASE UNCHANGED <<chunks, output, pending, buffered>>
    BY <2>1, <2>2, <2>3 DEF BufferAccounting, HeldBytes, BytesIn
  <2>4. WriteChunk \/ WriteFails \/ PushEnd \/ ReadEOF \/ UNCHANGED vars
          => UNCHANGED <<chunks, output, pending, buffered>>
    BY Zenon DEF WriteChunk, WriteFails, PushEnd, ReadEOF, vars, pushVars, readVars
  <2> QED BY <2>1, <2>2, <2>3, <2>4, CountPush, CountDrain, CountRead, Zenon DEF Next,
             Writer, Push, Reader
<1> QED BY <1>1, <1>2, PTL DEF Spec

-----------------------------------------------------------------------------
(* Nothing is lost: a chunk that was written is under way, waits in the     *)
(* Reassembler, or has been handed on.                                      *)
UnderWay(k) == \E p \in Paths : \E i \in 1..Len(path[p]) : path[p][i].seq = k
Waits(k) == \E c \in chunks : c.seq = k
Accounted == \A k \in Nat : EndOf(k) < pos => k < nextSeq \/ Waits(k) \/ UnderWay(k)

(* The writer loses no chunk. *)
LEMMA AccountWrite ==
  ASSUME SingleWrite, MuxInv, Accounted, WriteChunk
  PROVE  Accounted'
<1>1. write = 1 /\ pos = EndOf(seq) /\ pos < Total /\ seq \in Nat /\ nextConn \in Nat
  <2>1. write <= 1 BY Zenon DEF WriteChunk, SingleWrite
  <2> QED BY <2>1 DEF MuxInv, WriterInv
<1>2. /\ path' = [path EXCEPT ![nextConn % Conns] = Append(@, Frame)]
      /\ pos' = pos + ChunkLen /\ UNCHANGED <<chunks, nextSeq>>
      /\ Frame.seq = seq
  BY Zenon DEF WriteChunk, pushVars, Frame
<1>3. nextConn % Conns \in Paths BY <1>1, ConstantFacts DEF Paths
<1>4. pos' = EndOf(seq + 1)
  <2>1. Ends[write] = Total BY <1>1, Zenon DEF SingleWrite, Total
  <2>2. ChunkLen = IF Total - pos > ChunkSize THEN ChunkSize ELSE Total - pos
    BY <2>1, Zenon DEF ChunkLen
  <2>3. /\ EndOf(seq) \in 0..Total
        /\ EndOf(seq + 1) = IF pos + ChunkSize <= Total THEN pos + ChunkSize ELSE Total
    BY <1>1, EndStep, Zenon
  <2> QED BY <1>1, <1>2, <2>2, <2>3, ConstantFacts
<1>5. path[nextConn % Conns] \in Seq(Frames) /\ path \in [Paths -> Seq(Frames)]
  BY <1>3, Zenon DEF MuxInv, PathInv
<1>6. ASSUME NEW k \in Nat, UnderWay(k) PROVE UnderWay(k)'
  <2>0. PICK p \in Paths : \E i \in 1..Len(path[p]) : path[p][i].seq = k
    BY <1>6, Zenon DEF UnderWay
  <2>1. PICK i \in 1..Len(path[p]) : path[p][i].seq = k BY <2>0, Zenon
  <2>2. path[p] \in Seq(Frames) BY <1>5, Zenon
  <2>3. i \in 1..Len(path'[p]) /\ path'[p][i] = path[p][i]
    <3>1. CASE p = nextConn % Conns
      <4>1. path'[p] = Append(path[p], Frame) BY <1>2, <1>5, <3>1, Zenon
      <4> QED BY <2>2, <4>1
    <3>2. CASE p # nextConn % Conns
      <4>1. path'[p] = path[p] BY <1>2, <1>5, <3>2, Zenon
      <4> QED BY <4>1, Zenon
    <3> QED BY <3>1, <3>2, Zenon
  <2> QED BY <2>1, <2>3, Zenon DEF UnderWay
<1>7. ASSUME NEW k \in Nat, k = seq PROVE UnderWay(k)'
  <2> DEFINE q == nextConn % Conns
             n == Len(path[q]) + 1
  <2>1. path'[q] = Append(path[q], Frame) BY <1>2, <1>3, <1>5, Zenon
  <2>2. n \in 1..Len(path'[q]) /\ path'[q][n] = Frame BY <1>5, <2>1
  <2>3. path'[q][n].seq = k BY <1>2, <1>7, <2>2, Zenon
  <2> HIDE DEF q, n
  <2>4. q \in Paths BY <1>3, Zenon DEF q
  <2> QED BY <2>2, <2>3, <2>4, Zenon DEF UnderWay
<1>8. ASSUME NEW k \in Nat, EndOf(k) < pos' PROVE k = seq \/ EndOf(k) < pos
  <2>1. /\ EndOf(k) \in 0..Total /\ EndOf(k + 1) \in 0..Total
        /\ EndOf(seq) \in 0..Total /\ EndOf(seq + 1) \in 0..Total
    BY <1>1, EndStep, Zenon
  <2>2. CASE k > seq
    <3>1. seq + 1 \in Nat /\ seq + 1 <= k BY <1>1, <2>2
    <3>2. EndOf(seq + 1) <= EndOf(k) BY <3>1, EndMonotone
    <3> QED BY <1>4, <1>8, <2>1, <3>2, ConstantFacts
  <2>3. CASE k < seq
    <3>1. k + 1 \in Nat /\ k + 1 <= seq BY <1>1, <2>3
    <3>2. EndOf(k + 1) <= EndOf(seq) BY <1>1, <3>1, EndMonotone
    <3>3. EndOf(k + 1) = IF EndOf(k) + ChunkSize <= Total THEN EndOf(k) + ChunkSize ELSE Total
      BY EndStep
    <3>4. EndOf(k + 1) < Total BY <1>1, <2>1, <3>2, ConstantFacts
    <3>5. EndOf(k + 1) = EndOf(k) + ChunkSize BY <2>1, <3>3, <3>4, ConstantFacts
    <3> QED BY <1>1, <2>1, <3>2, <3>5, ConstantFacts
  <2> QED BY <1>1, <2>2, <2>3
<1>9. \A k \in Nat : Waits(k) => Waits(k)' BY <1>2, Zenon DEF Waits
<1> QED BY <1>2, <1>6, <1>7, <1>8, <1>9, Zenon DEF Accounted

(* The arrival of a frame loses no chunk: one that Push drops has been      *)
(* handed on.                                                               *)
LEMMA AccountPush ==
  ASSUME MuxInv, Accounted, NEW p \in Paths, PushBegin(p)
  PROVE  Accounted'
<1> DEFINE f == Head(path[p])
<1>1. path[p] \in Seq(Frames) /\ path[p] # <<>> /\ path \in [Paths -> Seq(Frames)]
  BY Zenon DEF PushBegin, MuxInv, PathInv
<1>2. /\ path' = [path EXCEPT ![p] = Tail(@)]
      /\ UNCHANGED <<pos, nextSeq>>
      /\ \/ f.seq < nextSeq /\ UNCHANGED chunks
         \/ chunks' = {c \in chunks : c.seq # f.seq}
                        \cup {[seq |-> f.seq, bytes |-> Visible(f)]}
  BY Zenon DEF PushBegin, writerVars
<1> HIDE DEF f
<1>3. ASSUME NEW k \in Nat, k = f.seq PROVE k < nextSeq \/ Waits(k)'
  <2>1. CASE chunks' = {c \in chunks : c.seq # f.seq} \cup {[seq |-> f.seq, bytes |-> Visible(f)]}
    <3>1. [seq |-> f.seq, bytes |-> Visible(f)] \in chunks' BY <2>1, Zenon
    <3>2. [seq |-> f.seq, bytes |-> Visible(f)].seq = k BY <1>3
    <3> QED BY <3>1, <3>2, Zenon DEF Waits
  <2> QED BY <1>2, <1>3, <2>1, Zenon
<1>4. ASSUME NEW k \in Nat, Waits(k), k # f.seq PROVE Waits(k)'
  <2>1. PICK c \in chunks : c.seq = k BY <1>4, Zenon DEF Waits
  <2>2. c \in chunks' BY <1>2, <1>4, <2>1, Zenon
  <2> QED BY <2>1, <2>2, Zenon DEF Waits
<1>5. ASSUME NEW k \in Nat, UnderWay(k), k # f.seq PROVE UnderWay(k)'
  <2>0. PICK q \in Paths : \E i \in 1..Len(path[q]) : path[q][i].seq = k
    BY <1>5, Zenon DEF UnderWay
  <2>1. PICK i \in 1..Len(path[q]) : path[q][i].seq = k BY <2>0, Zenon
  <2>2. CASE q # p
    <3>1. path'[q] = path[q] BY <1>1, <1>2, <2>2, Zenon
    <3> QED BY <2>1, <3>1, Zenon DEF UnderWay
  <2>3. CASE q = p
    <3>1. path'[p] = Tail(path[p]) BY <1>1, <1>2, Zenon
    <3>2. i # 1 BY <1>1, <1>5, <2>1, <2>3 DEF f
    <3>3. i - 1 \in 1..Len(path'[p]) /\ path'[p][i - 1] = path[p][i]
      BY <1>1, <2>1, <2>3, <3>1, <3>2
    <3> QED BY <2>1, <2>3, <3>3, Zenon DEF UnderWay
  <2> QED BY <2>2, <2>3, Zenon
<1> QED BY <1>2, <1>3, <1>4, <1>5, Zenon DEF Accounted

(* The other steps lose no chunk: the one that leaves the map is handed on. *)
LEMMA AccountRest ==
  ASSUME MuxInv, Accounted, Drain \/ PushEnd \/ WriteFails \/ Reader \/ UNCHANGED vars
  PROVE  Accounted'
<1>1. UNCHANGED <<path, pos>>
  BY Zenon DEF Drain, PushEnd, WriteFails, Reader, ReadPending, ReadChunk, ReadEOF, Take,
     vars, writerVars
<1>2. CASE Drain
  <2>1. chunks' = chunks \ Due /\ nextSeq' = nextSeq + 1 BY <1>2, Zenon DEF Drain
  <2>2. nextSeq \in Nat BY Zenon DEF MuxInv, ChunkInv
  <2>3. ASSUME NEW k \in Nat, Waits(k), ~(k < nextSeq') PROVE Waits(k)'
    <3>1. PICK c \in chunks : c.seq = k BY <2>3, Zenon DEF Waits
    <3>2. k # nextSeq BY <2>1, <2>2, <2>3
    <3>3. c \in chunks' BY <2>1, <3>1, <3>2, Zenon DEF Due
    <3> QED BY <3>1, <3>3, Zenon DEF Waits
  <2>4. \A k \in Nat : k < nextSeq => k < nextSeq' BY <2>1, <2>2
  <2> QED BY <1>1, <2>3, <2>4, Zenon DEF Accounted, UnderWay
<1>3. CASE PushEnd \/ WriteFails \/ Reader \/ UNCHANGED vars
  <2>1. UNCHANGED <<chunks, nextSeq>>
    BY <1>3, Zenon DEF PushEnd, WriteFails, Reader, ReadPending, ReadChunk, ReadEOF, Take,
       vars, pushVars
  <2> QED BY <1>1, <2>1, Zenon DEF Accounted, Waits, UnderWay
<1> QED BY <1>2, <1>3, Zenon

(* When nothing is under way, no due chunk is held back and the reader has  *)
(* taken what it was given, it has read all that was sent.                  *)
LEMMA QuietRead ==
  ASSUME MuxInv, Accounted
  PROVE  QuietMeansRead
<1> SUFFICES ASSUME Quiet PROVE read = pos BY Zenon DEF QuietMeansRead
<1>1. nextSeq \in Nat /\ Base = nextSeq BY DEF MuxInv, ChunkInv, Base, Quiet
<1>2. ~Waits(nextSeq) BY Zenon DEF Quiet, Due, Waits
<1>3. ~UnderWay(nextSeq) BY DEF Quiet, UnderWay
<1>4. ~(EndOf(nextSeq) < pos) BY <1>1, <1>2, <1>3 DEF Accounted
<1>5. EndOf(nextSeq) \in 0..Total /\ pos \in 0..Total BY <1>1, EndStep, PosType, Zenon DEF MuxInv
<1>6. read \in Nat /\ read <= EndOf(nextSeq) /\ EndOf(nextSeq) <= pos
      /\ Size(pending) = EndOf(nextSeq) - read
  BY <1>1, <1>5, ConstantFacts DEF MuxInv, ReadInv, Size, Interval
<1> QED BY <1>4, <1>5, <1>6, ConstantFacts DEF Quiet

(* Reassembly loses nothing: only frames still under way, chunks a full     *)
(* window holds back and bytes handed on but not yet read separate what was *)
(* read from what was sent.                                                 *)
THEOREM NothingLostTheorem == ASSUME SingleWrite PROVE Spec => []QuietMeansRead
<1>1. Init => MuxInv /\ Accounted
  <2> SUFFICES ASSUME Init PROVE Accounted BY MuxInit, Zenon
  <2>1. pos = 0 BY Zenon DEF Init
  <2>2. \A k \in Nat : EndOf(k) \in 0..Total BY EndStep, Zenon
  <2> QED BY <2>1, <2>2, ConstantFacts DEF Accounted
<1>2. MuxInv /\ Accounted /\ [Next]_vars => MuxInv' /\ Accounted'
  BY StreamStep, AccountWrite, AccountPush, AccountRest, Zenon DEF Next, Writer, Push
<1>3. MuxInv /\ Accounted => QuietMeansRead BY QuietRead, Zenon
<1> QED BY <1>1, <1>2, <1>3, PTL DEF Spec

=============================================================================
