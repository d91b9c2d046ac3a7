---------------------------- MODULE TunnelProofs -----------------------------
(* What DecodeNextHop makes of a header EncodeHeader has written, and from  *)
(* it that a tunnel is faithful and acts as one connection, for any         *)
(* padding, amount of payload, number of heartbeats and failures.           *)
EXTENDS Tunnel, TLAPS

USE EntryAssumption

(* Concatenation under a name of its own, so that the facts below are all   *)
(* a prover sees of it.                                                     *)
Then(s, t) == s \o t

(* Two sequences in a row: the length. *)
LEMMA ThenLength ==
  ASSUME NEW U, NEW s \in Seq(U), NEW t \in Seq(U)
  PROVE  Then(s, t) \in Seq(U) /\ Len(Then(s, t)) = Len(s) + Len(t)
  BY DEF Then

(* Two sequences in a row: the elements of the first keep their place. *)
LEMMA ThenFirst ==
  ASSUME NEW U, NEW s \in Seq(U), NEW t \in Seq(U)
  PROVE  \A i \in 1..Len(s) : Then(s, t)[i] = s[i]
  BY DEF Then

(* Two sequences in a row: the elements of the second follow. *)
LEMMA ThenSecond ==
  ASSUME NEW U, NEW s \in Seq(U), NEW t \in Seq(U)
  PROVE  \A i \in 1..Len(t) : Then(s, t)[Len(s) + i] = t[i]
  BY DEF Then

(* The same for what is left of a sequence after its first k elements. *)
Rest(s, k) == SubSeq(s, k + 1, Len(s))

(* Nothing added at the end. *)
LEMMA ThenNothing ==
  ASSUME NEW U, NEW s \in Seq(U), NEW a, NEW b
  PROVE  (<<a, b>> \o s) \o << >> = <<a, b>> \o s
<1>1. <<a, b>> \o s \in Seq(U \cup {a, b})
  <2>1. s \in Seq(U \cup {a, b}) /\ <<a, b>> \in Seq(U \cup {a, b})
    OBVIOUS
  <2> QED
    BY <2>1
<1> QED
  BY <1>1

(* A function on 1..w is a sequence of length w. *)
LEMMA FunctionIsSeq ==
  ASSUME NEW f, NEW w \in Nat, f = [k \in 1..w |-> f[k]]
  PROVE  f \in Seq({f[k] : k \in 1..w}) /\ Len(f) = w
  OBVIOUS

(* The place of an entry's cells, one entry further on. *)
LEMMA EntryPlace ==
  ASSUME NEW e \in Nat \ {0}, NEW k \in Nat
  PROVE  (e + k) \div e = 1 + (k \div e) /\ (e + k) % e = k % e
<1>1. (e + k) \div e = 1 + (k \div e)
  OBVIOUS
<1>2. /\ k % e = k - (e * (k \div e))
      /\ (e + k) % e = (e + k) - (e * ((e + k) \div e))
  OBVIOUS
<1>3. e * (1 + (k \div e)) = e + (e * (k \div e))
  OBVIOUS
<1> QED
  BY <1>1, <1>2, <1>3

(* The entry DecodeNextHop reads, cell by cell. *)
LEMMA NextHopCells ==
  ASSUME NEW s
  PROVE  NextHop(s) = [i \in 1..EntryCells |-> s[2 + i]]
<1>1. PICK n \in Nat : n = 2 + EntryCells
  OBVIOUS
<1>2. NextHop(s) = SubSeq(s, 3, n)
  BY <1>1, Zenon DEF NextHop
<1>3. SubSeq(s, 3, n) = [i \in 1..(1 + n - 3) |-> s[i + 3 - 1]]
  OBVIOUS
<1>4. 1 + n - 3 = EntryCells /\ \A i \in 1..EntryCells : i + 3 - 1 = 2 + i
  BY <1>1
<1> QED
  BY <1>2, <1>3, <1>4, Zenon

(* l elements of s from the one after s[o]. *)
From(s, o, l) == [i \in 1..l |-> s[o + i]]

(* What is left of the stream after the entry and the padding, cell by cell. *)
LEMMA AfterPaddingCells ==
  ASSUME NEW s, NEW p \in Nat, NEW l \in Nat,
         Len(s) = 2 + EntryCells + p + l, PadLen(s) = p
  PROVE  AfterPadding(s) = From(s, 2 + EntryCells + p, l)
<1>1. PICK m \in Nat : m = 3 + EntryCells + p
  OBVIOUS
<1>2. PICK n \in Nat : n = Len(s)
  OBVIOUS
<1>3. AfterPadding(s) = SubSeq(s, m, n)
  BY <1>1, <1>2, Zenon DEF AfterPadding
<1>4. SubSeq(s, m, n) = [i \in 1..(1 + n - m) |-> s[i + m - 1]]
  OBVIOUS
<1>5. 1 + n - m = l /\ \A i \in 1..l : i + m - 1 = 2 + EntryCells + p + i
  BY <1>1, <1>2
<1> QED
  BY <1>3, <1>4, <1>5, Zenon DEF From

(* The stream that carries the header of a chain, then rest. *)
Stream(chain, pad, rest) == EncodeHeader(chain, pad) \o rest

(* Where its cells are. *)
Laid(cells, chain, pad, rest) ==
  /\ Len(cells) = 2 + (Len(chain) * EntryCells) + pad + Len(rest)
  /\ cells[1] = Magic /\ cells[2] = Fields(Len(chain), pad)
  /\ \A i \in 1..(Len(chain) * EntryCells) : cells[2 + i] = HopEntries(chain)[i]
  /\ \A i \in 1..Len(rest) :
       cells[2 + (Len(chain) * EntryCells) + pad + i] = rest[i]

(* EncodeHeader lays the cells out that way. *)
LEMMA HeaderLaid ==
  ASSUME NEW Addr, NEW Cell,
         NEW chain \in Seq(Addr), NEW pad \in Nat, NEW rest \in Seq(Cell)
  PROVE  Laid(Stream(chain, pad, rest), chain, pad, rest)
<1> DEFINE cells == Stream(chain, pad, rest)
           entries == HopEntries(chain)
           pads == Padding(pad)
           fixed == <<Magic, Fields(Len(chain), pad)>>
<1>1. PICK w \in Nat : w = Len(chain) * EntryCells
  OBVIOUS
<1>2. /\ entries \in Seq({entries[k] : k \in 1..w})
      /\ Len(entries) = w
  <2>1. entries = [k \in 1..w |-> entries[k]]
    BY <1>1, Zenon DEF HopEntries
  <2> HIDE DEF entries
  <2> QED
    BY <2>1, FunctionIsSeq, Zenon
<1>3. /\ pads \in Seq({<<"pad">>})
      /\ Len(pads) = pad
  BY DEF Padding
<1>4. /\ fixed \in Seq({Magic, Fields(Len(chain), pad)})
      /\ Len(fixed) = 2 /\ fixed[1] = Magic /\ fixed[2] = Fields(Len(chain), pad)
  OBVIOUS
<1>5. cells = Then(Then(Then(fixed, entries), pads), rest)
  BY Zenon DEF EncodeHeader, Stream, Then
<1> DEFINE U == {entries[k] : k \in 1..w}
                  \cup {Magic, Fields(Len(chain), pad), <<"pad">>} \cup Cell
           one == Then(fixed, entries)
           two == Then(one, pads)
<1>6. fixed \in Seq(U) /\ entries \in Seq(U) /\ pads \in Seq(U) /\ rest \in Seq(U)
  <2> HIDE DEF entries, pads
  <2> QED
    BY <1>2, <1>3, <1>4
<1> HIDE DEF entries, pads, fixed, cells, U
<1>7. /\ one \in Seq(U)
      /\ Len(one) = 2 + w
      /\ one[1] = Magic /\ one[2] = Fields(Len(chain), pad)
      /\ \A i \in 1..w : one[2 + i] = entries[i]
  <2>1. fixed \in Seq(U) /\ entries \in Seq(U)
    BY <1>6, Zenon
  <2>2. Then(fixed, entries) \in Seq(U) /\ Len(Then(fixed, entries)) = Len(fixed) + Len(entries)
    BY <2>1, ThenLength, Zenon
  <2>3. \A i \in 1..Len(fixed) : Then(fixed, entries)[i] = fixed[i]
    BY <2>1, ThenFirst, Zenon
  <2>4. \A i \in 1..Len(entries) : Then(fixed, entries)[Len(fixed) + i] = entries[i]
    BY <2>1, ThenSecond, Zenon
  <2>5. 1 \in 1..Len(fixed) /\ 2 \in 1..Len(fixed)
    BY <1>4
  <2>6. one[1] = Magic /\ one[2] = Fields(Len(chain), pad)
    BY <2>3, <2>5, <1>4, Zenon
  <2>7. \A i \in 1..w : one[2 + i] = entries[i]
    BY <2>4, <1>2, <1>4, Zenon
  <2> QED
    BY <2>2, <2>6, <2>7, <1>2, <1>4, Zenon
<1> HIDE DEF one
<1>8. /\ two \in Seq(U)
      /\ Len(two) = 2 + w + pad
      /\ \A i \in 1..(2 + w) : two[i] = one[i]
  <2>1. one \in Seq(U) /\ pads \in Seq(U)
    BY <1>6, <1>7, Zenon
  <2>2. Then(one, pads) \in Seq(U) /\ Len(Then(one, pads)) = Len(one) + Len(pads)
    BY <2>1, ThenLength, Zenon
  <2>3. \A i \in 1..Len(one) : Then(one, pads)[i] = one[i]
    BY <2>1, ThenFirst, Zenon
  <2>4. \A i \in 1..Len(pads) : Then(one, pads)[Len(one) + i] = pads[i]
    BY <2>1, ThenSecond, Zenon
  <2> QED
    BY <2>2, <2>3, <2>4, <1>3, <1>7, Zenon
<1> HIDE DEF two
<1>9. /\ cells \in Seq(U)
      /\ Len(cells) = 2 + w + pad + Len(rest)
      /\ \A i \in 1..(2 + w + pad) : cells[i] = two[i]
      /\ \A i \in 1..Len(rest) : cells[2 + w + pad + i] = rest[i]
  <2>1. two \in Seq(U) /\ rest \in Seq(U)
    BY <1>6, <1>8, Zenon
  <2>2. Then(two, rest) \in Seq(U) /\ Len(Then(two, rest)) = Len(two) + Len(rest)
    BY <2>1, ThenLength, Zenon
  <2>3. \A i \in 1..Len(two) : Then(two, rest)[i] = two[i]
    BY <2>1, ThenFirst, Zenon
  <2>4. \A i \in 1..Len(rest) : Then(two, rest)[Len(two) + i] = rest[i]
    BY <2>1, ThenSecond, Zenon
  <2> QED
    BY <2>2, <2>3, <2>4, <1>5, <1>8, Zenon DEF one, two
<1>10. \A i \in 1..w : cells[2 + i] = entries[i]
  <2>1. \A i \in 1..w : 2 + i \in 1..(2 + w) /\ 2 + i \in 1..(2 + w + pad)
    OBVIOUS
  <2> QED
    BY <2>1, <1>7, <1>8, <1>9, Zenon
<1>11. cells[1] = Magic /\ cells[2] = Fields(Len(chain), pad)
  <2>1. /\ 1 \in 1..(2 + w) /\ 2 \in 1..(2 + w)
        /\ 1 \in 1..(2 + w + pad) /\ 2 \in 1..(2 + w + pad)
    OBVIOUS
  <2>2. two[1] = one[1] /\ two[2] = one[2]
    BY <2>1, <1>8, Zenon
  <2>3. cells[1] = two[1] /\ cells[2] = two[2]
    BY <2>1, <1>9, Zenon
  <2> QED
    BY <2>2, <2>3, <1>7, Zenon
<1>12. Laid(cells, chain, pad, rest)
  BY <1>1, <1>9, <1>10, <1>11, Zenon DEF Laid, entries
<1> QED
  BY <1>12, Zenon DEF cells

(* DecodeNextHop at the first node, for any chain, any padding and any      *)
(* payload behind the header: the header is accepted, the hop is the        *)
(* chain's first (as far as an entry holds it), one hop fewer is left, and  *)
(* what remains on the stream for the relay is the payload, all of it and   *)
(* nothing else.                                                            *)
THEOREM FirstHopDecoded ==
  ASSUME NEW Addr, NEW Cell, NEW chain \in Seq(Addr), chain # << >>,
         NEW pad \in Nat, NEW rest \in Seq(Cell)
  PROVE  /\ ~DecodeFails(Stream(chain, pad, rest))
         /\ NextHop(Stream(chain, pad, rest)) = HopEntry(chain[1])
         /\ HopsLeft(Stream(chain, pad, rest)) = Len(chain) - 1
         /\ StreamAfter(Stream(chain, pad, rest)) = rest
<1> DEFINE cells == Stream(chain, pad, rest)
<1>1. Laid(cells, chain, pad, rest)
  BY HeaderLaid, Zenon
<1> HIDE DEF cells
<1>2. PICK n \in Nat \ {0} : n = Len(chain)
  OBVIOUS
<1>3. PICK v \in Nat : v = (n - 1) * EntryCells
  OBVIOUS
<1>4. PICK l \in Nat : l = Len(rest)
  OBVIOUS
<1>5. n * EntryCells = EntryCells + v
  BY <1>3
<1>6. NHops(cells) = n /\ PadLen(cells) = pad
  BY <1>1, <1>2 DEF Laid, NHops, PadLen, Fields
<1>7. ~DecodeFails(cells) /\ HopsLeft(cells) = n - 1
  BY <1>1, <1>6, Zenon DEF Laid, DecodeFails, HopsLeft
<1>8. NextHop(cells) = HopEntry(chain[1])
  <2>1. NextHop(cells) = [i \in 1..EntryCells |-> cells[2 + i]]
    BY NextHopCells, Zenon
  <2>2. HopEntry(chain[1]) = [i \in 1..EntryCells |-> HopEntry(chain[1])[i]]
    BY Zenon DEF HopEntry
  <2>3. \A i \in 1..EntryCells : i \in 1..(n * EntryCells)
    BY <1>5
  <2>4. \A i \in 1..EntryCells : cells[2 + i] = HopEntries(chain)[i]
    BY <1>1, <1>2, <2>3, Zenon DEF Laid
  <2>5. \A i \in 1..EntryCells : HopEntries(chain)[i] = HopEntry(chain[1])[i]
    <3>1. \A k \in 1..EntryCells : (k - 1) \div EntryCells = 0 /\ (k - 1) % EntryCells = k - 1
      OBVIOUS
    <3>2. PICK w \in Nat : w = Len(chain) * EntryCells
      OBVIOUS
    <3>3. HopEntries(chain) = [k \in 1..w |->
            HopEntry(chain[((k - 1) \div EntryCells) + 1])[((k - 1) % EntryCells) + 1]]
      BY <3>2, Zenon DEF HopEntries
    <3>4. \A i \in 1..EntryCells : i \in 1..w
      BY <2>3, <3>2, <1>2, Zenon
    <3> SUFFICES ASSUME NEW i \in 1..EntryCells
                 PROVE  HopEntries(chain)[i] = HopEntry(chain[1])[i]
      BY Zenon
    <3>5. HopEntries(chain)[i] =
            HopEntry(chain[((i - 1) \div EntryCells) + 1])[((i - 1) % EntryCells) + 1]
      BY <3>3, <3>4, Zenon
    <3>6. ((i - 1) \div EntryCells) + 1 = 1 /\ ((i - 1) % EntryCells) + 1 = i
      BY <3>1
    <3> QED
      BY <3>5, <3>6, Zenon
  <2> QED
    BY <2>1, <2>2, <2>4, <2>5, Zenon
<1>9. StreamAfter(cells) = rest
  <2>1. PICK t \in Nat : t = v + l
    OBVIOUS
  <2>2. Len(cells) = 2 + EntryCells + pad + t
    <3>1. Len(cells) = 2 + (n * EntryCells) + pad + l
      BY <1>1, <1>2, <1>4, Zenon DEF Laid
    <3> QED
      BY <3>1, <2>1, <1>5
  <2>3. AfterPadding(cells) = [i \in 1..t |-> cells[2 + EntryCells + pad + i]]
    <3>1. PadLen(cells) = pad
      BY <1>6, Zenon
    <3>2. AfterPadding(cells) = From(cells, 2 + EntryCells + pad, t)
      BY <2>2, <3>1, AfterPaddingCells, Zenon
    <3> QED
      BY <3>2, Zenon DEF From
  <2> DEFINE after == AfterPadding(cells)
  <2>4. Len(after) = t
    BY <2>3
  <2>5. PICK m \in Nat : m = v + 1
    OBVIOUS
  <2>6. StreamAfter(cells) = SubSeq(after, m, t)
    BY <2>4, <2>5, <1>3, <1>7, Zenon DEF StreamAfter
  <2> HIDE DEF after
  <2>7. SubSeq(after, m, t) = [i \in 1..(1 + t - m) |-> after[i + m - 1]]
    OBVIOUS
  <2>8. 1 + t - m = l /\ \A i \in 1..l : i + m - 1 = v + i /\ v + i \in 1..t
    BY <2>1, <2>5
  <2>9. \A i \in 1..l : after[v + i] = cells[2 + EntryCells + pad + (v + i)]
    BY <2>3, <2>8, Zenon DEF after
  <2>10. \A i \in 1..l : cells[2 + (n * EntryCells) + pad + i] = rest[i]
    BY <1>1, <1>2, <1>4, Zenon DEF Laid
  <2>11. \A i \in 1..l : 2 + EntryCells + pad + (v + i) = 2 + (n * EntryCells) + pad + i
    BY <1>5
  <2>12. rest = [i \in 1..l |-> rest[i]]
    BY <1>4
  <2>13. \A i \in 1..l : after[i + m - 1] = rest[i]
    <3> TAKE i \in 1..l
    <3>1. after[i + m - 1] = cells[2 + EntryCells + pad + (v + i)]
      BY <2>8, <2>9, Zenon
    <3>2. cells[2 + EntryCells + pad + (v + i)] = rest[i]
      BY <2>10, <2>11, Zenon
    <3> QED
      BY <3>1, <3>2, Zenon
  <2> QED
    BY <2>6, <2>7, <2>8, <2>12, <2>13, Zenon
<1> QED
  BY <1>2, <1>7, <1>8, <1>9, Zenon DEF cells

(* A relay of a chain without padding: what it sends on (remainingHeader)   *)
(* is what EncodeHeader makes of the rest of the chain, so the next node    *)
(* decodes it as FirstHopDecoded says, and so on down the chain.  With      *)
(* padding this fails at the second hop: DecodeNextHop drops the padding    *)
(* right after the first entry, where the second one is.                    *)
THEOREM UnpaddedRelayed ==
  ASSUME NEW Addr, NEW Cell, NEW chain \in Seq(Addr), chain # << >>,
         NEW rest \in Seq(Cell)
  PROVE  RemainingHeader(Stream(chain, 0, rest)) = EncodeHeader(Tail(chain), 0)
<1> DEFINE cells == Stream(chain, 0, rest)
<1>1. Laid(cells, chain, 0, rest)
  BY HeaderLaid, Zenon
<1> HIDE DEF cells
<1>2. PICK n \in Nat \ {0} : n = Len(chain)
  OBVIOUS
<1>3. PICK v \in Nat : v = (n - 1) * EntryCells
  OBVIOUS
<1>4. PICK l \in Nat : l = Len(rest)
  OBVIOUS
<1>5. n * EntryCells = EntryCells + v
  BY <1>3
<1>6. NHops(cells) = n /\ PadLen(cells) = 0
  BY <1>1, <1>2 DEF Laid, NHops, PadLen, Fields
<1>7. HopsLeft(cells) = n - 1
  BY <1>6, Zenon DEF HopsLeft
<1>8. PICK t \in Nat : t = v + l
  OBVIOUS
<1>9. AfterPadding(cells) = [i \in 1..t |-> cells[2 + EntryCells + i]]
  <2>1. Len(cells) = 2 + (n * EntryCells) + 0 + l
    BY <1>1, <1>2, <1>4, Zenon DEF Laid
  <2>2. PICK p \in Nat : p = 0
    BY Zenon
  <2>3. Len(cells) = 2 + EntryCells + p + t /\ PadLen(cells) = p
    BY <2>1, <2>2, <1>5, <1>6, <1>8
  <2>4. AfterPadding(cells) = From(cells, 2 + EntryCells + p, t)
    BY <2>3, AfterPaddingCells, Zenon
  <2>5. 2 + EntryCells + p = 2 + EntryCells
    BY <2>2
  <2> QED
    BY <2>4, <2>5, Zenon DEF From
<1> DEFINE after == AfterPadding(cells)
           entries == HopEntries(Tail(chain))
<1>10. entries = [k \in 1..v |->
          HopEntry(Tail(chain)[((k - 1) \div EntryCells) + 1])[((k - 1) % EntryCells) + 1]]
  <2>1. Len(Tail(chain)) = n - 1
    BY <1>2
  <2> QED
    BY <2>1, <1>3, Zenon DEF HopEntries
<1>11. \A k \in 1..v : after[k] = entries[k]
  <2> SUFFICES ASSUME NEW k \in 1..v
               PROVE  after[k] = entries[k]
    BY Zenon
  <2>1. after[k] = cells[2 + (EntryCells + k)]
    BY <1>8, <1>9
  <2>2. EntryCells + k \in 1..(n * EntryCells)
    BY <1>5
  <2>3. cells[2 + (EntryCells + k)] = HopEntries(chain)[EntryCells + k]
    BY <2>2, <1>1, <1>2, Zenon DEF Laid
  <2>4. PICK w \in Nat : w = n * EntryCells
    OBVIOUS
  <2>5. HopEntries(chain) = [j \in 1..w |->
          HopEntry(chain[((j - 1) \div EntryCells) + 1])[((j - 1) % EntryCells) + 1]]
    BY <2>4, <1>2, Zenon DEF HopEntries
  <2>6. PICK j \in 1..w : j = EntryCells + k
    BY <2>2, <2>4, Zenon
  <2>7. PICK q \in Nat : q = k - 1
    OBVIOUS
  <2>8. HopEntries(chain)[j] =
          HopEntry(chain[((j - 1) \div EntryCells) + 1])[((j - 1) % EntryCells) + 1]
    BY <2>5, Zenon
  <2>9. j - 1 = EntryCells + q
    BY <2>6, <2>7
  <2>10. /\ (EntryCells + q) \div EntryCells = 1 + (q \div EntryCells)
         /\ (EntryCells + q) % EntryCells = q % EntryCells
    BY EntryPlace, Zenon
  <2>11. (q \div EntryCells) + 1 \in 1..(n - 1)
    BY <2>7, <1>3
  <2>12. Tail(chain)[(q \div EntryCells) + 1] = chain[(1 + (q \div EntryCells)) + 1]
    BY <2>11, <1>2
  <2>13. entries[k] = HopEntry(Tail(chain)[(q \div EntryCells) + 1])[(q % EntryCells) + 1]
    BY <1>10, <2>7, Zenon
  <2> QED
    BY <2>1, <2>3, <2>6, <2>8, <2>9, <2>10, <2>12, <2>13, Zenon
<1>12. SubSeq(after, 1, v) = entries
  <2>1. SubSeq(after, 1, v) = [i \in 1..(1 + v - 1) |-> after[i + 1 - 1]]
    <3> HIDE DEF after
    <3> QED
      OBVIOUS
  <2>2. 1 + v - 1 = v /\ \A i \in 1..v : i + 1 - 1 = i
    OBVIOUS
  <2>3. entries = [k \in 1..v |-> entries[k]]
    BY <1>10, Zenon
  <2> HIDE DEF after, entries
  <2> QED
    BY <2>1, <2>2, <2>3, <1>11, Zenon
<1>13. RemainingHeader(cells) = <<Magic, Fields(n - 1, 0)>> \o entries
  BY <1>3, <1>6, <1>7, <1>12, Zenon DEF RemainingHeader
<1>14. EncodeHeader(Tail(chain), 0) = (<<Magic, Fields(n - 1, 0)>> \o entries) \o << >>
  <2>1. Len(Tail(chain)) = n - 1
    BY <1>2
  <2>2. Padding(0) = << >>
    BY DEF Padding
  <2> QED
    BY <2>1, <2>2, Zenon DEF EncodeHeader
<1>15. (<<Magic, Fields(n - 1, 0)>> \o entries) \o << >> = <<Magic, Fields(n - 1, 0)>> \o entries
  <2>1. PICK e : e = entries
    BY Zenon
  <2>2. e = [k \in 1..v |-> e[k]]
    BY <2>1, <1>10, Zenon
  <2>3. e \in Seq({e[k] : k \in 1..v})
    BY <2>2, FunctionIsSeq, Zenon
  <2> QED
    BY <2>1, <2>3, ThenNothing, Zenon
<1> QED
  BY <1>13, <1>14, <1>15, Zenon DEF cells

-----------------------------------------------------------------------------
(* The inductive invariant of a tunnel. *)

(* A sequence, whatever its elements. *)
IsSeq(s) == Len(s) \in Nat /\ s = [i \in 1..Len(s) |-> s[i]]

(* A payload unit outside a frame. *)
Unit(d, i) == << <<"data", d, i>> >>

(* n payload units of one direction, from the one after unit a. *)
Run(d, a, n) == [i \in 1..n |-> Unit(d, a + i)]

TunnelTypes ==
  /\ chainLen \in 0..2 /\ obfs \in BOOLEAN
  /\ target \in {Address("target", n) : n \in TargetLengths}
  /\ kind \in [Links -> {"none", "tcp", "quic"}]
  /\ stream = [s \in Streams |-> stream[s]]
  /\ handler \in [Nodes -> {"idle", "dial", "decode", "egress", "relay", "wait",
                            "closein", "end"}]
  /\ todo = [n \in Nodes |-> todo[n]]
  /\ relay \in [Relays -> {"none", "run", "done"}]
  /\ sent \in [Dirs -> Nat]

(* How far a session gets: with obfuscation, with a chain of none or of two *)
(* hops no node dials a target.                                             *)
RoleInv ==
  /\ handler[0] \in {"dial", "wait", "closein", "end"}
  /\ handler[2] \in {"idle", "decode", "closein", "end"}
  /\ kind[0] = "tcp" /\ kind[1] # "tcp" /\ kind[3] = "none"
  /\ kind[2] = "tcp" => chainLen = 1 /\ ~obfs
  /\ kind[2] = "quic" => ~obfs
  /\ \A n \in {1, 2} : handler[n] # "idle" => kind[n] = "quic"
  /\ handler[0] = "dial" => kind[1] = "none"
  /\ handler[1] \in {"idle", "decode", "egress", "relay"} => kind[2] = "none"
  /\ handler[1] = "egress" => chainLen = 1 /\ ~obfs /\ todo[1].hop = HopEntry(target)
  /\ handler[1] = "relay" => ~obfs /\ IsSeq(todo[1].header)

(* A node relays once it has dialled. *)
RelayInv ==
  \A d \in Dirs : /\ relay[<<0, d>>] # "none" => kind[1] = "quic"
                  /\ relay[<<1, d>>] # "none" => kind[2] # "none"
                  /\ relay[<<2, d>>] = "none"

(* Only the first link ever has heartbeats. *)
BeatInv == beating \subseteq (IF obfs THEN {<<1, "near">>, <<1, "far">>} ELSE {})

(* The entry an egress has dialled is the target's. *)
EntryInv == dialled = <<>> \/ dialled = HopEntry(target)

(* With obfuscation only heartbeats come back to the ingress. *)
FrameInv ==
  obfs => stream[<<0, "down">>] = <<>> /\ stream[<<1, "down">>] \in Seq({<<>>})

(* What the client has sent is under way in order: before the ingress has   *)
(* dialled, ...                                                             *)
Waiting == stream[<<0, "up">>] = Run("up", 0, sent["up"])

(* ... behind the header on its way to the first node, ... *)
HeadedBy(p, b, c) ==
  /\ b + c = sent["up"]
  /\ stream[<<0, "up">>] = Run("up", b, c)
  /\ stream[<<1, "up">>] = AsUnits(FALSE, EncodeHeader(HopChain, p)) \o Run("up", 0, b)

Headed == \E p \in PadLengths, b, c \in 0..sent["up"] : HeadedBy(p, b, c)

(* ... and once the egress has taken the header. *)
StrippedBy(a, b, c) ==
  /\ a + b + c = sent["up"]
  /\ stream[<<0, "up">>] = Run("up", a + b, c)
  /\ stream[<<1, "up">>] = Run("up", a, b)
  /\ stream[<<2, "up">>] = Run("up", 0, a)

Stripped == \E a, b, c \in 0..sent["up"] : StrippedBy(a, b, c)

(* A stream that begins with the header of an empty chain. *)
Hopless(s) ==
  /\ IsSeq(s) /\ Len(s) >= 2
  /\ s[1] = <<Magic>> /\ s[2] \in {<<Fields(0, p)>> : p \in PadLengths}

UpInv ==
  ~obfs =>
    /\ kind[1] = "none" => Waiting
    /\ kind[1] = "quic" /\ handler[1] \in {"idle", "decode"} => Headed
    /\ handler[1] = "egress" \/ kind[2] = "tcp" => Stripped
    /\ kind[2] = "none" => stream[<<2, "up">>] = <<>>
    /\ kind[2] = "quic" => Hopless(stream[<<2, "up">>])

(* What the target has sent, likewise. *)
ReturnedBy(a, b, c) ==
  /\ a + b + c = sent["down"]
  /\ stream[<<0, "down">>] = Run("down", 0, a)
  /\ stream[<<1, "down">>] = Run("down", a, b)
  /\ stream[<<2, "down">>] = Run("down", a + b, c)

DownInv == ~obfs => \E a, b, c \in 0..sent["down"] : ReturnedBy(a, b, c)

DataInv == FrameInv /\ UpInv /\ DownInv

TunnelInv ==
  TunnelTypes /\ RoleInv /\ RelayInv /\ BeatInv /\ EntryInv /\ DataInv

-----------------------------------------------------------------------------
(* Sequences of payload units. *)

RunUnits(d) == {Unit(d, i) : i \in Nat}

(* The units of a stream, or of a part of it. *)
IsRun(s, d, a, n) == s = Run(d, a, n)

(* A run is a sequence of its length. *)
LEMMA RunSeq ==
  ASSUME NEW d, NEW a \in Nat, NEW n \in Nat
  PROVE  Run(d, a, n) \in Seq(RunUnits(d)) /\ Len(Run(d, a, n)) = n
<1>1. PICK r : r = Run(d, a, n) BY Zenon
<1>2. r = [i \in 1..n |-> Unit(d, a + i)] BY <1>1, Zenon DEF Run
<1>3. \A i \in 1..n : a + i \in Nat OBVIOUS
<1>4. \A i \in 1..n : r[i] \in RunUnits(d) BY <1>2, <1>3, Zenon DEF RunUnits
<1>5. r \in Seq(RunUnits(d)) /\ Len(r) = n BY <1>2, <1>4
<1> QED BY <1>1, <1>5, Zenon

(* Its units. *)
LEMMA RunAt ==
  ASSUME NEW d, NEW a, NEW n
  PROVE  /\ Run(d, a, n) = [i \in 1..n |-> Run(d, a, n)[i]]
         /\ \A i \in 1..n : Run(d, a, n)[i] = Unit(d, a + i)
  BY Zenon DEF Run

(* Nothing under way. *)
LEMMA RunEmpty == ASSUME NEW d, NEW a PROVE Run(d, a, 0) = <<>>
  BY DEF Run

(* One more unit is sent. *)
LEMMA RunAppend ==
  ASSUME NEW d, NEW a \in Nat, NEW n \in Nat
  PROVE  Append(Run(d, a, n), Unit(d, a + n + 1)) = Run(d, a, n + 1)
<1>1. PICK m \in Nat : m = n + 1 OBVIOUS
<1>2. PICK r : r = Run(d, a, n) BY Zenon
<1>3. PICK u : u = Unit(d, a + n + 1) BY Zenon
<1>4. r \in Seq(RunUnits(d)) /\ Len(r) = n BY <1>2, RunSeq, Zenon
<1>a. \A i \in 1..n : r[i] = Unit(d, a + i) BY <1>2, RunAt
<1>5. u \in RunUnits(d)
  <2>1. a + n + 1 \in Nat OBVIOUS
  <2> QED BY <2>1, <1>3, Zenon DEF RunUnits
<1>x. PICK x : x = Append(r, u) BY Zenon
<1>6. /\ x \in Seq(RunUnits(d)) /\ Len(x) = m
      /\ \A i \in 1..n : x[i] = r[i]
      /\ x[m] = u
  BY <1>1, <1>4, <1>5, <1>x
<1>7. a + m = a + n + 1 BY <1>1
<1>8. PICK q : q = Run(d, a, m) BY Zenon
<1>9. q = [i \in 1..m |-> q[i]] /\ \A i \in 1..m : q[i] = Unit(d, a + i)
  BY <1>8, RunAt
<1>10. ASSUME NEW i \in 1..m PROVE x[i] = q[i]
  <2>1. CASE i \in 1..n BY <2>1, <1>a, <1>6, <1>9, Zenon
  <2>2. CASE i = m
    <3>1. q[i] = Unit(d, a + m) BY <2>2, <1>9, Zenon
    <3> QED BY <3>1, <2>2, <1>3, <1>6, <1>7, Zenon
  <2>3. i \in 1..n \/ i = m BY <1>1
  <2> QED BY <2>1, <2>2, <2>3, Zenon
<1>b. x = [i \in 1..m |-> x[i]] BY <1>6
<1>11. x = q BY <1>9, <1>10, <1>b, Zenon
<1> QED BY <1>1, <1>2, <1>3, <1>8, <1>11, <1>x, Zenon

(* Two runs, one behind the other. *)
LEMMA RunJoin ==
  ASSUME NEW d, NEW a \in Nat, NEW n \in Nat, NEW m \in Nat
  PROVE  IsRun(Then(Run(d, a, n), Run(d, a + n, m)), d, a, n + m)
<1>1. PICK b \in Nat : b = a + n OBVIOUS
<1>2. PICK l \in Nat : l = n + m OBVIOUS
<1>3. PICK r : r = Run(d, a, n) BY Zenon
<1>4. PICK q : q = Run(d, b, m) BY Zenon
<1>5. PICK t : t = Run(d, a, l) BY Zenon
<1>6. r \in Seq(RunUnits(d)) /\ Len(r) = n BY <1>3, RunSeq, Zenon
<1>7. q \in Seq(RunUnits(d)) /\ Len(q) = m BY <1>4, RunSeq, Zenon
<1>a. \A i \in 1..n : r[i] = Unit(d, a + i) BY <1>3, RunAt, Zenon
<1>b. \A i \in 1..m : q[i] = Unit(d, b + i) BY <1>4, RunAt
<1>8. t = [i \in 1..l |-> t[i]] /\ \A i \in 1..l : t[i] = Unit(d, a + i)
  BY <1>5, RunAt
<1>9. /\ Then(r, q) \in Seq(RunUnits(d)) /\ Len(Then(r, q)) = l
      /\ \A i \in 1..n : Then(r, q)[i] = r[i]
      /\ \A i \in 1..m : Then(r, q)[n + i] = q[i]
  <2>1. Then(r, q) \in Seq(RunUnits(d)) /\ Len(Then(r, q)) = n + m
    BY <1>6, <1>7, ThenLength, Zenon
  <2>2. \A i \in 1..n : Then(r, q)[i] = r[i] BY <1>6, <1>7, ThenFirst, Zenon
  <2>3. \A i \in 1..Len(q) : Then(r, q)[Len(r) + i] = q[i]
    BY <1>6, <1>7, ThenSecond, Zenon
  <2> QED BY <2>1, <2>2, <2>3, <1>2, <1>6, <1>7, Zenon
<1>10. ASSUME NEW i \in 1..l PROVE Then(r, q)[i] = t[i]
  <2>1. CASE i \in 1..n BY <2>1, <1>a, <1>8, <1>9, Zenon
  <2>2. CASE i \notin 1..n
    <3>1. i - n \in 1..m /\ i = n + (i - n) BY <2>2, <1>2
    <3>2. PICK j \in 1..m : i = n + j BY <3>1, Zenon
    <3>3. b + j = a + i BY <3>2, <1>1
    <3>4. Then(r, q)[i] = Unit(d, b + j) BY <3>2, <1>b, <1>9, Zenon
    <3> QED BY <3>3, <3>4, <1>8, Zenon
  <2> QED BY <2>1, <2>2, Zenon
<1>c. Then(r, q) = [i \in 1..l |-> Then(r, q)[i]] BY <1>9
<1>11. Then(r, q) = t BY <1>8, <1>10, <1>c, Zenon
<1> QED BY <1>1, <1>2, <1>3, <1>4, <1>5, <1>11, Zenon DEF IsRun

(* What is left of a run when its first k units are read. *)
LEMMA RunDrop ==
  ASSUME NEW d, NEW a \in Nat, NEW n \in Nat, NEW k \in 1..n
  PROVE  Rest(Run(d, a, n), k) = Run(d, a + k, n - k)
<1>1. PICK v \in Nat : v = n - k OBVIOUS
<1>2. PICK r : r = Run(d, a, n) BY Zenon
<1>3. Len(r) = n /\ \A i \in 1..n : r[i] = Unit(d, a + i)
  BY <1>2, RunSeq, RunAt
<1>4. PICK m \in Nat : m = k + 1 OBVIOUS
<1>5. SubSeq(r, m, n) = [i \in 1..(1 + n - m) |-> r[i + m - 1]] OBVIOUS
<1>6. 1 + n - m = v BY <1>1, <1>4
<1>7. Run(d, a + k, v) = [i \in 1..v |-> Unit(d, (a + k) + i)] BY Zenon DEF Run
<1>8. ASSUME NEW i \in 1..v PROVE r[i + m - 1] = Unit(d, (a + k) + i)
  <2>1. i + m - 1 \in 1..n /\ a + (i + m - 1) = (a + k) + i BY <1>1, <1>4
  <2>2. r[i + m - 1] = Unit(d, a + (i + m - 1)) BY <2>1, <1>3, Zenon
  <2> QED BY <2>1, <2>2, Zenon
<1>9. SubSeq(r, m, n) = Run(d, a + k, v) BY <1>5, <1>6, <1>7, <1>8, Zenon
<1> QED BY <1>1, <1>2, <1>3, <1>4, <1>9, Zenon DEF Rest

(* The first k units of an unframed stream, as its reader writes them to an *)
(* unframed stream.                                                         *)
LEMMA TakenUnits ==
  ASSUME NEW cells, NEW k \in Nat
  PROVE  AsUnits(FALSE, SubSeq(cells, 1, k)) = [i \in 1..k |-> <<cells[i]>>]
<1>1. SubSeq(cells, 1, k) = [i \in 1..(1 + k - 1) |-> cells[i + 1 - 1]] OBVIOUS
<1>2. 1 + k - 1 = k /\ \A i \in 1..k : i + 1 - 1 = i OBVIOUS
<1>3. SubSeq(cells, 1, k) = [i \in 1..k |-> cells[i]] BY <1>1, <1>2, Zenon
<1>4. Len(SubSeq(cells, 1, k)) = k BY <1>3
<1> QED BY <1>3, <1>4, Zenon DEF AsUnits

(* These units, under a name of their own. *)
Taken(s, k) == AsUnits(FALSE, SubSeq(CellsOf(s), 1, k))

(* The same of a run. *)
LEMMA RunTaken ==
  ASSUME NEW s, NEW d, NEW a \in Nat, NEW n \in Nat, NEW k \in 1..n,
         stream[s] = Run(d, a, n)
  PROVE  Taken(s, k) = Run(d, a, k)
<1>1. PICK r : r = Run(d, a, n) BY Zenon
<1>2. r = [i \in 1..n |-> Unit(d, a + i)] BY <1>1, Zenon DEF Run
<1>3. PICK cells : cells = CellsOf(s) BY Zenon
<1>4. cells = [i \in 1..n |-> r[i][1]] BY <1>1, <1>2, <1>3, Zenon DEF CellsOf
<1>5. \A i \in 1..k : i \in 1..n OBVIOUS
<1>6. \A i \in 1..k : cells[i] = <<"data", d, a + i>> BY <1>2, <1>4, <1>5, Zenon DEF Unit
<1>7. Run(d, a, k) = [i \in 1..k |-> Unit(d, a + i)] BY Zenon DEF Run
<1>8. k \in Nat OBVIOUS
<1>9. AsUnits(FALSE, SubSeq(cells, 1, k)) = [i \in 1..k |-> <<cells[i]>>]
  BY <1>8, TakenUnits, Zenon
<1> QED BY <1>3, <1>6, <1>7, <1>9, Zenon DEF Unit, Taken

-----------------------------------------------------------------------------
(* Headers on a stream without frames. *)

(* A sequence over some set is one in the sense of IsSeq, and the converse. *)
LEMMA SeqIsSeq ==
  /\ \A U : \A s \in Seq(U) : IsSeq(s)
  /\ \A s : IsSeq(s) => s \in Seq({s[i] : i \in 1..Len(s)})
<1>1. ASSUME NEW U, NEW s \in Seq(U) PROVE IsSeq(s) BY DEF IsSeq
<1>2. ASSUME NEW s, IsSeq(s) PROVE s \in Seq({s[i] : i \in 1..Len(s)})
  <2>1. PICK w \in Nat : w = Len(s) BY <1>2, Zenon DEF IsSeq
  <2>2. s = [i \in 1..w |-> s[i]] BY <1>2, <2>1, Zenon DEF IsSeq
  <2>3. s \in Seq({s[i] : i \in 1..w}) BY <2>2, FunctionIsSeq, Zenon
  <2> QED BY <2>1, <2>3, Zenon
<1> QED BY <1>1, <1>2, Zenon

(* Two sequences in a row, over any sets. *)
LEMMA ThenAny ==
  ASSUME NEW s, NEW t, IsSeq(s), IsSeq(t)
  PROVE  /\ IsSeq(Then(s, t)) /\ Len(Then(s, t)) = Len(s) + Len(t)
         /\ \A i \in 1..Len(s) : Then(s, t)[i] = s[i]
         /\ \A i \in 1..Len(t) : Then(s, t)[Len(s) + i] = t[i]
<1>1. PICK V : s \in Seq(V) BY SeqIsSeq, Zenon
<1>2. PICK W : t \in Seq(W) BY SeqIsSeq, Zenon
<1>3. PICK U : U = V \cup W BY Zenon
<1>4. s \in Seq(U) /\ t \in Seq(U) BY <1>1, <1>2, <1>3
<1>5. Then(s, t) \in Seq(U) /\ Len(Then(s, t)) = Len(s) + Len(t)
  BY <1>4, ThenLength, Zenon
<1>6. IsSeq(Then(s, t)) BY <1>5, SeqIsSeq, Zenon
<1>7. \A i \in 1..Len(s) : Then(s, t)[i] = s[i] BY <1>4, ThenFirst, Zenon
<1>8. \A i \in 1..Len(t) : Then(s, t)[Len(s) + i] = t[i] BY <1>4, ThenSecond, Zenon
<1> QED BY <1>5, <1>6, <1>7, <1>8, Zenon

(* What EncodeHeader returns: a sequence that begins with the fixed fields. *)
LEMMA HeaderSeq ==
  ASSUME NEW Addr, NEW chain \in Seq(Addr), NEW pad \in Nat
  PROVE  LET header == EncodeHeader(chain, pad)
         IN  /\ IsSeq(header) /\ Len(header) >= 2
             /\ header[1] = Magic /\ header[2] = Fields(Len(chain), pad)
<1>1. PICK w \in Nat : w = Len(chain) * EntryCells OBVIOUS
<1>2. PICK entries : entries = HopEntries(chain) BY Zenon
<1>3. entries = [k \in 1..w |-> entries[k]]
  <2>1. HopEntries(chain) = [k \in 1..w |-> HopEntries(chain)[k]]
    BY <1>1, Zenon DEF HopEntries
  <2> QED BY <1>2, <2>1, Zenon
<1>4. IsSeq(entries) /\ Len(entries) = w
  <2>1. entries \in Seq({entries[k] : k \in 1..w}) /\ Len(entries) = w
    BY <1>3, FunctionIsSeq, Zenon
  <2> QED BY <2>1, SeqIsSeq, Zenon
<1>5. PICK pads : pads = Padding(pad) BY Zenon
<1>6. pads \in Seq({<<"pad">>}) BY <1>5 DEF Padding
<1>7. IsSeq(pads) BY <1>6, SeqIsSeq, Zenon
<1>8. PICK fixed : fixed = <<Magic, Fields(Len(chain), pad)>> BY Zenon
<1>9. /\ fixed \in Seq({Magic, Fields(Len(chain), pad)}) /\ Len(fixed) = 2
      /\ fixed[1] = Magic /\ fixed[2] = Fields(Len(chain), pad)
  BY <1>8
<1>10. IsSeq(fixed) BY <1>9, SeqIsSeq, Zenon
<1>11. PICK one : one = Then(fixed, entries) BY Zenon
<1>12. /\ IsSeq(one) /\ Len(one) = 2 + w
       /\ \A i \in 1..2 : one[i] = fixed[i]
  <2>1. /\ IsSeq(one) /\ Len(one) = Len(fixed) + Len(entries)
        /\ \A i \in 1..Len(fixed) : one[i] = fixed[i]
    BY <1>4, <1>10, <1>11, ThenAny, Zenon
  <2> QED BY <2>1, <1>4, <1>9, Zenon
<1>13. PICK two : two = Then(one, pads) BY Zenon
<1>14. /\ IsSeq(two) /\ Len(two) = Len(one) + Len(pads)
       /\ \A i \in 1..Len(one) : two[i] = one[i]
  BY <1>7, <1>12, <1>13, ThenAny
<1>15. EncodeHeader(chain, pad) = two
  BY <1>2, <1>5, <1>8, <1>11, <1>13, Zenon DEF EncodeHeader, Then
<1>16. Len(pads) \in Nat BY <1>6
<1>17. 1 \in 1..Len(one) /\ 2 \in 1..Len(one) /\ 1 \in 1..2 /\ 2 \in 1..2 BY <1>12
<1>18. two[1] = Magic /\ two[2] = Fields(Len(chain), pad)
  <2>1. two[1] = one[1] /\ two[2] = one[2] BY <1>14, <1>17, Zenon
  <2>2. one[1] = fixed[1] /\ one[2] = fixed[2] BY <1>12, <1>17, Zenon
  <2> QED BY <2>1, <2>2, <1>9, Zenon
<1>19. Len(two) >= 2 BY <1>12, <1>14, <1>16
<1> QED BY <1>14, <1>15, <1>18, <1>19, Zenon

(* The first n payload cells of one direction. *)
Cells(d, n) == [i \in 1..n |-> <<"data", d, i>>]

(* As units they are a run. *)
LEMMA CellsAsUnits ==
  ASSUME NEW d, NEW n \in Nat
  PROVE  IsSeq(Cells(d, n)) /\ Len(Cells(d, n)) = n /\ AsUnits(FALSE, Cells(d,
  n)) = Run(d, 0, n)
<1>1. PICK c : c = Cells(d, n) BY Zenon
<1>2. c = [i \in 1..n |-> <<"data", d, i>>] BY <1>1, Zenon DEF Cells
<1>3. c = [i \in 1..n |-> c[i]] BY <1>2, Zenon
<1>4. c \in Seq({c[i] : i \in 1..n}) /\ Len(c) = n BY <1>3, FunctionIsSeq, Zenon
<1>5. IsSeq(c) BY <1>4, SeqIsSeq, Zenon
<1>6. AsUnits(FALSE, c) = [i \in 1..n |-> <<c[i]>>] BY <1>4, Zenon DEF AsUnits
<1>7. \A i \in 1..n : <<c[i]>> = Unit(d, 0 + i) BY <1>2 DEF Unit
<1>8. Run(d, 0, n) = [i \in 1..n |-> Unit(d, 0 + i)] BY Zenon DEF Run
<1>9. AsUnits(FALSE, c) = Run(d, 0, n) BY <1>6, <1>7, <1>8, Zenon
<1> QED BY <1>1, <1>4, <1>5, <1>9, Zenon

(* Cells as units are a sequence as long. *)
LEMMA UnitsSeq ==
  ASSUME NEW c, IsSeq(c)
  PROVE  /\ IsSeq(AsUnits(FALSE, c)) /\ Len(AsUnits(FALSE, c)) = Len(c)
         /\ \A i \in 1..Len(c) : AsUnits(FALSE, c)[i] = <<c[i]>>
<1>1. PICK w \in Nat : w = Len(c) BY Zenon DEF IsSeq
<1>2. PICK u : u = AsUnits(FALSE, c) BY Zenon
<1>3. u = [i \in 1..w |-> <<c[i]>>] BY <1>1, <1>2, Zenon DEF AsUnits
<1>4. u = [i \in 1..w |-> u[i]] BY <1>3, Zenon
<1>5. u \in Seq({u[i] : i \in 1..w}) /\ Len(u) = w BY <1>4, FunctionIsSeq, Zenon
<1>6. IsSeq(u) BY <1>5, SeqIsSeq, Zenon
<1>7. \A i \in 1..w : u[i] = <<c[i]>> BY <1>3, Zenon
<1> QED BY <1>1, <1>2, <1>5, <1>6, <1>7, Zenon

(* A header as units, and then n payload units. *)
IsHeaded(s, chain, pad, d, n) ==
  s = Then(AsUnits(FALSE, EncodeHeader(chain, pad)), Run(d, 0, n))

(* The same as cells. *)
HasHeader(cells, chain, pad, d, n) == cells = Stream(chain, pad, Cells(d, n))

(* The cells of a stream that carries a header and then n payload units. *)
LEMMA HeadedCells ==
  ASSUME NEW Addr, NEW chain \in Seq(Addr), NEW pad \in Nat, NEW s, NEW d, NEW n \in Nat,
         IsHeaded(stream[s], chain, pad, d, n)
  PROVE  HasHeader(CellsOf(s), chain, pad, d, n)
<1>1. PICK header : header = EncodeHeader(chain, pad) BY Zenon
<1>2. IsSeq(header) BY <1>1, HeaderSeq, Zenon
<1>3. PICK l \in Nat : l = Len(header) BY <1>2, Zenon DEF IsSeq
<1>4. PICK u : u = AsUnits(FALSE, header) BY Zenon
<1>5. IsSeq(u) /\ Len(u) = l /\ \A i \in 1..l : u[i] = <<header[i]>>
  BY <1>2, <1>3, <1>4, UnitsSeq, Zenon
<1>6. PICK r : r = Run(d, 0, n) BY Zenon
<1>7. IsSeq(r) /\ Len(r) = n BY <1>6, RunSeq, SeqIsSeq, Zenon
<1>8. \A i \in 1..n : r[i] = << <<"data", d, i>> >>
  <2>1. r = [i \in 1..n |-> Unit(d, 0 + i)] BY <1>6, Zenon DEF Run
  <2> QED BY <2>1 DEF Unit
<1>9. PICK x : x = Then(u, r) BY Zenon
<1>10. /\ IsSeq(x) /\ Len(x) = l + n
       /\ \A i \in 1..l : x[i] = u[i]
       /\ \A i \in 1..n : x[l + i] = r[i]
  <2>0. IsSeq(u) /\ IsSeq(r) BY <1>5, <1>7, Zenon
  <2>1. IsSeq(x) /\ Len(x) = Len(u) + Len(r) BY <2>0, <1>9, ThenAny, Zenon
  <2>2. \A i \in 1..Len(u) : Then(u, r)[i] = u[i] BY <2>0, ThenAny
  <2>3. \A i \in 1..Len(r) : Then(u, r)[Len(u) + i] = r[i] BY <2>0, ThenAny
  <2> QED BY <2>1, <2>2, <2>3, <1>5, <1>7, <1>9, Zenon
<1>11. stream[s] = x BY <1>1, <1>4, <1>6, <1>9, Zenon DEF IsHeaded
<1>12. PICK c : c = Cells(d, n) BY Zenon
<1>13. IsSeq(c) /\ Len(c) = n BY <1>12, CellsAsUnits, Zenon
<1>14. \A i \in 1..n : c[i] = <<"data", d, i>> BY <1>12, Zenon DEF Cells
<1>15. PICK y : y = Then(header, c) BY Zenon
<1>16. /\ IsSeq(y) /\ Len(y) = l + n
       /\ \A i \in 1..l : y[i] = header[i]
       /\ \A i \in 1..n : y[l + i] = c[i]
  <2>1. IsSeq(Then(header, c)) /\ Len(Then(header, c)) = Len(header) + Len(c)
    BY <1>2, <1>13, ThenAny, Zenon
  <2>2. \A i \in 1..Len(header) : Then(header, c)[i] = header[i]
    BY <1>2, <1>13, ThenAny, Zenon
  <2>3. \A i \in 1..Len(c) : Then(header, c)[Len(header) + i] = c[i]
    BY <1>2, <1>13, ThenAny
  <2> QED BY <1>3, <1>13, <1>15, <2>1, <2>2, <2>3, Zenon
<1>17. ASSUME NEW i \in 1..(l + n) PROVE x[i][1] = y[i]
  <2>1. CASE i \in 1..l BY <2>1, <1>5, <1>10, <1>16
  <2>2. CASE i \notin 1..l
    <3>1. i - l \in 1..n /\ i = l + (i - l) BY <2>2
    <3>2. PICK j \in 1..n : i = l + j BY <3>1, Zenon
    <3>3. x[i] = << <<"data", d, j>> >> BY <3>2, <1>8, <1>10, Zenon
    <3>4. y[i] = <<"data", d, j>> BY <3>2, <1>14, <1>16, Zenon
    <3> QED BY <3>3, <3>4
  <2> QED BY <2>1, <2>2, Zenon
<1>18. DOMAIN x = 1..(l + n) BY <1>10, Zenon DEF IsSeq
<1>19. CellsOf(s) = [i \in 1..(l + n) |-> x[i][1]] BY <1>11, <1>18, Zenon DEF CellsOf
<1>20. y = [i \in 1..(l + n) |-> y[i]] BY <1>16, Zenon DEF IsSeq
<1>21. CellsOf(s) = y BY <1>17, <1>19, <1>20, Zenon
<1> QED BY <1>1, <1>12, <1>15, <1>21, Zenon DEF Stream, Then, HasHeader

-----------------------------------------------------------------------------
(* What the invariant says of the property. *)

(* What has arrived of a run is a prefix of what was sent. *)
LEMMA RunPrefix ==
  ASSUME NEW s, NEW d, NEW n \in Nat, NEW m \in 0..n,
         stream[s] = Run(d, 0, m), sent[d] = n
  PROVE  Arrived(s, d)
<1>1. PICK c : c = Cells(d, m) BY Zenon
<1>2. PICK e : e = Cells(d, n) BY Zenon
<1>3. m \in Nat OBVIOUS
<1>4. Len(c) = m /\ Len(e) = n BY <1>1, <1>2, <1>3, CellsAsUnits, Zenon
<1>5. CellsOf(s) = c
  <2>1. PICK r : r = Run(d, 0, m) BY Zenon
  <2>2. r = [i \in 1..m |-> Unit(d, 0 + i)] BY <2>1, Zenon DEF Run
  <2>3. CellsOf(s) = [i \in 1..m |-> r[i][1]] BY <2>1, <2>2, Zenon DEF CellsOf
  <2>4. \A i \in 1..m : r[i][1] = <<"data", d, i>> BY <2>2 DEF Unit
  <2> QED BY <1>1, <2>3, <2>4, Zenon DEF Cells
<1>6. Payload(d) = e BY <1>2, Zenon DEF Payload, Cells
<1>7. \A i \in 1..m : c[i] = e[i]
  <2>1. \A i \in 1..m : c[i] = <<"data", d, i>> BY <1>1, Zenon DEF Cells
  <2>2. \A i \in 1..n : e[i] = <<"data", d, i>> BY <1>2, Zenon DEF Cells
  <2>3. \A i \in 1..m : i \in 1..n OBVIOUS
  <2> QED BY <2>1, <2>2, <2>3, Zenon
<1>8. SubSeq(e, 1, m) = c
  <2>1. SubSeq(e, 1, m) = [i \in 1..(1 + m - 1) |-> e[i + 1 - 1]] OBVIOUS
  <2>2. 1 + m - 1 = m /\ \A i \in 1..m : i + 1 - 1 = i OBVIOUS
  <2>3. SubSeq(e, 1, m) = [i \in 1..m |-> c[i]] BY <1>7, <2>1, <2>2, Zenon
  <2>4. c = [i \in 1..m |-> c[i]] BY <1>1, Zenon DEF Cells
  <2> QED BY <2>3, <2>4, Zenon
<1>9. m <= n OBVIOUS
<1> QED BY <1>4, <1>5, <1>6, <1>8, <1>9, Zenon DEF Arrived

(* The entry of an address that it can hold is the address. *)
LEMMA EntryOfTarget ==
  ASSUME NEW n \in TargetLengths, target = Address("target", n), target.len <= AddrCap
  PROVE  \A i \in DOMAIN HopEntry(target) : HopEntry(target)[i] = <<"hop", target, i>>
<1>1. n \in Nat BY TunnelAssumption, Zenon
<1>2. target.len = n BY Zenon DEF Address
<1>3. Truncated(target) = target
  BY <1>1, <1>2 DEF Truncated, Address, AddrCap
<1> QED BY <1>3, Zenon DEF HopEntry

(* The invariant implies the property. *)
LEMMA InvFaithful == TunnelInv => TunnelFaithful
<1> SUFFICES ASSUME TunnelInv PROVE TunnelFaithful BY Zenon
<1>t. sent \in [Dirs -> Nat] /\ obfs \in BOOLEAN BY Zenon DEF TunnelInv, TunnelTypes
<1>n. sent["up"] \in Nat /\ sent["down"] \in Nat BY <1>t, Zenon DEF Dirs
<1>1. target.len <= AddrCap => \A i \in DOMAIN dialled : dialled[i] = <<"hop", target, i>>
  <2>1. PICK n \in TargetLengths : target = Address("target", n)
    BY Zenon DEF TunnelInv, TunnelTypes
  <2>2. dialled = <<>> \/ dialled = HopEntry(target) BY Zenon DEF TunnelInv, EntryInv
  <2>3. CASE dialled = <<>> BY <2>3
  <2>4. CASE dialled = HopEntry(target) BY <2>1, <2>4, EntryOfTarget, Zenon
  <2> QED BY <2>2, <2>3, <2>4, Zenon
<1>2. ASSUME NEW l \in TargetLinks PROVE Arrived(<<l, "up">>, "up")
  <2>1. l = 2 /\ kind[2] = "tcp" BY DEF TargetLinks, Links, TunnelInv, RoleInv
  <2>2. ~obfs BY <2>1, Zenon DEF TunnelInv, RoleInv
  <2>3. Stripped BY <2>1, <2>2, Zenon DEF TunnelInv, DataInv, UpInv
  <2>4. PICK a \in 0..sent["up"] : stream[<<2, "up">>] = Run("up", 0, a)
    BY <2>3, Zenon DEF Stripped, StrippedBy
  <2> QED BY <2>1, <2>4, <1>n, RunPrefix, Zenon
<1>3. Arrived(<<0, "down">>, "down")
  <2>1. CASE obfs
    <3>1. stream[<<0, "down">>] = Run("down", 0, 0)
      BY <2>1, RunEmpty, Zenon DEF TunnelInv, DataInv, FrameInv
    <3>2. 0 \in 0..sent["down"] BY <1>n
    <3> QED BY <3>1, <3>2, <1>n, RunPrefix, Zenon
  <2>2. CASE ~obfs
    <3>1. PICK a \in 0..sent["down"] : stream[<<0, "down">>] = Run("down", 0, a)
      BY <2>2, Zenon DEF TunnelInv, DataInv, DownInv, ReturnedBy
    <3> QED BY <3>1, <1>n, RunPrefix, Zenon
  <2> QED BY <2>1, <2>2, Zenon
<1> QED BY <1>1, <1>2, <1>3, Zenon DEF TunnelFaithful

-----------------------------------------------------------------------------
(* What DecodeNextHop makes of what a node is sent. *)

(* The session's chain has chainLen addresses; the only one of a chain of   *)
(* one is the target.                                                       *)
LEMMA ChainFacts ==
  ASSUME chainLen \in 0..2
  PROVE  /\ HopChain \in Seq({Node2, target}) /\ Len(HopChain) = chainLen
         /\ chainLen = 1 => HopChain[1] = target
<1>1. CASE chainLen = 0
  <2>1. HopChain = <<>> BY <1>1 DEF HopChain
  <2> QED BY <1>1, <2>1
<1>2. CASE chainLen = 1
  <2>1. HopChain = <<target>> BY <1>2 DEF HopChain
  <2> QED BY <1>2, <2>1
<1>3. CASE chainLen = 2
  <2>1. HopChain = <<Node2, target>> BY <1>3 DEF HopChain
  <2> QED BY <1>3, <2>1
<1> QED BY <1>1, <1>2, <1>3

(* The first node decodes the header of the session's chain, if it has any  *)
(* hop, and leaves the payload behind it on the stream.                     *)
LEMMA HeadedDecoded ==
  ASSUME chainLen \in 0..2, NEW p \in PadLengths, NEW b \in Nat,
         stream[<<1, "up">>] = AsUnits(FALSE, EncodeHeader(HopChain, p)) \o Run("up", 0,
         b),
         ~DecodeFails(CellsOf(<<1, "up">>))
  PROVE  /\ chainLen # 0
         /\ HopsLeft(CellsOf(<<1, "up">>)) = chainLen - 1
         /\ chainLen = 1 => NextHop(CellsOf(<<1, "up">>)) = HopEntry(target)
         /\ AsUnits(FALSE, StreamAfter(CellsOf(<<1, "up">>))) = Run("up", 0, b)
<1>1. p \in Nat BY TunnelAssumption, Zenon
<1>2. PICK chain : chain = HopChain BY Zenon
<1>3. PICK A : A = {Node2, target} BY Zenon
<1>4. chain \in Seq(A) /\ Len(chain) = chainLen /\ (chainLen = 1 => chain[1] = target)
  BY <1>2, <1>3, ChainFacts, Zenon
<1>5. PICK s : s = <<1, "up">> BY Zenon
<1>6. PICK c : c = Cells("up", b) BY Zenon
<1>7. CellsOf(s) = Stream(chain, p, c)
  <2>1. IsHeaded(stream[s], chain, p, "up", b) BY <1>2, <1>5, Zenon DEF Then, IsHeaded
  <2>2. HasHeader(CellsOf(s), chain, p, "up", b)
    BY <1>1, <1>4, <2>1, HeadedCells, Zenon
  <2> QED BY <1>6, <2>2, Zenon DEF HasHeader
<1>8. PICK C : c \in Seq(C)
  <2>1. IsSeq(c) BY <1>6, CellsAsUnits, Zenon
  <2> QED BY <2>1, SeqIsSeq, Zenon
<1>9. chainLen # 0
  <2>1. Laid(Stream(chain, p, c), chain, p, c) BY <1>1, <1>4, <1>8, HeaderLaid, Zenon
  <2>2. CellsOf(s)[2] = Fields(Len(chain), p) BY <2>1, <1>7, Zenon DEF Laid
  <2>3. NHops(CellsOf(s)) = chainLen
    <3>1. Fields(Len(chain), p)[2] = Len(chain) BY Zenon DEF Fields
    <3> QED BY <3>1, <2>2, <1>4, Zenon DEF NHops
  <2> QED BY <2>3, <1>5, Zenon DEF DecodeFails
<1>10. chain # <<>> BY <1>4, <1>9
<1>11. /\ NextHop(Stream(chain, p, c)) = HopEntry(chain[1])
       /\ HopsLeft(Stream(chain, p, c)) = Len(chain) - 1
       /\ StreamAfter(Stream(chain, p, c)) = c
  BY <1>1, <1>4, <1>8, <1>10, FirstHopDecoded
<1>12. AsUnits(FALSE, c) = Run("up", 0, b) BY <1>6, CellsAsUnits, Zenon
<1> QED BY <1>4, <1>5, <1>7, <1>9, <1>11, <1>12, Zenon

(* What a relay is left with of a header is a sequence. *)
LEMMA RemainderSeq ==
  ASSUME NEW cells, HopsLeft(cells) = 1
  PROVE  IsSeq(RemainingHeader(cells))
<1>1. PICK after : after = AfterPadding(cells) BY Zenon
<1>2. PICK e \in Nat : e = 1 * EntryCells OBVIOUS
<1>3. PICK rest : rest = SubSeq(after, 1, e) BY Zenon
<1>4. rest = [i \in 1..e |-> rest[i]]
  <2>1. SubSeq(after, 1, e) = [i \in 1..(1 + e - 1) |-> after[i + 1 - 1]] OBVIOUS
  <2>2. 1 + e - 1 = e OBVIOUS
  <2> QED BY <1>3, <2>1, <2>2, Zenon
<1>5. IsSeq(rest) BY <1>4, FunctionIsSeq, SeqIsSeq, Zenon
<1>6. PICK fixed : fixed = <<Magic, Fields(HopsLeft(cells), PadLen(cells))>> BY Zenon
<1>7. fixed \in Seq({Magic, Fields(HopsLeft(cells), PadLen(cells))}) BY <1>6
<1>8. IsSeq(fixed) BY <1>7, SeqIsSeq, Zenon
<1>9. IsSeq(Then(fixed, rest)) BY <1>5, <1>8, ThenAny, Zenon
<1> QED BY <1>1, <1>2, <1>3, <1>6, <1>9, Zenon DEF RemainingHeader, Then

(* A node refuses a header without hops. *)
LEMMA HoplessRefused ==
  ASSUME NEW s, Hopless(stream[s])
  PROVE  DecodeFails(CellsOf(s))
<1>1. PICK u : u = stream[s] BY Zenon
<1>2. PICK p \in PadLengths : u[2] = <<Fields(0, p)>> BY <1>1, Zenon DEF Hopless
<1>3. u = [i \in 1..Len(u) |-> u[i]] /\ Len(u) \in Nat /\ Len(u) >= 2
  BY <1>1, Zenon DEF Hopless, IsSeq
<1>4. 2 \in DOMAIN u BY <1>3
<1>5. CellsOf(s)[2] = u[2][1] BY <1>1, <1>4, Zenon DEF CellsOf
<1>6. CellsOf(s)[2] = Fields(0, p) BY <1>2, <1>5
<1>7. NHops(CellsOf(s)) = 0 BY <1>6 DEF NHops, Fields
<1> QED BY <1>7, Zenon DEF DecodeFails

-----------------------------------------------------------------------------
(* The steps of a tunnel: what they keep of the control state. *)

(* A node starts its relays. *)
LEMMA RelaysStarted ==
  ASSUME NEW n \in Nodes, StartRelays(n), TunnelTypes
  PROVE  /\ relay' \in [Relays -> {"none", "run", "done"}]
         /\ \A m \in Nodes, d \in Dirs : m # n => relay'[<<m, d>>] = relay[<<m, d>>]
<1>1. \A r \in Relays : relay[r] \in {"none", "run", "done"} BY Zenon DEF TunnelTypes
<1>2. relay' \in [Relays -> {"none", "run", "done"}] BY <1>1, Zenon DEF StartRelays
<1>3. ASSUME NEW m \in Nodes, NEW d \in Dirs, m # n PROVE relay'[<<m, d>>] = relay[<<m, d>>]
  <2>1. <<m, d>> \in Relays BY Zenon DEF Relays
  <2> QED BY <1>3, <2>1, Zenon DEF StartRelays
<1> QED BY <1>2, <1>3, Zenon

(* A step that ends a handler, or part of it, and leaves the streams alone. *)
HandlerEnds(n) ==
  /\ handler[n] # "idle"
  /\ \E h \in {"closein", "end"} : handler' = [handler EXCEPT ![n] = h]
  /\ UNCHANGED <<session, kind, stream, todo, relay, dialled, sent>>
  /\ beating' \subseteq beating

(* A step that leaves all of that alone. *)
Quiet ==
  UNCHANGED <<session, kind, stream, handler, todo, dialled, sent, beating>>

(* What the invariant says of the data is kept with the data, whatever      *)
(* handler 1 does next, unless it takes the header.                         *)
LEMMA DataKept ==
  ASSUME DataInv, UNCHANGED <<session, kind, stream, sent>>,
         handler'[1] \in {"idle", "decode"} => handler[1] \in {"idle", "decode"},
         handler'[1] = "egress" => handler[1] = "egress"
  PROVE  DataInv'
<1>1. obfs' = obfs /\ kind' = kind /\ stream' = stream /\ sent' = sent
  BY Zenon DEF session
<1>2. HopChain' = HopChain BY Zenon DEF session, HopChain
<1>3. FrameInv' BY <1>1, Zenon DEF DataInv, FrameInv
<1>4. DownInv' BY <1>1 DEF DataInv, DownInv, ReturnedBy
<1>5. UpInv'
  <2>1. Waiting => Waiting' BY <1>1, Zenon DEF Waiting
  <2>2. Headed => Headed' BY <1>1, <1>2, Zenon DEF Headed, HeadedBy
  <2>3. Stripped => Stripped' BY <1>1, Zenon DEF Stripped, StrippedBy
  <2> QED BY <1>1, <2>1, <2>2, <2>3, Zenon DEF DataInv, UpInv
<1> QED BY <1>3, <1>4, <1>5, Zenon DEF DataInv

(* A handler ends. *)
LEMMA EndsKeep ==
  ASSUME TunnelInv, NEW n \in Nodes, HandlerEnds(n)
  PROVE  TunnelInv'
<1> USE DEF TunnelInv
<1>1. PICK h \in {"closein", "end"} : handler' = [handler EXCEPT ![n] = h]
  BY Zenon DEF HandlerEnds
<1>2. /\ chainLen' = chainLen /\ obfs' = obfs /\ target' = target /\ kind' = kind
      /\ stream' = stream /\ todo' = todo /\ relay' = relay /\ dialled' = dialled
      /\ sent' = sent /\ beating' \subseteq beating /\ handler[n] # "idle"
  BY Zenon DEF HandlerEnds, session
<1>3. TunnelTypes'
  <2>1. handler' \in [Nodes -> {"idle", "dial", "decode", "egress", "relay", "wait",
                                "closein", "end"}]
    BY <1>1, Zenon DEF TunnelTypes
  <2> QED BY <1>2, <2>1, Zenon DEF TunnelTypes
<1>4. /\ handler'[n] \in {"closein", "end"}
      /\ \A m \in Nodes : m # n => handler'[m] = handler[m]
  BY <1>1, Zenon DEF TunnelTypes
<1>5. RoleInv'
  <2>1. handler'[0] \in {"dial", "wait", "closein", "end"} /\ (handler'[0] = "dial" => kind[1] = "none")
    BY <1>4 DEF RoleInv, Nodes
  <2>2. handler'[2] \in {"idle", "decode", "closein", "end"}
    BY <1>4 DEF RoleInv, Nodes
  <2>3. \A m \in {1, 2} : handler'[m] # "idle" => kind[m] = "quic"
    BY <1>2, <1>4 DEF RoleInv, Nodes
  <2>4. handler'[1] = handler[1] \/ handler'[1] \in {"closein", "end"}
    BY <1>4 DEF Nodes
  <2> QED BY <1>2, <2>1, <2>2, <2>3, <2>4, Zenon DEF RoleInv
<1>6. RelayInv' BY <1>2, Zenon DEF RelayInv
<1>7. BeatInv' BY <1>2, Zenon DEF BeatInv
<1>8. EntryInv' BY <1>2, Zenon DEF EntryInv
<1>9. DataInv'
  <2>1. handler'[1] = handler[1] \/ handler'[1] \in {"closein", "end"}
    BY <1>4 DEF Nodes
  <2>2. handler'[1] \in {"idle", "decode"} => handler[1] \in {"idle", "decode"}
    BY <2>1, Zenon
  <2>3. handler'[1] = "egress" => handler[1] = "egress" BY <2>1, Zenon
  <2> QED BY <1>2, <2>2, <2>3, DataKept, Zenon DEF session
<1> QED BY <1>3, <1>5, <1>6, <1>7, <1>8, <1>9, Zenon

(* Connections break, and a relay may end. *)
LEMMA QuietKeeps ==
  ASSUME TunnelInv, Quiet,
         relay' = relay \/ \E r \in Relays : relay[r] = "run" /\ relay' = [relay EXCEPT ![r] = "done"]
  PROVE  TunnelInv'
<1> USE DEF TunnelInv
<1>1. /\ chainLen' = chainLen /\ obfs' = obfs /\ target' = target /\ kind' = kind
      /\ stream' = stream /\ todo' = todo /\ handler' = handler /\ dialled' = dialled
      /\ sent' = sent /\ beating' = beating
  BY Zenon DEF Quiet, session
<1>2. relay' \in [Relays -> {"none", "run", "done"}] BY ZenonT(30) DEF TunnelTypes
<1>3. ASSUME NEW r \in Relays
      PROVE  relay'[r] = relay[r] \/ (relay[r] = "run" /\ relay'[r] = "done")
  <2>1. CASE relay' = relay BY <2>1, Zenon
  <2>2. ASSUME NEW q \in Relays, relay[q] = "run", relay' = [relay EXCEPT ![q] = "done"]
        PROVE  relay'[r] = relay[r] \/ (relay[r] = "run" /\ relay'[r] = "done")
    BY <2>2, Zenon DEF TunnelTypes
  <2> QED BY <2>1, <2>2, Zenon
<1>4. TunnelTypes' BY <1>1, <1>2, Zenon DEF TunnelTypes
<1>5. RoleInv' BY <1>1, Zenon DEF RoleInv
<1>6. RelayInv'
  <2> SUFFICES ASSUME NEW d \in Dirs
               PROVE  /\ relay'[<<0, d>>] # "none" => kind'[1] = "quic"
                      /\ relay'[<<1, d>>] # "none" => kind'[2] # "none"
                      /\ relay'[<<2, d>>] = "none"
    BY Zenon DEF RelayInv
  <2>1. <<0, d>> \in Relays /\ <<1, d>> \in Relays /\ <<2, d>> \in Relays
    BY DEF Relays, Nodes
  <2> QED BY <1>1, <1>3, <2>1, Zenon DEF RelayInv
<1>7. BeatInv' BY <1>1, Zenon DEF BeatInv
<1>8. EntryInv' BY <1>1, Zenon DEF EntryInv
<1>9. DataInv' BY <1>1, DataKept, Zenon DEF session
<1> QED BY <1>4, <1>5, <1>6, <1>7, <1>8, <1>9, Zenon

(* A node accepts a stream. *)
LEMMA AcceptKeeps ==
  ASSUME TunnelInv, NEW n \in Nodes, AcceptStream(n)
  PROVE  TunnelInv'
<1> USE DEF TunnelInv
<1>1. /\ chainLen' = chainLen /\ obfs' = obfs /\ target' = target /\ kind' = kind
      /\ stream' = stream /\ todo' = todo /\ relay' = relay /\ dialled' = dialled
      /\ sent' = sent
  BY Zenon DEF AcceptStream, session
<1>2. handler[n] = "idle" /\ kind[n] = "quic" /\ handler' = [handler EXCEPT ![n] = "decode"]
  BY Zenon DEF AcceptStream
<1>3. handler'[n] = "decode" /\ \A m \in Nodes : m # n => handler'[m] = handler[m]
  BY <1>2, Zenon DEF TunnelTypes
<1>4. n = 1 \/ n = 2 BY <1>2 DEF Nodes, RoleInv
<1>5. TunnelTypes'
  <2>1. handler' \in [Nodes -> {"idle", "dial", "decode", "egress", "relay", "wait",
                                "closein", "end"}]
    BY <1>2, Zenon DEF TunnelTypes
  <2> QED BY <1>1, <2>1, Zenon DEF TunnelTypes
<1>6. RoleInv'
  <2>1. CASE n = 1
    <3>1. handler'[0] = handler[0] /\ handler'[2] = handler[2] /\ handler'[1] = "decode"
      BY <2>1, <1>3 DEF Nodes
    <3> QED BY <3>1, <2>1, <1>1, <1>2, Zenon DEF RoleInv
  <2>2. CASE n = 2
    <3>1. handler'[0] = handler[0] /\ handler'[1] = handler[1] /\ handler'[2] = "decode"
      BY <2>2, <1>3 DEF Nodes
    <3> QED BY <3>1, <2>2, <1>1, <1>2, Zenon DEF RoleInv
  <2> QED BY <2>1, <2>2, <1>4, Zenon
<1>7. RelayInv' BY <1>1, Zenon DEF RelayInv
<1>8. BeatInv'
  <2>1. beating' = beating \cup (IF obfs THEN {<<n, "far">>} ELSE {})
    BY Zenon DEF AcceptStream, StartBeating
  <2>2. obfs => n = 1 BY <1>2, <1>4, Zenon DEF RoleInv
  <2> QED BY <1>1, <2>1, <2>2, Zenon DEF BeatInv
<1>9. EntryInv' BY <1>1, Zenon DEF EntryInv
<1>10. DataInv'
  <2>1. handler'[1] = handler[1] \/ (handler[1] = "idle" /\ handler'[1] = "decode")
    BY <1>2, <1>3, <1>4 DEF Nodes
  <2>2. handler'[1] \in {"idle", "decode"} => handler[1] \in {"idle", "decode"}
    BY <2>1, Zenon
  <2>3. handler'[1] = "egress" => handler[1] = "egress" BY <2>1, Zenon
  <2> QED BY <1>1, <2>2, <2>3, DataKept, Zenon DEF session
<1> QED BY <1>5, <1>6, <1>7, <1>8, <1>9, <1>10, Zenon

-----------------------------------------------------------------------------
(* The steps of a tunnel: dialling and decoding. *)

(* The streams of the links 0 to 2. *)
LEMMA StreamNames ==
  /\ <<0, "up">> \in Streams /\ <<1, "up">> \in Streams /\ <<2, "up">> \in Streams
  /\ <<0, "down">> \in Streams /\ <<1, "down">> \in Streams /\ <<2, "down">> \in Streams
  /\ \A d, e : <<0, d>> # <<1, e>> /\ <<0, d>> # <<2, e>> /\ <<1, d>> # <<2, e>>
  /\ \A l, m : <<l, "up">> # <<m, "down">>
<1>1. /\ <<0, "up">> \in Streams /\ <<1, "up">> \in Streams /\ <<2, "up">> \in Streams
      /\ <<0, "down">> \in Streams /\ <<1, "down">> \in Streams /\ <<2, "down">> \in Streams
  BY DEF Streams, Links, Dirs
<1>2. ASSUME NEW d, NEW e PROVE <<0, d>> # <<1, e>> /\ <<0, d>> # <<2, e>> /\ <<1, d>> # <<2, e>>
  OBVIOUS
<1>3. ASSUME NEW l, NEW m PROVE <<l, "up">> # <<m, "down">>
  BY Zenon
<1> QED BY <1>1, <1>2, <1>3, Zenon

(* One stream changes. *)
LEMMA StreamSet ==
  ASSUME TunnelTypes, NEW s \in Streams, NEW x, stream' = [stream EXCEPT ![s] = x]
  PROVE  /\ stream' = [t \in Streams |-> stream'[t]]
         /\ stream'[s] = x
         /\ \A t \in Streams : t # s => stream'[t] = stream[t]
<1>1. stream = [t \in Streams |-> stream[t]] BY Zenon DEF TunnelTypes
<1> QED BY <1>1, Zenon

(* The streams from the target do not change. *)
LEMMA DownKept ==
  ASSUME DownInv, obfs' = obfs, sent'["down"] = sent["down"],
         stream'[<<0, "down">>] = stream[<<0, "down">>],
         stream'[<<1, "down">>] = stream[<<1, "down">>],
         stream'[<<2, "down">>] = stream[<<2, "down">>]
  PROVE  DownInv'
  BY DEF DownInv, ReturnedBy

(* The ingress dials the first node. *)
LEMMA IngressKeeps ==
  ASSUME TunnelInv, NEW p \in PadLengths, IngressDial(p)
  PROVE  TunnelInv'
<1> USE DEF TunnelInv
<1>1. /\ chainLen' = chainLen /\ obfs' = obfs /\ target' = target /\ todo' = todo
      /\ dialled' = dialled /\ sent' = sent
  BY Zenon DEF IngressDial, session
<1>2. PICK units : units = AsUnits(obfs, EncodeHeader(HopChain, p)) BY Zenon
<1>3. /\ handler[0] = "dial"
      /\ kind' = [kind EXCEPT ![1] = "quic"]
      /\ handler' = [handler EXCEPT ![0] = "wait"]
      /\ stream' = [stream EXCEPT ![<<1, "up">>] = units \o <<>>]
      /\ beating' = beating \cup (IF obfs THEN {<<1, "near">>} ELSE {})
      /\ StartRelays(0)
  <2>1. 0 + 1 = 1 OBVIOUS
  <2> QED BY <1>2, <2>1, Zenon DEF IngressDial, DialNode, StartBeating
<1>4. kind'[1] = "quic" /\ kind'[0] = kind[0] /\ kind'[2] = kind[2] /\ kind'[3] = kind[3]
  BY <1>3 DEF TunnelTypes, Links
<1>5. handler'[0] = "wait" /\ handler'[1] = handler[1] /\ handler'[2] = handler[2]
  BY <1>3 DEF TunnelTypes, Nodes
<1>6. kind[1] = "none" /\ handler[1] = "idle" /\ kind[2] = "none" /\ handler[2] = "idle"
  BY <1>3, Zenon DEF RoleInv
<1>7. 0 \in Nodes BY DEF Nodes
<1>8. /\ relay' \in [Relays -> {"none", "run", "done"}]
      /\ \A m \in Nodes, d \in Dirs : m # 0 => relay'[<<m, d>>] = relay[<<m, d>>]
  BY <1>3, <1>7, RelaysStarted, Zenon
<1>9. /\ stream' = [t \in Streams |-> stream'[t]]
      /\ stream'[<<1, "up">>] = units \o <<>>
      /\ \A t \in Streams : t # <<1, "up">> => stream'[t] = stream[t]
  BY <1>3, StreamNames, StreamSet, Zenon
<1>10. /\ stream'[<<0, "up">>] = stream[<<0, "up">>]
       /\ stream'[<<2, "up">>] = stream[<<2, "up">>]
       /\ stream'[<<0, "down">>] = stream[<<0, "down">>]
       /\ stream'[<<1, "down">>] = stream[<<1, "down">>]
       /\ stream'[<<2, "down">>] = stream[<<2, "down">>]
  BY <1>9, StreamNames, Zenon
<1>11. TunnelTypes'
  <2>1. kind' \in [Links -> {"none", "tcp", "quic"}] BY <1>3, Zenon DEF TunnelTypes
  <2>2. handler' \in [Nodes -> {"idle", "dial", "decode", "egress", "relay", "wait",
                                "closein", "end"}]
    BY <1>3, Zenon DEF TunnelTypes
  <2> QED BY <1>1, <1>8, <1>9, <2>1, <2>2, ZenonT(30) DEF TunnelTypes
<1>12. RoleInv' BY <1>1, <1>4, <1>5, <1>6, Zenon DEF RoleInv
<1>13. RelayInv'
  <2>1. 1 \in Nodes /\ 2 \in Nodes /\ 1 # 0 /\ 2 # 0 BY DEF Nodes
  <2> QED BY <1>4, <1>8, <2>1, Zenon DEF RelayInv
<1>14. BeatInv' BY <1>1, <1>3, Zenon DEF BeatInv
<1>15. EntryInv' BY <1>1, Zenon DEF EntryInv
<1>16. FrameInv' BY <1>1, <1>10, Zenon DEF DataInv, FrameInv
<1>17. DownInv' BY <1>1, <1>10, DownKept, Zenon DEF DataInv
<1>18. UpInv'
  <2> SUFFICES ASSUME ~obfs PROVE Headed' /\ stream'[<<2, "up">>] = <<>>
    BY <1>1, <1>4, <1>5, <1>6, Zenon DEF UpInv
  <2>1. Waiting /\ stream[<<2, "up">>] = <<>> BY <1>6, Zenon DEF DataInv, UpInv
  <2>2. HopChain' = HopChain BY <1>1, Zenon DEF HopChain
  <2>3. PICK n \in Nat : n = sent["up"] BY Zenon DEF TunnelTypes, Dirs
  <2>4. HeadedBy(p, 0, n)'
    <3>1. 0 + n = n OBVIOUS
    <3>2. stream'[<<0, "up">>] = Run("up", 0, n) BY <1>10, <2>1, <2>3, Zenon DEF Waiting
    <3>3. stream'[<<1, "up">>]
            = AsUnits(FALSE, EncodeHeader(HopChain, p)) \o Run("up", 0, 0)
      <4>1. obfs = FALSE BY Zenon DEF TunnelTypes
      <4> QED BY <1>2, <1>9, <4>1, RunEmpty, Zenon
    <3> QED BY <1>1, <2>2, <2>3, <3>1, <3>2, <3>3, Zenon DEF HeadedBy
  <2>5. 0 \in 0..n /\ n \in 0..n OBVIOUS
  <2> QED BY <1>1, <1>10, <2>1, <2>3, <2>4, <2>5, Zenon DEF Headed
<1> QED BY <1>11, <1>12, <1>13, <1>14, <1>15, <1>16, <1>17, <1>18, Zenon DEF DataInv

(* What a relay writes to the node it dials begins with a header without    *)
(* hops.                                                                    *)
LEMMA RelayHeader ==
  ASSUME NEW p \in PadLengths, NEW header, IsSeq(header)
  PROVE  Hopless(AsUnits(FALSE, EncodeHeader(<<>>, p))
                   \o (IF header = <<>> THEN <<>> ELSE AsUnits(FALSE, header)))
<1>1. p \in Nat BY TunnelAssumption, Zenon
<1>2. PICK h : h = EncodeHeader(<<>>, p) BY Zenon
<1>3. IsSeq(h) /\ Len(h) >= 2 /\ h[1] = Magic /\ h[2] = Fields(0, p)
  <2>1. <<>> \in Seq({}) /\ Len(<<>>) = 0 OBVIOUS
  <2>2. PICK chain : chain = <<>> BY Zenon
  <2>3. chain \in Seq({}) /\ Len(chain) = 0 BY <2>1, <2>2, Zenon
  <2>4. LET x == EncodeHeader(chain, p)
        IN  IsSeq(x) /\ Len(x) >= 2 /\ x[1] = Magic /\ x[2] = Fields(Len(chain), p)
    BY <1>1, <2>3, HeaderSeq, Zenon
  <2> QED BY <1>2, <2>2, <2>3, <2>4, Zenon
<1>4. PICK u : u = AsUnits(FALSE, h) BY Zenon
<1>5. IsSeq(u) /\ Len(u) = Len(h) /\ \A i \in 1..Len(h) : u[i] = <<h[i]>>
  BY <1>3, <1>4, UnitsSeq, Zenon
<1>6. Len(h) \in Nat BY <1>3, Zenon DEF IsSeq
<1>7. 1 \in 1..Len(h) /\ 2 \in 1..Len(h) BY <1>3, <1>6
<1>8. u[1] = <<Magic>> /\ u[2] = <<Fields(0, p)>> BY <1>3, <1>5, <1>7, Zenon
<1>9. PICK v : v = IF header = <<>> THEN <<>> ELSE AsUnits(FALSE, header) BY Zenon
<1>10. IsSeq(v)
  <2>1. CASE header = <<>>
    <3>1. v = header BY <1>9, <2>1, Zenon
    <3> QED BY <3>1, Zenon
  <2>2. CASE header # <<>>
    <3>1. v = AsUnits(FALSE, header) BY <1>9, <2>2, Zenon
    <3> QED BY <3>1, UnitsSeq, Zenon
  <2> QED BY <2>1, <2>2, Zenon
<1>11. PICK x : x = Then(u, v) BY Zenon
<1>12. IsSeq(x) /\ Len(x) = Len(u) + Len(v) /\ \A i \in 1..Len(u) : x[i] = u[i]
  BY <1>5, <1>10, <1>11, ThenAny, Zenon
<1>13. x[1] = <<Magic>> /\ x[2] = <<Fields(0, p)>> BY <1>5, <1>7, <1>8, <1>12, Zenon
<1>14. Len(x) >= 2
  <2>1. Len(v) \in Nat BY <1>10, Zenon DEF IsSeq
  <2> QED BY <2>1, <1>3, <1>5, <1>6, <1>12
<1>15. Hopless(x) BY <1>12, <1>13, <1>14, Zenon DEF Hopless
<1> QED BY <1>2, <1>4, <1>9, <1>11, <1>15, Zenon DEF Then

(* A relay dials the next node. *)
LEMMA RelayDialKeeps ==
  ASSUME TunnelInv, NEW n \in Nodes, NEW p \in PadLengths, RelayDial(n, p)
  PROVE  TunnelInv'
<1> USE DEF TunnelInv
<1>0. n = 1 BY DEF RelayDial, RoleInv, Nodes
<1>1. /\ chainLen' = chainLen /\ obfs' = obfs /\ target' = target /\ todo' = todo
      /\ dialled' = dialled /\ sent' = sent
  BY Zenon DEF RelayDial, session
<1>a. ~obfs /\ IsSeq(todo[1].header) /\ kind[2] = "none" /\ kind[1] = "quic" /\ handler[1] = "relay"
  BY <1>0, Zenon DEF RoleInv, RelayDial
<1>2. PICK units : units = AsUnits(FALSE, EncodeHeader(<<>>, p))
                 \o (IF todo[1].header = <<>> THEN <<>> ELSE AsUnits(FALSE, todo[1].header))
  BY Zenon
<1>3. /\ kind' = [kind EXCEPT ![2] = "quic"]
      /\ handler' = [handler EXCEPT ![1] = "wait"]
      /\ stream' = [stream EXCEPT ![<<2, "up">>] = units]
      /\ beating' = beating
      /\ StartRelays(1)
  <2>1. 1 + 1 = 2 OBVIOUS
  <2>2. obfs = FALSE BY <1>a, Zenon DEF TunnelTypes
  <2>3. DialNode(1, <<>>, p, todo[1].header) BY <1>0, Zenon DEF RelayDial
  <2>4. beating' = beating \cup {} BY <1>a, <2>3, Zenon DEF DialNode, StartBeating
  <2>5. beating' = beating BY <2>4, Zenon
  <2> QED BY <1>2, <2>1, <2>2, <2>3, <2>5, Zenon DEF DialNode
<1>4. kind'[2] = "quic" /\ kind'[0] = kind[0] /\ kind'[1] = kind[1] /\ kind'[3] = kind[3]
  BY <1>3 DEF TunnelTypes, Links
<1>5. handler'[1] = "wait" /\ handler'[0] = handler[0] /\ handler'[2] = handler[2]
  BY <1>3 DEF TunnelTypes, Nodes
<1>6. 1 \in Nodes BY DEF Nodes
<1>7. /\ relay' \in [Relays -> {"none", "run", "done"}]
      /\ \A m \in Nodes, d \in Dirs : m # 1 => relay'[<<m, d>>] = relay[<<m, d>>]
  BY <1>3, <1>6, RelaysStarted, Zenon
<1>8. /\ stream' = [t \in Streams |-> stream'[t]]
      /\ stream'[<<2, "up">>] = units
      /\ \A t \in Streams : t # <<2, "up">> => stream'[t] = stream[t]
  BY <1>3, StreamNames, StreamSet, Zenon
<1>9. /\ stream'[<<0, "down">>] = stream[<<0, "down">>]
      /\ stream'[<<1, "down">>] = stream[<<1, "down">>]
      /\ stream'[<<2, "down">>] = stream[<<2, "down">>]
  BY <1>8, StreamNames, Zenon
<1>10. TunnelTypes'
  <2>1. kind' \in [Links -> {"none", "tcp", "quic"}] BY <1>3, Zenon DEF TunnelTypes
  <2>2. handler' \in [Nodes -> {"idle", "dial", "decode", "egress", "relay", "wait",
                                "closein", "end"}]
    BY <1>3, Zenon DEF TunnelTypes
  <2> QED BY <1>1, <1>7, <1>8, <2>1, <2>2, ZenonT(30) DEF TunnelTypes
<1>11. RoleInv' BY <1>1, <1>4, <1>5, <1>a, Zenon DEF RoleInv
<1>12. RelayInv'
  <2>1. 0 \in Nodes /\ 2 \in Nodes /\ 0 # 1 /\ 2 # 1 /\ "quic" # "none" BY DEF Nodes
  <2> QED BY <1>4, <1>7, <2>1, Zenon DEF RelayInv
<1>13. BeatInv' BY <1>1, <1>3, Zenon DEF BeatInv
<1>14. EntryInv' BY <1>1, Zenon DEF EntryInv
<1>15. FrameInv' BY <1>1, <1>a, Zenon DEF FrameInv
<1>16. DownInv' BY <1>1, <1>9, DownKept, Zenon DEF DataInv
<1>17. UpInv'
  <2>0. Hopless(AsUnits(FALSE, EncodeHeader(<<>>, p))
                \o (IF todo[1].header = <<>> THEN <<>> ELSE AsUnits(FALSE, todo[1].header)))
    BY <1>a, RelayHeader, Zenon
  <2>1. Hopless(stream'[<<2, "up">>]) BY <1>2, <1>8, <2>0, Zenon
  <2> QED BY <1>4, <1>5, <1>a, <2>1, Zenon DEF UpInv
<1> QED BY <1>10, <1>11, <1>12, <1>13, <1>14, <1>15, <1>16, <1>17, Zenon DEF DataInv

(* The egress dials the target. *)
LEMMA EgressKeeps ==
  ASSUME TunnelInv, NEW n \in Nodes, EgressDial(n)
  PROVE  TunnelInv'
<1> USE DEF TunnelInv
<1>0. n = 1 BY DEF EgressDial, RoleInv, Nodes
<1>1. /\ chainLen' = chainLen /\ obfs' = obfs /\ target' = target /\ todo' = todo
      /\ stream' = stream /\ beating' = beating /\ sent' = sent
  BY Zenon DEF EgressDial, session
<1>2. /\ chainLen = 1 /\ ~obfs /\ todo[1].hop = HopEntry(target)
      /\ kind[2] = "none" /\ kind[1] = "quic" /\ handler[1] = "egress"
  BY <1>0, Zenon DEF RoleInv, EgressDial
<1>3. /\ kind' = [kind EXCEPT ![2] = "tcp"]
      /\ handler' = [handler EXCEPT ![1] = "wait"]
      /\ dialled' = todo[1].hop
      /\ StartRelays(1)
  <2>1. 1 + 1 = 2 OBVIOUS
  <2> QED BY <1>0, <2>1, Zenon DEF EgressDial
<1>4. kind'[2] = "tcp" /\ kind'[0] = kind[0] /\ kind'[1] = kind[1] /\ kind'[3] = kind[3]
  BY <1>3 DEF TunnelTypes, Links
<1>5. handler'[1] = "wait" /\ handler'[0] = handler[0] /\ handler'[2] = handler[2]
  BY <1>3 DEF TunnelTypes, Nodes
<1>6. 1 \in Nodes BY DEF Nodes
<1>7. /\ relay' \in [Relays -> {"none", "run", "done"}]
      /\ \A m \in Nodes, d \in Dirs : m # 1 => relay'[<<m, d>>] = relay[<<m, d>>]
  BY <1>3, <1>6, RelaysStarted, Zenon
<1>8. TunnelTypes'
  <2>1. kind' \in [Links -> {"none", "tcp", "quic"}] BY <1>3, Zenon DEF TunnelTypes
  <2>2. handler' \in [Nodes -> {"idle", "dial", "decode", "egress", "relay", "wait",
                                "closein", "end"}]
    BY <1>3, Zenon DEF TunnelTypes
  <2> QED BY <1>1, <1>7, <2>1, <2>2, Zenon DEF TunnelTypes
<1>9. RoleInv'
  <2>1. handler[2] = "idle" BY <1>2, Zenon DEF RoleInv
  <2> QED BY <1>1, <1>2, <1>4, <1>5, <2>1, Zenon DEF RoleInv
<1>10. RelayInv'
  <2>1. 0 \in Nodes /\ 2 \in Nodes /\ 0 # 1 /\ 2 # 1 /\ "tcp" # "none" BY DEF Nodes
  <2> QED BY <1>4, <1>7, <2>1, Zenon DEF RelayInv
<1>11. BeatInv' BY <1>1, Zenon DEF BeatInv
<1>12. EntryInv' BY <1>1, <1>2, <1>3, Zenon DEF EntryInv
<1>13. FrameInv' BY <1>1, <1>2, Zenon DEF FrameInv
<1>14. DownInv' BY <1>1, DownKept, Zenon DEF DataInv
<1>15. UpInv'
  <2>1. Stripped BY <1>2, Zenon DEF DataInv, UpInv
  <2>2. Stripped' BY <2>1, <1>1, Zenon DEF Stripped, StrippedBy
  <2> QED BY <1>2, <1>4, <1>5, <2>2, Zenon DEF UpInv
<1> QED BY <1>8, <1>9, <1>10, <1>11, <1>12, <1>13, <1>14, <1>15, Zenon DEF DataInv

(* A node decodes the header it was sent. *)
LEMMA DecodeKeeps ==
  ASSUME TunnelInv, NEW n \in Nodes, Decode(n)
  PROVE  TunnelInv'
<1> USE DEF TunnelInv
<1>1. /\ chainLen' = chainLen /\ obfs' = obfs /\ target' = target /\ kind' = kind
      /\ relay' = relay /\ beating' = beating /\ dialled' = dialled /\ sent' = sent
  BY Zenon DEF Decode, session
<1>2. handler[n] = "decode" /\ ~Framed(n) /\ ~DecodeFails(CellsOf(<<n, "up">>))
  BY Zenon DEF Decode
<1>3. (n = 1 \/ n = 2) /\ kind[n] = "quic" BY <1>2 DEF RoleInv, Nodes
<1>4. ~obfs BY <1>2, <1>3, Zenon DEF Framed
<1>5. n = 1
  <2> SUFFICES ASSUME n = 2 PROVE FALSE BY <1>3, Zenon
  <2>1. Hopless(stream[<<n, "up">>]) BY <1>3, <1>4, Zenon DEF DataInv, UpInv
  <2> QED BY <2>1, <1>2, HoplessRefused, Zenon
<1>6. kind[1] = "quic" /\ kind[2] = "none" /\ handler[1] = "decode"
  BY <1>2, <1>3, <1>5, Zenon DEF RoleInv
<1>7. Headed BY <1>4, <1>6, Zenon DEF DataInv, UpInv
<1>8. PICK p \in PadLengths, b \in 0..sent["up"], c \in 0..sent["up"] : HeadedBy(p, b, c)
  BY <1>7, Zenon DEF Headed
<1>9. PICK m \in Nat : m = sent["up"] BY Zenon DEF TunnelTypes, Dirs
<1>10. b \in Nat /\ c \in Nat BY <1>8, <1>9
<1>c. chainLen \in 0..2 BY Zenon DEF TunnelTypes
<1>11. PICK cells : cells = CellsOf(<<1, "up">>) BY Zenon
<1>12. /\ chainLen # 0
       /\ HopsLeft(cells) = chainLen - 1
       /\ chainLen = 1 => NextHop(cells) = HopEntry(target)
       /\ AsUnits(FALSE, StreamAfter(cells)) = Run("up", 0, b)
  BY <1>2, <1>5, <1>8, <1>10, <1>11, <1>c, HeadedDecoded, Zenon DEF HeadedBy
<1>13. PICK next : next = IF HopsLeft(cells) = 0 THEN "egress" ELSE "relay" BY Zenon
<1>14. PICK t : t = [hop |-> NextHop(cells), header |-> RemainingHeader(cells)] BY Zenon
<1>15. /\ todo' = [todo EXCEPT ![1] = t]
       /\ handler' = [handler EXCEPT ![1] = next]
       /\ stream' = [stream EXCEPT ![<<1, "up">>] = Run("up", 0, b)]
  BY <1>5, <1>11, <1>12, <1>13, <1>14, Zenon DEF Decode
<1>16. \/ chainLen = 1 /\ next = "egress" /\ t.hop = HopEntry(target)
       \/ chainLen = 2 /\ next = "relay" /\ IsSeq(t.header)
  <2>1. CASE chainLen = 1
    <3>1. HopsLeft(cells) = 0 BY <2>1, <1>12
    <3>2. t.hop = NextHop(cells) BY <1>14, Zenon
    <3> QED BY <2>1, <3>1, <3>2, <1>12, <1>13, Zenon
  <2>2. CASE chainLen = 2
    <3>1. HopsLeft(cells) = 1 /\ HopsLeft(cells) # 0 BY <2>2, <1>12
    <3>2. t.header = RemainingHeader(cells) BY <1>14, Zenon
    <3>3. IsSeq(t.header) BY <3>1, <3>2, RemainderSeq, Zenon
    <3> QED BY <2>2, <3>1, <3>3, <1>13, Zenon
  <2> QED BY <2>1, <2>2, <1>12, <1>c
<1>17. next \in {"egress", "relay"} BY <1>16, Zenon
<1>18. todo' = [k \in Nodes |-> todo'[k]] /\ todo'[1] = t
  <2>1. todo = [k \in Nodes |-> todo[k]] BY Zenon DEF TunnelTypes
  <2>2. 1 \in Nodes BY DEF Nodes
  <2> QED BY <1>15, <2>1, <2>2, Zenon
<1>19. handler'[1] = next /\ handler'[0] = handler[0] /\ handler'[2] = handler[2]
  BY <1>15 DEF TunnelTypes, Nodes
<1>20. /\ stream' = [s \in Streams |-> stream'[s]]
       /\ stream'[<<1, "up">>] = Run("up", 0, b)
       /\ \A s \in Streams : s # <<1, "up">> => stream'[s] = stream[s]
  BY <1>15, StreamNames, StreamSet, Zenon
<1>21. /\ stream'[<<0, "up">>] = stream[<<0, "up">>]
       /\ stream'[<<2, "up">>] = stream[<<2, "up">>]
       /\ stream'[<<0, "down">>] = stream[<<0, "down">>]
       /\ stream'[<<1, "down">>] = stream[<<1, "down">>]
       /\ stream'[<<2, "down">>] = stream[<<2, "down">>]
  BY <1>20, StreamNames, Zenon
<1>22. TunnelTypes'
  <2>1. handler' \in [Nodes -> {"idle", "dial", "decode", "egress", "relay", "wait",
                                "closein", "end"}]
    BY <1>15, <1>17, Zenon DEF TunnelTypes
  <2> QED BY <1>1, <1>18, <1>20, <2>1, Zenon DEF TunnelTypes
<1>23. RoleInv'
  <2>1. CASE chainLen = 1 /\ next = "egress" /\ t.hop = HopEntry(target)
    BY <2>1, <1>1, <1>4, <1>6, <1>18, <1>19, Zenon DEF RoleInv
  <2>2. CASE chainLen = 2 /\ next = "relay" /\ IsSeq(t.header)
    BY <2>2, <1>1, <1>4, <1>6, <1>18, <1>19, Zenon DEF RoleInv
  <2> QED BY <1>16, <2>1, <2>2, Zenon
<1>24. RelayInv' BY <1>1, Zenon DEF RelayInv
<1>25. BeatInv' BY <1>1, Zenon DEF BeatInv
<1>26. EntryInv' BY <1>1, Zenon DEF EntryInv
<1>27. FrameInv' BY <1>1, <1>4, Zenon DEF FrameInv
<1>28. DownInv' BY <1>1, <1>21, DownKept, Zenon DEF DataInv
<1>29. UpInv'
  <2>1. stream[<<2, "up">>] = <<>> BY <1>4, <1>6, Zenon DEF DataInv, UpInv
  <2>2. Stripped'
    <3>1. 0 \in 0..sent["up"] BY <1>9
    <3>2. 0 + b = b /\ 0 + b + c = b + c BY <1>10
    <3>3. b + c = sent["up"] /\ stream[<<0, "up">>] = Run("up", b, c)
      BY <1>8, Zenon DEF HeadedBy
    <3>4. stream'[<<2, "up">>] = Run("up", 0, 0) BY <1>21, <2>1, RunEmpty, Zenon
    <3>5. StrippedBy(0, b, c)'
      BY <1>1, <1>20, <1>21, <3>2, <3>3, <3>4, Zenon DEF StrippedBy
    <3> QED BY <1>1, <1>8, <3>1, <3>5, Zenon DEF Stripped
  <2> QED BY <1>1, <1>6, <1>17, <1>19, <1>21, <2>1, <2>2, Zenon DEF UpInv
<1> QED BY <1>22, <1>23, <1>24, <1>25, <1>26, <1>27, <1>28, <1>29, Zenon DEF DataInv

-----------------------------------------------------------------------------
(* The steps of a tunnel: payload and heartbeats. *)

(* A step that changes the streams and what the peers have sent only. *)
StreamsOnly ==
  /\ UNCHANGED <<session, kind, handler, todo, relay, beating, dialled>>
  /\ stream' = [s \in Streams |-> stream'[s]]
  /\ sent' \in [Dirs -> Nat]

(* Then only what the invariant says of the data is in question. *)
LEMMA StreamsKeep ==
  ASSUME TunnelInv, StreamsOnly, DataInv'
  PROVE  TunnelInv'
<1> USE DEF TunnelInv
<1>1. /\ chainLen' = chainLen /\ obfs' = obfs /\ target' = target /\ kind' = kind
      /\ todo' = todo /\ handler' = handler /\ dialled' = dialled
      /\ relay' = relay /\ beating' = beating
  BY Zenon DEF StreamsOnly, session
<1>2. TunnelTypes' BY <1>1, Zenon DEF TunnelTypes, StreamsOnly
<1>3. RoleInv' BY <1>1, Zenon DEF RoleInv
<1>4. RelayInv' BY <1>1, Zenon DEF RelayInv
<1>5. BeatInv' BY <1>1, Zenon DEF BeatInv
<1>6. EntryInv' BY <1>1, Zenon DEF EntryInv
<1> QED BY <1>2, <1>3, <1>4, <1>5, <1>6, Zenon

(* k units go from one stream without frames to another. *)
Moved(A, B, k) ==
  /\ k \in 1..Len(stream[A])
  /\ stream'[A] = Rest(stream[A], k)
  /\ stream'[B] = Then(stream[B], Taken(A, k))
  /\ \A s \in Streams : s # A /\ s # B => stream'[s] = stream[s]

(* Forward between two streams without frames. *)
LEMMA ForwardMoves ==
  ASSUME TunnelTypes, NEW r, NEW k, Forward(r, k), NEW A, NEW B,
         A = Src(r), B = Dst(r), A \in Streams, B \in Streams, A # B, ~obfs
  PROVE  Moved(A, B, k)
<1>1. stream = [s \in Streams |-> stream[s]] BY Zenon DEF TunnelTypes
<1>2. ~Framed(A[1]) /\ Framed(B[1]) = FALSE BY Zenon DEF Framed
<1>3. PICK x : x = Drop(A, k) BY Zenon
<1>4. PICK y : y = AsUnits(FALSE, Take(A, k)) BY Zenon
<1>5. stream' = [stream EXCEPT ![A] = x, ![B] = @ \o y]
  BY <1>2, <1>3, <1>4, Zenon DEF Forward
<1>6. /\ stream'[A] = x
      /\ \A s \in Streams : s # A /\ s # B => stream'[s] = stream[s]
  BY <1>1, <1>5, Zenon
<1>7. stream'[B] = Then(stream[B], y) BY <1>1, <1>5, Zenon DEF Then
<1>8. x = Rest(stream[A], k) BY <1>3, Zenon DEF Drop, Rest
<1>9. y = Taken(A, k) BY <1>2, <1>4, Zenon DEF Take, Taken
<1>10. k \in 1..Len(stream[A]) BY <1>2, Zenon DEF Forward, Readable
<1> QED BY <1>6, <1>7, <1>8, <1>9, <1>10, Zenon DEF Moved

(* What is left of a run, and what is written of it. *)
RunMoved(A, B, k, d, a, n) ==
  /\ k \in 1..n
  /\ stream'[A] = Run(d, a + k, n - k)
  /\ stream'[B] = Then(stream[B], Run(d, a, k))

(* Moved makes this of a run. *)
LEMMA MovedRun ==
  ASSUME NEW A, NEW B, NEW k, Moved(A, B, k),
         NEW d, NEW a \in Nat, NEW n \in Nat, IsRun(stream[A], d, a, n)
  PROVE  RunMoved(A, B, k, d, a, n)
<1>1. Len(Run(d, a, n)) = n BY RunSeq, Zenon
<1>2. stream[A] = Run(d, a, n) BY Zenon DEF IsRun
<1>3. k \in 1..n BY <1>1, <1>2, Zenon DEF Moved
<1>4. Rest(Run(d, a, n), k) = Run(d, a + k, n - k) BY <1>3, RunDrop
<1>5. Taken(A, k) = Run(d, a, k) BY <1>2, <1>3, RunTaken
<1> QED BY <1>2, <1>3, <1>4, <1>5, Zenon DEF Moved, RunMoved

(* A run moves behind the run before it. *)
LEMMA MovedRuns ==
  ASSUME NEW A, NEW B, NEW k, Moved(A, B, k),
         NEW d, NEW x \in Nat, NEW m \in Nat, NEW n \in Nat,
         stream[B] = Run(d, x, m), stream[A] = Run(d, x + m, n)
  PROVE  /\ k \in 1..n
         /\ stream'[A] = Run(d, x + (m + k), n - k)
         /\ stream'[B] = Run(d, x, m + k)
<1>1. PICK a \in Nat : a = x + m OBVIOUS
<1>2. IsRun(stream[A], d, a, n) BY <1>1, Zenon DEF IsRun
<1>3. /\ k \in 1..n
      /\ stream'[A] = Run(d, a + k, n - k)
      /\ stream'[B] = Then(stream[B], Run(d, a, k))
  <2>1. RunMoved(A, B, k, d, a, n) BY <1>2, MovedRun, Zenon
  <2> QED BY <2>1, Zenon DEF RunMoved
<1>4. k \in Nat BY <1>3
<1>5. a + k = x + (m + k) BY <1>1, <1>4
<1>6. IsRun(Then(Run(d, x, m), Run(d, x + m, k)), d, x, m + k) BY <1>4, RunJoin, Zenon
<1> QED BY <1>1, <1>3, <1>5, <1>6, Zenon DEF IsRun

(* Three sequences in a row. *)
LEMMA ThreeInRow ==
  ASSUME NEW s, NEW t, NEW u, IsSeq(s), IsSeq(t), IsSeq(u)
  PROVE  Then(Then(s, t), u) = Then(s, Then(t, u))
<1>1. PICK V : s \in Seq(V) BY SeqIsSeq, Zenon
<1>2. PICK W : t \in Seq(W) BY SeqIsSeq, Zenon
<1>3. PICK X : u \in Seq(X) BY SeqIsSeq, Zenon
<1>4. PICK U : U = V \cup W \cup X BY Zenon
<1>5. s \in Seq(U) /\ t \in Seq(U) /\ u \in Seq(U) BY <1>1, <1>2, <1>3, <1>4
<1> QED BY <1>5 DEF Then

(* The ingress forwards payload to the first node. *)
LEMMA IngressUp ==
  ASSUME TunnelInv, StreamsOnly, sent' = sent, ~obfs, kind[1] = "quic", NEW k,
         Moved(<<0, "up">>, <<1, "up">>, k)
  PROVE  DataInv'
<1> USE DEF TunnelInv
<1>1. /\ chainLen' = chainLen /\ obfs' = obfs /\ target' = target /\ kind' = kind
      /\ handler' = handler
  BY Zenon DEF StreamsOnly, session
<1>2. /\ stream'[<<2, "up">>] = stream[<<2, "up">>]
      /\ stream'[<<0, "down">>] = stream[<<0, "down">>]
      /\ stream'[<<1, "down">>] = stream[<<1, "down">>]
      /\ stream'[<<2, "down">>] = stream[<<2, "down">>]
  BY StreamNames, Zenon DEF Moved
<1>n. sent["up"] \in Nat BY Zenon DEF TunnelTypes, Dirs
<1>3. FrameInv' BY <1>1, Zenon DEF FrameInv
<1>4. DownInv' BY <1>1, <1>2, DownKept, Zenon DEF DataInv
<1>5. ASSUME Headed PROVE Headed'
  <2>1. PICK p \in PadLengths, b \in 0..sent["up"], c \in 0..sent["up"] : HeadedBy(p, b, c)
    BY <1>5, Zenon DEF Headed
  <2>2. b \in Nat /\ c \in Nat BY <1>n
  <2>3. PICK h : h = AsUnits(FALSE, EncodeHeader(HopChain, p)) BY Zenon
  <2>4. /\ stream[<<0, "up">>] = Run("up", b, c) /\ b + c = sent["up"]
        /\ stream[<<1, "up">>] = h \o Run("up", 0, b)
    BY <2>1, <2>3, Zenon DEF HeadedBy
  <2>5. /\ k \in 1..c
        /\ stream'[<<0, "up">>] = Run("up", b + k, c - k)
        /\ stream'[<<1, "up">>] = Then(stream[<<1, "up">>], Run("up", b, k))
    <3>1. IsRun(stream[<<0, "up">>], "up", b, c) BY <2>4, Zenon DEF IsRun
    <3>2. RunMoved(<<0, "up">>, <<1, "up">>, k, "up", b, c) BY <2>2, <3>1, MovedRun, Zenon
    <3> QED BY <3>2, Zenon DEF RunMoved
  <2>6. k \in Nat BY <2>5
  <2>7. Then(Run("up", 0, b), Run("up", b, k)) = Run("up", 0, b + k)
    <3>1. 0 + b = b /\ 0 \in Nat BY <2>2
    <3>2. IsRun(Then(Run("up", 0, b), Run("up", 0 + b, k)), "up", 0, b + k)
      BY <2>2, <2>6, <3>1, RunJoin, Zenon
    <3> QED BY <3>1, <3>2, Zenon DEF IsRun
  <2>8. stream'[<<1, "up">>] = h \o Run("up", 0, b + k)
    <3>1. IsSeq(h)
      <4>1. HopChain \in Seq({Node2, target}) BY ChainFacts, Zenon DEF TunnelTypes
      <4>2. p \in Nat BY TunnelAssumption, Zenon
      <4>3. IsSeq(EncodeHeader(HopChain, p)) BY <4>1, <4>2, HeaderSeq, Zenon
      <4> QED BY <4>3, <2>3, UnitsSeq, Zenon
    <3>2. 0 \in Nat BY Zenon
    <3>3. IsSeq(Run("up", 0, b)) /\ IsSeq(Run("up", b, k))
      BY <2>2, <2>6, <3>2, RunSeq, SeqIsSeq, Zenon
    <3>4. Then(Then(h, Run("up", 0, b)), Run("up", b, k))
            = Then(h, Then(Run("up", 0, b), Run("up", b, k)))
      BY <3>1, <3>3, ThreeInRow
    <3> QED BY <2>4, <2>5, <2>7, <3>4, Zenon DEF Then
  <2>9. (b + k) + (c - k) = sent["up"] /\ b + k \in 0..sent["up"] /\ c - k \in 0..sent["up"]
    BY <1>n, <2>2, <2>4, <2>5
  <2>10. HopChain' = HopChain BY <1>1, Zenon DEF HopChain
  <2>11. HeadedBy(p, b + k, c - k)'
    BY <2>3, <2>5, <2>8, <2>9, <2>10, Zenon DEF HeadedBy
  <2> QED BY <2>9, <2>11, Zenon DEF Headed
<1>6. ASSUME Stripped PROVE Stripped'
  <2>1. PICK a \in 0..sent["up"], b \in 0..sent["up"], c \in 0..sent["up"] : StrippedBy(a, b, c)
    BY <1>6, Zenon DEF Stripped
  <2>2. a \in Nat /\ b \in Nat /\ c \in Nat BY <1>n
  <2>3. /\ stream[<<0, "up">>] = Run("up", a + b, c) /\ a + b + c = sent["up"]
        /\ stream[<<1, "up">>] = Run("up", a, b) /\ stream[<<2, "up">>] = Run("up", 0, a)
    BY <2>1, Zenon DEF StrippedBy
  <2>4. /\ k \in 1..c
        /\ stream'[<<0, "up">>] = Run("up", a + (b + k), c - k)
        /\ stream'[<<1, "up">>] = Run("up", a, b + k)
    BY <2>2, <2>3, MovedRuns
  <2>5. a + (b + k) + (c - k) = sent["up"] /\ b + k \in 0..sent["up"] /\ c - k \in 0..sent["up"]
    BY <1>n, <2>2, <2>3, <2>4
  <2>6. StrippedBy(a, b + k, c - k)'
    BY <1>2, <2>3, <2>4, <2>5, Zenon DEF StrippedBy
  <2> QED BY <2>1, <2>5, <2>6, Zenon DEF Stripped
<1>7. UpInv' BY <1>1, <1>2, <1>5, <1>6, Zenon DEF DataInv, UpInv
<1> QED BY <1>3, <1>4, <1>7, Zenon DEF DataInv

(* What is added to a stream keeps its header. *)
LEMMA HoplessStays ==
  ASSUME NEW s, Hopless(s), NEW t, IsSeq(t)
  PROVE  Hopless(s \o t)
<1>1. PICK x : x = Then(s, t) BY Zenon
<1>2. /\ IsSeq(s) /\ Len(s) >= 2 /\ s[1] = <<Magic>>
      /\ s[2] \in {<<Fields(0, p)>> : p \in PadLengths}
  BY Zenon DEF Hopless
<1>3. IsSeq(x) /\ Len(x) = Len(s) + Len(t) /\ \A i \in 1..Len(s) : x[i] = s[i]
  BY <1>1, <1>2, ThenAny, Zenon
<1>4. Len(s) \in Nat /\ Len(t) \in Nat BY <1>2, Zenon DEF IsSeq
<1>5. Len(x) >= 2 /\ 1 \in 1..Len(s) /\ 2 \in 1..Len(s) BY <1>2, <1>3, <1>4
<1>6. x[1] = s[1] /\ x[2] = s[2] BY <1>3, <1>5, Zenon
<1>7. Hopless(x) BY <1>2, <1>3, <1>5, <1>6, Zenon DEF Hopless
<1> QED BY <1>1, <1>7, Zenon DEF Then

(* The first node forwards payload to the target, or to the second node. *)
LEMMA SecondUp ==
  ASSUME TunnelInv, StreamsOnly, sent' = sent, ~obfs, kind[2] # "none", NEW k,
         Moved(<<1, "up">>, <<2, "up">>, k)
  PROVE  DataInv'
<1> USE DEF TunnelInv
<1>1. /\ chainLen' = chainLen /\ obfs' = obfs /\ target' = target /\ kind' = kind
      /\ handler' = handler
  BY Zenon DEF StreamsOnly, session
<1>2. /\ stream'[<<0, "up">>] = stream[<<0, "up">>]
      /\ stream'[<<0, "down">>] = stream[<<0, "down">>]
      /\ stream'[<<1, "down">>] = stream[<<1, "down">>]
      /\ stream'[<<2, "down">>] = stream[<<2, "down">>]
  BY StreamNames, Zenon DEF Moved
<1>n. sent["up"] \in Nat BY Zenon DEF TunnelTypes, Dirs
<1>3. FrameInv' BY <1>1, Zenon DEF FrameInv
<1>4. DownInv' BY <1>1, <1>2, DownKept, Zenon DEF DataInv
<1>5. ASSUME Stripped PROVE Stripped'
  <2>1. PICK a \in 0..sent["up"], b \in 0..sent["up"], c \in 0..sent["up"] : StrippedBy(a, b, c)
    BY <1>5, Zenon DEF Stripped
  <2>2. a \in Nat /\ b \in Nat /\ c \in Nat BY <1>n
  <2>3. /\ stream[<<0, "up">>] = Run("up", a + b, c) /\ a + b + c = sent["up"]
        /\ stream[<<1, "up">>] = Run("up", a, b) /\ stream[<<2, "up">>] = Run("up", 0, a)
    BY <2>1, Zenon DEF StrippedBy
  <2>4. 0 \in Nat /\ 0 + a = a BY <2>2
  <2>5. /\ k \in 1..b
        /\ stream'[<<1, "up">>] = Run("up", 0 + (a + k), b - k)
        /\ stream'[<<2, "up">>] = Run("up", 0, a + k)
    <3>1. stream[<<1, "up">>] = Run("up", 0 + a, b) BY <2>3, <2>4, Zenon
    <3> QED BY <2>2, <2>3, <2>4, <3>1, MovedRuns
  <2>6. /\ (a + k) + (b - k) + c = sent["up"] /\ 0 + (a + k) = a + k
        /\ (a + k) + (b - k) = a + b
        /\ a + k \in 0..sent["up"] /\ b - k \in 0..sent["up"]
    BY <1>n, <2>2, <2>3, <2>5
  <2>7. StrippedBy(a + k, b - k, c)'
    BY <1>2, <2>3, <2>5, <2>6, Zenon DEF StrippedBy
  <2> QED BY <2>1, <2>6, <2>7, Zenon DEF Stripped
<1>6. ASSUME Hopless(stream[<<2, "up">>]) PROVE Hopless(stream'[<<2, "up">>])
  <2>1. PICK cells : cells = CellsOf(<<1, "up">>) BY Zenon
  <2>2. PICK u : u = Taken(<<1, "up">>, k) BY Zenon
  <2>3. k \in Nat
    <3>1. k \in 1..Len(stream[<<1, "up">>]) BY Zenon DEF Moved
    <3> QED BY <3>1
  <2>4. u = [i \in 1..k |-> <<cells[i]>>]
    <3>1. AsUnits(FALSE, SubSeq(cells, 1, k)) = [i \in 1..k |-> <<cells[i]>>]
      BY <2>3, TakenUnits, Zenon
    <3> QED BY <2>1, <2>2, <3>1, Zenon DEF Taken
  <2>5. IsSeq(u)
    <3>1. u = [i \in 1..k |-> u[i]] BY <2>4, Zenon
    <3> QED BY <2>3, <3>1, FunctionIsSeq, SeqIsSeq, Zenon
  <2>6. stream'[<<2, "up">>] = stream[<<2, "up">>] \o u BY <2>2, Zenon DEF Moved, Then
  <2> QED BY <1>6, <2>5, <2>6, HoplessStays, Zenon
<1>7. handler[1] \notin {"idle", "decode", "egress"} /\ kind[1] # "none"
  BY Zenon DEF RoleInv
<1>8. UpInv' BY <1>1, <1>2, <1>5, <1>6, <1>7, Zenon DEF DataInv, UpInv
<1> QED BY <1>3, <1>4, <1>8, Zenon DEF DataInv

(* The streams from the client do not change. *)
LEMMA UpKept ==
  ASSUME UpInv, UNCHANGED <<session, kind, handler>>, sent'["up"] = sent["up"],
         stream'[<<0, "up">>] = stream[<<0, "up">>],
         stream'[<<1, "up">>] = stream[<<1, "up">>],
         stream'[<<2, "up">>] = stream[<<2, "up">>]
  PROVE  UpInv'
<1>1. obfs' = obfs /\ kind' = kind /\ handler' = handler BY Zenon DEF session
<1>2. HopChain' = HopChain BY Zenon DEF session, HopChain
<1>3. Waiting => Waiting' BY Zenon DEF Waiting
<1>4. Headed => Headed' BY <1>2, Zenon DEF Headed, HeadedBy
<1>5. Stripped => Stripped' BY Zenon DEF Stripped, StrippedBy
<1> QED BY <1>1, <1>3, <1>4, <1>5, Zenon DEF UpInv

(* A node passes on what the target has sent. *)
LEMMA Returns ==
  ASSUME TunnelInv, StreamsOnly, sent' = sent, ~obfs, NEW k,
         \/ Moved(<<1, "down">>, <<0, "down">>, k)
         \/ Moved(<<2, "down">>, <<1, "down">>, k)
  PROVE  DataInv'
<1> USE DEF TunnelInv
<1>1. obfs' = obfs BY Zenon DEF StreamsOnly, session
<1>2. /\ stream'[<<0, "up">>] = stream[<<0, "up">>]
      /\ stream'[<<1, "up">>] = stream[<<1, "up">>]
      /\ stream'[<<2, "up">>] = stream[<<2, "up">>]
  BY StreamNames, Zenon DEF Moved
<1>n. sent["down"] \in Nat BY Zenon DEF TunnelTypes, Dirs
<1>3. FrameInv' BY <1>1, Zenon DEF FrameInv
<1>4. UpInv' BY <1>2, UpKept, Zenon DEF DataInv, StreamsOnly
<1>5. PICK a \in 0..sent["down"], b \in 0..sent["down"], c \in 0..sent["down"] :
        ReturnedBy(a, b, c)
  BY Zenon DEF DataInv, DownInv
<1>6. a \in Nat /\ b \in Nat /\ c \in Nat BY <1>n
<1>7. /\ stream[<<0, "down">>] = Run("down", 0, a) /\ a + b + c = sent["down"]
      /\ stream[<<1, "down">>] = Run("down", a, b) /\ stream[<<2, "down">>] = Run("down", a + b, c)
  BY <1>5, Zenon DEF ReturnedBy
<1>8. CASE Moved(<<1, "down">>, <<0, "down">>, k)
  <2>1. 0 \in Nat /\ 0 + a = a BY <1>6
  <2>2. /\ k \in 1..b
        /\ stream'[<<1, "down">>] = Run("down", 0 + (a + k), b - k)
        /\ stream'[<<0, "down">>] = Run("down", 0, a + k)
    <3>1. stream[<<1, "down">>] = Run("down", 0 + a, b) BY <1>7, <2>1, Zenon
    <3> QED BY <1>6, <1>7, <1>8, <2>1, <3>1, MovedRuns
  <2>3. /\ (a + k) + (b - k) + c = sent["down"] /\ 0 + (a + k) = a + k
        /\ (a + k) + (b - k) = a + b
        /\ a + k \in 0..sent["down"] /\ b - k \in 0..sent["down"]
    BY <1>n, <1>6, <1>7, <2>2
  <2>4. stream'[<<2, "down">>] = stream[<<2, "down">>]
    BY <1>8, StreamNames, Zenon DEF Moved
  <2>5. ReturnedBy(a + k, b - k, c)'
    BY <1>7, <2>2, <2>3, <2>4, Zenon DEF ReturnedBy
  <2>6. DownInv' BY <1>5, <2>3, <2>5, Zenon DEF DownInv
  <2> QED BY <1>3, <1>4, <2>6, Zenon DEF DataInv
<1>9. CASE Moved(<<2, "down">>, <<1, "down">>, k)
  <2>1. /\ k \in 1..c
        /\ stream'[<<2, "down">>] = Run("down", a + (b + k), c - k)
        /\ stream'[<<1, "down">>] = Run("down", a, b + k)
    BY <1>6, <1>7, <1>9, MovedRuns
  <2>2. /\ a + (b + k) + (c - k) = sent["down"]
        /\ b + k \in 0..sent["down"] /\ c - k \in 0..sent["down"]
    BY <1>n, <1>6, <1>7, <2>1
  <2>3. stream'[<<0, "down">>] = stream[<<0, "down">>]
    BY <1>9, StreamNames, Zenon DEF Moved
  <2>4. ReturnedBy(a, b + k, c - k)'
    BY <1>7, <2>1, <2>2, <2>3, Zenon DEF ReturnedBy
  <2>5. DownInv' BY <1>5, <2>2, <2>4, Zenon DEF DownInv
  <2> QED BY <1>3, <1>4, <2>5, Zenon DEF DataInv
<1> QED BY <1>8, <1>9, Zenon

(* With obfuscation nothing of the payload comes back to the ingress: there *)
(* is no frame but heartbeats to read.                                      *)
LEMMA NothingToRead ==
  ASSUME FrameInv, obfs, kind[1] = "quic"
  PROVE  Readable(<<1, "down">>) = {}
<1>1. PICK s : s = <<1, "down">> BY Zenon
<1>2. s[1] = 1 BY <1>1, Zenon
<1>3. Framed(s[1]) BY <1>2, Zenon DEF Framed
<1>4. stream[s] \in Seq({<<>>}) BY <1>1, Zenon DEF FrameInv
<1>5. \A k \in 1..Len(stream[s]) : stream[s][k] = <<>> BY <1>4
<1>6. Readable(s) = {} BY <1>3, <1>5, Zenon DEF Readable
<1> QED BY <1>1, <1>6, Zenon

(* The relays of a session, the streams between which they move, and what   *)
(* their running says of the links.                                         *)
ForwardCase(r, A, B) ==
  \/ r = <<0, "up">> /\ A = <<0, "up">> /\ B = <<1, "up">> /\ kind[1] = "quic"
  \/ r = <<1, "up">> /\ A = <<1, "up">> /\ B = <<2, "up">> /\ kind[2] # "none" /\ ~obfs
  \/ r = <<0, "down">> /\ A = <<1, "down">> /\ B = <<0, "down">> /\ kind[1] = "quic"
  \/ r = <<1, "down">> /\ A = <<2, "down">> /\ B = <<1, "down">> /\ kind[2] # "none" /\ ~obfs

(* There are no others. *)
LEMMA ForwardCases ==
  ASSUME TunnelInv, NEW r \in Relays, NEW k, Forward(r, k), NEW A, NEW B, A = Src(r),
  B = Dst(r)
  PROVE  ForwardCase(r, A, B)
<1>1. \/ r = <<0, "up">> /\ A = <<0, "up">> /\ B = <<1, "up">>
      \/ r = <<1, "up">> /\ A = <<1, "up">> /\ B = <<2, "up">>
      \/ r = <<0, "down">> /\ A = <<1, "down">> /\ B = <<0, "down">>
      \/ r = <<1, "down">> /\ A = <<2, "down">> /\ B = <<1, "down">>
      \/ r = <<2, "up">> \/ r = <<2, "down">>
  <2>1. PICK n \in Nodes, d \in Dirs : r = <<n, d>> BY DEF Relays
  <2>2. (n = 0 \/ n = 1 \/ n = 2) /\ (d = "up" \/ d = "down") BY DEF Nodes, Dirs
  <2>3. r[1] = n /\ r[2] = d BY <2>1, Zenon
  <2> QED BY <2>1, <2>2, <2>3 DEF Src, Dst
<1>2. relay[r] = "run" BY Zenon DEF Forward
<1>3. /\ r = <<0, "up">> \/ r = <<0, "down">> => kind[1] = "quic"
      /\ r = <<1, "up">> \/ r = <<1, "down">> => kind[2] # "none" /\ ~obfs
      /\ r # <<2, "up">> /\ r # <<2, "down">>
  <2>1. "up" \in Dirs /\ "down" \in Dirs /\ "run" # "none" BY Zenon DEF Dirs
  <2>2. kind[2] \in {"none", "tcp", "quic"} BY DEF TunnelInv, TunnelTypes, Links
  <2>3. kind[2] # "none" => ~obfs BY <2>2, Zenon DEF TunnelInv, RoleInv
  <2> QED BY <1>2, <2>1, <2>3, Zenon DEF TunnelInv, RelayInv
<1> QED BY <1>1, <1>3, Zenon DEF ForwardCase

(* A relay forwards what it has read. *)
LEMMA ForwardKeeps ==
  ASSUME TunnelInv, NEW r \in Relays, NEW k, Forward(r, k)
  PROVE  TunnelInv'
<1> USE DEF TunnelInv
<1>1. PICK A, B : A = Src(r) /\ B = Dst(r) BY Zenon
<1>2. ForwardCase(r, A, B) BY <1>1, ForwardCases, Zenon
<1>3. k \in Readable(A) BY <1>1, Zenon DEF Forward
<1>5. A \in Streams /\ B \in Streams /\ A # B BY <1>2, StreamNames, Zenon DEF ForwardCase
<1>6. UNCHANGED <<session, kind, handler, todo, relay, beating, dialled, sent>>
  BY Zenon DEF Forward
<1>7. PICK x, y : stream' = [stream EXCEPT ![A] = x, ![B] = @ \o y]
  BY <1>1, Zenon DEF Forward
<1>8. stream = [s \in Streams |-> stream[s]] /\ sent \in [Dirs -> Nat]
  BY Zenon DEF TunnelTypes
<1>9. StreamsOnly
  <2>1. stream' = [s \in Streams |-> stream'[s]] BY <1>7, <1>8, Zenon
  <2> QED BY <1>6, <1>8, <2>1, Zenon DEF StreamsOnly
<1>10. DataInv'
  <2>1. CASE obfs
    <3>1. r # <<0, "down">>
      <4> SUFFICES ASSUME r = <<0, "down">> PROVE FALSE BY Zenon
      <4>1. A = <<1, "down">> /\ kind[1] = "quic"
        BY <1>2, StreamNames, Zenon DEF ForwardCase
      <4>2. Readable(A) = {} BY <2>1, <4>1, NothingToRead, Zenon DEF DataInv
      <4> QED BY <1>3, <4>2, Zenon
    <3>2. A = <<0, "up">> /\ B = <<1, "up">> BY <1>2, <2>1, <3>1, Zenon DEF ForwardCase
    <3>3. \A s \in Streams : s # A /\ s # B => stream'[s] = stream[s]
      BY <1>7, <1>8, Zenon
    <3>4. /\ stream'[<<0, "down">>] = stream[<<0, "down">>]
          /\ stream'[<<1, "down">>] = stream[<<1, "down">>]
      BY <3>2, <3>3, StreamNames, Zenon
    <3>5. obfs' = obfs BY <1>6, Zenon DEF session
    <3> QED BY <2>1, <3>4, <3>5, Zenon DEF DataInv, FrameInv, UpInv, DownInv
  <2>2. CASE ~obfs
    <3>1. Moved(A, B, k) BY <1>1, <1>5, <2>2, ForwardMoves, Zenon
    <3>2. CASE A = <<0, "up">> /\ B = <<1, "up">> /\ kind[1] = "quic"
      BY <1>6, <1>9, <2>2, <3>1, <3>2, IngressUp, Zenon
    <3>3. CASE A = <<1, "up">> /\ B = <<2, "up">> /\ kind[2] # "none"
      BY <1>6, <1>9, <2>2, <3>1, <3>3, SecondUp, Zenon
    <3>4. CASE A = <<1, "down">> /\ B = <<0, "down">>
      BY <1>6, <1>9, <2>2, <3>1, <3>4, Returns, Zenon
    <3>5. CASE A = <<2, "down">> /\ B = <<1, "down">>
      BY <1>6, <1>9, <2>2, <3>1, <3>5, Returns, Zenon
    <3> QED BY <1>2, <3>2, <3>3, <3>4, <3>5, Zenon DEF ForwardCase
  <2> QED BY <2>1, <2>2, Zenon
<1> QED BY <1>9, <1>10, StreamsKeep, Zenon

(* A heartbeat goroutine sends a frame. *)
LEMMA HeartbeatKeeps ==
  ASSUME TunnelInv, NEW b \in beating, Heartbeat(b)
  PROVE  TunnelInv'
<1> USE DEF TunnelInv
<1>1. obfs /\ b \in {<<1, "near">>, <<1, "far">>} BY Zenon DEF BeatInv
<1>2. PICK s : s = <<b[1], IF b[2] = "near" THEN "up" ELSE "down">> BY Zenon
<1>3. s = <<1, "up">> \/ s = <<1, "down">> BY <1>1, <1>2
<1>4. stream' = [stream EXCEPT ![s] = Append(stream[s], <<>>)]
  BY <1>2, Zenon DEF Heartbeat
<1>5. UNCHANGED <<session, kind, handler, todo, relay, beating, dialled, sent>>
  BY Zenon DEF Heartbeat
<1>6. /\ stream' = [t \in Streams |-> stream'[t]]
      /\ stream'[s] = Append(stream[s], <<>>)
      /\ \A t \in Streams : t # s => stream'[t] = stream[t]
  <2>1. s \in Streams BY <1>3, StreamNames, Zenon
  <2> QED BY <1>4, <2>1, StreamSet, Zenon
<1>7. StreamsOnly
  <2>1. sent \in [Dirs -> Nat] BY Zenon DEF TunnelTypes
  <2> QED BY <1>5, <1>6, <2>1, Zenon DEF StreamsOnly
<1>8. FrameInv'
  <2>1. stream'[<<0, "down">>] = <<>> BY <1>1, <1>3, <1>6, StreamNames, Zenon
                                         DEF DataInv, FrameInv
  <2>2. stream[<<1, "down">>] \in Seq({<<>>}) BY <1>1, Zenon DEF DataInv, FrameInv
  <2>3. stream'[<<1, "down">>] = stream[<<1, "down">>]
          \/ stream'[<<1, "down">>] = Append(stream[<<1, "down">>], <<>>)
    BY <1>3, <1>6, StreamNames, Zenon
  <2>4. PICK q : q = stream[<<1, "down">>] BY Zenon
  <2>5. PICK e : e = <<>> BY Zenon
  <2>6. q \in Seq({e}) => Append(q, e) \in Seq({e}) OBVIOUS
  <2>7. stream'[<<1, "down">>] \in Seq({<<>>}) BY <2>2, <2>3, <2>4, <2>5, <2>6, Zenon
  <2> QED BY <2>1, <2>7, Zenon DEF FrameInv
<1>9. obfs' = obfs BY <1>5, Zenon DEF session
<1>10. DataInv' BY <1>1, <1>8, <1>9, Zenon DEF DataInv, UpInv, DownInv
<1> QED BY <1>7, <1>10, StreamsKeep, Zenon

(* What is under way once unit m is sent. *)
More(s, d, m) == Append(s, << <<"data", d, m>> >>)

(* A peer sends one more unit. *)
LEMMA OneMore ==
  ASSUME NEW s, NEW d, NEW a \in Nat, NEW n \in Nat,
         stream[s] = Run(d, a, n), stream'[s] = More(stream[s], d, a + n + 1)
  PROVE  stream'[s] = Run(d, a, n + 1)
<1>1. Append(Run(d, a, n), Unit(d, a + n + 1)) = Run(d, a, n + 1) BY RunAppend, Zenon
<1> QED BY <1>1, Zenon DEF More, Unit

(* The client or the target sends. *)
LEMMA SendsKeep ==
  ASSUME TunnelInv, NEW s \in Streams, PeerSends(s)
  PROVE  TunnelInv'
<1> USE DEF TunnelInv
<1>1. s = <<0, "up">> \/ (s = <<2, "down">> /\ kind[2] = "tcp")
  <2>1. ASSUME NEW l \in TargetLinks PROVE l = 2 /\ kind[2] = "tcp"
    BY DEF TargetLinks, Links, RoleInv
  <2>2. CASE s = <<0, "up">> BY <2>2, Zenon
  <2>3. ASSUME NEW l \in TargetLinks, s = <<l, "down">>
        PROVE  s = <<2, "down">> /\ kind[2] = "tcp"
    BY <2>1, <2>3, Zenon
  <2>4. s = <<0, "up">> \/ \E l \in TargetLinks : s = <<l, "down">> BY Zenon DEF PeerSends
  <2> QED BY <2>2, <2>3, <2>4, Zenon
<1>2. UNCHANGED <<session, kind, handler, todo, relay, beating, dialled>>
  BY Zenon DEF PeerSends
<1>3. obfs' = obfs /\ kind' = kind /\ handler' = handler BY <1>2, Zenon DEF session
<1>4. sent \in [Dirs -> Nat] BY Zenon DEF TunnelTypes
<1>5. sent["up"] \in Nat /\ sent["down"] \in Nat BY <1>4, Zenon DEF Dirs
<1>6. CASE s = <<0, "up">>
  <2>0. s[2] = "up" BY <1>6, Zenon
  <2>1. PICK m \in Nat : m = sent["up"] + 1 BY <1>5
  <2>3. sent' = [sent EXCEPT !["up"] = m] BY <2>0, <2>1, Zenon DEF PeerSends
  <2>4. stream' = [stream EXCEPT ![<<0, "up">>] = More(stream[<<0, "up">>], "up", m)]
    BY <1>6, <2>0, <2>1, Zenon DEF PeerSends, More
  <2>5. sent' \in [Dirs -> Nat] /\ sent'["up"] = m /\ sent'["down"] = sent["down"]
    BY <1>4, <2>3, Zenon DEF Dirs
  <2>6. /\ stream' = [t \in Streams |-> stream'[t]]
        /\ stream'[<<0, "up">>] = More(stream[<<0, "up">>], "up", m)
        /\ \A t \in Streams : t # <<0, "up">> => stream'[t] = stream[t]
    BY <2>4, StreamNames, StreamSet, Zenon
  <2>7. /\ stream'[<<1, "up">>] = stream[<<1, "up">>]
        /\ stream'[<<2, "up">>] = stream[<<2, "up">>]
        /\ stream'[<<0, "down">>] = stream[<<0, "down">>]
        /\ stream'[<<1, "down">>] = stream[<<1, "down">>]
        /\ stream'[<<2, "down">>] = stream[<<2, "down">>]
    BY <2>6, StreamNames, Zenon
  <2>8. StreamsOnly BY <1>2, <2>5, <2>6, Zenon DEF StreamsOnly
  <2>9. FrameInv' BY <1>3, <2>7, Zenon DEF DataInv, FrameInv
  <2>10. DownInv' BY <1>3, <2>5, <2>7, DownKept, Zenon DEF DataInv
  <2>11. ASSUME Waiting PROVE Waiting'
    <3>1. PICK n \in Nat : n = sent["up"] BY <1>5, Zenon
    <3>2. 0 \in Nat /\ 0 + n + 1 = m /\ n + 1 = m BY <2>1, <3>1
    <3>3. stream'[<<0, "up">>] = Run("up", 0, n + 1)
      <4>1. /\ stream[<<0, "up">>] = Run("up", 0, n)
            /\ stream'[<<0, "up">>] = More(stream[<<0, "up">>], "up", 0 + n + 1)
        BY <2>6, <2>11, <3>1, <3>2, Zenon DEF Waiting
      <4> QED BY <3>2, <4>1, OneMore, Zenon
    <3> QED BY <2>5, <3>2, <3>3, Zenon DEF Waiting
  <2>12. ASSUME Headed PROVE Headed'
    <3>1. PICK p \in PadLengths, b \in 0..sent["up"], c \in 0..sent["up"] : HeadedBy(p, b, c)
      BY <2>12, Zenon DEF Headed
    <3>2. b \in Nat /\ c \in Nat BY <1>5
    <3>3. stream[<<0, "up">>] = Run("up", b, c) /\ b + c = sent["up"]
      BY <3>1, Zenon DEF HeadedBy
    <3>4. /\ b + c + 1 = m /\ b + (c + 1) = m /\ b \in 0..m /\ c + 1 \in 0..m
      BY <1>5, <2>1, <3>2, <3>3
    <3>5. stream'[<<0, "up">>] = Run("up", b, c + 1)
      <4>1. stream'[<<0, "up">>] = More(stream[<<0, "up">>], "up", b + c + 1)
        BY <2>6, <3>4, Zenon
      <4> QED BY <3>2, <3>3, <4>1, OneMore
    <3>6. HopChain' = HopChain BY <1>2, Zenon DEF session, HopChain
    <3>7. HeadedBy(p, b, c + 1)'
      BY <2>5, <2>7, <3>1, <3>4, <3>5, <3>6, Zenon DEF HeadedBy
    <3> QED BY <2>5, <3>4, <3>7, Zenon DEF Headed
  <2>13. ASSUME Stripped PROVE Stripped'
    <3>1. PICK a \in 0..sent["up"], b \in 0..sent["up"], c \in 0..sent["up"] :
            StrippedBy(a, b, c)
      BY <2>13, Zenon DEF Stripped
    <3>2. a \in Nat /\ b \in Nat /\ c \in Nat /\ a + b \in Nat BY <1>5
    <3>3. stream[<<0, "up">>] = Run("up", a + b, c) /\ a + b + c = sent["up"]
      BY <3>1, Zenon DEF StrippedBy
    <3>4. /\ a + b + c + 1 = m /\ a + b + (c + 1) = m
          /\ a \in 0..m /\ b \in 0..m /\ c + 1 \in 0..m
      BY <1>5, <2>1, <3>2, <3>3
    <3>5. stream'[<<0, "up">>] = Run("up", a + b, c + 1)
      <4>1. stream'[<<0, "up">>] = More(stream[<<0, "up">>], "up", a + b + c + 1)
        BY <2>6, <3>4, Zenon
      <4> QED BY <3>2, <3>3, <4>1, OneMore
    <3>6. StrippedBy(a, b, c + 1)'
      BY <2>5, <2>7, <3>1, <3>4, <3>5, Zenon DEF StrippedBy
    <3> QED BY <2>5, <3>4, <3>6, Zenon DEF Stripped
  <2>14. UpInv' BY <1>3, <2>7, <2>11, <2>12, <2>13, Zenon DEF DataInv, UpInv
  <2> QED BY <2>8, <2>9, <2>10, <2>14, StreamsKeep, Zenon DEF DataInv
<1>7. CASE s = <<2, "down">> /\ kind[2] = "tcp"
  <2>0. s[2] = "down" BY <1>7, Zenon
  <2>1. PICK m \in Nat : m = sent["down"] + 1 BY <1>5
  <2>3. sent' = [sent EXCEPT !["down"] = m] BY <2>0, <2>1, Zenon DEF PeerSends
  <2>4. stream' = [stream EXCEPT ![<<2, "down">>] = More(stream[<<2, "down">>], "down", m)]
    BY <1>7, <2>0, <2>1, Zenon DEF PeerSends, More
  <2>5. sent' \in [Dirs -> Nat] /\ sent'["down"] = m /\ sent'["up"] = sent["up"]
    BY <1>4, <2>3, Zenon DEF Dirs
  <2>6. /\ stream' = [t \in Streams |-> stream'[t]]
        /\ stream'[<<2, "down">>] = More(stream[<<2, "down">>], "down", m)
        /\ \A t \in Streams : t # <<2, "down">> => stream'[t] = stream[t]
    BY <2>4, StreamNames, StreamSet, Zenon
  <2>7. /\ stream'[<<0, "up">>] = stream[<<0, "up">>]
        /\ stream'[<<1, "up">>] = stream[<<1, "up">>]
        /\ stream'[<<2, "up">>] = stream[<<2, "up">>]
        /\ stream'[<<0, "down">>] = stream[<<0, "down">>]
        /\ stream'[<<1, "down">>] = stream[<<1, "down">>]
    BY <2>6, StreamNames, Zenon
  <2>8. StreamsOnly BY <1>2, <2>5, <2>6, Zenon DEF StreamsOnly
  <2>9. ~obfs BY <1>7, Zenon DEF RoleInv
  <2>10. FrameInv' BY <1>3, <2>9, Zenon DEF FrameInv
  <2>11. UpInv' BY <1>2, <2>5, <2>7, UpKept, Zenon DEF DataInv
  <2>12. PICK a \in 0..sent["down"], b \in 0..sent["down"], c \in 0..sent["down"] :
           ReturnedBy(a, b, c)
    BY <2>9, Zenon DEF DataInv, DownInv
  <2>13. a \in Nat /\ b \in Nat /\ c \in Nat /\ a + b \in Nat BY <1>5
  <2>14. stream[<<2, "down">>] = Run("down", a + b, c) /\ a + b + c = sent["down"]
    BY <2>12, Zenon DEF ReturnedBy
  <2>15. /\ a + b + c + 1 = m /\ a + b + (c + 1) = m
         /\ a \in 0..m /\ b \in 0..m /\ c + 1 \in 0..m
    BY <1>5, <2>1, <2>13, <2>14
  <2>16. stream'[<<2, "down">>] = Run("down", a + b, c + 1)
    <3>1. stream'[<<2, "down">>] = More(stream[<<2, "down">>], "down", a + b + c + 1)
      BY <2>6, <2>15, Zenon
    <3> QED BY <2>13, <2>14, <3>1, OneMore
  <2>17. ReturnedBy(a, b, c + 1)'
    BY <2>5, <2>7, <2>12, <2>15, <2>16, Zenon DEF ReturnedBy
  <2>18. DownInv' BY <2>5, <2>15, <2>17, Zenon DEF DownInv
  <2> QED BY <2>8, <2>10, <2>11, <2>18, StreamsKeep, Zenon DEF DataInv
<1> QED BY <1>1, <1>6, <1>7, Zenon

-----------------------------------------------------------------------------
(* The invariant, and the property. *)

(* It holds at the start: the first link is the client's, and nothing has   *)
(* been sent.                                                               *)
LEMMA TunnelStart == Init => TunnelInv
<1> SUFFICES ASSUME Init PROVE TunnelInv BY Zenon
<1>1. /\ kind[0] = "tcp" /\ kind[1] = "none" /\ kind[2] = "none" /\ kind[3] = "none"
      /\ kind \in [Links -> {"none", "tcp", "quic"}]
  BY DEF Init, Links
<1>2. /\ handler[0] = "dial" /\ handler[1] = "idle" /\ handler[2] = "idle"
      /\ handler \in [Nodes -> {"idle", "dial", "decode", "egress", "relay", "wait",
                                "closein", "end"}]
  BY DEF Init, Nodes
<1>3. stream = [s \in Streams |-> stream[s]] /\ \A s \in Streams : stream[s] = <<>>
  BY Zenon DEF Init
<1>4. sent \in [Dirs -> Nat] /\ sent["up"] = 0 /\ sent["down"] = 0
  BY Zenon DEF Init, Dirs
<1>5. chainLen \in 0..2 /\ obfs \in BOOLEAN
  <2>1. PICK setting \in Settings : chainLen = setting[1] /\ obfs = setting[2]
    BY Zenon DEF Init
  <2>2. setting \in (0..2) \X BOOLEAN BY TunnelAssumption, Zenon
  <2> QED BY <2>1, <2>2, Zenon
<1>6. relay \in [Relays -> {"none", "run", "done"}] /\ \A r \in Relays : relay[r] = "none"
  BY Zenon DEF Init
<1>7. TunnelTypes
  <2>1. todo = [n \in Nodes |-> todo[n]] BY Zenon DEF Init
  <2>2. target \in {Address("target", n) : n \in TargetLengths} BY Zenon DEF Init
  <2> QED BY <1>1, <1>2, <1>3, <1>4, <1>5, <1>6, <2>1, <2>2, Zenon DEF TunnelTypes
<1>8. RoleInv BY <1>1, <1>2, Zenon DEF RoleInv
<1>9. RelayInv
  <2> SUFFICES ASSUME NEW d \in Dirs
               PROVE  relay[<<0, d>>] = "none" /\ relay[<<1, d>>] = "none" /\ relay[<<2,
               d>>] = "none"
    BY Zenon DEF RelayInv
  <2>1. <<0, d>> \in Relays /\ <<1, d>> \in Relays /\ <<2, d>> \in Relays
    BY DEF Relays, Nodes
  <2> QED BY <1>6, <2>1, Zenon
<1>10. BeatInv BY Zenon DEF Init, BeatInv
<1>11. EntryInv BY Zenon DEF Init, EntryInv
<1>12. /\ stream[<<0, "up">>] = <<>> /\ stream[<<2, "up">>] = <<>>
       /\ stream[<<0, "down">>] = <<>> /\ stream[<<1, "down">>] = <<>>
       /\ stream[<<2, "down">>] = <<>>
  BY <1>3, StreamNames, Zenon
<1>13. FrameInv
  <2>1. <<>> \in Seq({<<>>}) OBVIOUS
  <2> QED BY <1>12, <2>1, Zenon DEF FrameInv
<1>14. UpInv
  <2>1. Waiting BY <1>4, <1>12, RunEmpty, Zenon DEF Waiting
  <2> QED BY <1>1, <1>2, <1>12, <2>1, Zenon DEF UpInv
<1>15. DownInv
  <2>1. 0 \in 0..0 /\ 0 + 0 = 0 /\ 0 + 0 + 0 = 0 OBVIOUS
  <2>2. ReturnedBy(0, 0, 0) BY <1>4, <1>12, <2>1, RunEmpty, Zenon DEF ReturnedBy
  <2> QED BY <1>4, <2>1, <2>2, Zenon DEF DownInv
<1> QED BY <1>7, <1>8, <1>9, <1>10, <1>11, <1>13, <1>14, <1>15, Zenon DEF TunnelInv,
           DataInv

(* Every step keeps it. *)
LEMMA TunnelSteps == TunnelInv /\ [Next]_vars => TunnelInv'
<1> SUFFICES ASSUME TunnelInv, [Next]_vars PROVE TunnelInv' BY Zenon
<1>t. \A n \in Nodes : handler[n] \in {"idle", "dial", "decode", "egress", "relay", "wait",
                                       "closein", "end"}
  BY Zenon DEF TunnelInv, TunnelTypes
<1>1. ASSUME NEW n \in Nodes, DialFails(n) PROVE TunnelInv'
  <2>1. handler[n] # "idle" BY <1>1, Zenon DEF DialFails
  <2>2. HandlerEnds(n) BY <1>1, <2>1, Zenon DEF DialFails, HandlerEnds
  <2> QED BY <2>2, EndsKeep, Zenon
<1>2. ASSUME NEW n \in Nodes, DecodeError(n) PROVE TunnelInv'
  <2>1. handler[n] # "idle" BY <1>2, Zenon DEF DecodeError
  <2>2. HandlerEnds(n) BY <1>2, <2>1, Zenon DEF DecodeError, HandlerEnds
  <2> QED BY <2>2, EndsKeep, Zenon
<1>3. ASSUME NEW n \in Nodes, CloseTarget(n) PROVE TunnelInv'
  <2>1. handler[n] # "idle" BY <1>3, Zenon DEF CloseTarget
  <2>2. HandlerEnds(n) BY <1>3, <2>1, Zenon DEF CloseTarget, HandlerEnds
  <2> QED BY <2>2, EndsKeep, Zenon
<1>4. ASSUME NEW n \in Nodes, CloseConn(n) PROVE TunnelInv'
  <2>1. handler[n] # "idle" BY <1>4, Zenon DEF CloseConn
  <2>2. HandlerEnds(n) BY <1>4, <2>1, Zenon DEF CloseConn, HandlerEnds
  <2> QED BY <2>2, EndsKeep, Zenon
<1>5. ASSUME NEW n \in Nodes, NodeStep(n) PROVE TunnelInv'
  BY <1>1, <1>2, <1>3, <1>4, <1>5, IngressKeeps, RelayDialKeeps, AcceptKeeps, DecodeKeeps,
     EgressKeeps, Zenon DEF NodeStep
<1>6. ASSUME NEW r \in Relays, RelayStep(r) PROVE TunnelInv'
  <2>1. CASE RelayEnds(r) BY <2>1, QuietKeeps, Zenon DEF RelayEnds, Quiet
  <2> QED BY <1>6, <2>1, ForwardKeeps, Zenon DEF RelayStep
<1>7. ASSUME NEW l \in Links, Breaks(l) PROVE TunnelInv'
  BY <1>7, QuietKeeps, Zenon DEF Breaks, Quiet
<1>8. ASSUME NEW l \in Links, NEW end \in {"near", "far"}, PeerCloses(l, end) PROVE TunnelInv'
  BY <1>8, QuietKeeps, Zenon DEF PeerCloses, Quiet
<1>9. CASE UNCHANGED vars BY <1>9, QuietKeeps, Zenon DEF vars, Quiet
<1> QED BY <1>5, <1>6, <1>7, <1>8, <1>9, HeartbeatKeeps, SendsKeep, Zenon DEF Next

(* Whatever the settings of a session, the length of the target's name, the *)
(* padding, the payload and the failures it meets: an egress dials the      *)
(* address the client asked for, and each side receives what the other has  *)
(* sent, in order and from the start (Dial, HandleRelay, DualRelay and      *)
(* ObfsConn together).                                                      *)
THEOREM TunnelTheorem == Spec => []TunnelFaithful
<1>1. Init => TunnelInv BY TunnelStart, Zenon
<1>2. TunnelInv /\ [Next]_vars => TunnelInv' BY TunnelSteps, Zenon
<1>3. TunnelInv => TunnelFaithful BY InvFaithful, Zenon
<1> QED BY <1>1, <1>2, <1>3, PTL DEF Spec

-----------------------------------------------------------------------------
(* A tunnel acts as one connection. *)

(* The cells of units outside frames. *)
CellsIn(units) == [i \in DOMAIN units |-> units[i][1]]

(* What the two sides see of the nodes. *)
View ==
  /\ (TargetLinks # {}) = (kind[2] = "tcp")
  /\ Received("up") = IF kind[2] = "tcp" THEN CellsIn(stream[<<2, "up">>]) ELSE <<>>
  /\ Received("down") = CellsIn(stream[<<0, "down">>])

(* Of the links to other nodes only the second can lead to a target. *)
LEMMA ViewNow == TunnelInv => View
<1> SUFFICES ASSUME TunnelInv PROVE View BY Zenon
<1>1. Received("down") = CellsIn(stream[<<0, "down">>])
  BY Zenon DEF Received, CellsOf, CellsIn
<1>2. CASE kind[2] = "tcp"
  <2>1. TargetLinks = {2} BY <1>2 DEF TargetLinks, Links, TunnelInv, RoleInv
  <2>2. (CHOOSE l \in TargetLinks : TRUE) = 2 BY <2>1, Zenon
  <2>3. TargetLinks # {} BY <2>1, Zenon
  <2>4. Received("up") = CellsOf(<<2, "up">>) BY <2>2, <2>3, Zenon DEF Received
  <2> QED BY <1>1, <1>2, <2>3, <2>4, Zenon DEF View, CellsOf, CellsIn
<1>3. CASE kind[2] # "tcp"
  <2>1. TargetLinks = {} BY <1>3 DEF TargetLinks, Links, TunnelInv, RoleInv
  <2>2. Received("up") = <<>> BY <2>1, Zenon DEF Received
  <2> QED BY <1>1, <1>3, <2>1, <2>2, Zenon DEF View
<1> QED BY <1>2, <1>3, Zenon

(* The same of the next state. *)
LEMMA ViewNext == TunnelInv' => View'
BY ViewNow, PTL

(* The cells of a run from the start. *)
LEMMA RunCells ==
  ASSUME NEW d, NEW m \in Nat
  PROVE  CellsIn(Run(d, 0, m)) = Cells(d, m)
<1>1. PICK r : r = Run(d, 0, m) BY Zenon
<1>2. r = [i \in 1..m |-> Unit(d, 0 + i)] BY <1>1, Zenon DEF Run
<1>3. CellsIn(r) = [i \in 1..m |-> r[i][1]] BY <1>2, Zenon DEF CellsIn
<1>4. \A i \in 1..m : r[i][1] = <<"data", d, i>> BY <1>2 DEF Unit
<1> QED BY <1>1, <1>3, <1>4, Zenon DEF Cells

(* What both sides have received. *)
Gots(u, v) == [d \in Dirs |-> IF d = "up" THEN u ELSE v]

LEMMA GotNow == [d \in Dirs |-> Received(d)] = Gots(Received("up"), Received("down"))
BY Zenon DEF Gots, Dirs

LEMMA GotNext == [d \in Dirs |-> Received(d)]' = Gots(Received("up")', Received("down")')
BY Zenon DEF Gots, Dirs

Acts == [EndToEnd!Next]_(EndToEnd!vars)

(* A step that changes nothing of what the two sides see. *)
LEMMA SameView ==
  ASSUME View, View', (kind'[2] = "tcp") = (kind[2] = "tcp"), sent' = sent,
         kind[2] = "tcp" => stream'[<<2, "up">>] = stream[<<2, "up">>],
         stream'[<<0, "down">>] = stream[<<0, "down">>]
  PROVE  Acts
<1>1. (TargetLinks # {})' = (TargetLinks # {}) BY Zenon DEF View
<1>2. Received("up")' = Received("up") BY Zenon DEF View
<1>3. Received("down")' = Received("down") BY Zenon DEF View
<1>4. [d \in Dirs |-> Received(d)]' = [d \in Dirs |-> Received(d)]
  BY <1>2, <1>3, GotNow, GotNext, Zenon
<1> QED BY <1>1, <1>4, Zenon DEF Acts, EndToEnd!vars

(* The egress connects the target. *)
LEMMA EgressActs ==
  ASSUME TunnelInv, View, View', NEW n \in Nodes, EgressDial(n)
  PROVE  Acts
<1>0. n = 1 BY DEF EgressDial, TunnelInv, RoleInv, Nodes
<1>1. stream' = stream /\ sent' = sent BY Zenon DEF EgressDial
<1>2. kind[2] = "none" /\ ~obfs BY <1>0, Zenon DEF EgressDial, TunnelInv, RoleInv
<1>3. kind'[2] = "tcp" BY <1>0 DEF EgressDial, TunnelInv, TunnelTypes, Links
<1>4. stream[<<2, "up">>] = <<>> BY <1>2, Zenon DEF TunnelInv, DataInv, UpInv
<1>5. (TargetLinks # {}) = FALSE /\ (TargetLinks # {})' = TRUE
  BY <1>2, <1>3, Zenon DEF View
<1>6. Received("up") = <<>> BY <1>2, Zenon DEF View
<1>7. Received("up")' = <<>> BY <1>1, <1>3, <1>4 DEF View, CellsIn
<1>8. Received("down")' = Received("down") BY <1>1, Zenon DEF View
<1>9. [d \in Dirs |-> Received(d)]' = [d \in Dirs |-> Received(d)]
  BY <1>6, <1>7, <1>8, GotNow, GotNext, Zenon
<1>10. EndToEnd!Connect BY <1>1, <1>5, <1>9, Zenon DEF EndToEnd!Connect
<1> QED BY <1>10, Zenon DEF Acts, EndToEnd!Next

(* One side has received more, the other no more and no less. *)
LEMMA Receives ==
  ASSUME View, View', kind' = kind, sent' = sent, NEW d \in Dirs,
  d = "up" => kind[2] = "tcp",
         NEW m \in Nat, NEW n \in (m + 1)..sent[d], sent[d] \in Nat,
         Received(d) = Cells(d, m), Received(d)' = Cells(d, n),
         \A e \in Dirs : e # d => Received(e)' = Received(e)
  PROVE  Acts
<1>1. (TargetLinks # {})' = (TargetLinks # {}) BY Zenon DEF View
<1>2. d = "up" => TargetLinks # {} BY Zenon DEF View
<1>3. PICK g : g = [e \in Dirs |-> Received(e)] BY Zenon
<1>4. PICK h : h = [e \in Dirs |-> Received(e)'] BY Zenon
<1>5. g[d] = Cells(d, m) BY <1>3, Zenon
<1>6. Len(g[d]) = m BY <1>5, CellsAsUnits, Zenon
<1>7. h = [g EXCEPT ![d] = Cells(d, n)] BY <1>3, <1>4, Zenon
<1>8. n \in (Len(g[d]) + 1)..sent[d] BY <1>6, Zenon
<1>9. EndToEnd!Cells(d, n) = Cells(d, n) BY Zenon DEF Cells, EndToEnd!Cells
<1>10. EndToEnd!Receive(d)
  BY <1>1, <1>2, <1>3, <1>4, <1>7, <1>8, <1>9, Zenon DEF EndToEnd!Receive
<1> QED BY <1>10, Zenon DEF Acts, EndToEnd!Next, Dirs

(* The client or the target sends. *)
LEMMA SendsAct ==
  ASSUME TunnelInv, View, View', NEW s \in Streams, PeerSends(s)
  PROVE  Acts
<1>1. stream = [t \in Streams |-> stream[t]] BY Zenon DEF TunnelInv, TunnelTypes
<1>2. kind' = kind BY Zenon DEF PeerSends
<1>3. s = <<0, "up">> \/ \E l \in TargetLinks : s = <<l, "down">> BY Zenon DEF PeerSends
<1>4. s # <<2, "up">> /\ s # <<0, "down">>
  <2>1. ASSUME NEW l \in TargetLinks PROVE l # 0 BY Zenon DEF TargetLinks
  <2> QED BY <1>3, <2>1, StreamNames
<1>5. PICK x : stream' = [stream EXCEPT ![s] = x] BY Zenon DEF PeerSends
<1>6. stream'[<<2, "up">>] = stream[<<2, "up">>] /\ stream'[<<0, "down">>] = stream[<<0, "down">>]
  BY <1>1, <1>4, <1>5, StreamNames, Zenon
<1>7. (TargetLinks # {})' = (TargetLinks # {}) BY <1>2, Zenon DEF View
<1>8. Received("up")' = Received("up") BY <1>2, <1>6, Zenon DEF View
<1>9. Received("down")' = Received("down") BY <1>6, Zenon DEF View
<1>10. [d \in Dirs |-> Received(d)]' = [d \in Dirs |-> Received(d)]
  BY <1>8, <1>9, GotNow, GotNext, Zenon
<1>11. PICK d \in Dirs : d = s[2] /\ (d = "down" => TargetLinks # {})
  <2>1. CASE s = <<0, "up">> BY <2>1, Zenon DEF Dirs
  <2>2. ASSUME NEW l \in TargetLinks, s = <<l, "down">> PROVE s[2] = "down" /\ TargetLinks # {}
    BY <2>2, Zenon
  <2> QED BY <1>3, <2>1, <2>2, Zenon DEF Dirs
<1>12. sent' = [sent EXCEPT ![d] = @ + 1] BY <1>11, Zenon DEF PeerSends
<1>13. EndToEnd!Send(d) BY <1>7, <1>10, <1>11, <1>12, Zenon DEF EndToEnd!Send
<1> QED BY <1>13, Zenon DEF Acts, EndToEnd!Next, Dirs

(* A relay forwards what it has read: the egress to the target, the ingress *)
(* to the client, or one node to another.                                   *)
LEMMA ForwardActs ==
  ASSUME TunnelInv, View, View', NEW r \in Relays, NEW k, Forward(r, k)
  PROVE  Acts
<1>1. PICK A, B : A = Src(r) /\ B = Dst(r) BY Zenon
<1>2. ForwardCase(r, A, B) BY <1>1, ForwardCases, Zenon
<1>3. kind' = kind /\ sent' = sent BY Zenon DEF Forward
<1>4. stream = [s \in Streams |-> stream[s]] BY Zenon DEF TunnelInv, TunnelTypes
<1>5. PICK x, y : stream' = [stream EXCEPT ![A] = x, ![B] = @ \o y]
  BY <1>1, Zenon DEF Forward
<1>6. A \in Streams /\ B \in Streams /\ A # B BY <1>2, StreamNames, Zenon DEF ForwardCase
<1>7. \A s \in Streams : s # A /\ s # B => stream'[s] = stream[s] BY <1>4, <1>5, Zenon
<1>n. sent["up"] \in Nat /\ sent["down"] \in Nat BY Zenon DEF TunnelInv, TunnelTypes, Dirs
<1>8. CASE r = <<0, "up">> \/ r = <<1, "down">> \/ (r = <<1, "up">> /\ kind[2] # "tcp")
  <2>1. B # <<0, "down">> /\ A # <<0, "down">> BY <1>2, <1>8, StreamNames, Zenon
                                                  DEF ForwardCase
  <2>2. kind[2] = "tcp" => B # <<2, "up">> /\ A # <<2, "up">>
    BY <1>2, <1>8, StreamNames, Zenon DEF ForwardCase
  <2>3. stream'[<<0, "down">>] = stream[<<0, "down">>] BY <1>7, <2>1, StreamNames, Zenon
  <2>4. kind[2] = "tcp" => stream'[<<2, "up">>] = stream[<<2, "up">>]
    BY <1>7, <2>2, StreamNames, Zenon
  <2> QED BY <1>3, <2>3, <2>4, SameView, Zenon
<1>9. CASE r = <<1, "up">> /\ kind[2] = "tcp"
  <2>1. A = <<1, "up">> /\ B = <<2, "up">> BY <1>2, <1>9, StreamNames, Zenon
                                              DEF ForwardCase
  <2>2. ~obfs BY <1>9, Zenon DEF TunnelInv, RoleInv
  <2>3. Moved(<<1, "up">>, <<2, "up">>, k)
    BY <1>1, <1>6, <2>1, <2>2, ForwardMoves, Zenon DEF TunnelInv
  <2>4. PICK a \in 0..sent["up"], b \in 0..sent["up"], c \in 0..sent["up"] : StrippedBy(a, b, c)
    BY <1>9, <2>2, Zenon DEF TunnelInv, DataInv, UpInv, Stripped
  <2>5. a \in Nat /\ b \in Nat /\ c \in Nat BY <1>n
  <2>6. /\ a + b + c = sent["up"] /\ stream[<<2, "up">>] = Run("up", 0, a)
        /\ stream[<<1, "up">>] = Run("up", a, b)
    BY <2>4, Zenon DEF StrippedBy
  <2>7. k \in 1..b /\ stream'[<<2, "up">>] = Run("up", 0, a + k)
    <3>1. 0 \in Nat /\ 0 + a = a BY <2>5
    <3>2. stream[<<1, "up">>] = Run("up", 0 + a, b) BY <2>6, <3>1, Zenon
    <3>3. stream[<<2, "up">>] = Run("up", 0, a) BY <2>6, Zenon
    <3> QED BY <2>3, <2>5, <3>1, <3>2, <3>3, MovedRuns
  <2>8. a + k \in Nat /\ a + k \in (a + 1)..sent["up"] BY <1>n, <2>5, <2>6, <2>7
  <2>9. Received("up") = Cells("up", a)
    <3>1. CellsIn(Run("up", 0, a)) = Cells("up", a) BY <2>5, RunCells, Zenon
    <3> QED BY <1>9, <2>6, <3>1, Zenon DEF View
  <2>10. Received("up")' = Cells("up", a + k)
    <3>1. CellsIn(Run("up", 0, a + k)) = Cells("up", a + k) BY <2>8, RunCells, Zenon
    <3> QED BY <1>3, <1>9, <2>7, <3>1, Zenon DEF View
  <2>11. Received("down")' = Received("down")
    <3>1. stream'[<<0, "down">>] = stream[<<0, "down">>] BY <1>7, <2>1, StreamNames, Zenon
    <3> QED BY <3>1, Zenon DEF View
  <2>12. \A e \in Dirs : e # "up" => Received(e)' = Received(e) BY <2>11, Zenon DEF Dirs
  <2>13. "up" \in Dirs BY Zenon DEF Dirs
  <2> QED BY <1>3, <1>9, <1>n, <2>5, <2>8, <2>9, <2>10, <2>12, <2>13, Receives, Zenon
<1>10. CASE r = <<0, "down">>
  <2>1. A = <<1, "down">> /\ B = <<0, "down">> BY <1>2, <1>10, StreamNames, Zenon
                                                  DEF ForwardCase
  <2>2. ~obfs
    <3> SUFFICES ASSUME obfs PROVE FALSE BY Zenon
    <3>1. kind[1] = "quic" BY <1>2, <1>10, Zenon DEF ForwardCase
    <3>2. Readable(A) = {} BY <2>1, <3>1, NothingToRead, Zenon DEF TunnelInv, DataInv
    <3> QED BY <1>1, <3>2, Zenon DEF Forward
  <2>3. Moved(<<1, "down">>, <<0, "down">>, k)
    BY <1>1, <1>6, <2>1, <2>2, ForwardMoves, Zenon DEF TunnelInv
  <2>4. PICK a \in 0..sent["down"], b \in 0..sent["down"], c \in 0..sent["down"] :
          ReturnedBy(a, b, c)
    BY <2>2, Zenon DEF TunnelInv, DataInv, DownInv
  <2>5. a \in Nat /\ b \in Nat /\ c \in Nat BY <1>n
  <2>6. /\ a + b + c = sent["down"] /\ stream[<<0, "down">>] = Run("down", 0, a)
        /\ stream[<<1, "down">>] = Run("down", a, b)
    BY <2>4, Zenon DEF ReturnedBy
  <2>7. k \in 1..b /\ stream'[<<0, "down">>] = Run("down", 0, a + k)
    <3>1. 0 \in Nat /\ 0 + a = a BY <2>5
    <3>2. stream[<<1, "down">>] = Run("down", 0 + a, b) BY <2>6, <3>1, Zenon
    <3>3. stream[<<0, "down">>] = Run("down", 0, a) BY <2>6, Zenon
    <3> QED BY <2>3, <2>5, <3>1, <3>2, <3>3, MovedRuns
  <2>8. a + k \in Nat /\ a + k \in (a + 1)..sent["down"] BY <1>n, <2>5, <2>6, <2>7
  <2>9. Received("down") = Cells("down", a)
    <3>1. CellsIn(Run("down", 0, a)) = Cells("down", a) BY <2>5, RunCells, Zenon
    <3> QED BY <2>6, <3>1, Zenon DEF View
  <2>10. Received("down")' = Cells("down", a + k)
    <3>1. CellsIn(Run("down", 0, a + k)) = Cells("down", a + k) BY <2>8, RunCells, Zenon
    <3> QED BY <2>7, <3>1, Zenon DEF View
  <2>11. Received("up")' = Received("up")
    <3>1. stream'[<<2, "up">>] = stream[<<2, "up">>] BY <1>7, <2>1, StreamNames, Zenon
    <3> QED BY <1>3, <3>1, Zenon DEF View
  <2>12. \A e \in Dirs : e # "down" => Received(e)' = Received(e) BY <2>11, Zenon DEF Dirs
  <2>13. "down" \in Dirs /\ "down" # "up" BY Zenon DEF Dirs
  <2> QED BY <1>3, <1>n, <2>5, <2>8, <2>9, <2>10, <2>12, <2>13, Receives, Zenon
<1> QED BY <1>2, <1>8, <1>9, <1>10, Zenon DEF ForwardCase

(* The other steps of the nodes change nothing for the two sides. *)
LEMMA HiddenActs ==
  ASSUME TunnelInv, View, View'
  PROVE  /\ \A n \in Nodes : DialFails(n) \/ AcceptStream(n) \/ DecodeError(n)
                            \/ CloseTarget(n) \/ CloseConn(n) \/ Decode(n) => Acts
         /\ \A n \in Nodes, p \in PadLengths : IngressDial(p) \/ RelayDial(n, p) => Acts
         /\ \A r \in Relays : RelayEnds(r) => Acts
         /\ \A b \in beating : Heartbeat(b) => Acts
         /\ \A l \in Links : Breaks(l) => Acts
         /\ \A l \in Links, end \in {"near", "far"} : PeerCloses(l, end) => Acts
         /\ UNCHANGED vars => Acts
<1>1. stream = [s \in Streams |-> stream[s]] BY Zenon DEF TunnelInv, TunnelTypes
<1>2. ASSUME UNCHANGED <<kind, stream, sent>> PROVE Acts BY <1>2, SameView, Zenon
<1>3. ASSUME NEW n \in Nodes, Decode(n) PROVE Acts
  <2>1. kind' = kind /\ sent' = sent BY <1>3, Zenon DEF Decode
  <2>2. PICK x : stream' = [stream EXCEPT ![<<n, "up">>] = x] BY <1>3, Zenon DEF Decode
  <2>3. kind[2] = "tcp" => n # 2 BY <1>3, Zenon DEF Decode, TunnelInv, RoleInv
  <2>4. <<n, "up">> # <<0, "down">> /\ (n # 2 => <<n, "up">> # <<2, "up">>) BY Zenon
  <2>5. /\ stream'[<<0, "down">>] = stream[<<0, "down">>]
        /\ kind[2] = "tcp" => stream'[<<2, "up">>] = stream[<<2, "up">>]
    BY <1>1, <2>2, <2>3, <2>4, StreamNames, Zenon
  <2> QED BY <2>1, <2>5, SameView, Zenon
<1>4. ASSUME NEW p \in PadLengths, IngressDial(p) PROVE Acts
  <2>1. 0 + 1 = 1 /\ sent' = sent BY <1>4 DEF IngressDial
  <2>2. kind' = [kind EXCEPT ![1] = "quic"] BY <1>4, <2>1, Zenon DEF IngressDial, DialNode
  <2>3. kind'[2] = kind[2] BY <2>2 DEF TunnelInv, TunnelTypes, Links
  <2>4. PICK x : stream' = [stream EXCEPT ![<<1, "up">>] = x]
    BY <1>4, <2>1, Zenon DEF IngressDial, DialNode
  <2>5. /\ stream'[<<0, "down">>] = stream[<<0, "down">>]
        /\ stream'[<<2, "up">>] = stream[<<2, "up">>]
    BY <1>1, <2>4, StreamNames, Zenon
  <2> QED BY <2>1, <2>3, <2>5, SameView, Zenon
<1>5. ASSUME NEW n \in Nodes, NEW p \in PadLengths, RelayDial(n, p) PROVE Acts
  <2>0. n = 1 BY <1>5 DEF RelayDial, TunnelInv, RoleInv, Nodes
  <2>1. 1 + 1 = 2 /\ sent' = sent /\ kind[2] = "none"
    BY <1>5, <2>0 DEF RelayDial, TunnelInv, RoleInv
  <2>2. kind' = [kind EXCEPT ![2] = "quic"] BY <1>5, <2>0, <2>1, Zenon DEF RelayDial,
                                               DialNode
  <2>3. kind'[2] = "quic" BY <2>2 DEF TunnelInv, TunnelTypes, Links
  <2>4. PICK x : stream' = [stream EXCEPT ![<<2, "up">>] = x]
    BY <1>5, <2>0, <2>1, Zenon DEF RelayDial, DialNode
  <2>5. stream'[<<0, "down">>] = stream[<<0, "down">>] BY <1>1, <2>4, StreamNames, Zenon
  <2>6. kind[2] # "tcp" /\ kind'[2] # "tcp" BY <2>1, <2>3, Zenon
  <2> QED BY <2>1, <2>5, <2>6, SameView, Zenon
<1>6. ASSUME NEW b \in beating, Heartbeat(b) PROVE Acts
  <2>1. kind' = kind /\ sent' = sent BY <1>6, Zenon DEF Heartbeat
  <2>2. b \in {<<1, "near">>, <<1, "far">>} BY Zenon DEF TunnelInv, BeatInv
  <2>3. PICK s : s = <<b[1], IF b[2] = "near" THEN "up" ELSE "down">> BY Zenon
  <2>4. s = <<1, "up">> \/ s = <<1, "down">> BY <2>2, <2>3
  <2>5. PICK x : stream' = [stream EXCEPT ![s] = x] BY <1>6, <2>3, Zenon DEF Heartbeat
  <2>6. /\ stream'[<<0, "down">>] = stream[<<0, "down">>]
        /\ stream'[<<2, "up">>] = stream[<<2, "up">>]
    BY <1>1, <2>4, <2>5, StreamNames, Zenon
  <2> QED BY <2>1, <2>6, SameView, Zenon
<1>7. ASSUME NEW n \in Nodes, \/ DialFails(n) \/ AcceptStream(n) \/ DecodeError(n)
                              \/ CloseTarget(n) \/ CloseConn(n)
      PROVE  Acts
  BY <1>2, <1>7, Zenon DEF DialFails, AcceptStream, DecodeError, CloseTarget, CloseConn
<1>8. ASSUME NEW r \in Relays, RelayEnds(r) PROVE Acts BY <1>2, <1>8, Zenon DEF RelayEnds
<1>9. ASSUME NEW l \in Links, Breaks(l) PROVE Acts BY <1>2, <1>9, Zenon DEF Breaks
<1>10. ASSUME NEW l \in Links, NEW end \in {"near", "far"}, PeerCloses(l, end) PROVE Acts
  BY <1>2, <1>10, Zenon DEF PeerCloses
<1>11. ASSUME UNCHANGED vars PROVE Acts BY <1>2, <1>11, Zenon DEF vars
<1> QED BY <1>3, <1>4, <1>5, <1>6, <1>7, <1>8, <1>9, <1>10, <1>11, Zenon

(* Every step of a tunnel is a step of the connection, or none. *)
LEMMA TunnelActs == TunnelInv /\ TunnelInv' /\ [Next]_vars => Acts
<1> SUFFICES ASSUME TunnelInv, TunnelInv', [Next]_vars PROVE Acts BY Zenon
<1>1. View /\ View' BY ViewNow, ViewNext, Zenon
<1>2. ASSUME NEW n \in Nodes, NodeStep(n) PROVE Acts
  BY <1>1, <1>2, HiddenActs, EgressActs, Zenon DEF NodeStep
<1>3. ASSUME NEW r \in Relays, RelayStep(r) PROVE Acts
  BY <1>1, <1>3, HiddenActs, ForwardActs, Zenon DEF RelayStep
<1> QED BY <1>1, <1>2, <1>3, HiddenActs, SendsAct, Zenon DEF Next

(* The initial states are those of a connection. *)
LEMMA TunnelBegins == Init => EndToEnd!Init
<1> SUFFICES ASSUME Init PROVE EndToEnd!Init BY Zenon
<1>1. View BY TunnelStart, ViewNow, Zenon
<1>2. kind[2] # "tcp" BY DEF Init, Links
<1>3. (TargetLinks # {}) = FALSE /\ Received("up") = <<>> BY <1>1, <1>2, Zenon DEF View
<1>4. Received("down") = <<>>
  <2>1. stream[<<0, "down">>] = <<>> BY StreamNames, Zenon DEF Init
  <2> QED BY <1>1, <2>1 DEF View, CellsIn
<1>5. [d \in Dirs |-> Received(d)] = [d \in {"up", "down"} |-> <<>>]
  BY <1>3, <1>4, Zenon DEF Dirs
<1>6. sent = [d \in {"up", "down"} |-> 0] BY Zenon DEF Init, Dirs
<1> QED BY <1>3, <1>5, <1>6, Zenon DEF EndToEnd!Init

(* The nodes, relays, frames and headers of a session implement the one     *)
(* connection that OutboundHandler.Dial stands for, whatever the settings,  *)
(* the padding, the payload and the failures.                               *)
THEOREM ConnectionTheorem == Spec => ActsAsConnection
<1>1. Init => TunnelInv /\ EndToEnd!Init BY TunnelStart, TunnelBegins, Zenon
<1>2. TunnelInv /\ [Next]_vars => TunnelInv' BY TunnelSteps, Zenon
<1>3. TunnelInv /\ TunnelInv' /\ [Next]_vars => [EndToEnd!Next]_(EndToEnd!vars)
  BY TunnelActs, Zenon DEF Acts
<1> QED BY <1>1, <1>2, <1>3, PTL DEF Spec, ActsAsConnection, EndToEnd!Spec

(* What is behind the limits of the tunnel: only a session with a one-hop   *)
(* chain and without obfuscation ever gets a target dialled (HandleRelay    *)
(* and DecodeNextHop at every other node refuse the header).                *)
THEOREM OneHopTheorem == Spec => [](TargetLinks # {} => chainLen = 1 /\ ~obfs)
<1>1. Init => TunnelInv BY TunnelStart, Zenon
<1>2. TunnelInv /\ [Next]_vars => TunnelInv' BY TunnelSteps, Zenon
<1>3. TunnelInv => (TargetLinks # {} => chainLen = 1 /\ ~obfs)
  BY DEF TunnelInv, RoleInv, TargetLinks, Links
<1> QED BY <1>1, <1>2, <1>3, PTL DEF Spec

=============================================================================
