-------------------------------- MODULE Codec --------------------------------
(***************************************************************************)
(* The NP-Chain header: npchain.EncodeHeader and npchain.DecodeNextHop.    *)
(*                                                                         *)
(* A stream is a sequence of cells.  The header is a magic cell, a cell    *)
(* for the other fixed fields, EntryCells cells per hop entry and, at the  *)
(* end, one cell per unit of padding.  Payload cells follow.               *)
(***************************************************************************)
EXTENDS Integers, Sequences

CONSTANT EntryCells     \* cells of a hop entry (34 bytes in the code)

ASSUME EntryAssumption == EntryCells \in Nat \ {0}

AddrCap == 30           \* bytes of HopEntry.Address

Magic == <<"magic">>
Fields(nHops, padLen) == <<"fields", nHops, padLen>>
Padding(padLen) == [i \in 1..padLen |-> <<"pad">>]

(* An address is its host and the length of the host's encoding; an entry   *)
(* holds no more than AddrCap bytes of it.                                  *)
Address(host, len) == [host |-> host, len |-> len]
Truncated(addr) == [addr EXCEPT !.len = IF addr.len > AddrCap THEN AddrCap ELSE addr.len]

HopEntry(addr) == [i \in 1..EntryCells |-> <<"hop", Truncated(addr), i>>]

(* The entries of a chain, one after the other. *)
HopEntries(chain) ==
  [k \in 1..(Len(chain) * EntryCells) |->
     HopEntry(chain[((k - 1) \div EntryCells) + 1])[((k - 1) % EntryCells) + 1]]

(* EncodeHeader: the padding comes after the entries. *)
EncodeHeader(chain, padLen) ==
  <<Magic, Fields(Len(chain), padLen)>> \o HopEntries(chain) \o Padding(padLen)

-----------------------------------------------------------------------------
NHops(cells) == cells[2][2]
PadLen(cells) == cells[2][3]

(* Variant: the last hop is taken for the end of the chain. *)
DecodeFailsAtLast(cells) == cells[1] # Magic \/ NHops(cells) <= 1

(* DecodeNextHop gives up before it has read an entry: this is not a        *)
(* header, or it is one without hops.                                       *)
DecodeFails(cells) == cells[1] # Magic \/ NHops(cells) = 0

(* Variant: the place docs/protocol.md gives the padding, before the entries. *)
NextHopAfterPadding(cells) ==
  SubSeq(cells, 3 + PadLen(cells), 2 + EntryCells + PadLen(cells))

(* The first entry, directly after the fixed fields.  The decoder's checks  *)
(* of its type and length hold for every entry EncodeHeader writes.         *)
NextHop(cells) == SubSeq(cells, 3, 2 + EntryCells)

(* Variant: the padding is not dropped. *)
KeepPadding(cells) == SubSeq(cells, 3 + EntryCells, Len(cells))

(* What follows the first entry once PadLen cells are dropped. *)
AfterPadding(cells) == SubSeq(cells, 3 + EntryCells + PadLen(cells), Len(cells))

HopsLeft(cells) == NHops(cells) - 1

(* remainingHeader, and what is left on the stream for the relay to read. *)
RemainingHeader(cells) ==
  <<Magic, Fields(HopsLeft(cells), PadLen(cells))>>
    \o SubSeq(AfterPadding(cells), 1, HopsLeft(cells) * EntryCells)

StreamAfter(cells) ==
  LET rest == AfterPadding(cells)
  IN  SubSeq(rest, (HopsLeft(cells) * EntryCells) + 1, Len(rest))

=============================================================================
