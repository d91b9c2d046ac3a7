------------------------------- MODULE FakeIP --------------------------------
(***************************************************************************)
(* Fake addresses: with fake_ip enabled SmartResolver answers every query  *)
(* for an A record from FakeIPPool, and BaseRouter.Route turns the fake    *)
(* address of a connection back into its domain.                           *)
(*                                                                         *)
(* An address is a number of the 32-bit address space, which wraps at      *)
(* Space.  Network is the first address of fake_ip.range and NetSize, a    *)
(* power of 2, the number of addresses in it.                              *)
(***************************************************************************)
EXTENDS Integers, Sequences

CONSTANTS Domains, NoDomain, Network, NetSize, Space

ASSUME PoolAssumption ==
  /\ {Network, NetSize, Space} \subseteq Nat
  /\ NetSize > 0 /\ Network + NetSize <= Space
  /\ NoDomain \notin Domains

Addresses == 0..(Space - 1)

(* NewFakeIPPool: the first and the last address of the network are left    *)
(* out (network number and broadcast address), in uint32 arithmetic.        *)
MinIP == (Network + 1) % Space

(* Variant: the broadcast address is not left out. *)
MaxIPBroadcast == (Network + NetSize - 1) % Space

MaxIP == (Network + NetSize - 1 - 1) % Space

VARIABLES
  current,      \* FakeIPPool.current
  ipToDomain,   \* FakeIPPool.ipToDomain, NoDomain where there is no entry
  domainToIP,   \* FakeIPPool.domainToIP: a function on the domains it holds
  allocs,       \* history: the domains given an address, in order
  conn,         \* history: the last connection to a fake address
  flushed,      \* history: an operator has flushed, nothing was asked since
  panicked      \* a goroutine has panicked, which ends the process

poolVars == <<current, ipToDomain, domainToIP, allocs>>
vars == <<poolVars, conn, flushed, panicked>>

NoConn == [asked |-> NoDomain, routedBy |-> NoDomain, dialled |-> NoDomain]

Init ==
  /\ current = MinIP
  /\ ipToDomain = [ip \in Addresses |-> NoDomain]
  /\ domainToIP = [d \in {} |-> 0]
  /\ allocs = <<>>
  /\ conn = NoConn
  /\ flushed = FALSE
  /\ panicked = FALSE

Known == DOMAIN domainToIP

(* Variant: an off-by-one in the test for the end of the range. *)
AfterLate(ip) == IF ip > MaxIP THEN MinIP ELSE (ip + 1) % Space

(* Variant: the last address of the range is skipped. *)
AfterEarly(ip) == IF (ip + 1) % Space >= MaxIP THEN MinIP ELSE (ip + 1) % Space

(* current after ip has been given away. *)
After(ip) == IF (ip + 1) % Space > MaxIP THEN MinIP ELSE (ip + 1) % Space

(* Variant: a domain that has an address is given another one. *)
GetAgain(d) ==
  /\ ipToDomain' = [ipToDomain EXCEPT ![current] = d]
  /\ domainToIP' = [e \in Known \cup {d} |-> IF e = d THEN current ELSE domainToIP[e]]
  /\ allocs' = Append(allocs, d)
  /\ current' = After(current)
  /\ flushed' = FALSE
  /\ UNCHANGED <<conn, panicked>>

(* FakeIPPool.Get for a domain without an address.  For the others it only  *)
(* returns domainToIP[d].  LookupIP and Query (type A) call it.             *)
Get(d) ==
  /\ d \notin Known
  /\ ipToDomain' = [ipToDomain EXCEPT ![current] = d]
  /\ domainToIP' = [e \in Known \cup {d} |-> IF e = d THEN current ELSE domainToIP[e]]
  /\ allocs' = Append(allocs, d)
  /\ current' = After(current)
  /\ flushed' = FALSE
  /\ UNCHANGED <<conn, panicked>>

(* ResolveFakeIP: FakeIPPool.Lookup of an IPv4 address. *)
ResolveFakeIP(ip) == ipToDomain[ip]

(* A client that was told d's address connects to it.  Route restores the   *)
(* domain in its own copy of the session's meta data and chooses by it; the *)
(* handler then calls Dial with the meta data it had.                       *)
Connect(d) ==
  /\ d \in Known
  /\ conn' = [asked |-> d, routedBy |-> ResolveFakeIP(domainToIP[d]),
              dialled |-> domainToIP[d]]
  /\ UNCHANGED <<poolVars, flushed, panicked>>

(* A client connects to an IPv6 address: Lookup reads four bytes of To4,    *)
(* which is nil, and nothing recovers the panic.                            *)
ConnectIPv6 ==
  /\ panicked' = TRUE
  /\ UNCHANGED <<poolVars, conn, flushed>>

(* The operator's dns-flush: SmartResolver.Flush, which leaves the pool.    *)
Flush ==
  /\ ~flushed
  /\ flushed' = TRUE
  /\ UNCHANGED <<poolVars, conn, panicked>>

Next ==
  /\ ~panicked
  /\ (\E d \in Domains : Get(d) \/ Connect(d)) \/ ConnectIPv6 \/ Flush

Spec == Init /\ [][Next]_vars

-----------------------------------------------------------------------------
(* Properties. *)

PoolSize == NetSize - 2

(* Every variable has its type; addresses given away are in the range.      *)
TypeOK ==
  /\ current \in MinIP..MaxIP
  /\ ipToDomain \in [Addresses -> Domains \cup {NoDomain}]
  /\ Known \subseteq Domains
  /\ domainToIP \in [Known -> MinIP..MaxIP]
  /\ allocs \in Seq(Domains)
  /\ conn \in [asked : Domains \cup {NoDomain}, routedBy : Domains \cup {NoDomain},
               dialled : Addresses \cup {NoDomain}]
  /\ flushed \in BOOLEAN /\ panicked \in BOOLEAN

(* An address is only ever restored to a domain whose clients were told     *)
(* that address, also after the pool has started over.                      *)
RestoresToHolder ==
  \A ip \in Addresses :
    ResolveFakeIP(ip) # NoDomain
      => ResolveFakeIP(ip) \in Known /\ domainToIP[ResolveFakeIP(ip)] = ip

(* A domain's address is restored to that domain as long as fewer than      *)
(* PoolSize other domains have been given an address after it.              *)
FreshAddressRestored ==
  \A i \in DOMAIN allocs :
    Len(allocs) - i < PoolSize
      => ResolveFakeIP(domainToIP[allocs[i]]) = allocs[i]

(* Neither the network number nor the broadcast address, nor an address     *)
(* outside the network, is given to a domain.                               *)
AddressesUsable ==
  \A d \in Known :
    Network < domainToIP[d] /\ domainToIP[d] < Network + NetSize - 1

-----------------------------------------------------------------------------
(* What a comment or a document says and the code does not do: each of the  *)
(* following is refuted by TLC, see README.md.                              *)

(* A domain keeps its address and an address its domain: both maps always   *)
(* agree.                                                                   *)
BoundBothWays == \A d \in Known : ResolveFakeIP(domainToIP[d]) = d

(* The outbound dials the restored domain. *)
DialsRestoredDomain == conn.dialled = conn.routedBy

(* After a flush no fake address is bound to a domain. *)
FlushClearsFakeIP == flushed => Known = {}

(* A target may be an IPv6 address. *)
IPv6Routable == ~panicked

=============================================================================
