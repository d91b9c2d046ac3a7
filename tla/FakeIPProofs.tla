---------------------------- MODULE FakeIPProofs -----------------------------
(* Proofs about FakeIP for every network of at least four addresses (a /30  *)
(* or larger) and any number of domains.                                    *)
EXTENDS FakeIP, TLAPS

UsableNetwork == NetSize >= 4

(* With NetSize >= 4 the pool range is not empty and excludes both reserved addresses. *)
LEMMA RangeFacts ==
  ASSUME UsableNetwork
  PROVE  /\ MinIP = Network + 1 /\ MaxIP = Network + NetSize - 2
         /\ Network \in Nat /\ NetSize \in Nat /\ Space \in Nat
         /\ MinIP \in Nat /\ MaxIP \in Nat /\ PoolSize \in Nat
         /\ MinIP + PoolSize = MaxIP + 1 /\ PoolSize >= 2 /\ MaxIP + 1 < Space
<1>1. /\ Network \in Nat /\ NetSize \in Nat /\ Space \in Nat /\ NetSize >= 4
      /\ Network + NetSize <= Space
  BY PoolAssumption DEF PoolAssumption, UsableNetwork
<1>2. \A x \in Nat : x < Space => x % Space = x BY <1>1
<1>3. MinIP = Network + 1 BY <1>1, <1>2 DEF MinIP
<1>4. MaxIP = Network + NetSize - 2 BY <1>1, <1>2 DEF MaxIP
<1> QED BY <1>1, <1>3, <1>4 DEF PoolSize

(* The successor of an address of the pool is an address of the pool. *)
LEMMA AfterFacts ==
  ASSUME UsableNetwork, NEW ip \in MinIP..MaxIP
  PROVE  /\ After(ip) \in MinIP..MaxIP
         /\ After(ip) = ip + 1 \/ (ip = MaxIP /\ After(ip) = ip + 1 - PoolSize)
<1>1. ip \in Nat /\ ip + 1 < Space /\ Space \in Nat /\ ip <= MaxIP /\ MinIP <= ip BY RangeFacts
<1>2. (ip + 1) % Space = ip + 1 BY <1>1
<1> QED BY <1>1, <1>2, RangeFacts DEF After

-----------------------------------------------------------------------------
(* The inductive invariant: the k-th last domain that was given an address  *)
(* has it k places before current, counted around the pool, and so its      *)
(* entry in ipToDomain is not the one that Get overwrites next.             *)
Holds(ip) == ipToDomain[ip] # NoDomain
               => ipToDomain[ip] \in Known /\ domainToIP[ipToDomain[ip]] = ip

Ago(i) == Len(allocs) + 1 - i
Gap(i) == current - domainToIP[allocs[i]]

Spaced(i) ==
  /\ allocs[i] \in Known
  /\ Ago(i) < PoolSize => Gap(i) \in {Ago(i), Ago(i) - PoolSize}
  /\ Ago(i) <= PoolSize => ipToDomain[domainToIP[allocs[i]]] = allocs[i]

PoolInv ==
  /\ TypeOK
  /\ \A ip \in Addresses : Holds(ip)
  /\ \A i \in 1..Len(allocs) : Spaced(i)

(* The pool invariant holds initially. *)
LEMMA PoolInit == ASSUME UsableNetwork, Init PROVE PoolInv
<1>1. MinIP \in MinIP..MaxIP BY RangeFacts
<1>2. Known = {} /\ domainToIP \in [Known -> MinIP..MaxIP] BY DEF Init, Known
<1>3. allocs \in Seq(Domains) /\ Len(allocs) = 0 BY DEF Init
<1>4. TypeOK BY <1>1, <1>2, <1>3, Zenon DEF Init, TypeOK, NoConn
<1>5. \A ip \in Addresses : Holds(ip) BY DEF Init, Holds
<1> QED BY <1>3, <1>4, <1>5 DEF PoolInv

(* Get keeps the pool invariant. *)
LEMMA GetStep ==
  ASSUME UsableNetwork, PoolInv, NEW d \in Domains, Get(d)
  PROVE  PoolInv'
<1>r. MinIP \in Nat /\ MaxIP \in Nat /\ PoolSize \in Nat /\ MinIP + PoolSize = MaxIP + 1
      /\ PoolSize >= 2 /\ Space \in Nat /\ MaxIP + 1 < Space
  BY RangeFacts
<1>a. /\ current \in MinIP..MaxIP /\ current \in Nat /\ current \in Addresses
      /\ ipToDomain \in [Addresses -> Domains \cup {NoDomain}]
      /\ Known \subseteq Domains /\ domainToIP \in [Known -> MinIP..MaxIP]
      /\ allocs \in Seq(Domains) /\ Len(allocs) \in Nat
  BY <1>r DEF PoolInv, TypeOK, Addresses
<1>b. /\ d \notin Known
      /\ ipToDomain' = [ipToDomain EXCEPT ![current] = d]
      /\ domainToIP' = [e \in Known \cup {d} |-> IF e = d THEN current ELSE domainToIP[e]]
      /\ allocs' = Append(allocs, d) /\ current' = After(current)
      /\ flushed' = FALSE /\ conn' = conn /\ panicked' = panicked
  BY DEF Get
<1>c. /\ Known' = Known \cup {d} /\ domainToIP'[d] = current
      /\ \A e \in Known : e # d /\ domainToIP'[e] = domainToIP[e]
  BY <1>b DEF Known
<1>d. /\ current' \in MinIP..MaxIP
      /\ current' = current + 1 \/ (current = MaxIP /\ current' = current + 1 - PoolSize)
  BY <1>a, <1>b, AfterFacts
<1>g. current' \in Int /\ current \in Int /\ MinIP <= current /\ current <= MaxIP
      /\ MinIP <= current' /\ current' <= MaxIP
  BY <1>a, <1>d, <1>r
<1>e. /\ allocs' \in Seq(Domains) /\ Len(allocs') = Len(allocs) + 1
      /\ allocs'[Len(allocs) + 1] = d
      /\ \A i \in 1..Len(allocs) : allocs'[i] = allocs[i]
  BY <1>a, <1>b
<1>f. ipToDomain'[current] = d /\ \A ip \in Addresses : ip # current => ipToDomain'[ip] = ipToDomain[ip]
  BY <1>a, <1>b
<1>1. TypeOK'
  <2>1. ipToDomain' \in [Addresses -> Domains \cup {NoDomain}] BY <1>a, <1>b
  <2>2. domainToIP' \in [Known' -> MinIP..MaxIP] BY <1>a, <1>b, <1>c
  <2>3. Known' \subseteq Domains BY <1>a, <1>c
  <2> QED BY <1>b, <1>d, <1>e, <2>1, <2>2, <2>3, Zenon DEF PoolInv, TypeOK
<1>2. ASSUME NEW ip \in Addresses PROVE Holds(ip)'
  <2>1. CASE ip = current BY <1>c, <1>f, <2>1 DEF Holds
  <2>2. CASE ip # current
    <3>1. Holds(ip) BY DEF PoolInv
    <3> QED BY <1>c, <1>f, <2>2, <3>1 DEF Holds
  <2> QED BY <2>1, <2>2
<1>3. ASSUME NEW i \in 1..Len(allocs') PROVE Spaced(i)'
  <2>1. CASE i = Len(allocs) + 1
    <3>1. allocs'[i] = d /\ Len(allocs') + 1 - i = 1 BY <1>a, <1>e, <2>1
    <3>2. current' - current = 1 \/ current' - current = 1 - PoolSize
      <4>1. CASE current' = current + 1 BY <1>g, <4>1
      <4>2. CASE current' = current + 1 - PoolSize BY <1>g, <1>r, <4>2
      <4> QED BY <1>d, <4>1, <4>2
    <3>3. Ago(i)' = 1 /\ Gap(i)' = current' - current BY <1>c, <3>1 DEF Ago, Gap
    <3> QED BY <1>c, <1>f, <3>1, <3>2, <3>3 DEF Spaced
  <2>2. CASE i # Len(allocs) + 1
    <3> DEFINE k == Len(allocs) + 1 - i
               ip == domainToIP[allocs[i]]
    <3>1. i \in 1..Len(allocs) /\ allocs'[i] = allocs[i] BY <1>a, <1>e, <2>2
    <3>2. Spaced(i) BY <3>1 DEF PoolInv
    <3>3. /\ allocs[i] \in Known /\ domainToIP'[allocs[i]] = ip
          /\ ip \in MinIP..MaxIP /\ ip \in Addresses /\ ip \in Nat
      BY <1>a, <1>c, <1>r, <3>2 DEF Spaced, Addresses
    <3>4. k \in Nat \ {0} /\ Len(allocs') + 1 - i = k + 1 BY <1>a, <1>e, <3>1
    <3>5. /\ k < PoolSize => current - ip = k \/ current - ip = k - PoolSize
          /\ k <= PoolSize => ipToDomain[ip] = allocs[i]
      BY <3>2 DEF Spaced, Ago, Gap, k, ip
    <3> HIDE DEF k, ip
    <3>6. ASSUME k + 1 < PoolSize
          PROVE  current' - ip = k + 1 \/ current' - ip = k + 1 - PoolSize
      <4>1. current - ip = k \/ current - ip = k - PoolSize
        <5>1. k < PoolSize BY <1>r, <3>4, <3>6
        <5> QED BY <3>5, <5>1
      <4>2. MinIP <= ip /\ ip <= MaxIP /\ ip \in Int BY <1>r, <3>3
      <4>3. CASE current' = current + 1 BY <1>g, <1>r, <3>4, <4>1, <4>2, <4>3
      <4>4. CASE current = MaxIP /\ current' = current + 1 - PoolSize
        BY <1>g, <1>r, <3>4, <3>6, <4>1, <4>2, <4>4
      <4> QED BY <1>d, <4>3, <4>4
    <3>7. ASSUME k + 1 <= PoolSize PROVE ipToDomain'[ip] = allocs[i]
      <4>1. k < PoolSize /\ k <= PoolSize BY <1>r, <3>4, <3>7
      <4>2. current # ip BY <1>a, <1>r, <3>3, <3>4, <3>5, <4>1
      <4> QED BY <1>f, <3>3, <3>5, <4>1, <4>2
    <3>8. allocs'[i] \in Known' BY <1>c, <3>1, <3>3
    <3>9. domainToIP'[allocs'[i]] = ip BY <3>1, <3>3
    <3>10. Ago(i)' = k + 1 /\ Gap(i)' = current' - ip BY <3>4, <3>9 DEF Ago, Gap
    <3>11. Ago(i)' < PoolSize => Gap(i)' \in {Ago(i)', Ago(i)' - PoolSize}
      <4>1. ASSUME k + 1 < PoolSize
            PROVE  Gap(i)' = k + 1 \/ Gap(i)' = (k + 1) - PoolSize
        <5>1. current' - ip = k + 1 \/ current' - ip = k + 1 - PoolSize BY <3>6, <4>1
        <5>2. CASE current' - ip = k + 1 BY <3>10, <5>2
        <5>3. CASE current' - ip = k + 1 - PoolSize BY <1>r, <3>4, <3>10, <5>3
        <5> QED BY <5>1, <5>2, <5>3
      <4> QED BY <3>10, <4>1
    <3>12. Ago(i)' <= PoolSize => ipToDomain'[domainToIP'[allocs'[i]]] = allocs'[i]
      BY <3>1, <3>7, <3>9, <3>10
    <3> QED BY <3>8, <3>11, <3>12 DEF Spaced
  <2> QED BY <2>1, <2>2
<1> QED BY <1>1, <1>2, <1>3 DEF PoolInv

(* A connection to a fake address keeps the pool invariant. *)
LEMMA ConnectStep ==
  ASSUME UsableNetwork, PoolInv, NEW d \in Domains, Connect(d)
  PROVE  PoolInv'
<1>1. UNCHANGED poolVars BY DEF Connect
<1>2. /\ UNCHANGED <<current, ipToDomain, domainToIP, allocs>> /\ UNCHANGED Known
  BY <1>1 DEF poolVars, Known
<1>r. MinIP \in Nat /\ MaxIP \in Nat /\ PoolSize \in Nat /\ MinIP + PoolSize = MaxIP + 1
      /\ PoolSize >= 2 /\ Space \in Nat /\ MaxIP + 1 < Space
  BY RangeFacts
<1>3. \A e \in Known : domainToIP[e] \in Addresses /\ ipToDomain[domainToIP[e]] \in Domains \cup {NoDomain}
  BY <1>r DEF PoolInv, TypeOK, Addresses
<1>4. conn' \in [asked : Domains \cup {NoDomain}, routedBy : Domains \cup {NoDomain},
                 dialled : Addresses \cup {NoDomain}]
  BY <1>3 DEF Connect, PoolInv, TypeOK, ResolveFakeIP
<1>8. flushed' \in BOOLEAN /\ panicked' \in BOOLEAN BY Zenon DEF Connect, PoolInv, TypeOK
<1>5. TypeOK' BY <1>2, <1>4, <1>8, Zenon DEF PoolInv, TypeOK
<1>6. \A ip \in Addresses : Holds(ip)' BY <1>2 DEF PoolInv, Holds
<1>7. \A i \in 1..Len(allocs') : Spaced(i)' BY <1>2 DEF PoolInv, Spaced, Ago, Gap
<1> QED BY <1>5, <1>6, <1>7 DEF PoolInv

(* The pool invariant holds in every reachable state. *)
LEMMA PoolInvariant == ASSUME UsableNetwork PROVE Spec => []PoolInv
<1>1. Init => PoolInv BY PoolInit
<1>2. PoolInv /\ [Next]_vars => PoolInv'
  <2> SUFFICES ASSUME PoolInv, [Next]_vars PROVE PoolInv' OBVIOUS
  <2>1. CASE \E d \in Domains : Get(d) BY <2>1, GetStep
  <2>2. CASE \E d \in Domains : Connect(d) BY <2>2, ConnectStep
  <2>3. CASE ConnectIPv6 \/ Flush \/ UNCHANGED vars
    <3>1. UNCHANGED <<poolVars, conn>> /\ flushed' \in BOOLEAN /\ panicked' \in BOOLEAN
      BY <2>3, Zenon DEF ConnectIPv6, Flush, vars, PoolInv, TypeOK
    <3>2. UNCHANGED <<current, ipToDomain, domainToIP, allocs>> /\ UNCHANGED Known
      BY <3>1 DEF poolVars, Known
    <3>3. TypeOK' BY <3>1, <3>2, Zenon DEF PoolInv, TypeOK
    <3>4. \A ip \in Addresses : Holds(ip)' BY <3>2 DEF PoolInv, Holds
    <3>5. \A i \in 1..Len(allocs') : Spaced(i)' BY <3>2 DEF PoolInv, Spaced, Ago, Gap
    <3> QED BY <3>3, <3>4, <3>5 DEF PoolInv
  <2> QED BY <2>1, <2>2, <2>3 DEF Next
<1> QED BY <1>1, <1>2, PTL DEF Spec

-----------------------------------------------------------------------------
(* FakeIPPool never leaves its range, however often it starts over. *)
THEOREM TypeCorrect == ASSUME UsableNetwork PROVE Spec => []TypeOK
<1>1. PoolInv => TypeOK BY DEF PoolInv
<1> QED BY <1>1, PoolInvariant, PTL

(* An address is only restored to a domain whose clients were told it. *)
THEOREM RestoresTheorem == ASSUME UsableNetwork PROVE Spec => []RestoresToHolder
<1>1. PoolInv => RestoresToHolder BY DEF PoolInv, RestoresToHolder, Holds, ResolveFakeIP
<1> QED BY <1>1, PoolInvariant, PTL

(* The last PoolSize domains that were given an address are restored from   *)
(* it, for pools of every size: FakeIPPool.Get overwrites the oldest entry. *)
THEOREM FreshTheorem == ASSUME UsableNetwork PROVE Spec => []FreshAddressRestored
<1>1. PoolInv => FreshAddressRestored
  <2> SUFFICES ASSUME PoolInv, NEW i \in DOMAIN allocs, Len(allocs) - i < PoolSize
               PROVE  ResolveFakeIP(domainToIP[allocs[i]]) = allocs[i]
    BY DEF FreshAddressRestored
  <2>1. allocs \in Seq(Domains) /\ Len(allocs) \in Nat /\ i \in 1..Len(allocs)
    BY DEF PoolInv, TypeOK
  <2>a. PoolSize \in Nat BY RangeFacts
  <2>2. Len(allocs) + 1 - i <= PoolSize BY <2>1, <2>a
  <2> QED BY <2>1, <2>2 DEF PoolInv, Spaced, Ago, ResolveFakeIP
<1> QED BY <1>1, PoolInvariant, PTL

(* Neither the network number nor the broadcast address is given away. *)
THEOREM UsableTheorem == ASSUME UsableNetwork PROVE Spec => []AddressesUsable
<1>1. PoolInv => AddressesUsable
  <2> SUFFICES ASSUME PoolInv, NEW d \in Known
               PROVE  Network < domainToIP[d] /\ domainToIP[d] < Network + NetSize - 1
    BY DEF AddressesUsable
  <2>1. domainToIP[d] \in MinIP..MaxIP BY DEF PoolInv, TypeOK
  <2> QED BY <2>1, RangeFacts
<1> QED BY <1>1, PoolInvariant, PTL

=============================================================================
