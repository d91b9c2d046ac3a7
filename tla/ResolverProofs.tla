--------------------------- MODULE ResolverProofs ----------------------------
(***************************************************************************)
(* SmartResolver.Query for any number of queries, names and upstreams: the *)
(* replies, the cache and the race.                                        *)
(***************************************************************************)
EXTENDS Resolver, FiniteSetTheorems, TLAPS

Entries == [msg : Replies, stored : Nat, expiry : Nat]
Hits == [stored : Nat, at : Nat]

(* The types, with the record sets the proofs need. *)
Types ==
  /\ now \in Nat
  /\ route \in [Names -> Outbounds \cup {NoRoute}]
  /\ cache \in [Names -> Entries \cup {None}]
  /\ pc \in [Queries -> {"start", "route", "race", "write", "done"}]
  /\ ups \in [Queries -> SUBSET Upstreams]
  /\ exchange \in [Queries -> [Upstreams -> {"none", "pending", "sending", "sent"}]]
  /\ outcome \in [Queries -> [Upstreams -> Replies \cup {None}]]
  /\ resCh \in [Queries -> SUBSET Upstreams]
  /\ errCh \in [Queries -> SUBSET Upstreams]
  /\ errors \in [Queries -> Nat]
  /\ result \in [Queries -> Replies \cup {None}]
  /\ served \in [Queries -> Hits \cup {None}]
  /\ routeSeen \in [Queries -> Outbounds \cup {NoRoute}]
  /\ cancelled \subseteq Queries

(* What is known of the replies: an upstream's carries its own name and the *)
(* question, a query has a result from the write on, and an entry of the    *)
(* cache is about its name and expires when its TTL says.                   *)
OutcomeOf(q, u) ==
  outcome[q][u] # None =>
    outcome[q][u].id = q /\ outcome[q][u].name = NameOf[q] /\ outcome[q][u].by = u

ResultOf(q) ==
  /\ pc[q] \in {"start", "route", "race"} => result[q] = None
  /\ pc[q] = "write" => result[q] # None
  /\ pc[q] # "done" => served[q] = None
  /\ result[q] # None => result[q].id = q /\ result[q].name = NameOf[q]
  /\ served[q] # None =>
       result[q] # None /\ served[q].at - served[q].stored < Clamp(result[q].ttl)

EntryOf(n) ==
  cache[n] # None =>
    cache[n].msg.name = n /\ cache[n].expiry = cache[n].stored + Clamp(cache[n].msg.ttl)

ReplyInv ==
  /\ \A q \in Queries, u \in Upstreams : OutcomeOf(q, u)
  /\ \A q \in Queries : ResultOf(q)
  /\ \A n \in Names : EntryOf(n)

(* The errors that a query's race has received. *)
Received(q) ==
  {u \in ups[q] : exchange[q][u] = "sent" /\ outcome[q][u] = None /\ u \notin errCh[q]}

(* What is known of a query's race: who takes part, what is in the          *)
(* channels, and what the error count counts.                               *)
RaceOf(q) ==
  /\ pc[q] \in {"start", "route"} => ups[q] = {}
  /\ pc[q] = "race" => errors[q] < Cardinality(ups[q])
  /\ errors[q] = Cardinality(Received(q))
  /\ \A u \in Upstreams :
       /\ exchange[q][u] # "none" <=> u \in ups[q]
       /\ u \in resCh[q] => exchange[q][u] = "sent" /\ outcome[q][u] # None
       /\ u \in errCh[q] => exchange[q][u] = "sent" /\ outcome[q][u] = None
       /\ (pc[q] = "race" /\ exchange[q][u] = "sent" /\ outcome[q][u] # None) => u \in resCh[q]
  /\ (pc[q] = "done" /\ result[q] = None) =>
       q \in cancelled \/ errors[q] = Cardinality(ups[q])

RaceInv == \A q \in Queries : RaceOf(q)

-----------------------------------------------------------------------------
(* Constants, and the records that are not None. *)
LEMMA ConstantFacts ==
  /\ NameOf \in [Queries -> Names]
  /\ IsFiniteSet(Local) /\ IsFiniteSet(Remote) /\ IsFiniteSet(Fallback)
  /\ Fallback # {}
  /\ TTLs \subseteq Nat /\ NoAnswer \notin Nat
  /\ MinTTL \in Nat /\ MaxTTL \in Nat /\ DefaultTTL \in Nat
  /\ MinTTL <= DefaultTTL /\ DefaultTTL <= MaxTTL
  BY ResolverAssumption, Zenon

(* A reply, an entry of the cache and a hit are not None. *)
LEMMA NotNone ==
  None \notin Replies /\ None \notin Entries /\ None \notin Hits
  BY Zenon DEF None, Replies, Entries, Hits

(* A lifetime is a number of seconds, at most MaxTTL. *)
LEMMA ClampRange ==
  ASSUME NEW t \in TTLs \cup {NoAnswer}
  PROVE  Clamp(t) \in Nat /\ Clamp(t) <= MaxTTL
  BY ConstantFacts DEF Clamp

(* Adding a field value keeps a reply a reply. *)
LEMMA Readdressed ==
  ASSUME NEW r \in Replies, NEW q \in Queries
  PROVE  /\ [r EXCEPT !.id = q] \in Replies
         /\ [r EXCEPT !.id = q].id = q
         /\ [r EXCEPT !.id = q].name = r.name
         /\ [r EXCEPT !.id = q].ttl = r.ttl
         /\ [r EXCEPT !.id = q].by = r.by
  BY Zenon DEF Replies

(* Upstreams are finitely many, and a choice is a non-empty set of them. *)
LEMMA ChosenFacts ==
  ASSUME NEW n \in Names
  PROVE  IsFiniteSet(Upstreams) /\ Chosen(n) \subseteq Upstreams /\ Chosen(n) # {}
<1>1. IsFiniteSet(Upstreams)
  BY ConstantFacts, FS_Union, Zenon DEF Upstreams
<1> QED
  BY <1>1, ConstantFacts, Zenon DEF Chosen, Upstreams

-----------------------------------------------------------------------------
(* The initial state. *)
LEMMA InitInv == Init => Types /\ ReplyInv /\ RaceInv
<1> SUFFICES ASSUME Init
             PROVE  Types /\ ReplyInv /\ RaceInv
  BY Zenon
<1>1. Types
  BY Zenon DEF Init, Types
<1>2. ReplyInv
  BY Zenon DEF Init, ReplyInv, OutcomeOf, ResultOf, EntryOf
<1>3. RaceInv
  <2> SUFFICES ASSUME NEW q \in Queries
               PROVE  /\ errors[q] = Cardinality(Received(q))
                      /\ pc[q] = "start" /\ ups[q] = {}
                      /\ \A u \in Upstreams : /\ exchange[q][u] = "none"
                                              /\ u \notin resCh[q] \cup errCh[q]
    BY Zenon DEF RaceInv, RaceOf
  <2>1. Received(q) = {}
    BY Zenon DEF Init, Received
  <2> QED
    BY <2>1, FS_EmptySet, Zenon DEF Init
<1> QED
  BY <1>1, <1>2, <1>3, Zenon

-----------------------------------------------------------------------------
(* A step of any kind, one disjunct per action. *)
LEMMA NextCases ==
  ASSUME [Next]_vars
  PROVE  \/ \E q \in Queries : \/ CacheHit(q) \/ CacheMiss(q) \/ StartRace(q)
                               \/ WriteCache(q) \/ ReceiveDone(q) \/ GiveUp(q)
         \/ \E q \in Queries, u \in Upstreams :
              \/ ReceiveReply(q, u) \/ ReceiveError(q, u) \/ Send(q, u)
              \/ ExchangeOK(q, u) \/ ExchangeFails(q, u)
         \/ Flush \/ Tick
         \/ \E n \in Names, out \in Outbounds \cup {NoRoute} : Reroute(n, out)
         \/ UNCHANGED vars
  BY Zenon DEF Next, QueryStep, ExchangeStep

(* The types are kept. *)
LEMMA TypesStep ==
  ASSUME Types, ReplyInv, [Next]_vars
  PROVE  Types'
<1> USE DEF queryVars, envVars
<1>1. ASSUME NEW q \in Queries, CacheHit(q)
      PROVE  Types'
  <2>1. cache[NameOf[q]] \in Entries
    BY <1>1, ConstantFacts, Zenon DEF Types, CacheHit, Cached
  <2>2. [cache[NameOf[q]].msg EXCEPT !.id = q] \in Replies
    BY <2>1, Readdressed, Zenon DEF Entries
  <2>3. [stored |-> cache[NameOf[q]].stored, at |-> now] \in Hits
    BY <2>1, Zenon DEF Types, Entries, Hits
  <2>4. route[NameOf[q]] \in Outbounds \cup {NoRoute}
    BY ConstantFacts, Zenon DEF Types
  <2> QED
    BY <1>1, <2>2, <2>3, <2>4, Zenon DEF Types, CacheHit
<1>2. ASSUME NEW q \in Queries, CacheMiss(q)
      PROVE  Types'
  BY <1>2, Zenon DEF Types, CacheMiss
<1>3. ASSUME NEW q \in Queries, StartRace(q)
      PROVE  Types'
  <2>1. Chosen(NameOf[q]) \subseteq Upstreams
    BY ConstantFacts, ChosenFacts, Zenon
  <2>2. route[NameOf[q]] \in Outbounds \cup {NoRoute}
    BY ConstantFacts, Zenon DEF Types
  <2> QED
    BY <1>3, <2>1, <2>2, Zenon DEF Types, StartRace
<1>4. ASSUME NEW q \in Queries, WriteCache(q)
      PROVE  Types'
  <2>1. result[q] \in Replies
    BY <1>4 DEF Types, ReplyInv, OutcomeOf, ResultOf, EntryOf, WriteCache
  <2>2. now + Clamp(result[q].ttl) \in Nat
    <3>1. Clamp(result[q].ttl) \in Nat
      BY <2>1, ClampRange, Zenon DEF Replies
    <3> QED
      BY <3>1 DEF Types
  <2>3. [msg |-> result[q], stored |-> now, expiry |-> now + Clamp(result[q].ttl)] \in Entries
    BY <2>1, <2>2, Zenon DEF Types, Entries
  <2> QED
    BY <1>4, <2>3, Zenon DEF Types, WriteCache
<1>5. ASSUME NEW q \in Queries, ReceiveDone(q)
      PROVE  Types'
  BY <1>5, Zenon DEF Types, ReceiveDone
<1>6. ASSUME NEW q \in Queries, GiveUp(q)
      PROVE  Types'
  BY <1>6, Zenon DEF Types, GiveUp
<1>7. ASSUME NEW q \in Queries, NEW u \in Upstreams, ReceiveReply(q, u)
      PROVE  Types'
  BY <1>7 DEF Types, ReceiveReply
<1>8. ASSUME NEW q \in Queries, NEW u \in Upstreams, ReceiveError(q, u)
      PROVE  Types'
  BY <1>8 DEF Types, ReceiveError
<1>9. ASSUME NEW q \in Queries, NEW u \in Upstreams, Send(q, u)
      PROVE  Types'
  <2>1. exchange' \in [Queries -> [Upstreams -> {"none", "pending", "sending", "sent"}]]
    BY <1>9, Zenon DEF Types, Send
  <2>2. resCh' \in [Queries -> SUBSET Upstreams] /\ errCh' \in [Queries -> SUBSET Upstreams]
    <3>1. CASE outcome[q][u] # None
      <4>1. resCh' = [resCh EXCEPT ![q] = @ \cup {u}] /\ errCh' = errCh
        BY <1>9, <3>1, Zenon DEF Send
      <4> QED
        BY <4>1, Zenon DEF Types
    <3>2. CASE outcome[q][u] = None
      <4>1. errCh' = [errCh EXCEPT ![q] = @ \cup {u}] /\ resCh' = resCh
        BY <1>9, <3>2, Zenon DEF Send
      <4> QED
        BY <4>1, Zenon DEF Types
    <3> QED
      BY <3>1, <3>2, Zenon
  <2> QED
    BY <1>9, <2>1, <2>2, Zenon DEF Types, Send
<1>10. ASSUME NEW q \in Queries, NEW u \in Upstreams,
              NEW out \in Replies \cup {None}, Exchange(q, u, out)
       PROVE  Types'
  BY <1>10, Zenon DEF Types, Exchange
<1>11. ASSUME NEW q \in Queries, NEW u \in Upstreams, ExchangeOK(q, u)
       PROVE  Types'
  <2>1. PICK ttl \in TTLs \cup {NoAnswer} :
          Exchange(q, u, [id |-> q, name |-> NameOf[q], by |-> u, ttl |-> ttl])
    BY <1>11, Zenon DEF ExchangeOK
  <2>2. [id |-> q, name |-> NameOf[q], by |-> u, ttl |-> ttl] \in Replies
    BY ConstantFacts, Zenon DEF Replies
  <2> QED
    BY <2>1, <2>2, <1>10, Zenon
<1>12. ASSUME NEW q \in Queries, NEW u \in Upstreams, ExchangeFails(q, u)
       PROVE  Types'
  BY <1>12, <1>10, Zenon DEF ExchangeFails
<1>13. CASE Flush
  BY <1>13, Zenon DEF Types, Flush
<1>14. CASE Tick
  BY <1>14 DEF Types, Tick
<1>15. ASSUME NEW n \in Names, NEW out \in Outbounds \cup {NoRoute}, Reroute(n, out)
       PROVE  Types'
  BY <1>15, Zenon DEF Types, Reroute
<1>16. CASE UNCHANGED vars
  BY <1>16, Zenon DEF Types, vars
<1> QED
  BY NextCases, <1>1, <1>2, <1>3, <1>4, <1>5, <1>6, <1>7, <1>8, <1>9, <1>11, <1>12,
     <1>13, <1>14, <1>15, <1>16, Zenon

(* A step that leaves the outcomes alone keeps what is known of them. *)
LEMMA OutcomesKept ==
  ASSUME ReplyInv, outcome' = outcome
  PROVE  \A q \in Queries, u \in Upstreams : OutcomeOf(q, u)'
BY DEF ReplyInv, OutcomeOf

(* A step that leaves the cache alone keeps what is known of its entries. *)
LEMMA EntriesKept ==
  ASSUME ReplyInv, cache' = cache
  PROVE  \A n \in Names : EntryOf(n)'
<1> SUFFICES ASSUME NEW n \in Names
             PROVE  EntryOf(n)'
  BY Zenon
<1>1. EntryOf(n)
  BY Zenon DEF ReplyInv
<1> QED
  BY <1>1, Zenon DEF EntryOf, Clamp

(* The step does not take query p back to where it has no result, or to the *)
(* write.                                                                   *)
Onward(p) ==
  /\ pc'[p] \in {"start", "route", "race"} => pc[p] \in {"start", "route", "race"}
  /\ pc'[p] = "write" => pc[p] = "write"
  /\ pc'[p] # "done" => pc[p] # "done"

(* A query whose result stands keeps what is known of it. *)
LEMMA ResultKept ==
  ASSUME NEW p \in Queries, ResultOf(p), Onward(p),
         result'[p] = result[p], served'[p] = served[p]
  PROVE  ResultOf(p)'
<1>1. /\ pc'[p] \in {"start", "route", "race"} => result'[p] = None
      /\ pc'[p] = "write" => result'[p] # None
      /\ pc'[p] # "done" => served'[p] = None
  BY Zenon DEF ResultOf, Onward
<1>2. result'[p] # None => result'[p].id = p /\ result'[p].name = NameOf[p]
  BY Zenon DEF ResultOf
<1>3. served'[p] # None =>
        result'[p] # None /\ served'[p].at - served'[p].stored < Clamp(result'[p].ttl)
  BY Zenon DEF ResultOf
<1> QED
  BY <1>1, <1>2, <1>3, Zenon DEF ResultOf, Clamp

(* A step that only moves queries on keeps what is known of the replies. *)
LEMMA RepliesKept ==
  ASSUME ReplyInv, outcome' = outcome, cache' = cache, result' = result,
         served' = served, \A p \in Queries : Onward(p)
  PROVE  ReplyInv'
<1>1. \A p \in Queries : ResultOf(p)'
  <2> TAKE p \in Queries
  <2>1. ResultOf(p) /\ Onward(p)
    BY Zenon DEF ReplyInv
  <2> QED
    BY <2>1, ResultKept, Zenon
<1> QED
  BY <1>1, OutcomesKept, EntriesKept, Zenon DEF ReplyInv

(* What is known of the replies is kept. *)
LEMMA ReplyStep ==
  ASSUME Types, ReplyInv, RaceInv, [Next]_vars
  PROVE  ReplyInv'
<1> USE DEF queryVars, envVars
<1>1. ASSUME NEW q \in Queries, CacheHit(q)
      PROVE  ReplyInv'
  <2> DEFINE e == cache[NameOf[q]]
             r == [e.msg EXCEPT !.id = q]
  <2>1. e \in Entries /\ e # None /\ now < e.expiry
    BY <1>1, ConstantFacts, Zenon DEF Types, CacheHit, Cached
  <2>2. e.msg.name = NameOf[q] /\ e.expiry = e.stored + Clamp(e.msg.ttl)
    BY <2>1, ConstantFacts, Zenon DEF ReplyInv, EntryOf
  <2>3. r \in Replies /\ r.id = q /\ r.name = e.msg.name /\ r.ttl = e.msg.ttl
    BY <2>1, Readdressed, Zenon DEF Entries
  <2>4. now - e.stored < Clamp(r.ttl)
    <3>1. e.stored \in Nat /\ now \in Nat /\ Clamp(e.msg.ttl) \in Nat
      BY <2>1, ClampRange, Zenon DEF Entries, Replies, Types
    <3> QED
      BY <3>1, <2>1, <2>2, <2>3
  <2>5. result'[q] = r /\ r # None
    BY <1>1, <2>3, NotNone, Zenon DEF CacheHit, Types
  <2>6. served'[q].at = now /\ served'[q].stored = e.stored
    BY <1>1, Zenon DEF CacheHit, Types
  <2>7. pc'[q] = "done"
    BY <1>1, Zenon DEF CacheHit, Types
  <2>8. \A p \in Queries \ {q} : result'[p] = result[p] /\ served'[p] = served[p] /\ pc'[p] = pc[p]
    BY <1>1, Zenon DEF CacheHit, Types
  <2>9. cache' = cache /\ outcome' = outcome
    BY <1>1, Zenon DEF CacheHit
  <2> HIDE DEF e, r
  <2>10. ResultOf(q)'
    BY <2>2, <2>3, <2>4, <2>5, <2>6, <2>7, Zenon DEF ResultOf, Clamp
  <2>11. ASSUME NEW p \in Queries \ {q}
         PROVE  ResultOf(p)'
    <3>1. ResultOf(p) /\ Onward(p)
      BY <2>8, Zenon DEF ReplyInv, Onward
    <3> QED
      BY <3>1, <2>8, ResultKept, Zenon
  <2>12. \A p \in Queries : ResultOf(p)'
    BY <2>10, <2>11, Zenon
  <2> QED
    BY <2>9, <2>12, OutcomesKept, EntriesKept, Zenon DEF ReplyInv
<1>2. ASSUME NEW q \in Queries,
             CacheMiss(q) \/ StartRace(q) \/ ReceiveDone(q) \/ GiveUp(q)
               \/ (\E u \in Upstreams : ReceiveError(q, u) \/ Send(q, u))
      PROVE  ReplyInv'
  <2>1. outcome' = outcome /\ cache' = cache /\ result' = result /\ served' = served
    BY <1>2, Zenon DEF CacheMiss, StartRace, ReceiveDone, GiveUp, ReceiveError, Send
  <2>2. \A p \in Queries \ {q} : pc'[p] = pc[p]
    BY <1>2, Zenon DEF CacheMiss, StartRace, ReceiveDone, GiveUp, ReceiveError, Send,
       Types
  <2>3. \/ pc'[q] = pc[q]
        \/ pc[q] \in {"start", "route", "race"} /\ pc'[q] \in {"route", "race", "done"}
    BY <1>2, Zenon DEF CacheMiss, StartRace, ReceiveDone, GiveUp, ReceiveError, Send,
       Types
  <2>4. \A p \in Queries : Onward(p)
    BY <2>2, <2>3, Zenon DEF Onward
  <2> QED
    BY <2>1, <2>4, RepliesKept, Zenon
<1>4. ASSUME NEW q \in Queries, WriteCache(q)
      PROVE  ReplyInv'
  <2> DEFINE e == [msg |-> result[q], stored |-> now, expiry |-> now + Clamp(result[q].ttl)]
  <2>1. result[q] # None /\ result[q].name = NameOf[q]
    BY <1>4, Zenon DEF ReplyInv, ResultOf, WriteCache
  <2>2. cache' = [cache EXCEPT ![NameOf[q]] = e]
    BY <1>4, Zenon DEF WriteCache
  <2>3. e.msg.name = NameOf[q] /\ e.expiry = e.stored + Clamp(e.msg.ttl)
    BY <2>1, Zenon
  <2> HIDE DEF e
  <2>4. ASSUME NEW n \in Names
        PROVE  EntryOf(n)'
    <3>1. cache'[n] = IF n = NameOf[q] THEN e ELSE cache[n]
      BY <2>2, ConstantFacts, Zenon DEF Types
    <3>2. EntryOf(n)
      BY Zenon DEF ReplyInv
    <3> QED
      BY <2>3, <3>1, <3>2 DEF EntryOf, Clamp
  <2>5. result' = result /\ served' = served /\ outcome' = outcome
    BY <1>4, Zenon DEF WriteCache
  <2>6. pc[q] = "write" /\ pc'[q] = "done" /\ \A p \in Queries \ {q} : pc'[p] = pc[p]
    BY <1>4, Zenon DEF WriteCache, Types
  <2>7. ASSUME NEW p \in Queries
        PROVE  ResultOf(p)'
    <3>1. ResultOf(p) /\ Onward(p)
      BY <2>6, Zenon DEF ReplyInv, Onward
    <3> QED
      BY <3>1, <2>5, ResultKept, Zenon
  <2> QED
    BY <2>4, <2>5, <2>7, OutcomesKept, Zenon DEF ReplyInv
<1>7. ASSUME NEW q \in Queries, NEW u \in Upstreams, ReceiveReply(q, u)
      PROVE  ReplyInv'
  <2>1. outcome[q][u] # None /\ outcome[q][u].id = q /\ outcome[q][u].name = NameOf[q]
    <3>1. u \in resCh[q]
      BY <1>7, Zenon DEF ReceiveReply
    <3>2. RaceOf(q)
      BY Zenon DEF RaceInv
    <3>3. outcome[q][u] # None
      BY <3>1, <3>2, Zenon DEF RaceOf
    <3> QED BY <3>3, Zenon DEF ReplyInv, OutcomeOf
  <2>2. result'[q] = outcome[q][u] /\ pc[q] = "race" /\ pc'[q] = "write"
    BY <1>7, Zenon DEF ReceiveReply, Types
  <2>3. \A p \in Queries \ {q} : result'[p] = result[p] /\ pc'[p] = pc[p]
    BY <1>7, Zenon DEF ReceiveReply, Types
  <2>4. cache' = cache /\ outcome' = outcome /\ served' = served
    BY <1>7, Zenon DEF ReceiveReply
  <2>5. served[q] = None
    BY <2>2, Zenon DEF ReplyInv, ResultOf
  <2>6. ResultOf(q)'
    BY <2>1, <2>2, <2>4, <2>5, Zenon DEF ResultOf
  <2>7. ASSUME NEW p \in Queries \ {q}
        PROVE  ResultOf(p)'
    <3>1. ResultOf(p) /\ Onward(p)
      BY <2>3, Zenon DEF ReplyInv, Onward
    <3> QED
      BY <3>1, <2>3, <2>4, ResultKept, Zenon
  <2>8. \A p \in Queries : ResultOf(p)'
    BY <2>6, <2>7, Zenon
  <2> QED
    BY <2>4, <2>8, OutcomesKept, EntriesKept, Zenon DEF ReplyInv
<1>10. ASSUME NEW q \in Queries, NEW u \in Upstreams, NEW out, Exchange(q, u, out),
              out # None => out.id = q /\ out.name = NameOf[q] /\ out.by = u
       PROVE  ReplyInv'
  <2>1. \A p \in Queries, w \in Upstreams :
          outcome'[p][w] = IF p = q /\ w = u THEN out ELSE outcome[p][w]
    BY <1>10, Zenon DEF Types, Exchange
  <2>2. pc' = pc /\ result' = result /\ served' = served /\ cache' = cache
    BY <1>10, Zenon DEF Exchange
  <2>3. ASSUME NEW p \in Queries, NEW w \in Upstreams
        PROVE  OutcomeOf(p, w)'
    <3>1. OutcomeOf(p, w)
      BY Zenon DEF ReplyInv
    <3> QED
      BY <3>1, <2>1, <1>10, Zenon DEF OutcomeOf
  <2>4. ASSUME NEW p \in Queries
        PROVE  ResultOf(p)'
    <3>1. ResultOf(p) /\ Onward(p)
      BY <2>2, Zenon DEF ReplyInv, Onward
    <3> QED
      BY <3>1, <2>2, ResultKept, Zenon
  <2> QED
    BY <2>2, <2>3, <2>4, EntriesKept, Zenon DEF ReplyInv
<1>11. ASSUME NEW q \in Queries, NEW u \in Upstreams, ExchangeOK(q, u)
       PROVE  ReplyInv'
  <2>1. PICK ttl \in TTLs \cup {NoAnswer} :
          Exchange(q, u, [id |-> q, name |-> NameOf[q], by |-> u, ttl |-> ttl])
    BY <1>11, Zenon DEF ExchangeOK
  <2> QED
    BY <2>1, <1>10, Zenon
<1>12. ASSUME NEW q \in Queries, NEW u \in Upstreams, ExchangeFails(q, u)
       PROVE  ReplyInv'
  BY <1>12, <1>10, Zenon DEF ExchangeFails
<1>13. CASE Flush
  <2>1. outcome' = outcome /\ result' = result /\ served' = served /\ pc' = pc
    BY <1>13, Zenon DEF Flush
  <2>2. \A n \in Names : EntryOf(n)'
    BY <1>13, Zenon DEF Flush, EntryOf
  <2>3. ASSUME NEW p \in Queries
        PROVE  ResultOf(p)'
    <3>1. ResultOf(p) /\ Onward(p)
      BY <2>1, Zenon DEF ReplyInv, Onward
    <3> QED
      BY <3>1, <2>1, ResultKept, Zenon
  <2> QED
    BY <2>1, <2>2, <2>3, OutcomesKept, Zenon DEF ReplyInv
<1>14. ASSUME \/ Tick
              \/ \E n \in Names, out \in Outbounds \cup {NoRoute} : Reroute(n, out)
              \/ UNCHANGED vars
       PROVE  ReplyInv'
  <2>1. /\ outcome' = outcome /\ result' = result /\ served' = served
        /\ cache' = cache /\ pc' = pc
    BY <1>14, Zenon DEF Tick, Reroute, vars
  <2>2. \A p \in Queries : Onward(p)
    BY <2>1, Zenon DEF Onward
  <2> QED
    BY <2>1, <2>2, RepliesKept, Zenon
<1> QED
  BY NextCases, <1>1, <1>2, <1>4, <1>7, <1>11, <1>12, <1>13, <1>14, Zenon

(* A query that a step does not touch keeps its race. *)
LEMMA RaceUntouched ==
  ASSUME NEW p \in Queries, RaceOf(p),
         pc'[p] = pc[p], ups'[p] = ups[p], exchange'[p] = exchange[p],
         outcome'[p] = outcome[p], resCh'[p] = resCh[p], errCh'[p] = errCh[p],
         errors'[p] = errors[p], result'[p] = result[p],
         p \in cancelled => p \in cancelled'
  PROVE  RaceOf(p)'
<1>1. Received(p)' = Received(p)
  BY Zenon DEF Received
<1> QED
  BY <1>1 DEF RaceOf

(* What is known of the races is kept. *)
LEMMA RaceStep ==
  ASSUME Types, ReplyInv, RaceInv, [Next]_vars
  PROVE  RaceInv'
<1> USE DEF queryVars, envVars
<1>1. ASSUME NEW q \in Queries, CacheHit(q)
      PROVE  RaceInv'
  <2>1. \A p \in Queries \ {q} : RaceOf(p)'
    <3> TAKE p \in Queries \ {q}
    <3>1. /\ pc'[p] = pc[p] /\ ups'[p] = ups[p] /\ exchange'[p] = exchange[p]
          /\ outcome'[p] = outcome[p] /\ resCh'[p] = resCh[p] /\ errCh'[p] = errCh[p]
          /\ errors'[p] = errors[p] /\ result'[p] = result[p]
          /\ cancelled \subseteq cancelled'
      BY <1>1, Zenon DEF Types, CacheHit
    <3> QED
      BY <3>1, RaceUntouched, Zenon DEF RaceInv
  <2>2. RaceOf(q)'
    <3>1. Received(q)' = Received(q)
      BY <1>1, Zenon DEF CacheHit, Received
    <3>2. result'[q] # None /\ pc'[q] = "done"
      <4>1. cache[NameOf[q]] \in Entries
        BY <1>1, ConstantFacts, Zenon DEF Types, CacheHit, Cached
      <4>2. [cache[NameOf[q]].msg EXCEPT !.id = q] \in Replies
        BY <4>1, Readdressed, Zenon DEF Entries
      <4> QED
        BY <1>1, <4>2, NotNone, Zenon DEF Types, CacheHit
    <3>3. /\ ups' = ups /\ exchange' = exchange /\ outcome' = outcome /\ resCh' = resCh
          /\ errCh' = errCh /\ errors' = errors
      BY <1>1, Zenon DEF CacheHit
    <3> QED
      BY <3>1, <3>2, <3>3, Zenon DEF RaceInv, RaceOf
  <2> QED
    BY <2>1, <2>2, Zenon DEF RaceInv
<1>2. ASSUME NEW q \in Queries, CacheMiss(q)
      PROVE  RaceInv'
  <2>1. \A p \in Queries \ {q} : RaceOf(p)'
    <3> TAKE p \in Queries \ {q}
    <3>1. /\ pc'[p] = pc[p] /\ ups'[p] = ups[p] /\ exchange'[p] = exchange[p]
          /\ outcome'[p] = outcome[p] /\ resCh'[p] = resCh[p] /\ errCh'[p] = errCh[p]
          /\ errors'[p] = errors[p] /\ result'[p] = result[p]
          /\ cancelled \subseteq cancelled'
      BY <1>2, Zenon DEF Types, CacheMiss
    <3> QED
      BY <3>1, RaceUntouched, Zenon DEF RaceInv
  <2>2. RaceOf(q)'
    <3>1. Received(q)' = Received(q)
      BY <1>2, Zenon DEF CacheMiss, Received
    <3> QED
      BY <1>2, <3>1, Zenon DEF CacheMiss, RaceInv, RaceOf, Types
  <2> QED
    BY <2>1, <2>2, Zenon DEF RaceInv
<1>3. ASSUME NEW q \in Queries, StartRace(q)
      PROVE  RaceInv'
  <2>1. \A p \in Queries \ {q} : RaceOf(p)'
    <3> TAKE p \in Queries \ {q}
    <3>1. /\ pc'[p] = pc[p] /\ ups'[p] = ups[p] /\ exchange'[p] = exchange[p]
          /\ outcome'[p] = outcome[p] /\ resCh'[p] = resCh[p] /\ errCh'[p] = errCh[p]
          /\ errors'[p] = errors[p] /\ result'[p] = result[p]
          /\ cancelled \subseteq cancelled'
      BY <1>3, Zenon DEF Types, StartRace
    <3> QED
      BY <3>1, RaceUntouched, Zenon DEF RaceInv
  <2>2. RaceOf(q)'
    <3> DEFINE C == Chosen(NameOf[q])
    <3>1. IsFiniteSet(C) /\ C \subseteq Upstreams /\ C # {}
      BY ConstantFacts, ChosenFacts, FS_Subset, Zenon
    <3>2. /\ pc[q] = "route" /\ pc'[q] = "race" /\ ups'[q] = C
          /\ exchange'[q] = [u \in Upstreams |-> IF u \in C THEN "pending" ELSE "none"]
          /\ outcome' = outcome /\ resCh' = resCh /\ errCh' = errCh /\ errors' = errors
          /\ result' = result
      BY <1>3, Zenon DEF StartRace, Types
    <3> HIDE DEF C
    <3>3. ups[q] = {} /\ errors[q] = Cardinality(Received(q))
      BY <3>2, Zenon DEF RaceInv, RaceOf
    <3>4. Received(q) = {} /\ Received(q)' = {}
      BY <3>1, <3>2, <3>3, Zenon DEF Received
    <3>5. errors[q] = 0 /\ 0 < Cardinality(C)
      <4>1. Cardinality(C) \in Nat /\ Cardinality(C) # 0
        BY <3>1, FS_CardinalityType, FS_EmptySet, Zenon
      <4> QED
        BY <4>1, <3>3, <3>4, FS_EmptySet
    <3>6. \A u \in Upstreams : u \notin resCh[q] /\ u \notin errCh[q]
      BY <3>2, <3>3, Zenon DEF RaceInv, RaceOf
    <3> QED
      BY <3>1, <3>2, <3>3, <3>4, <3>5, <3>6, Zenon DEF RaceOf
  <2> QED
    BY <2>1, <2>2, Zenon DEF RaceInv
<1>4. ASSUME NEW q \in Queries, WriteCache(q)
      PROVE  RaceInv'
  <2>1. \A p \in Queries \ {q} : RaceOf(p)'
    <3> TAKE p \in Queries \ {q}
    <3>1. /\ pc'[p] = pc[p] /\ ups'[p] = ups[p] /\ exchange'[p] = exchange[p]
          /\ outcome'[p] = outcome[p] /\ resCh'[p] = resCh[p] /\ errCh'[p] = errCh[p]
          /\ errors'[p] = errors[p] /\ result'[p] = result[p]
          /\ cancelled \subseteq cancelled'
      BY <1>4, Zenon DEF Types, WriteCache
    <3> QED
      BY <3>1, RaceUntouched, Zenon DEF RaceInv
  <2>2. RaceOf(q)'
    <3>1. Received(q)' = Received(q)
      BY <1>4, Zenon DEF WriteCache, Received
    <3>2. result'[q] # None /\ pc'[q] = "done"
      BY <1>4 DEF WriteCache, ReplyInv, OutcomeOf, ResultOf, EntryOf, Types
    <3>3. /\ ups' = ups /\ exchange' = exchange /\ outcome' = outcome /\ resCh' = resCh
          /\ errCh' = errCh /\ errors' = errors
      BY <1>4, Zenon DEF WriteCache
    <3> QED
      BY <3>1, <3>2, <3>3, Zenon DEF RaceInv, RaceOf
  <2> QED
    BY <2>1, <2>2, Zenon DEF RaceInv
<1>5. ASSUME NEW q \in Queries, ReceiveDone(q)
      PROVE  RaceInv'
  <2>1. \A p \in Queries \ {q} : RaceOf(p)'
    <3> TAKE p \in Queries \ {q}
    <3>1. /\ pc'[p] = pc[p] /\ ups'[p] = ups[p] /\ exchange'[p] = exchange[p]
          /\ outcome'[p] = outcome[p] /\ resCh'[p] = resCh[p] /\ errCh'[p] = errCh[p]
          /\ errors'[p] = errors[p] /\ result'[p] = result[p]
          /\ cancelled \subseteq cancelled'
      BY <1>5, Zenon DEF Types, ReceiveDone
    <3> QED
      BY <3>1, RaceUntouched, Zenon DEF RaceInv
  <2>2. RaceOf(q)'
    <3>1. Received(q)' = Received(q)
      BY <1>5, Zenon DEF ReceiveDone, Received
    <3> QED
      BY <1>5, <3>1, Zenon DEF ReceiveDone, RaceInv, RaceOf, Types
  <2> QED
    BY <2>1, <2>2, Zenon DEF RaceInv
<1>6. ASSUME NEW q \in Queries, GiveUp(q)
      PROVE  RaceInv'
  <2>1. \A p \in Queries \ {q} : RaceOf(p)'
    <3> TAKE p \in Queries \ {q}
    <3>1. /\ pc'[p] = pc[p] /\ ups'[p] = ups[p] /\ exchange'[p] = exchange[p]
          /\ outcome'[p] = outcome[p] /\ resCh'[p] = resCh[p] /\ errCh'[p] = errCh[p]
          /\ errors'[p] = errors[p] /\ result'[p] = result[p]
          /\ cancelled \subseteq cancelled'
      BY <1>6, Zenon DEF Types, GiveUp
    <3> QED
      BY <3>1, RaceUntouched, Zenon DEF RaceInv
  <2>2. RaceOf(q)'
    <3>1. Received(q)' = Received(q)
      BY <1>6, Zenon DEF GiveUp, Received
    <3> QED
      BY <1>6, <3>1, Zenon DEF GiveUp, RaceInv, RaceOf, Types
  <2> QED
    BY <2>1, <2>2, Zenon DEF RaceInv
<1>7. ASSUME NEW q \in Queries, NEW u \in Upstreams, ReceiveReply(q, u)
      PROVE  RaceInv'
  <2>1. \A p \in Queries \ {q} : RaceOf(p)'
    <3> TAKE p \in Queries \ {q}
    <3>1. /\ pc'[p] = pc[p] /\ ups'[p] = ups[p] /\ exchange'[p] = exchange[p]
          /\ outcome'[p] = outcome[p] /\ resCh'[p] = resCh[p] /\ errCh'[p] = errCh[p]
          /\ errors'[p] = errors[p] /\ result'[p] = result[p]
          /\ cancelled \subseteq cancelled'
      BY <1>7, Zenon DEF Types, ReceiveReply
    <3> QED
      BY <3>1, RaceUntouched, Zenon DEF RaceInv
  <2>2. RaceOf(q)'
    <3>1. Received(q)' = Received(q)
      BY <1>7, Zenon DEF ReceiveReply, Received
    <3>2. pc'[q] = "write" /\ resCh'[q] \subseteq resCh[q]
      BY <1>7, Zenon DEF ReceiveReply, Types
    <3>3. /\ ups' = ups /\ exchange' = exchange /\ outcome' = outcome
          /\ errCh' = errCh /\ errors' = errors
      BY <1>7, Zenon DEF ReceiveReply
    <3> QED
      BY <3>1, <3>2, <3>3, Zenon DEF RaceInv, RaceOf
  <2> QED
    BY <2>1, <2>2, Zenon DEF RaceInv
<1>8. ASSUME NEW q \in Queries, NEW u \in Upstreams, ReceiveError(q, u)
      PROVE  RaceInv'
  <2>1. \A p \in Queries \ {q} : RaceOf(p)'
    <3> TAKE p \in Queries \ {q}
    <3>1. /\ pc'[p] = pc[p] /\ ups'[p] = ups[p] /\ exchange'[p] = exchange[p]
          /\ outcome'[p] = outcome[p] /\ resCh'[p] = resCh[p] /\ errCh'[p] = errCh[p]
          /\ errors'[p] = errors[p] /\ result'[p] = result[p]
          /\ cancelled \subseteq cancelled'
      BY <1>8, Zenon DEF Types, ReceiveError
    <3> QED
      BY <3>1, RaceUntouched, Zenon DEF RaceInv
  <2>2. RaceOf(q)'
    <3>1. /\ pc[q] = "race" /\ u \in errCh[q] /\ errCh'[q] = errCh[q] \ {u}
          /\ errors'[q] = errors[q] + 1
          /\ pc'[q] = IF errors'[q] = Cardinality(ups[q]) THEN "done" ELSE "race"
      BY <1>8, Zenon DEF ReceiveError, Types
    <3>2. /\ ups' = ups /\ exchange' = exchange /\ outcome' = outcome
          /\ resCh' = resCh /\ result' = result
      BY <1>8, Zenon DEF ReceiveError
    <3>3. u \in ups[q] /\ exchange[q][u] = "sent" /\ outcome[q][u] = None
      BY <3>1, Zenon DEF RaceInv, RaceOf
    <3>4. Received(q)' = Received(q) \cup {u} /\ u \notin Received(q)
      BY <3>1, <3>2, <3>3, Zenon DEF Received
    <3>5. IsFiniteSet(ups[q]) /\ Received(q) \subseteq ups[q] /\ Received(q)' \subseteq ups[q]
      <4>1. IsFiniteSet(Upstreams)
        BY ConstantFacts, ChosenFacts, Zenon
      <4>2. ups[q] \subseteq Upstreams
        BY Zenon DEF Types
      <4> QED
        BY <4>1, <4>2, <3>2, FS_Subset, Zenon DEF Received
    <3>6. IsFiniteSet(Received(q))
      BY <3>5, FS_Subset, Zenon
    <3>7. errors'[q] = Cardinality(Received(q)')
      <4>1. Cardinality(Received(q) \cup {u}) = Cardinality(Received(q)) + 1
        BY <3>4, <3>6, FS_AddElement, Zenon
      <4>2. errors[q] = Cardinality(Received(q))
        BY Zenon DEF RaceInv, RaceOf
      <4> QED
        BY <4>1, <4>2, <3>1, <3>4, Zenon
    <3>8. errors'[q] <= Cardinality(ups[q]) /\ Cardinality(ups[q]) \in Nat
      BY <3>5, <3>7, FS_Subset, FS_CardinalityType, Zenon
    <3>9. errors[q] \in Nat
      BY Zenon DEF Types
    <3>10. pc'[q] = "race" => errors'[q] < Cardinality(ups[q])
      <4>1. pc'[q] = "race" => errors'[q] # Cardinality(ups[q])
        BY <3>1, Zenon
      <4>2. errors'[q] \in Nat
        BY <3>1, <3>9
      <4> QED
        BY <3>8, <4>1, <4>2
    <3>11. pc'[q] = "done" => errors'[q] = Cardinality(ups[q])
      BY <3>1, Zenon
    <3>12. pc'[q] \in {"race", "done"}
      BY <3>1, Zenon
    <3> HIDE DEF Received
    <3> QED
      BY <3>1, <3>2, <3>7, <3>10, <3>11, <3>12, Zenon DEF RaceInv, RaceOf
  <2> QED
    BY <2>1, <2>2, Zenon DEF RaceInv
<1>9. ASSUME NEW q \in Queries, NEW u \in Upstreams, Send(q, u)
      PROVE  RaceInv'
  <2>1. \A p \in Queries \ {q} : RaceOf(p)'
    <3> TAKE p \in Queries \ {q}
    <3>1. /\ pc'[p] = pc[p] /\ ups'[p] = ups[p] /\ exchange'[p] = exchange[p]
          /\ outcome'[p] = outcome[p] /\ resCh'[p] = resCh[p] /\ errCh'[p] = errCh[p]
          /\ errors'[p] = errors[p] /\ result'[p] = result[p]
          /\ cancelled \subseteq cancelled'
      BY <1>9, Zenon DEF Types, Send
    <3> QED
      BY <3>1, RaceUntouched, Zenon DEF RaceInv
  <2>2. RaceOf(q)'
    <3>1. /\ exchange[q][u] = "sending" /\ exchange'[q][u] = "sent"
          /\ \A w \in Upstreams \ {u} : exchange'[q][w] = exchange[q][w]
      BY <1>9, Zenon DEF Send, Types
    <3>2. /\ ups' = ups /\ outcome' = outcome /\ errors' = errors /\ result' = result
          /\ pc' = pc /\ cancelled' = cancelled
      BY <1>9, Zenon DEF Send
    <3>3. /\ outcome[q][u] # None => resCh'[q] = resCh[q] \cup {u} /\ errCh'[q] = errCh[q]
          /\ outcome[q][u] = None => errCh'[q] = errCh[q] \cup {u} /\ resCh'[q] = resCh[q]
      BY <1>9, Zenon DEF Send, Types
    <3>4. Received(q)' = Received(q)
      <4>1. ups[q] \subseteq Upstreams
        BY Zenon DEF Types
      <4> QED
        BY <4>1, <3>1, <3>2, <3>3, Zenon DEF Received
    <3>5. RaceOf(q)
      BY Zenon DEF RaceInv
    <3>6. ASSUME NEW w \in Upstreams
          PROVE  /\ exchange'[q][w] # "none" <=> w \in ups[q]
                 /\ w \in resCh'[q] => exchange'[q][w] = "sent" /\ outcome'[q][w] # None
                 /\ w \in errCh'[q] => exchange'[q][w] = "sent" /\ outcome'[q][w] = None
                 /\ (pc[q] = "race" /\ exchange'[q][w] = "sent" /\ outcome'[q][w] # None)
                      => w \in resCh'[q]
      <4>1. /\ exchange[q][w] # "none" <=> w \in ups[q]
            /\ w \in resCh[q] => exchange[q][w] = "sent" /\ outcome[q][w] # None
            /\ w \in errCh[q] => exchange[q][w] = "sent" /\ outcome[q][w] = None
            /\ (pc[q] = "race" /\ exchange[q][w] = "sent" /\ outcome[q][w] # None)
                 => w \in resCh[q]
        BY <3>5, Zenon DEF RaceOf
      <4>2. CASE w = u
        BY <4>1, <4>2, <3>1, <3>2, <3>3, Zenon
      <4>3. CASE w # u
        BY <4>1, <4>3, <3>1, <3>2, <3>3, Zenon
      <4> QED
        BY <4>2, <4>3, Zenon
    <3> QED
      BY <3>2, <3>4, <3>5, <3>6, Zenon DEF RaceOf
  <2> QED
    BY <2>1, <2>2, Zenon DEF RaceInv
<1>10. ASSUME NEW q \in Queries, NEW u \in Upstreams, NEW out, Exchange(q, u, out)
      PROVE  RaceInv'
  <2>1. \A p \in Queries \ {q} : RaceOf(p)'
    <3> TAKE p \in Queries \ {q}
    <3>1. /\ pc'[p] = pc[p] /\ ups'[p] = ups[p] /\ exchange'[p] = exchange[p]
          /\ outcome'[p] = outcome[p] /\ resCh'[p] = resCh[p] /\ errCh'[p] = errCh[p]
          /\ errors'[p] = errors[p] /\ result'[p] = result[p]
          /\ cancelled \subseteq cancelled'
      BY <1>10, Zenon DEF Types, Exchange
    <3> QED
      BY <3>1, RaceUntouched, Zenon DEF RaceInv
  <2>2. RaceOf(q)'
    <3>1. /\ exchange[q][u] = "pending" /\ exchange'[q][u] = "sending"
          /\ \A w \in Upstreams \ {u} : /\ exchange'[q][w] = exchange[q][w]
                                        /\ outcome'[q][w] = outcome[q][w]
      BY <1>10, Zenon DEF Exchange, Types
    <3>2. /\ ups' = ups /\ errors' = errors /\ result' = result /\ pc' = pc
          /\ resCh' = resCh /\ errCh' = errCh /\ cancelled' = cancelled
      BY <1>10, Zenon DEF Exchange
    <3>3. Received(q)' = Received(q)
      <4>1. ups[q] \subseteq Upstreams
        BY Zenon DEF Types
      <4> QED
        BY <4>1, <3>1, <3>2, Zenon DEF Received
    <3>4. RaceOf(q)
      BY Zenon DEF RaceInv
    <3>5. ASSUME NEW w \in Upstreams
          PROVE  /\ exchange'[q][w] # "none" <=> w \in ups[q]
                 /\ w \in resCh'[q] => exchange'[q][w] = "sent" /\ outcome'[q][w] # None
                 /\ w \in errCh'[q] => exchange'[q][w] = "sent" /\ outcome'[q][w] = None
                 /\ (pc[q] = "race" /\ exchange'[q][w] = "sent" /\ outcome'[q][w] # None)
                      => w \in resCh'[q]
      <4>1. /\ exchange[q][w] # "none" <=> w \in ups[q]
            /\ w \in resCh[q] => exchange[q][w] = "sent" /\ outcome[q][w] # None
            /\ w \in errCh[q] => exchange[q][w] = "sent" /\ outcome[q][w] = None
            /\ (pc[q] = "race" /\ exchange[q][w] = "sent" /\ outcome[q][w] # None)
                 => w \in resCh[q]
        BY <3>4, Zenon DEF RaceOf
      <4>2. CASE w = u
        BY <4>1, <4>2, <3>1, <3>2, Zenon
      <4>3. CASE w # u
        BY <4>1, <4>3, <3>1, <3>2, Zenon
      <4> QED
        BY <4>2, <4>3, Zenon
    <3> QED
      BY <3>2, <3>3, <3>4, <3>5, Zenon DEF RaceOf
  <2> QED
    BY <2>1, <2>2, Zenon DEF RaceInv
<1>11. ASSUME NEW q \in Queries, NEW u \in Upstreams, ExchangeOK(q, u)
       PROVE  RaceInv'
  BY <1>10, <1>11, Zenon DEF ExchangeOK
<1>12. ASSUME NEW q \in Queries, NEW u \in Upstreams, ExchangeFails(q, u)
       PROVE  RaceInv'
  BY <1>12, <1>10, Zenon DEF ExchangeFails
<1>13. ASSUME UNCHANGED <<queryVars, cancelled>>
       PROVE  RaceInv'
  BY <1>13, RaceUntouched, Zenon DEF RaceInv
<1>14. Flush \/ Tick \/ UNCHANGED vars => UNCHANGED <<queryVars, cancelled>>
  BY Zenon DEF Flush, Tick, vars
<1>15. ASSUME NEW n \in Names, NEW out \in Outbounds \cup {NoRoute}, Reroute(n, out)
       PROVE  UNCHANGED <<queryVars, cancelled>>
  BY <1>15, Zenon DEF Reroute
<1> QED
  BY NextCases, <1>1, <1>2, <1>3, <1>4, <1>5, <1>6, <1>7, <1>8, <1>9, <1>11, <1>12,
     <1>13, <1>14, <1>15, Zenon

-----------------------------------------------------------------------------
(* The inductive invariant. *)
IInv == Types /\ ReplyInv /\ RaceInv

(* Every reachable state satisfies it. *)
THEOREM Invariance == Spec => []IInv
<1>1. Init => IInv
  BY InitInv, Zenon DEF IInv
<1>2. IInv /\ [Next]_vars => IInv'
  BY TypesStep, ReplyStep, RaceStep, Zenon DEF IInv
<1> QED
  BY <1>1, <1>2, PTL DEF Spec

(* Query answers the question it was asked: the reply carries its id and    *)
(* its name, also when it was cached for another query.                     *)
THEOREM RepliesMatchQuestionsHolds == Spec => []RepliesMatchQuestions
<1>1. IInv => RepliesMatchQuestions
  BY Zenon DEF IInv, ReplyInv, OutcomeOf, ResultOf, EntryOf, RepliesMatchQuestions
<1> QED
  BY <1>1, Invariance, PTL

(* A cached reply is not served beyond its (clamped) TTL, whichever of any  *)
(* number of concurrent queries stored it last.                             *)
THEOREM ServedWithinTTLHolds == Spec => []ServedWithinTTL
<1>1. ASSUME IInv, NEW q \in Queries, served[q] # None
      PROVE  /\ served[q].at - served[q].stored < Clamp(result[q].ttl)
             /\ served[q].at - served[q].stored < MaxTTL
  <2>1. result[q] \in Replies /\ served[q].at - served[q].stored < Clamp(result[q].ttl)
    <3>1. ResultOf(q)
      BY <1>1, Zenon DEF IInv, ReplyInv
    <3>2. result[q] \in Replies \cup {None}
      BY <1>1, Zenon DEF IInv, Types
    <3> QED
      BY <1>1, <3>1, <3>2, Zenon DEF ResultOf
  <2>2. Clamp(result[q].ttl) \in Nat /\ Clamp(result[q].ttl) <= MaxTTL
    BY <2>1, ClampRange, Zenon DEF Replies
  <2>3. served[q].at \in Nat /\ served[q].stored \in Nat
    BY <1>1, Zenon DEF IInv, Types, Hits
  <2>4. served[q].at - served[q].stored \in Int
    BY <2>3
  <2>5. MaxTTL \in Nat
    BY ConstantFacts, Zenon
  <2> QED
    BY <2>1, <2>2, <2>4, <2>5
<1>2. IInv => ServedWithinTTL
  BY <1>1, Zenon DEF ServedWithinTTL
<1> QED
  BY <1>2, Invariance, PTL

(* When the error count has reached the number of upstreams, all have failed. *)
LEMMA AllReceived ==
  ASSUME IInv, NEW q \in Queries
  PROVE  /\ IsFiniteSet(ups[q]) /\ Cardinality(ups[q]) \in Nat
         /\ errors[q] = Cardinality(ups[q]) =>
              \A u \in ups[q] : exchange[q][u] = "sent" /\ outcome[q][u] = None
         /\ Received(q) = ups[q] => errors[q] = Cardinality(ups[q])
<1>1. IsFiniteSet(ups[q])
  <2>1. IsFiniteSet(Upstreams)
    BY ConstantFacts, ChosenFacts, Zenon
  <2>2. ups[q] \subseteq Upstreams
    BY Zenon DEF IInv, Types
  <2> QED
    BY <2>1, <2>2, FS_Subset, Zenon
<1>2. errors[q] = Cardinality(Received(q))
  BY Zenon DEF IInv, RaceInv, RaceOf
<1>3. Received(q) \subseteq ups[q]
  BY Zenon DEF Received
<1>4. Cardinality(Received(q)) = Cardinality(ups[q]) => Received(q) = ups[q]
  BY <1>1, <1>3, FS_Subset, Zenon
<1>5. Received(q) = ups[q] =>
        \A u \in ups[q] : exchange[q][u] = "sent" /\ outcome[q][u] = None
  BY Zenon DEF Received
<1> QED
  BY <1>1, <1>2, <1>4, <1>5, FS_CardinalityType, Zenon

(* Query fails only when all its upstreams have, or its caller gave up. *)
THEOREM FailsOnlyIfAllFailHolds == Spec => []FailsOnlyIfAllFail
<1>1. ASSUME IInv, NEW q \in Queries, pc[q] = "done", result[q] = None
      PROVE  q \in cancelled \/ \A u \in ups[q] : exchange[q][u] = "sent" /\ outcome[q][u] = None
  <2>1. q \in cancelled \/ errors[q] = Cardinality(ups[q])
    BY <1>1, Zenon DEF IInv, RaceInv, RaceOf
  <2> QED
    BY <1>1, <2>1, AllReceived, Zenon
<1>2. IInv => FailsOnlyIfAllFail
  BY <1>1, Zenon DEF FailsOnlyIfAllFail
<1> QED
  BY <1>2, Invariance, PTL

(* A race always has an outcome to come or to receive, and its channels     *)
(* have room for every outcome, also those nobody reads.                    *)
THEOREM RaceNeverHangsHolds == Spec => []RaceNeverHangs
<1>1. ASSUME IInv, NEW q \in Queries, pc[q] = "race"
      PROVE  \E u \in ups[q] : exchange[q][u] \in {"pending", "sending"}
                               \/ u \in resCh[q] \cup errCh[q]
  <2> SUFFICES ASSUME \A u \in ups[q] : /\ exchange[q][u] \notin {"pending", "sending"}
                                        /\ u \notin resCh[q] \cup errCh[q]
               PROVE  FALSE
    BY Zenon
  <2>1. \A u \in ups[q] : u \in Upstreams /\ exchange[q][u] = "sent"
    BY <1>1 DEF IInv, Types, RaceInv, RaceOf
  <2>2. \A u \in ups[q] : outcome[q][u] = None
    BY <1>1, <2>1, Zenon DEF IInv, RaceInv, RaceOf
  <2>3. Received(q) = ups[q]
    BY <2>1, <2>2, Zenon DEF Received
  <2>4. errors[q] = Cardinality(ups[q]) /\ Cardinality(ups[q]) \in Nat
    BY <1>1, <2>3, AllReceived, Zenon
  <2>5. errors[q] < Cardinality(ups[q])
    BY <1>1, Zenon DEF IInv, RaceInv, RaceOf
  <2> QED
    BY <2>4, <2>5
<1>2. ASSUME IInv, NEW q \in Queries, NEW u \in ups[q], exchange[q][u] = "sending",
             NEW ch \in {resCh[q], errCh[q]}
      PROVE  Cardinality(ch) < ChanCap(q)
  <2>1. u \in Upstreams /\ ch \subseteq Upstreams
    BY <1>2, Zenon DEF IInv, Types
  <2>2. u \notin ch /\ ch \subseteq ups[q]
    BY <1>2, <2>1, Zenon DEF IInv, RaceInv, RaceOf
  <2>3. ch \cup {u} \subseteq ups[q] /\ IsFiniteSet(ups[q]) /\ Cardinality(ups[q]) \in Nat
    BY <1>2, <2>2, AllReceived, Zenon
  <2>4. IsFiniteSet(ch) /\ IsFiniteSet(ch \cup {u})
    BY <2>3, FS_Subset, Zenon
  <2>5. Cardinality(ch \cup {u}) = Cardinality(ch) + 1 /\ Cardinality(ch) \in Nat
    BY <2>2, <2>4, FS_AddElement, FS_CardinalityType, Zenon
  <2>6. Cardinality(ch \cup {u}) <= Cardinality(ups[q])
    BY <2>3, FS_Subset, Zenon
  <2> QED
    BY <2>3, <2>5, <2>6 DEF ChanCap
<1>3. IInv => RaceNeverHangs
  BY <1>1, <1>2, Zenon DEF RaceNeverHangs
<1> QED
  BY <1>3, Invariance, PTL

-----------------------------------------------------------------------------
(* The constants for which a choice by the outbound's name is a choice by   *)
(* what the outbound does: only "direct" connects without a tunnel, and     *)
(* both groups are configured.                                              *)
DirectByName ==
  /\ \A o \in Outbounds : IsDirect[o] <=> o = DirectName
  /\ Local # {} /\ Remote # {}

(* A query's upstreams are of the group its rule gave, and a reply that was *)
(* not cached comes from one of them.                                       *)
GroupOf(q) ==
  /\ routeSeen[q] # NoRoute =>
       ups[q] \subseteq (IF IsDirect[routeSeen[q]] THEN Local ELSE Remote)
  /\ (result[q] # None /\ served[q] = None) => result[q].by \in ups[q]

GroupInv == \A q \in Queries : GroupOf(q)

(* It is kept. *)
LEMMA GroupStep ==
  ASSUME DirectByName, IInv, GroupInv, [Next]_vars
  PROVE  GroupInv'
<1> USE DEF queryVars, envVars
<1>1. ASSUME NEW q \in Queries, CacheHit(q)
      PROVE  GroupInv'
  <2>1. ups[q] = {}
    BY <1>1, Zenon DEF CacheHit, IInv, RaceInv, RaceOf
  <2>2. served'[q] \in Hits
    <3>1. cache[NameOf[q]] \in Entries
      BY <1>1, ConstantFacts, Zenon DEF IInv, Types, CacheHit, Cached
    <3> QED
      BY <1>1, <3>1, Zenon DEF CacheHit, IInv, Types, Entries, Hits
  <2>3. GroupOf(q)'
    BY <1>1, <2>1, <2>2, NotNone, Zenon DEF CacheHit, GroupOf
  <2>4. \A p \in Queries \ {q} : GroupOf(p)'
    BY <1>1, Zenon DEF CacheHit, IInv, Types, GroupInv, GroupOf
  <2> QED
    BY <2>3, <2>4, Zenon DEF GroupInv
<1>2. ASSUME NEW q \in Queries, StartRace(q)
      PROVE  GroupInv'
  <2>1. route[NameOf[q]] # NoRoute =>
          Chosen(NameOf[q]) = IF IsDirect[route[NameOf[q]]] THEN Local ELSE Remote
    BY ConstantFacts, Zenon DEF DirectByName, Chosen, IInv, Types
  <2>2. /\ ups'[q] = Chosen(NameOf[q]) /\ routeSeen'[q] = route[NameOf[q]]
        /\ result'[q] = None
    <3>1. pc[q] = "route" /\ result' = result
      BY <1>2, Zenon DEF StartRace
    <3>2. ResultOf(q)
      BY Zenon DEF IInv, ReplyInv
    <3>3. result[q] = None
      BY <3>1, <3>2, Zenon DEF ResultOf
    <3>4. ups'[q] = Chosen(NameOf[q]) /\ routeSeen'[q] = route[NameOf[q]]
      BY <1>2, Zenon DEF StartRace, IInv, Types
    <3> QED
      BY <3>1, <3>3, <3>4, Zenon
  <2>3. GroupOf(q)'
    BY <2>1, <2>2, Zenon DEF GroupOf
  <2>4. \A p \in Queries \ {q} : GroupOf(p)'
    BY <1>2, Zenon DEF StartRace, IInv, Types, GroupInv, GroupOf
  <2> QED
    BY <2>3, <2>4, Zenon DEF GroupInv
<1>3. ASSUME NEW q \in Queries, NEW u \in Upstreams, ReceiveReply(q, u)
      PROVE  GroupInv'
  <2>1. outcome[q][u].by = u /\ u \in ups[q]
    <3>1. u \in resCh[q]
      BY <1>3, Zenon DEF ReceiveReply
    <3>2. RaceOf(q) /\ OutcomeOf(q, u)
      BY Zenon DEF IInv, ReplyInv, RaceInv
    <3>3. outcome[q][u] # None /\ u \in ups[q]
      BY <3>1, <3>2, Zenon DEF RaceOf
    <3> QED
      BY <3>2, <3>3, Zenon DEF OutcomeOf
  <2>2. /\ result'[q] = outcome[q][u]
        /\ ups' = ups /\ routeSeen' = routeSeen /\ served' = served
    BY <1>3, Zenon DEF ReceiveReply, IInv, Types
  <2>3. GroupOf(q)'
    BY <2>1, <2>2, Zenon DEF GroupInv, GroupOf
  <2>4. \A p \in Queries \ {q} : GroupOf(p)'
    BY <1>3, Zenon DEF ReceiveReply, IInv, Types, GroupInv, GroupOf
  <2> QED
    BY <2>3, <2>4, Zenon DEF GroupInv
<1>4. ASSUME UNCHANGED <<ups, result, served, routeSeen>>
      PROVE  GroupInv'
  BY <1>4, Zenon DEF GroupInv, GroupOf
<1>5. ASSUME NEW q \in Queries, CacheMiss(q) \/ WriteCache(q) \/ ReceiveDone(q) \/ GiveUp(q)
      PROVE  UNCHANGED <<ups, result, served, routeSeen>>
  BY <1>5, Zenon DEF CacheMiss, WriteCache, ReceiveDone, GiveUp
<1>6. ASSUME NEW q \in Queries, NEW u \in Upstreams,
             ReceiveError(q, u) \/ Send(q, u) \/ ExchangeOK(q, u) \/ ExchangeFails(q, u)
      PROVE  UNCHANGED <<ups, result, served, routeSeen>>
  BY <1>6, Zenon DEF ReceiveError, Send, ExchangeOK, ExchangeFails, Exchange
<1>7. Flush \/ Tick \/ UNCHANGED vars => UNCHANGED <<ups, result, served, routeSeen>>
  BY Zenon DEF Flush, Tick, vars
<1>8. ASSUME NEW n \in Names, NEW out \in Outbounds \cup {NoRoute}, Reroute(n, out)
      PROVE  UNCHANGED <<ups, result, served, routeSeen>>
  BY <1>8, Zenon DEF Reroute
<1> QED
  BY NextCases, <1>1, <1>2, <1>3, <1>4, <1>5, <1>6, <1>7, <1>8, Zenon

(* A fetched reply comes from the group of the rule in force when the       *)
(* upstreams were chosen, however the routing changes during the race, as   *)
(* long as the only outbound without a tunnel is the one named "direct".    *)
THEOREM GroupFollowsRuleHolds == DirectByName /\ Spec => []GroupFollowsRule
<1>1. Init => GroupInv
  BY Zenon DEF Init, GroupInv, GroupOf
<1>2. DirectByName /\ IInv /\ GroupInv /\ [Next]_vars => GroupInv'
  BY GroupStep, Zenon
<1>3. DirectByName /\ IInv /\ GroupInv => GroupFollowsRule
  BY Zenon DEF GroupInv, GroupOf, GroupFollowsRule
<1>4. DirectByName => DirectByName'
  BY Zenon DEF DirectByName
<1> QED
  BY <1>1, <1>2, <1>3, <1>4, Invariance, PTL DEF Spec

=============================================================================
