------------------------------ MODULE Resolver -------------------------------
(***************************************************************************)
(* SmartResolver.Query for questions that the fake address pool does not   *)
(* answer: the cache, the choice of the upstream group by the router, the  *)
(* race between the group's upstreams and the write of the cache, for any  *)
(* number of concurrent queries.                                           *)
(*                                                                         *)
(* A message is a record of what the code looks at: the id, the question,  *)
(* the TTL of the first answer and, for the properties, who answered.      *)
(***************************************************************************)
EXTENDS Integers, FiniteSets

CONSTANTS
  Queries, Names,  \* calls of Query, and names in questions
  NameOf,          \* per query: the name it asks for
  Local, Remote,   \* SmartResolver.upstreams["local"] and ["remote"]
  Fallback,        \* the two built-in upstreams
  Outbounds,       \* what the router may answer
  DirectName,      \* the outbound name "direct"
  IsDirect,        \* per outbound: does it connect without a tunnel?
  TTLs,            \* the TTLs an upstream may answer with
  NoAnswer,        \* the TTL of a reply without an answer section
  MinTTL, MaxTTL, DefaultTTL,    \* 10, 3600 and 600 seconds in the code
  MaxTime,         \* bound: clock ticks
  MaxReroutes,     \* bound: routing changes
  MaxFlushes       \* bound: flushes

ASSUME ResolverAssumption ==
  /\ NameOf \in [Queries -> Names]
  /\ {IsFiniteSet(Local), IsFiniteSet(Remote), IsFiniteSet(Fallback)} = {TRUE}
  /\ Fallback # {}
  /\ IsDirect \in [Outbounds -> BOOLEAN]
  /\ TTLs \subseteq Nat /\ NoAnswer \notin Nat
  /\ {MinTTL, MaxTTL, DefaultTTL, MaxTime, MaxReroutes, MaxFlushes} \subseteq Nat
  /\ MinTTL <= DefaultTTL /\ DefaultTTL <= MaxTTL

Upstreams == Local \cup Remote \cup Fallback
NoRoute == "no route"

Replies == [id : Queries, name : Names, by : Upstreams, ttl : TTLs \cup {NoAnswer}]
None == [kind |-> "none"]

VARIABLES
  now,       \* the clock
  route,     \* per name: the outbound the router chooses, or NoRoute
  reroutes,  \* how often the routing has changed
  flushes,   \* how often the cache was flushed
  cache,     \* SmartResolver.cache: per name [msg, expiry, stored] or None
  pc,        \* per query: "start", "route", "race", "write" or "done"
  ups,       \* per query: the upstreams raced
  exchange,  \* per query and upstream: "none", "pending", "sending" (its
             \* outcome is not yet in a channel), "sent"
  outcome,   \* per query and upstream: the reply it got, or None for an error
  resCh,     \* per query: upstreams whose reply is in resCh
  errCh,     \* per query: upstreams whose error is in errCh
  errors,    \* per query: errors received
  result,    \* per query: the reply returned, None before and for an error
  served,    \* history, per query: the time of a cache hit's entry, and of the hit
  routeSeen, \* history, per query: the route at its cache hit or upstream choice
  cancelled  \* queries whose caller has given up

queryVars == <<pc, ups, exchange, outcome, resCh, errCh, errors, result, served, routeSeen>>
envVars == <<now, route, reroutes, flushes, cancelled>>
vars == <<queryVars, envVars, cache>>

Init ==
  /\ now = 0
  /\ route \in [Names -> Outbounds \cup {NoRoute}]
  /\ reroutes = 0 /\ flushes = 0
  /\ cache = [n \in Names |-> None]
  /\ pc = [q \in Queries |-> "start"]
  /\ ups = [q \in Queries |-> {}]
  /\ exchange = [q \in Queries |-> [u \in Upstreams |-> "none"]]
  /\ outcome = [q \in Queries |-> [u \in Upstreams |-> None]]
  /\ resCh = [q \in Queries |-> {}]
  /\ errCh = [q \in Queries |-> {}]
  /\ errors = [q \in Queries |-> 0]
  /\ result = [q \in Queries |-> None]
  /\ served = [q \in Queries |-> None]
  /\ routeSeen = [q \in Queries |-> NoRoute]
  /\ cancelled = {}

-----------------------------------------------------------------------------
(* Variant: an entry is served at its expiry too. *)
CachedAtExpiry(q) == cache[NameOf[q]] # None /\ now <= cache[NameOf[q]].expiry

(* The cache lookup, under the read lock. *)
Cached(q) == cache[NameOf[q]] # None /\ now < cache[NameOf[q]].expiry

(* Variant: the cached message is returned with the id it was stored with. *)
CacheHitSameID(q) ==
  /\ pc[q] = "start" /\ Cached(q)
  /\ result' = [result EXCEPT ![q] = cache[NameOf[q]].msg]
  /\ served' = [served EXCEPT ![q] = [stored |-> cache[NameOf[q]].stored, at |-> now]]
  /\ routeSeen' = [routeSeen EXCEPT ![q] = route[NameOf[q]]]
  /\ pc' = [pc EXCEPT ![q] = "done"]
  /\ UNCHANGED <<ups, exchange, outcome, resCh, errCh, errors, envVars, cache>>

CacheHit(q) ==
  /\ pc[q] = "start" /\ Cached(q)
  /\ result' = [result EXCEPT ![q] = [cache[NameOf[q]].msg EXCEPT !.id = q]]
  /\ served' = [served EXCEPT ![q] = [stored |-> cache[NameOf[q]].stored, at |-> now]]
  /\ routeSeen' = [routeSeen EXCEPT ![q] = route[NameOf[q]]]
  /\ pc' = [pc EXCEPT ![q] = "done"]
  /\ UNCHANGED <<ups, exchange, outcome, resCh, errCh, errors, envVars, cache>>

CacheMiss(q) ==
  /\ pc[q] = "start" /\ ~Cached(q)
  /\ pc' = [pc EXCEPT ![q] = "route"]
  /\ UNCHANGED <<ups, exchange, outcome, resCh, errCh, errors, result, served,
                 routeSeen, envVars, cache>>

(* Variant: the groups are swapped. *)
ChosenSwapped(n) ==
  LET group == IF route[n] # NoRoute /\ route[n] # DirectName THEN Local ELSE Remote
  IN  IF group # {} THEN group ELSE IF Local # {} THEN Local ELSE Fallback

(* The group of a name: "local" unless the router chooses an outbound of    *)
(* another name than "direct"; without upstreams "local", then the built-in *)
(* ones.                                                                    *)
Chosen(n) ==
  LET group == IF route[n] # NoRoute /\ route[n] # DirectName THEN Remote ELSE Local
  IN  IF group # {} THEN group ELSE IF Local # {} THEN Local ELSE Fallback

(* raceQuery starts an exchange per upstream.  (With one upstream it waits  *)
(* for it directly, which is the race of one without giving up early.)      *)
StartRace(q) ==
  /\ pc[q] = "route"
  /\ ups' = [ups EXCEPT ![q] = Chosen(NameOf[q])]
  /\ exchange' = [exchange EXCEPT ![q] =
                    [u \in Upstreams |-> IF u \in Chosen(NameOf[q]) THEN "pending" ELSE "none"]]
  /\ routeSeen' = [routeSeen EXCEPT ![q] = route[NameOf[q]]]
  /\ pc' = [pc EXCEPT ![q] = "race"]
  /\ UNCHANGED <<outcome, resCh, errCh, errors, result, served, envVars, cache>>

-----------------------------------------------------------------------------
(* The goroutine of one upstream: DNSUpstream.Exchange returns a reply or   *)
(* an error (a timeout and the cancelled context included) ...              *)
Exchange(q, u, out) ==
  /\ exchange[q][u] = "pending"
  /\ exchange' = [exchange EXCEPT ![q][u] = "sending"]
  /\ outcome' = [outcome EXCEPT ![q][u] = out]
  /\ UNCHANGED <<pc, ups, resCh, errCh, errors, result, served, routeSeen, envVars, cache>>

(* A reply answers the question it was sent for: dns.Client sees to the     *)
(* transaction ID over UDP and TLS; over HTTPS nothing is compared and the  *)
(* server is taken at its word.                                             *)
ExchangeOK(q, u) ==
  \E ttl \in TTLs \cup {NoAnswer} :
    Exchange(q, u, [id |-> q, name |-> NameOf[q], by |-> u, ttl |-> ttl])

ExchangeFails(q, u) == Exchange(q, u, None)

(* Variant: channels that hold one outcome. *)
ChanCapOne(q) == 1

(* ... and the outcome is sent to its channel, which has room for all. *)
ChanCap(q) == Cardinality(ups[q])

Send(q, u) ==
  /\ exchange[q][u] = "sending"
  /\ IF outcome[q][u] # None
     THEN /\ Cardinality(resCh[q]) < ChanCap(q)
          /\ resCh' = [resCh EXCEPT ![q] = @ \cup {u}]
          /\ UNCHANGED errCh
     ELSE /\ Cardinality(errCh[q]) < ChanCap(q)
          /\ errCh' = [errCh EXCEPT ![q] = @ \cup {u}]
          /\ UNCHANGED resCh
  /\ exchange' = [exchange EXCEPT ![q][u] = "sent"]
  /\ UNCHANGED <<pc, ups, outcome, errors, result, served, routeSeen, envVars, cache>>

-----------------------------------------------------------------------------
(* The select of raceQuery: the first reply wins ... *)
ReceiveReply(q, u) ==
  /\ pc[q] = "race" /\ u \in resCh[q]
  /\ resCh' = [resCh EXCEPT ![q] = @ \ {u}]
  /\ result' = [result EXCEPT ![q] = outcome[q][u]]
  /\ pc' = [pc EXCEPT ![q] = "write"]
  /\ UNCHANGED <<ups, exchange, outcome, errCh, errors, served, routeSeen, envVars, cache>>

(* Variant: the first error ends the race. *)
ReceiveFirstError(q, u) ==
  /\ pc[q] = "race" /\ u \in errCh[q]
  /\ errCh' = [errCh EXCEPT ![q] = @ \ {u}]
  /\ errors' = [errors EXCEPT ![q] = @ + 1]
  /\ pc' = [pc EXCEPT ![q] = "done"]
  /\ UNCHANGED <<ups, exchange, outcome, resCh, result, served, routeSeen, envVars, cache>>

(* ... an error is counted, and the last one returned ... *)
ReceiveError(q, u) ==
  /\ pc[q] = "race" /\ u \in errCh[q]
  /\ errCh' = [errCh EXCEPT ![q] = @ \ {u}]
  /\ errors' = [errors EXCEPT ![q] = @ + 1]
  /\ pc' = [pc EXCEPT ![q] = IF errors'[q] = Cardinality(ups[q]) THEN "done" ELSE "race"]
  /\ UNCHANGED <<ups, exchange, outcome, resCh, result, served, routeSeen, envVars, cache>>

(* ... and a caller that gives up ends it, unless there is one upstream. *)
ReceiveDone(q) ==
  /\ pc[q] = "race" /\ q \in cancelled /\ Cardinality(ups[q]) > 1
  /\ pc' = [pc EXCEPT ![q] = "done"]
  /\ UNCHANGED <<ups, exchange, outcome, resCh, errCh, errors, result, served,
                 routeSeen, envVars, cache>>

(* The seconds a reply is cached for. *)
Clamp(ttl) ==
  LET t == IF ttl = NoAnswer THEN DefaultTTL ELSE ttl
  IN  IF t < MinTTL THEN MinTTL ELSE IF t > MaxTTL THEN MaxTTL ELSE t

WriteCache(q) ==
  /\ pc[q] = "write"
  /\ cache' = [cache EXCEPT ![NameOf[q]] =
                 [msg |-> result[q], stored |-> now, expiry |-> now + Clamp(result[q].ttl)]]
  /\ pc' = [pc EXCEPT ![q] = "done"]
  /\ UNCHANGED <<ups, exchange, outcome, resCh, errCh, errors, result, served, routeSeen,
                 envVars>>

-----------------------------------------------------------------------------
(* The operator's flush, routing changes, callers that give up (which for   *)
(* a single upstream only means that its exchange fails), time.             *)
Flush ==
  /\ flushes < MaxFlushes /\ \E n \in Names : cache[n] # None
  /\ flushes' = flushes + 1
  /\ cache' = [n \in Names |-> None]
  /\ UNCHANGED <<queryVars, now, route, reroutes, cancelled>>

Reroute(n, out) ==
  /\ reroutes < MaxReroutes /\ out # route[n]
  /\ reroutes' = reroutes + 1
  /\ route' = [route EXCEPT ![n] = out]
  /\ UNCHANGED <<queryVars, cache, now, flushes, cancelled>>

GiveUp(q) ==
  /\ pc[q] = "race" /\ q \notin cancelled /\ Cardinality(ups[q]) > 1
  /\ cancelled' = cancelled \cup {q}
  /\ UNCHANGED <<queryVars, cache, now, route, reroutes, flushes>>

Tick ==
  /\ now < MaxTime
  /\ now' = now + 1
  /\ UNCHANGED <<queryVars, cache, route, reroutes, flushes, cancelled>>

-----------------------------------------------------------------------------
QueryStep(q) ==
  \/ CacheHit(q) \/ CacheMiss(q) \/ StartRace(q) \/ WriteCache(q) \/ ReceiveDone(q)
  \/ \E u \in Upstreams : ReceiveReply(q, u) \/ ReceiveError(q, u)

ExchangeStep(q, u) == ExchangeOK(q, u) \/ ExchangeFails(q, u) \/ Send(q, u)

Next ==
  \/ \E q \in Queries : QueryStep(q) \/ GiveUp(q)
  \/ \E q \in Queries, u \in Upstreams : ExchangeStep(q, u)
  \/ Flush \/ Tick
  \/ \E n \in Names, out \in Outbounds \cup {NoRoute} : Reroute(n, out)

Spec == Init /\ [][Next]_vars

-----------------------------------------------------------------------------
(* Properties. *)

(* Every variable has its type. *)
TypeOK ==
  /\ now \in 0..MaxTime
  /\ route \in [Names -> Outbounds \cup {NoRoute}]
  /\ \A n \in Names : cache[n] # None => cache[n].msg \in Replies /\ cache[n].expiry \in Nat
  /\ pc \in [Queries -> {"start", "route", "race", "write", "done"}]
  /\ ups \in [Queries -> SUBSET Upstreams]
  /\ exchange \in [Queries -> [Upstreams -> {"none", "pending", "sending", "sent"}]]
  /\ resCh \in [Queries -> SUBSET Upstreams] /\ errCh \in [Queries -> SUBSET Upstreams]
  /\ \A q \in Queries : errors[q] \in 0..Cardinality(ups[q])
  /\ \A q \in Queries : result[q] # None => result[q] \in Replies
  /\ cancelled \subseteq Queries

(* A reply that Query returns carries the id and the name of its question,  *)
(* also when another query's reply was cached.                              *)
RepliesMatchQuestions ==
  \A q \in Queries : result[q] # None => result[q].id = q /\ result[q].name = NameOf[q]

(* Query fails only when every raced upstream has failed, or its caller has *)
(* given up: one late or broken upstream does not spoil the race.           *)
FailsOnlyIfAllFail ==
  \A q \in Queries :
    (pc[q] = "done" /\ result[q] = None)
      => q \in cancelled \/ \A u \in ups[q] : exchange[q][u] = "sent" /\ outcome[q][u] = None

(* A reply is served from the cache for less than the (clamped) TTL it came *)
(* with, whichever of several concurrent queries stored it, and never for   *)
(* longer than MaxTTL.                                                      *)
ServedWithinTTL ==
  \A q \in Queries :
    served[q] # None =>
      /\ served[q].at - served[q].stored < Clamp(result[q].ttl)
      /\ served[q].at - served[q].stored < MaxTTL

(* No race hangs and no goroutine of one is left behind: while raceQuery    *)
(* waits, some upstream's outcome is still to come or already in a channel, *)
(* and an upstream that has lost, or whose query was given up, still finds  *)
(* room for the outcome nobody will read.                                   *)
RaceNeverHangs ==
  \A q \in Queries :
    /\ pc[q] = "race" => \E u \in ups[q] : exchange[q][u] \in {"pending", "sending"}
                                          \/ u \in resCh[q] \cup errCh[q]
    /\ \A u \in ups[q] :
         exchange[q][u] = "sending"
           => Cardinality(IF outcome[q][u] # None THEN resCh[q] ELSE errCh[q]) < ChanCap(q)

(* A reply fetched for a query comes from the remote group when the rules   *)
(* send the name through a tunnel at the time of the choice, and from the   *)
(* local group when it is reached directly, whatever is rerouted during the *)
(* race.  (A cached reply may come from the group of an earlier rule, and   *)
(* the choice goes by the outbound's name: the property needs outbounds     *)
(* whose only direct one is named "direct".)                                *)
GroupFollowsRule ==
  \A q \in Queries :
    (result[q] # None /\ served[q] = None /\ routeSeen[q] # NoRoute)
      => result[q].by \in (IF IsDirect[routeSeen[q]] THEN Local ELSE Remote)

=============================================================================
