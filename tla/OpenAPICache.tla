---------------------------- MODULE OpenAPICache ----------------------------
(***************************************************************************)
(* The backend's cache of the OpenAPI documents of the clusters:           *)
(* backend/internal/api/openapi_proxy.go.  Requests look a document up,    *)
(* fetch it from the cluster and store it with no lock held in between; a  *)
(* refresh removes a user's documents one key at a time meanwhile.         *)
(*                                                                         *)
(* The least-recently-used list is the library's: cache is a map, recency  *)
(* its order.  Time is told by ages that stop at the largest value         *)
(* anything is compared with, so that the clock itself needs no bound.     *)
(***************************************************************************)
EXTENDS Naturals, FiniteSets

CONSTANTS Cluster, User, GV,  \* the parts of a cache key; a GV may be the index
          Bundle,             \* CA bundles
          Usable,             \* those a transport can be built from
          CaBundle,           \* Cluster -> its bundle
          Request,            \* concurrent requests of any kind
          Size,               \* the cache's capacity
          TTL, Timeout,       \* of an entry, and of a fetch
          None

ASSUME SizeIsPositive == Size \in Nat \ {0}
ASSUME TimesAreNat == TTL \in Nat /\ Timeout \in Nat
ASSUME BundlesAreKnown == Usable \subseteq Bundle /\ CaBundle \in [Cluster -> Bundle]

VARIABLES cache,       \* Key -> the entry, or None
          recency,     \* <<j, k>>: j was used before k, and not since
          transports,  \* Bundle -> the request that built its transport
          op           \* Request -> where it is, and what it holds

vars == <<cache, recency, transports, op>>

Key == [cluster : Cluster, user : User, gv : GV]

Ages == 0..(TTL + Timeout + 1)
Older(a) == IF a = TTL + Timeout + 1 THEN a ELSE a + 1

(* An entry, and how long ago the cluster made its document.  The rest is  *)
(* history: the running refreshes that began when the entry was in the     *)
(* cache and concern it, and whether one such has ended.                   *)
Entry == [storedFor : Ages, age : Ages, present : SUBSET Request, survived : BOOLEAN]

ASSUME NoneIsNull == None \notin Request \cup Key \cup Entry

Idle == [pc |-> "idle", key |-> None, transport |-> None, elapsed |-> 0,
         age |-> 0, left |-> {}]
Op == [pc : {"idle", "transport", "build", "fetch", "body", "refresh"},
       key : Key \cup {None}, transport : Request \cup {None},
       elapsed : 0..Timeout, age : Ages, left : SUBSET Key]

Cached == {k \in Key : cache[k] # None}

TypeOK ==
  /\ cache \in [Key -> Entry \cup {None}]
  /\ Cardinality(Cached) <= Size
  /\ recency \subseteq Cached \X Cached
  /\ \A j, k \in Cached : j # k => (<<j, k>> \in recency) # (<<k, j>> \in recency)
  /\ transports \in [Bundle -> Request \cup {None}]
  /\ op \in [Request -> Op]

Init ==
  /\ cache = [k \in Key |-> None]
  /\ recency = {}
  /\ transports = [b \in Bundle |-> None]
  /\ op = [r \in Request |-> Idle]

-----------------------------------------------------------------------------
(* The library: Get and Add make a key the most recent, Add drops the      *)
(* oldest of too many.                                                     *)
Without(order, k) == {p \in order : p[1] # k /\ p[2] # k}
MadeNewest(order, k, others) == Without(order, k) \cup (others \X {k})

Touch(k) == recency' = MadeNewest(recency, k, Cached \ {k})

Oldest(k) == k \in Cached /\ \A p \in recency : p[2] # k

Add(k, e) ==
  IF k \in Cached \/ Cardinality(Cached) < Size
  THEN cache' = [cache EXCEPT ![k] = e] /\ Touch(k)
  ELSE \E oldest \in Key :
         /\ Oldest(oldest)
         /\ cache' = [cache EXCEPT ![oldest] = None, ![k] = e]
         /\ recency' = MadeNewest(Without(recency, oldest), k, Cached \ {oldest})

Remove(k) ==
  /\ cache' = [cache EXCEPT ![k] = None]
  /\ recency' = Without(recency, k)

Answer(r) == op' = [op EXCEPT ![r] = Idle]

-----------------------------------------------------------------------------
(* proxyOpenAPI.                                                           *)
Servable(k) == k \in Cached /\ cache[k].storedFor < TTL

SlidingExpiry(k) ==                               \* mutant: a hit renews the entry
  /\ Servable(k)
  /\ \E r \in Request : op[r] = Idle
  /\ cache' = [cache EXCEPT ![k].storedFor = 0]
  /\ Touch(k)
  /\ UNCHANGED <<transports, op>>
Hit(k) ==
  /\ Servable(k)
  /\ \E r \in Request : op[r] = Idle
  /\ Touch(k)
  /\ UNCHANGED <<cache, transports, op>>

(* An entry past its time is used, as the library sees it, but not served. *)
Miss(r, k) ==
  /\ op[r] = Idle /\ ~Servable(k)
  /\ op' = [op EXCEPT ![r].pc = "transport", ![r].key = k]
  /\ IF k \in Cached THEN Touch(k) ELSE UNCHANGED recency
  /\ UNCHANGED <<cache, transports>>

(* transportFor.                                                           *)
BundleOf(r) == CaBundle[op[r].key.cluster]

LoadTransport(r) ==
  /\ op[r].pc = "transport" /\ transports[BundleOf(r)] # None
  /\ op' = [op EXCEPT ![r].pc = "fetch", ![r].transport = transports[BundleOf(r)]]
  /\ UNCHANGED <<cache, recency, transports>>

BuildTransport(r) ==
  /\ op[r].pc = "transport" /\ transports[BundleOf(r)] = None
  /\ IF BundleOf(r) \in Usable
     THEN op' = [op EXCEPT ![r].pc = "build"]
     ELSE Answer(r)
  /\ UNCHANGED <<cache, recency, transports>>

StoreTransport(r) ==                              \* mutant: Store, not LoadOrStore
  /\ op[r].pc = "build"
  /\ transports' = [transports EXCEPT ![BundleOf(r)] = r]
  /\ op' = [op EXCEPT ![r].pc = "fetch", ![r].transport = r]
  /\ UNCHANGED <<cache, recency>>
LoadOrStoreTransport(r) ==
  LET b == BundleOf(r) IN
  /\ op[r].pc = "build"
  /\ transports' = [transports EXCEPT ![b] = IF @ = None THEN r ELSE @]
  /\ op' = [op EXCEPT ![r].pc = "fetch", ![r].transport = transports'[b]]
  /\ UNCHANGED <<cache, recency>>

(* The cluster makes its answer, which then travels.                       *)
Upstream(r) ==
  /\ op[r].pc = "fetch"
  /\ op' = [op EXCEPT ![r].pc = "body"]
  /\ UNCHANGED <<cache, recency, transports>>

Store(r) ==
  /\ op[r].pc = "body"
  /\ Add(op[r].key, [storedFor |-> 0, age |-> op[r].age,
                     present |-> {}, survived |-> FALSE])
  /\ Answer(r)
  /\ UNCHANGED transports

(* No connection, no answer in time, too large a body, an error status.    *)
FetchFails(r) ==
  /\ op[r].pc \in {"fetch", "body"}
  /\ Answer(r)
  /\ UNCHANGED <<cache, recency, transports>>

-----------------------------------------------------------------------------
(* RefreshOpenAPI: a snapshot of the keys, which are then removed one by    *)
(* one.                                                                    *)
Concerns(k, c, u) == k.cluster = c /\ k.user = u

Piggyback(c, u) ==                                \* mutant: one refresh at a time
  {k \in Cached : Concerns(k, c, u) /\ \A q \in Request : op[q].pc # "refresh"}
Snapshot(c, u) == {k \in Cached : Concerns(k, c, u)}

StartRefresh(r, c, u) ==
  /\ op[r] = Idle
  /\ cache' = [k \in Key |->
       IF k \in Cached /\ Concerns(k, c, u)
       THEN [cache[k] EXCEPT !.present = @ \cup {r}] ELSE cache[k]]
  /\ op' = [op EXCEPT ![r] = [Idle EXCEPT !.pc = "refresh", !.left = Snapshot(c, u)]]
  /\ UNCHANGED <<recency, transports>>

RemoveKey(r, k) ==
  /\ op[r].pc = "refresh" /\ k \in op[r].left
  /\ Remove(k)
  /\ op' = [op EXCEPT ![r].left = @ \ {k}]
  /\ UNCHANGED transports

Outlived(e, r) ==
  [e EXCEPT !.present = @ \ {r}, !.survived = @ \/ r \in e.present]

EndRefresh(r) ==
  /\ op[r].pc = "refresh" /\ op[r].left = {}
  /\ cache' = [k \in Key |-> IF k \in Cached THEN Outlived(cache[k], r) ELSE None]
  /\ Answer(r)
  /\ UNCHANGED <<recency, transports>>

-----------------------------------------------------------------------------
(* Time passes, but no fetch outlives its timeout.                         *)
Fetching(r) == op[r].pc \in {"fetch", "body"}

Tick ==
  /\ \A r \in Request : Fetching(r) => op[r].elapsed < Timeout
  /\ cache' = [k \in Key |->
       IF k \in Cached
       THEN [cache[k] EXCEPT !.storedFor = Older(@), !.age = Older(@)]
       ELSE None]
  /\ op' = [r \in Request |->
       IF op[r].pc = "body"
       THEN [op[r] EXCEPT !.elapsed = @ + 1, !.age = Older(@)]
       ELSE IF Fetching(r) THEN [op[r] EXCEPT !.elapsed = @ + 1]
       ELSE op[r]]
  /\ UNCHANGED <<recency, transports>>

(* Cache and transports are the process's own.                             *)
Restart ==
  /\ cache' = [k \in Key |-> None]
  /\ recency' = {}
  /\ transports' = [b \in Bundle |-> None]
  /\ op' = [r \in Request |-> Idle]

Next ==
  \/ \E k \in Key : Hit(k)
  \/ \E r \in Request, k \in Key : Miss(r, k) \/ RemoveKey(r, k)
  \/ \E r \in Request :
       \/ LoadTransport(r) \/ BuildTransport(r) \/ LoadOrStoreTransport(r)
       \/ Upstream(r) \/ Store(r) \/ FetchFails(r) \/ EndRefresh(r)
  \/ \E r \in Request, c \in Cluster, u \in User : StartRefresh(r, c, u)
  \/ Tick
  \/ Restart

Spec == Init /\ [][Next]_vars

-----------------------------------------------------------------------------
(* Properties.                                                             *)

(* A document that is served left its cluster at most the TTL and the time *)
(* of one fetch ago, however often it has been served and however slowly   *)
(* it arrived.                                                             *)
BoundedStaleness ==
  \A k \in Key : Servable(k) => cache[k].age <= TTL + Timeout

(* Once a refresh has answered, what was cached when it began is gone,     *)
(* whatever was added, evicted, or refreshed by others during its loop.    *)
RefreshTakesEffect == \A k \in Cached : ~cache[k].survived

(* Requests to clusters with one CA bundle share a transport, and so its   *)
(* connections, although each of them may have built one.                  *)
TransportsAreShared ==
  \A q, r \in Request :
    Fetching(q) /\ Fetching(r) /\ BundleOf(q) = BundleOf(r)
      => op[q].transport = op[r].transport
=============================================================================
