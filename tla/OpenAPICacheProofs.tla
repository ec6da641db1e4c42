------------------------- MODULE OpenAPICacheProofs -------------------------
(***************************************************************************)
(* Theorems of OpenAPICache, for any number of requests, keys and bundles, *)
(* any capacity and any times.                                             *)
(*                                                                         *)
(* None of the properties is inductive.  An entry is at most a timeout     *)
(* older than the time it has been stored for (Aged), because a fetch took *)
(* no longer (Young).  A refresh that began when an entry was present has  *)
(* that entry's key still to remove (StillToGo).  And a request uses the   *)
(* transport that is stored for its bundle (Connected).                    *)
(***************************************************************************)
EXTENDS OpenAPICache, FiniteSetTheorems, TLAPS

Types ==
  /\ cache \in [Key -> Entry \cup {None}]
  /\ transports \in [Bundle -> Request \cup {None}]
  /\ op \in [Request -> Op]

Ordered ==
  /\ IsFiniteSet(Cached)
  /\ Cardinality(Cached) <= Size
  /\ recency \subseteq Cached \X Cached
  /\ \A j, k \in Cached : j # k => (<<j, k>> \in recency) # (<<k, j>> \in recency)

Young == \A r \in Request : op[r].age <= op[r].elapsed

Aged == \A k \in Cached : cache[k].age <= cache[k].storedFor + Timeout

StillToGo ==
  \A k \in Cached :
    /\ ~cache[k].survived
    /\ \A r \in cache[k].present : op[r].pc = "refresh" /\ k \in op[r].left

Connected ==
  \A r \in Request :
    /\ op[r].pc \in {"transport", "build", "fetch", "body"} => op[r].key \in Key
    /\ Fetching(r) => /\ op[r].transport = transports[BundleOf(r)]
                      /\ op[r].transport # None

IInv == Types /\ Ordered /\ Young /\ Aged /\ StillToGo /\ Connected

-----------------------------------------------------------------------------
(* The library.                                                            *)

(* Using a key keeps the order an order of the cached keys.                *)
LEMMA TouchKeepsOrder ==
  ASSUME Ordered, NEW k \in Cached, Touch(k), Cached' = Cached
  PROVE  Ordered'
BY DEF Ordered, Touch, MadeNewest, Without

(* Removing a key leaves the other entries as they are.                    *)
LEMMA RemoveIsLocal ==
  ASSUME Types, Ordered, NEW k \in Key, Remove(k)
  PROVE  /\ cache' \in [Key -> Entry \cup {None}]
         /\ cache'[k] = None
         /\ \A j \in Key \ {k} : cache'[j] = cache[j]
         /\ Ordered'
<1>1. /\ cache' \in [Key -> Entry \cup {None}]
      /\ cache'[k] = None
      /\ \A j \in Key \ {k} : cache'[j] = cache[j]
  BY DEF Types, Remove
<1>2. Cached' = Cached \ {k}
  BY <1>1 DEF Cached
<1>3. IsFiniteSet(Cached') /\ Cardinality(Cached') <= Cardinality(Cached)
  BY <1>2, FS_Subset DEF Ordered
<1>4. Cardinality(Cached) \in Nat /\ Cardinality(Cached') \in Nat
  BY <1>3, FS_CardinalityType DEF Ordered
<1>5. /\ recency' \subseteq Cached' \X Cached'
      /\ \A i, j \in Cached' :
           i # j => (<<i, j>> \in recency') # (<<j, i>> \in recency')
  BY <1>2 DEF Ordered, Remove, Without
<1> QED
  BY <1>1, <1>3, <1>4, <1>5, SizeIsPositive DEF Ordered

(* Adding an entry keeps every other one, or loses the oldest, and never   *)
(* exceeds the capacity.                                                   *)
LEMMA AddIsBounded ==
  ASSUME Types, Ordered, NEW k \in Key, NEW e \in Entry, Add(k, e)
  PROVE  /\ cache' \in [Key -> Entry \cup {None}]
         /\ cache'[k] = e
         /\ \A j \in Key \ {k} : cache'[j] \in {cache[j], None}
         /\ Ordered'
<1>1. e # None
  BY NoneIsNull
<1>2. CASE k \in Cached \/ Cardinality(Cached) < Size
  <2>1. /\ cache' = [cache EXCEPT ![k] = e]
        /\ recency' = Without(recency, k) \cup ((Cached \ {k}) \X {k})
    BY <1>2 DEF Add, Touch, MadeNewest
  <2>2. Cached' = Cached \cup {k}
    BY <2>1, <1>1 DEF Cached, Types
  <2>3. IsFiniteSet(Cached') /\ Cardinality(Cached') <= Size
    <3>1. IsFiniteSet(Cached)
      BY DEF Ordered
    <3>2. /\ IsFiniteSet(Cached \cup {k})
          /\ Cardinality(Cached \cup {k}) =
               IF k \in Cached THEN Cardinality(Cached) ELSE Cardinality(Cached) + 1
      BY <3>1, FS_AddElement
    <3>3. Cardinality(Cached) \in Nat
      BY <3>1, FS_CardinalityType
    <3> QED
      BY <1>2, <2>2, <3>2, <3>3, SizeIsPositive DEF Ordered
  <2>4. /\ recency' \subseteq Cached' \X Cached'
        /\ \A i, j \in Cached' :
             i # j => (<<i, j>> \in recency') # (<<j, i>> \in recency')
    BY <2>1, <2>2 DEF Ordered, Without
  <2> QED
    BY <2>1, <2>3, <2>4 DEF Ordered, Types
<1>3. CASE ~(k \in Cached \/ Cardinality(Cached) < Size)
  <2>1. PICK oldest \in Key :
          /\ Oldest(oldest)
          /\ cache' = [cache EXCEPT ![oldest] = None, ![k] = e]
          /\ recency' = Without(Without(recency, oldest), k)
                          \cup ((Cached \ {oldest}) \X {k})
    BY <1>3 DEF Add, MadeNewest
  <2>2. oldest \in Cached /\ k \notin Cached
    BY <2>1, <1>3 DEF Oldest
  <2>3. Cached' = (Cached \ {oldest}) \cup {k}
    BY <2>1, <2>2, <1>1 DEF Cached, Types
  <2>4. IsFiniteSet(Cached') /\ Cardinality(Cached') <= Size
    <3>1. IsFiniteSet(Cached) /\ Cardinality(Cached) \in Nat
      BY FS_CardinalityType DEF Ordered
    <3>2. /\ IsFiniteSet(Cached \ {oldest})
          /\ Cardinality(Cached \ {oldest}) = Cardinality(Cached) - 1
      BY <3>1, <2>2, FS_RemoveElement
    <3>3. /\ IsFiniteSet((Cached \ {oldest}) \cup {k})
          /\ Cardinality((Cached \ {oldest}) \cup {k})
               = Cardinality(Cached \ {oldest}) + 1
      BY <3>2, <2>2, FS_AddElement
    <3> QED
      BY <2>3, <3>1, <3>2, <3>3, SizeIsPositive DEF Ordered
  <2>5. /\ recency' \subseteq Cached' \X Cached'
        /\ \A i, j \in Cached' :
             i # j => (<<i, j>> \in recency') # (<<j, i>> \in recency')
    BY <2>1, <2>2, <2>3 DEF Ordered, Without
  <2> QED
    BY <2>1, <2>2, <2>4, <2>5 DEF Ordered, Types
<1> QED
  BY <1>2, <1>3

-----------------------------------------------------------------------------
(* Steps.                                                                  *)

(* A step of a request that is no refresh, and that leaves the cache as it *)
(* is, leaves the entries' invariants as they are.                         *)
LEMMA QuietStep ==
  ASSUME IInv, NEW r \in Request, op[r].pc # "refresh", UNCHANGED cache,
         \A q \in Request \ {r} : op'[q] = op[q]
  PROVE  Aged' /\ StillToGo' /\ Cached' = Cached
BY DEF IInv, Types, Aged, StillToGo, Cached, Entry

LEMMA InitStep == Init => IInv
<1> SUFFICES ASSUME Init PROVE IInv
  OBVIOUS
<1>1. Cached = {}
  BY DEF Init, Cached
<1>2. Types
  BY TimesAreNat DEF Init, Types, Op, Idle, Ages
<1>3. Ordered
  BY <1>1, FS_EmptySet, SizeIsPositive DEF Ordered, Init
<1>4. Young /\ Aged /\ StillToGo /\ Connected
  BY <1>1 DEF Init, Young, Aged, StillToGo, Connected, Idle, Fetching
<1> QED
  BY <1>2, <1>3, <1>4 DEF IInv

LEMMA HitStep ==
  ASSUME IInv, NEW k \in Key, Hit(k)
  PROVE  IInv'
<1>1. Cached' = Cached /\ k \in Cached
  BY DEF Hit, Cached, Servable
<1>2. Ordered'
  BY <1>1, TouchKeepsOrder DEF Hit, IInv
<1> QED
  BY <1>1, <1>2 DEF Hit, IInv, Types, Young, Aged, StillToGo, Connected,
                    Fetching, BundleOf

LEMMA MissStep ==
  ASSUME IInv, NEW r \in Request, NEW k \in Key, Miss(r, k)
  PROVE  IInv'
<1>1. /\ op' = [op EXCEPT ![r].pc = "transport", ![r].key = k]
      /\ op[r] = Idle
      /\ UNCHANGED <<cache, transports>>
  BY DEF Miss
<1>2. op[r].pc = "idle"
  BY <1>1 DEF Idle
<1>3. /\ op'[r] = [pc |-> "transport", key |-> k, transport |-> None,
                   elapsed |-> 0, age |-> 0, left |-> {}]
      /\ \A q \in Request \ {r} : op'[q] = op[q]
  <2>1. /\ op'[r] = [Idle EXCEPT !.pc = "transport", !.key = k]
        /\ \A q \in Request \ {r} : op'[q] = op[q]
    BY <1>1 DEF IInv, Types
  <2> QED
    BY <2>1 DEF Idle
<1>4. Types'
  <2>1. op'[r] \in Op
    BY <1>3, TimesAreNat DEF Op, Ages
  <2> QED
    BY <1>1, <1>3, <2>1 DEF IInv, Types
<1>5. Aged' /\ StillToGo' /\ Cached' = Cached
  BY <1>1, <1>2, <1>3, QuietStep
<1>6. Ordered'
  BY <1>5, TouchKeepsOrder DEF Miss, IInv, Ordered
<1>7. Young'
  BY <1>3 DEF IInv, Young
<1>8. Connected'
  <2>1. op'[r].pc = "transport" /\ op'[r].key = k
    BY <1>3
  <2> QED
    BY <1>1, <1>3, <2>1 DEF IInv, Connected, Fetching, BundleOf
<1> QED
  BY <1>4, <1>5, <1>6, <1>7, <1>8 DEF IInv

LEMMA LoadTransportStep ==
  ASSUME IInv, NEW r \in Request, LoadTransport(r)
  PROVE  IInv'
<1>1. /\ op' = [op EXCEPT ![r].pc = "fetch", ![r].transport = transports[BundleOf(r)]]
      /\ op[r].pc = "transport" /\ transports[BundleOf(r)] # None
      /\ UNCHANGED <<cache, recency, transports>>
  BY DEF LoadTransport
<1>2. BundleOf(r) \in Bundle
  BY <1>1, BundlesAreKnown DEF BundleOf, IInv, Connected, Key
<1>3. Types'
  <2>1. PICK t \in Request : t = transports[BundleOf(r)]
    BY <1>1, <1>2 DEF IInv, Types
  <2>2. op' = [op EXCEPT ![r].pc = "fetch", ![r].transport = t]
    BY <1>1, <2>1
  <2>3. op[r] \in Op
    BY DEF IInv, Types
  <2>4. [op[r] EXCEPT !.pc = "fetch", !.transport = t] \in Op
    BY <2>3 DEF Op
  <2>5. op' \in [Request -> Op]
    BY <2>2, <2>4 DEF IInv, Types
  <2> QED
    BY <1>1, <2>5 DEF IInv, Types
<1>4. /\ op'[r].pc = "fetch" /\ op'[r].transport = transports[BundleOf(r)]
      /\ op'[r].key = op[r].key /\ op'[r].age = op[r].age
      /\ op'[r].elapsed = op[r].elapsed
      /\ \A q \in Request \ {r} : op'[q] = op[q]
  BY <1>1 DEF IInv, Types, Op
<1>5. Aged' /\ StillToGo' /\ Ordered'
  BY <1>1, <1>4, QuietStep DEF IInv, Ordered
<1>6. Young'
  BY <1>4 DEF IInv, Young
<1>7. ASSUME NEW q \in Request
      PROVE  /\ op'[q].pc \in {"transport", "build", "fetch", "body"} => op'[q].key \in Key
             /\ Fetching(q)' => /\ op'[q].transport = transports'[BundleOf(q)']
                               /\ op'[q].transport # None
  <2>1. CASE q = r
    <3>1. op[r].key \in Key
      BY <1>1 DEF IInv, Connected
    <3>2. BundleOf(r)' = BundleOf(r)
      BY <1>4 DEF BundleOf
    <3> QED
      BY <1>1, <1>4, <2>1, <3>1, <3>2
  <2>2. CASE q # r
    <3>1. op'[q] = op[q] /\ transports' = transports
      BY <1>1, <1>4, <2>2
    <3> QED
      BY <3>1 DEF IInv, Connected, Fetching, BundleOf
  <2> QED
    BY <2>1, <2>2
<1>8. Connected'
  BY <1>7 DEF Connected
<1> QED
  BY <1>3, <1>5, <1>6, <1>8 DEF IInv

LEMMA AnswerStep ==
  ASSUME IInv, NEW r \in Request, op[r].pc # "refresh", Answer(r),
         UNCHANGED <<cache, recency, transports>>
  PROVE  IInv'
<1>1. op' = [op EXCEPT ![r] = Idle]
  BY DEF Answer
<1>2. Types'
  BY <1>1, TimesAreNat DEF IInv, Types, Op, Idle, Ages
<1>3. op'[r] = Idle /\ \A q \in Request \ {r} : op'[q] = op[q]
  BY <1>1 DEF IInv, Types
<1>4. Aged' /\ StillToGo' /\ Ordered'
  BY <1>3, QuietStep DEF IInv, Ordered
<1>5. Young' /\ Connected'
  BY <1>3 DEF IInv, Young, Connected, Fetching, BundleOf, Idle
<1> QED
  BY <1>2, <1>4, <1>5 DEF IInv

(* The steps that only move a request on.                                  *)
LEMMA MoveStep ==
  ASSUME IInv, NEW r \in Request, NEW pc \in {"build", "body"},
         op[r].pc # "refresh", op[r].pc # "idle", Fetching(r) \/ pc = "build",
         op' = [op EXCEPT ![r].pc = pc],
         UNCHANGED <<cache, recency, transports>>
  PROVE  IInv'
<1>1. Types'
  <2>1. op[r] \in Op
    BY DEF IInv, Types
  <2>2. [op[r] EXCEPT !.pc = pc] \in Op
    BY <2>1 DEF Op
  <2>3. op' \in [Request -> Op]
    BY <2>2 DEF IInv, Types
  <2> QED
    BY <2>3 DEF IInv, Types
<1>2. /\ op'[r].pc = pc /\ op'[r].transport = op[r].transport
      /\ op'[r].key = op[r].key /\ op'[r].age = op[r].age
      /\ op'[r].elapsed = op[r].elapsed
      /\ op[r].pc \in {"transport", "build", "fetch", "body"}
      /\ \A q \in Request \ {r} : op'[q] = op[q]
  BY DEF IInv, Types, Op
<1>3. Aged' /\ StillToGo' /\ Ordered'
  BY <1>2, QuietStep DEF IInv, Ordered
<1>4. Young'
  BY <1>2 DEF IInv, Young
<1>5. ASSUME NEW q \in Request
      PROVE  /\ op'[q].pc \in {"transport", "build", "fetch", "body"} => op'[q].key \in Key
             /\ Fetching(q)' => /\ op'[q].transport = transports'[BundleOf(q)']
                               /\ op'[q].transport # None
  <2>1. CASE q = r
    <3>1. op[r].key \in Key
      BY <1>2 DEF IInv, Connected
    <3>2. Fetching(r)' => Fetching(r)
      BY <1>2 DEF Fetching
    <3> QED
      BY <1>2, <2>1, <3>1, <3>2 DEF IInv, Connected, BundleOf
  <2>2. CASE q # r
    <3>1. op'[q] = op[q] /\ transports' = transports
      BY <1>2, <2>2
    <3> QED
      BY <3>1 DEF IInv, Connected, Fetching, BundleOf
  <2> QED
    BY <2>1, <2>2
<1>6. Connected'
  BY <1>5 DEF Connected
<1> QED
  BY <1>1, <1>3, <1>4, <1>6 DEF IInv

LEMMA BuildTransportStep ==
  ASSUME IInv, NEW r \in Request, BuildTransport(r)
  PROVE  IInv'
<1>1. CASE BundleOf(r) \in Usable
  BY <1>1, MoveStep DEF BuildTransport
<1>2. CASE BundleOf(r) \notin Usable
  BY <1>2, AnswerStep DEF BuildTransport
<1> QED
  BY <1>1, <1>2

LEMMA UpstreamStep ==
  ASSUME IInv, NEW r \in Request, Upstream(r)
  PROVE  IInv'
BY MoveStep DEF Upstream, Fetching

LEMMA FetchFailsStep ==
  ASSUME IInv, NEW r \in Request, FetchFails(r)
  PROVE  IInv'
BY AnswerStep DEF FetchFails

(* Whoever builds a transport second uses the first one.                   *)
LEMMA LoadOrStoreTransportStep ==
  ASSUME IInv, NEW r \in Request, LoadOrStoreTransport(r)
  PROVE  IInv'
<1> DEFINE b == BundleOf(r)
<1>1. /\ op[r].pc = "build"
      /\ transports' = [transports EXCEPT ![b] = IF @ = None THEN r ELSE @]
      /\ op' = [op EXCEPT ![r].pc = "fetch", ![r].transport = transports'[b]]
      /\ UNCHANGED <<cache, recency>>
  BY DEF LoadOrStoreTransport
<1>2. b \in Bundle
  BY <1>1, BundlesAreKnown DEF BundleOf, IInv, Connected, Key
<1>3. /\ transports'[b] \in Request
      /\ transports[b] # None => transports' = transports
      /\ \A d \in Bundle \ {b} : transports'[d] = transports[d]
      /\ transports' \in [Bundle -> Request \cup {None}]
  BY <1>1, <1>2 DEF IInv, Types
<1>4. Types'
  <2>1. PICK t \in Request : t = transports'[b]
    BY <1>3
  <2>2. op' = [op EXCEPT ![r].pc = "fetch", ![r].transport = t]
    BY <1>1, <2>1
  <2>3. op[r] \in Op
    BY DEF IInv, Types
  <2>4. [op[r] EXCEPT !.pc = "fetch", !.transport = t] \in Op
    BY <2>3 DEF Op
  <2>5. op' \in [Request -> Op]
    BY <2>2, <2>4 DEF IInv, Types
  <2> QED
    BY <1>1, <1>3, <2>5 DEF IInv, Types
<1>5. /\ op'[r].pc = "fetch" /\ op'[r].transport = transports'[b]
      /\ op'[r].key = op[r].key /\ op'[r].age = op[r].age
      /\ op'[r].elapsed = op[r].elapsed
      /\ \A q \in Request \ {r} : op'[q] = op[q]
  BY <1>1 DEF IInv, Types, Op
<1>6. Aged' /\ StillToGo' /\ Ordered'
  BY <1>1, <1>5, QuietStep DEF IInv, Ordered
<1>7. Young'
  BY <1>5 DEF IInv, Young
<1>8. Connected'
  <2> SUFFICES ASSUME NEW q \in Request
               PROVE  /\ op'[q].pc \in {"transport", "build", "fetch", "body"}
                            => op'[q].key \in Key
                      /\ Fetching(q)' =>
                           /\ op'[q].transport = transports'[BundleOf(q)']
                           /\ op'[q].transport # None
    BY DEF Connected
  <2>1. CASE q = r
    <3>1. BundleOf(q)' = b
      BY <1>5, <2>1 DEF BundleOf
    <3> QED
      BY <1>1, <1>3, <1>5, <2>1, <3>1, NoneIsNull DEF IInv, Connected
  <2>2. CASE q # r
    <3>1. op'[q] = op[q] /\ BundleOf(q)' = BundleOf(q) /\ (Fetching(q)' <=> Fetching(q))
      BY <1>5, <2>2 DEF BundleOf, Fetching
    <3>2. Fetching(q) => BundleOf(q) \in Bundle
      BY BundlesAreKnown DEF BundleOf, Fetching, IInv, Connected, Key
    <3> QED
      BY <1>3, <3>1, <3>2 DEF IInv, Connected
  <2> QED
    BY <2>1, <2>2
<1> QED
  BY <1>4, <1>6, <1>7, <1>8 DEF IInv

LEMMA StoreStep ==
  ASSUME IInv, NEW r \in Request, Store(r)
  PROVE  IInv'
<1> DEFINE k == op[r].key
           e == [storedFor |-> 0, age |-> op[r].age,
                 present |-> {}, survived |-> FALSE]
<1>1. /\ op[r].pc = "body" /\ Add(k, e) /\ UNCHANGED transports
      /\ op' = [op EXCEPT ![r] = Idle]
  BY DEF Store, Answer
<1>2. k \in Key
  BY <1>1 DEF IInv, Connected
<1>3. op[r] \in Op
  BY DEF IInv, Types
<1>4. e \in Entry
  BY <1>3, TimesAreNat DEF Entry, Op, Ages
<1>5. /\ cache' \in [Key -> Entry \cup {None}]
      /\ cache'[k] = e
      /\ \A j \in Key \ {k} : cache'[j] \in {cache[j], None}
      /\ Ordered'
  <2> HIDE DEF k, e
  <2> QED
    BY <1>1, <1>2, <1>4, AddIsBounded DEF IInv
<1>6. Types'
  BY <1>1, <1>5, TimesAreNat DEF IInv, Types, Op, Idle, Ages
<1>7. op'[r] = Idle /\ \A q \in Request \ {r} : op'[q] = op[q]
  BY <1>1 DEF IInv, Types
<1>8. Young'
  BY <1>7 DEF IInv, Young, Idle
<1>9. Connected'
  BY <1>1, <1>7 DEF IInv, Connected, Fetching, BundleOf, Idle
<1>10. \A j \in Cached' : j # k => j \in Cached /\ cache'[j] = cache[j]
  BY <1>5 DEF Cached
<1>11. Aged'
  <2>1. e.age <= e.storedFor + Timeout
    BY <1>3, TimesAreNat DEF IInv, Young, Op, Ages
  <2> QED
    BY <1>5, <1>10, <2>1 DEF IInv, Aged
<1>12. StillToGo'
  <2>1. \A q \in Request : op[q].pc = "refresh" => op'[q] = op[q]
    BY <1>1, <1>7
  <2>2. \A j \in Cached : cache[j].present \subseteq Request
    BY DEF IInv, Types, Cached, Entry
  <2>3. ~e.survived /\ e.present = {}
    OBVIOUS
  <2> HIDE DEF e
  <2> QED
    BY <1>5, <1>10, <2>1, <2>2, <2>3 DEF IInv, StillToGo
<1> QED
  BY <1>5, <1>6, <1>8, <1>9, <1>11, <1>12 DEF IInv

-----------------------------------------------------------------------------
(* Refreshes.                                                              *)

LEMMA PresentIsSet ==
  ASSUME NEW e \in Entry, NEW r \in Request,
         NEW f, f = [e EXCEPT !.present = @ \cup {r}]
  PROVE  /\ f \in Entry /\ f.age = e.age /\ f.storedFor = e.storedFor
         /\ f.survived = e.survived /\ f.present = e.present \cup {r}
BY DEF Entry

LEMMA StartRefreshStep ==
  ASSUME IInv, NEW r \in Request, NEW c \in Cluster, NEW u \in User,
         StartRefresh(r, c, u)
  PROVE  IInv'
<1>1. /\ op[r] = Idle
      /\ \A k \in Key :
           cache'[k] = IF k \in Cached /\ Concerns(k, c, u)
                       THEN [cache[k] EXCEPT !.present = @ \cup {r}] ELSE cache[k]
      /\ op'[r] = [Idle EXCEPT !.pc = "refresh", !.left = Snapshot(c, u)]
      /\ \A q \in Request \ {r} : op'[q] = op[q]
      /\ UNCHANGED <<recency, transports>>
  BY DEF StartRefresh, IInv, Types
<1>2. \A k \in Cached : cache[k] \in Entry
  BY DEF IInv, Types, Cached
<1>3. \A k \in Cached :
        /\ cache'[k] \in Entry
        /\ cache'[k].age = cache[k].age /\ cache'[k].storedFor = cache[k].storedFor
        /\ cache'[k].survived = cache[k].survived
        /\ cache'[k].present =
              IF Concerns(k, c, u) THEN cache[k].present \cup {r} ELSE cache[k].present
  <2> TAKE k \in Cached
  <2>1. k \in Key
    BY DEF Cached
  <2>2. CASE Concerns(k, c, u)
    <3>1. cache'[k] = [cache[k] EXCEPT !.present = @ \cup {r}]
      BY <1>1, <2>1, <2>2
    <3> QED
      BY <1>2, <2>2, <3>1, PresentIsSet
  <2>3. CASE ~Concerns(k, c, u)
    BY <1>1, <1>2, <2>1, <2>3
  <2> QED
    BY <2>2, <2>3
<1>4. Cached' = Cached
  BY <1>1, <1>3, NoneIsNull DEF Cached
<1>5. /\ op'[r].pc = "refresh" /\ op'[r].left = Snapshot(c, u)
      /\ op'[r].age = 0 /\ op'[r].elapsed = 0 /\ op'[r] \in Op
  <2>1. op'[r] = [pc |-> "refresh", key |-> None, transport |-> None, elapsed |-> 0,
                  age |-> 0, left |-> Snapshot(c, u)]
    BY <1>1 DEF Idle
  <2>2. Snapshot(c, u) \in SUBSET Key
    BY DEF Snapshot, Cached
  <2> QED
    BY <2>1, <2>2, TimesAreNat DEF Op, Ages
<1>6. \A q \in Request \ {r} :
        /\ op'[q] \in Op
        /\ op'[q].pc = op[q].pc /\ op'[q].key = op[q].key
        /\ op'[q].transport = op[q].transport /\ op'[q].left = op[q].left
        /\ op'[q].age = op[q].age /\ op'[q].elapsed = op[q].elapsed
  BY <1>1 DEF IInv, Types
<1>7. Types'
  <2>1. cache' \in [Key -> Entry \cup {None}]
    BY <1>1, <1>3 DEF StartRefresh, Cached, IInv, Types
  <2>2. op' \in [Request -> Op]
    BY <1>1, <1>5, <1>6 DEF StartRefresh, IInv, Types
  <2> QED
    BY <1>1, <2>1, <2>2 DEF IInv, Types
<1>8. Ordered'
  BY <1>1, <1>4 DEF IInv, Ordered
<1>9. Young'
  BY <1>5, <1>6 DEF IInv, Young
<1>10. Connected'
  BY <1>1, <1>5, <1>6 DEF IInv, Connected, Fetching, BundleOf
<1>11. Aged'
  BY <1>3, <1>4 DEF IInv, Aged
<1>12. StillToGo'
  <2>1. op[r].pc # "refresh"
    BY <1>1 DEF Idle
  <2>2. \A k \in Cached : cache[k].present \subseteq Request /\ r \notin cache[k].present
    BY <1>2, <2>1 DEF Entry, IInv, StillToGo
  <2>3. \A k \in Cached : Concerns(k, c, u) => k \in op'[r].left
    BY <1>5 DEF Snapshot
  <2> SUFFICES ASSUME NEW k \in Cached
               PROVE  /\ ~cache'[k].survived
                      /\ \A q \in cache'[k].present :
                           op'[q].pc = "refresh" /\ k \in op'[q].left
    BY <1>4 DEF StillToGo
  <2>4. ~cache'[k].survived
    BY <1>3 DEF IInv, StillToGo
  <2>5. \A q \in cache[k].present : op'[q].pc = "refresh" /\ k \in op'[q].left
    BY <1>6, <2>2 DEF IInv, StillToGo
  <2>6. Concerns(k, c, u) => op'[r].pc = "refresh" /\ k \in op'[r].left
    BY <1>5, <2>3
  <2> QED
    BY <1>3, <2>4, <2>5, <2>6
<1> QED
  BY <1>7, <1>8, <1>9, <1>10, <1>11, <1>12 DEF IInv

LEMMA RemoveKeyStep ==
  ASSUME IInv, NEW r \in Request, NEW k \in Key, RemoveKey(r, k)
  PROVE  IInv'
<1>1. /\ op[r].pc = "refresh" /\ Remove(k) /\ UNCHANGED transports
      /\ op' = [op EXCEPT ![r].left = @ \ {k}]
  BY DEF RemoveKey
<1>2. /\ cache' \in [Key -> Entry \cup {None}]
      /\ cache'[k] = None
      /\ \A j \in Key \ {k} : cache'[j] = cache[j]
      /\ Ordered'
  BY <1>1, RemoveIsLocal DEF IInv
<1>3. Types'
  BY <1>1, <1>2 DEF IInv, Types, Op
<1>4. /\ \A q \in Request :
           /\ op'[q].pc = op[q].pc /\ op'[q].key = op[q].key
           /\ op'[q].transport = op[q].transport
           /\ op'[q].age = op[q].age /\ op'[q].elapsed = op[q].elapsed
           /\ \A j \in op[q].left : j # k => j \in op'[q].left
  BY <1>1 DEF IInv, Types, Op
<1>5. Young' /\ Connected'
  BY <1>1, <1>4 DEF IInv, Young, Connected, Fetching, BundleOf
<1>6. \A j \in Cached' : j \in Cached /\ j # k /\ cache'[j] = cache[j]
  BY <1>2 DEF Cached
<1>7. Aged'
  BY <1>6 DEF IInv, Aged
<1>8. StillToGo'
  <2>1. \A j \in Cached : cache[j].present \subseteq Request
    BY DEF IInv, Types, Cached, Entry
  <2> QED
    BY <1>4, <1>6, <2>1 DEF IInv, StillToGo
<1> QED
  BY <1>2, <1>3, <1>5, <1>7, <1>8 DEF IInv

(* A refresh that ends has no key left, so nothing it found is present.    *)
LEMMA EndRefreshStep ==
  ASSUME IInv, NEW r \in Request, EndRefresh(r)
  PROVE  IInv'
<1>1. /\ op[r].pc = "refresh" /\ op[r].left = {}
      /\ \A k \in Key : cache'[k] = IF k \in Cached THEN Outlived(cache[k], r) ELSE None
      /\ op'[r] = Idle
      /\ \A q \in Request \ {r} : op'[q] = op[q]
      /\ UNCHANGED <<recency, transports>>
  BY DEF EndRefresh, Answer, IInv, Types
<1>2. \A k \in Cached : cache[k] \in Entry
  BY DEF IInv, Types, Cached
<1>3. \A k \in Cached :
        /\ Outlived(cache[k], r) \in Entry
        /\ Outlived(cache[k], r).age = cache[k].age
        /\ Outlived(cache[k], r).storedFor = cache[k].storedFor
        /\ Outlived(cache[k], r).present = cache[k].present \ {r}
        /\ Outlived(cache[k], r).survived = (cache[k].survived \/ r \in cache[k].present)
  BY <1>2 DEF Outlived, Entry
<1>4. Cached' = Cached /\ \A k \in Cached : cache'[k] = Outlived(cache[k], r)
  BY <1>1, <1>3, NoneIsNull DEF Cached
<1>5. \A q \in Request \ {r} :
        /\ op'[q] \in Op
        /\ op'[q].pc = op[q].pc /\ op'[q].key = op[q].key
        /\ op'[q].transport = op[q].transport /\ op'[q].left = op[q].left
        /\ op'[q].age = op[q].age /\ op'[q].elapsed = op[q].elapsed
  BY <1>1 DEF IInv, Types
<1>6. op'[r] \in Op /\ op'[r].pc = "idle" /\ op'[r].age = 0 /\ op'[r].elapsed = 0
  BY <1>1, TimesAreNat DEF Idle, Op, Ages
<1>7. Types'
  <2>1. cache' \in [Key -> Entry \cup {None}]
    BY <1>1, <1>3 DEF EndRefresh, Cached
  <2>2. op' \in [Request -> Op]
    BY <1>1, <1>5, <1>6 DEF EndRefresh, Answer, IInv, Types
  <2> QED
    BY <1>1, <2>1, <2>2 DEF IInv, Types
<1>8. Ordered' /\ Young'
  BY <1>1, <1>4, <1>5, <1>6 DEF IInv, Ordered, Young
<1>9. Connected'
  BY <1>1, <1>5, <1>6 DEF IInv, Connected, Fetching, BundleOf
<1>10. Aged'
  BY <1>3, <1>4 DEF IInv, Aged
<1>11. StillToGo'
  <2>1. \A k \in Cached : cache[k].present \subseteq Request
    BY <1>2 DEF Entry
  <2>2. \A k \in Cached : r \notin cache[k].present
    BY <1>1 DEF IInv, StillToGo
  <2>3. ASSUME NEW k \in Cached
        PROVE  /\ ~cache'[k].survived
               /\ \A q \in cache'[k].present : op'[q].pc = "refresh" /\ k \in op'[q].left
    <3>1. ~cache[k].survived /\ \A q \in cache[k].present : op[q].pc = "refresh" /\ k \in op[q].left
      BY DEF IInv, StillToGo
    <3>2. /\ cache'[k].survived = (cache[k].survived \/ r \in cache[k].present)
          /\ cache'[k].present = cache[k].present \ {r}
      BY <1>3, <1>4
    <3>3. \A q \in cache'[k].present : q \in Request \ {r}
      BY <2>1, <2>2, <3>2
    <3> QED
      BY <1>5, <2>2, <3>1, <3>2, <3>3
  <2> QED
    BY <1>4, <2>3 DEF StillToGo
<1> QED
  BY <1>7, <1>8, <1>9, <1>10, <1>11 DEF IInv

-----------------------------------------------------------------------------
(* Time.                                                                   *)

(* Ages grow together, also where they have reached their largest value.   *)
LEMMA AgesGrowTogether ==
  ASSUME NEW a \in Ages, NEW b \in Ages
  PROVE  /\ Older(a) \in Ages
         /\ Older(a) <= a + 1
         /\ a <= b + Timeout => Older(a) <= Older(b) + Timeout
BY TimesAreNat DEF Ages, Older

LEMMA TickStep ==
  ASSUME IInv, Tick
  PROVE  IInv'
<1>1. /\ \A r \in Request : Fetching(r) => op[r].elapsed < Timeout
      /\ \A k \in Key : cache'[k] =
           IF k \in Cached
           THEN [cache[k] EXCEPT !.storedFor = Older(@), !.age = Older(@)]
           ELSE None
      /\ \A r \in Request : op'[r] =
           IF op[r].pc = "body"
           THEN [op[r] EXCEPT !.elapsed = @ + 1, !.age = Older(@)]
           ELSE IF Fetching(r) THEN [op[r] EXCEPT !.elapsed = @ + 1]
           ELSE op[r]
      /\ UNCHANGED <<recency, transports>>
  BY DEF Tick
<1>2. \A k \in Cached : k \in Key /\ cache[k] \in Entry
  BY DEF IInv, Types, Cached
<1>3. \A k \in Cached :
        /\ cache'[k] \in Entry
        /\ cache'[k].age = Older(cache[k].age)
        /\ cache'[k].storedFor = Older(cache[k].storedFor)
        /\ cache'[k].survived = cache[k].survived
        /\ cache'[k].present = cache[k].present
  <2> TAKE k \in Cached
  <2>1. cache'[k] = [cache[k] EXCEPT !.storedFor = Older(cache[k].storedFor),
                                     !.age = Older(cache[k].age)]
    BY <1>1, <1>2
  <2>2. cache[k].age \in Ages /\ cache[k].storedFor \in Ages
    BY <1>2 DEF Entry
  <2>3. Older(cache[k].age) \in Ages /\ Older(cache[k].storedFor) \in Ages
    BY <2>2, AgesGrowTogether
  <2> QED
    BY <1>2, <2>1, <2>3 DEF Entry
<1>4. Cached' = Cached
  BY <1>1, <1>3, NoneIsNull DEF Cached
<1>5. \A r \in Request :
        /\ op'[r] \in Op
        /\ op'[r].pc = op[r].pc /\ op'[r].key = op[r].key
        /\ op'[r].transport = op[r].transport /\ op'[r].left = op[r].left
        /\ op'[r].age <= op'[r].elapsed
  <2> TAKE r \in Request
  <2>1. op[r] \in Op /\ op[r].age \in Ages /\ op[r].elapsed \in 0..Timeout
    BY DEF IInv, Types, Op
  <2>2. op[r].age <= op[r].elapsed
    BY DEF IInv, Young
  <2>3. Older(op[r].age) \in Ages /\ Older(op[r].age) <= op[r].age + 1
    BY <2>1, AgesGrowTogether
  <2>4. Fetching(r) => op[r].elapsed + 1 \in 0..Timeout
    <3>1. Fetching(r) => op[r].elapsed < Timeout
      BY <1>1
    <3> QED
      BY <2>1, <3>1, TimesAreNat
  <2>5. op[r].age <= op[r].elapsed + 1 /\ Older(op[r].age) <= op[r].elapsed + 1
    BY <2>1, <2>2, <2>3, TimesAreNat DEF Ages
  <2>6. CASE op[r].pc = "body"
    <3>1. op'[r] = [op[r] EXCEPT !.elapsed = op[r].elapsed + 1, !.age = Older(op[r].age)]
      BY <1>1, <2>6
    <3> QED
      BY <2>1, <2>3, <2>4, <2>5, <2>6, <3>1 DEF Op, Fetching
  <2>7. CASE op[r].pc # "body" /\ Fetching(r)
    <3>1. op'[r] = [op[r] EXCEPT !.elapsed = op[r].elapsed + 1]
      BY <1>1, <2>7
    <3> QED
      BY <2>1, <2>4, <2>5, <2>7, <3>1 DEF Op
  <2>8. CASE op[r].pc # "body" /\ ~Fetching(r)
    BY <1>1, <2>1, <2>2, <2>8
  <2> QED
    BY <2>6, <2>7, <2>8
<1>6. Types'
  <2>1. cache' \in [Key -> Entry \cup {None}]
    BY <1>1, <1>3 DEF Tick
  <2>2. op' \in [Request -> Op]
    BY <1>5 DEF Tick
  <2> QED
    BY <1>1, <2>1, <2>2 DEF IInv, Types
<1>7. Ordered'
  BY <1>1, <1>4 DEF IInv, Ordered
<1>8. Young'
  BY <1>5 DEF Young
<1>9. Connected'
  BY <1>1, <1>5 DEF IInv, Connected, Fetching, BundleOf
<1>10. Aged'
  <2> SUFFICES ASSUME NEW k \in Cached
               PROVE  cache'[k].age <= cache'[k].storedFor + Timeout
    BY <1>4 DEF Aged
  <2>1. cache[k].age \in Ages /\ cache[k].storedFor \in Ages
    BY <1>2 DEF Entry
  <2>2. cache[k].age <= cache[k].storedFor + Timeout
    BY DEF IInv, Aged
  <2> QED
    BY <1>3, <2>1, <2>2, AgesGrowTogether
<1>11. StillToGo'
  <2>1. \A k \in Cached : cache[k].present \subseteq Request
    BY <1>2 DEF Entry
  <2> QED
    BY <1>3, <1>4, <1>5, <2>1 DEF IInv, StillToGo
<1> QED
  BY <1>6, <1>7, <1>8, <1>9, <1>10, <1>11 DEF IInv

LEMMA RestartStep ==
  ASSUME IInv, Restart
  PROVE  IInv'
<1>1. Init'
  BY DEF Restart, Init
<1> QED
  BY <1>1, InitStep, PTL

-----------------------------------------------------------------------------
(* Theorems.                                                               *)

LEMMA NextStep == IInv /\ [Next]_vars => IInv'
<1> SUFFICES ASSUME IInv, [Next]_vars PROVE IInv'
  OBVIOUS
<1>1. CASE UNCHANGED vars
  BY <1>1 DEF vars, IInv, Types, Ordered, Young, Aged, StillToGo, Connected,
              Cached, Fetching, BundleOf
<1>2. CASE \E k \in Key : Hit(k)
  BY <1>2, HitStep
<1>3. CASE \E r \in Request, k \in Key : Miss(r, k) \/ RemoveKey(r, k)
  BY <1>3, MissStep, RemoveKeyStep
<1>4. ASSUME NEW r \in Request,
             \/ LoadTransport(r) \/ BuildTransport(r) \/ LoadOrStoreTransport(r)
             \/ Upstream(r) \/ Store(r) \/ FetchFails(r) \/ EndRefresh(r)
      PROVE  IInv'
  BY <1>4, LoadTransportStep, BuildTransportStep, LoadOrStoreTransportStep,
     UpstreamStep, StoreStep, FetchFailsStep, EndRefreshStep
<1>5. CASE \E r \in Request, c \in Cluster, u \in User : StartRefresh(r, c, u)
  BY <1>5, StartRefreshStep
<1>6. CASE Tick
  BY <1>6, TickStep
<1>7. CASE Restart
  BY <1>7, RestartStep
<1> QED
  BY <1>1, <1>2, <1>3, <1>4, <1>5, <1>6, <1>7 DEF Next

LEMMA Invariance == Spec => []IInv
BY InitStep, NextStep, PTL DEF Spec

(* The variables keep their types; in particular the cache never holds     *)
(* more entries than its capacity, and its entries are in one order.       *)
THEOREM TypeCorrect == Spec => []TypeOK
<1>1. IInv => TypeOK
  BY DEF IInv, Types, Ordered, TypeOK
<1> QED
  BY <1>1, Invariance, PTL

(* No served document left its cluster longer ago than the TTL and the     *)
(* timeout of a fetch.                                                     *)
THEOREM StalenessIsBounded == Spec => []BoundedStaleness
<1>1. IInv => BoundedStaleness
  <2> SUFFICES ASSUME IInv, NEW k \in Key, Servable(k)
               PROVE  cache[k].age <= TTL + Timeout
    BY DEF BoundedStaleness
  <2>1. k \in Cached /\ cache[k].storedFor < TTL
    BY DEF Servable
  <2>2. cache[k].age \in Ages /\ cache[k].storedFor \in Ages
    BY <2>1 DEF IInv, Types, Cached, Entry
  <2>3. cache[k].age <= cache[k].storedFor + Timeout
    BY <2>1 DEF IInv, Aged
  <2> QED
    BY <2>1, <2>2, <2>3, TimesAreNat DEF Ages
<1> QED
  BY <1>1, Invariance, PTL

(* What was cached when a refresh began is gone when it has answered,      *)
(* whatever other requests do during its loop.                             *)
THEOREM RefreshIsEffective == Spec => []RefreshTakesEffect
<1>1. IInv => RefreshTakesEffect
  BY DEF IInv, StillToGo, RefreshTakesEffect
<1> QED
  BY <1>1, Invariance, PTL

(* Requests to clusters with one CA bundle fetch over one transport.       *)
THEOREM OneTransport == Spec => []TransportsAreShared
<1>1. IInv => TransportsAreShared
  BY DEF IInv, Connected, TransportsAreShared
<1> QED
  BY <1>1, Invariance, PTL
=============================================================================
