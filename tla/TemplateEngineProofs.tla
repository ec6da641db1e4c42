------------------------- MODULE TemplateEngineProofs -------------------------
(* Theorems of TemplateEngine, for any keys, any resources and names, any    *)
(* number of fields and any paths that may be filled in.  What is known of a *)
(* document is said of paths: one that neither is under nor above the path   *)
(* that is set keeps its node, whichever setter is used.                     *)
EXTENDS TemplateEngine, TLAPS

Path == Seq(Key \cup Nat)

-----------------------------------------------------------------------------
(* Prefixes.                                                                 *)
LEMMA SamePath ==
  ASSUME NEW p \in Path, NEW q \in Path, Len(p) = Len(q), \A i \in 1..Len(p) : p[i] = q[i]
  PROVE  p = q
BY DEF Path

LEMMA UpToIs ==
  ASSUME NEW p \in Path, NEW k \in 0..Len(p)
  PROVE  /\ UpTo(p, k) \in Path /\ Len(UpTo(p, k)) = k
         /\ \A i \in 1..k : UpTo(p, k)[i] = p[i]
BY DEF UpTo, Path

LEMMA PrefixIs ==
  ASSUME NEW p \in Path, NEW q \in Path
  PROVE  IsPrefix(p, q) <=> Len(p) <= Len(q) /\ \A i \in 1..Len(p) : p[i] = q[i]
<1>1. UpTo(p, Len(p)) = p
  BY SamePath, UpToIs DEF Path
<1>2. ASSUME Len(p) <= Len(q)
      PROVE  UpTo(p, Len(p)) = UpTo(q, Len(p)) <=> \A i \in 1..Len(p) : p[i] = q[i]
  <2>1. Len(p) \in Nat /\ Len(q) \in Nat
    BY DEF Path
  <2>2. /\ UpTo(q, Len(p)) \in Path /\ Len(UpTo(q, Len(p))) = Len(p)
        /\ \A i \in 1..Len(p) : UpTo(q, Len(p))[i] = q[i]
    BY <1>2, <2>1, UpToIs
  <2>3. QED
    BY <1>1, <2>1, <2>2, SamePath
<1>3. QED
  BY <1>2 DEF IsPrefix, UpTo

LEMMA AboveIs ==
  ASSUME NEW p \in Path, NEW q \in Path
  PROVE  q \in Above(p) <=> IsStrictPrefix(q, p)
<1>1. Len(p) \in Nat /\ Len(q) \in Nat
  BY DEF Path
<1>2. ASSUME q \in Above(p) PROVE IsStrictPrefix(q, p)
  <2>1. PICK k \in 0..Len(p) - 1 : q = UpTo(p, k)
    BY <1>2 DEF Above
  <2>2. Len(q) = k /\ \A i \in 1..k : q[i] = p[i]
    BY <1>1, <2>1, UpToIs
  <2>3. QED
    BY <1>1, <2>2, PrefixIs DEF IsStrictPrefix
<1>3. ASSUME IsStrictPrefix(q, p) PROVE q \in Above(p)
  <2>1. Len(q) <= Len(p) /\ \A i \in 1..Len(q) : q[i] = p[i]
    BY <1>3, PrefixIs DEF IsStrictPrefix
  <2>2. Len(q) # Len(p)
    BY <1>3, <2>1, SamePath DEF IsStrictPrefix
  <2>3. q = UpTo(p, Len(q))
    BY <1>1, <2>1, UpToIs, SamePath
  <2>4. QED
    BY <1>1, <2>1, <2>2, <2>3 DEF Above
<1>4. QED
  BY <1>2, <1>3

(* Neither is on the way to the other.                                       *)
Apart(p, q) == ~IsPrefix(p, q) /\ ~IsPrefix(q, p)

-----------------------------------------------------------------------------
(* What the setters do to a document.                                        *)
Paths(doc) == DOMAIN doc \subseteq Path

LEMMA AboveArePaths == \A p \in Path : Above(p) \subseteq Path
BY UpToIs DEF Above, Path

LEMMA PutIs ==
  ASSUME NEW doc, Paths(doc), NEW p \in Path, NEW v, NEW e, e = Put(doc, p, v)
  PROVE  /\ Paths(e) /\ e[p] = v
         /\ \A q : q \in DOMAIN e <=>
                    q = p \/ q \in Above(p) \/ (q \in DOMAIN doc /\ ~IsStrictPrefix(p, q))
         /\ \A q \in Above(p) : e[q] = Kind(p[Len(q) + 1])
         /\ \A q \in DOMAIN doc :
              ~IsStrictPrefix(p, q) /\ q # p /\ q \notin Above(p) => e[q] = doc[q]
<1>1. p \notin Above(p)
  BY AboveIs DEF IsStrictPrefix
<1>2. QED
  BY <1>1, AboveArePaths DEF Put, Paths

(* Where e agrees with doc but for what is not apart from p.                 *)
SameApart(doc, e, p) ==
  \A q \in Path : Apart(p, q) =>
    (q \in DOMAIN e <=> q \in DOMAIN doc) /\ (q \in DOMAIN doc => e[q] = doc[q])

(* Apart from the path that is set nothing changes.                          *)
LEMMA PutAside ==
  ASSUME NEW doc, Paths(doc), NEW p \in Path, NEW v, NEW e, e = Put(doc, p, v)
  PROVE  SameApart(doc, e, p)
<1>1. SUFFICES ASSUME NEW q \in Path, Apart(p, q)
               PROVE  /\ q \in DOMAIN e <=> q \in DOMAIN doc
                      /\ q \in DOMAIN doc => e[q] = doc[q]
  BY DEF SameApart
<1>2. ~IsStrictPrefix(p, q) /\ q \notin Above(p) /\ q # p
  BY <1>1, AboveIs, PrefixIs DEF IsStrictPrefix, Apart
<1>3. QED
  BY <1>2, PutIs

LEMMA SlotIs ==
  ASSUME NEW p \in Path, NEW q
  PROVE  q \in NewSlots(p) <=>
           \E k \in DOMAIN p : \E j \in 0..(p[k] - 1) :
             p[k] \notin Key /\ q = Append(UpTo(p, k - 1), j)
BY DEF NewSlots

LEMMA SlotsArePaths ==
  ASSUME NEW p \in Path, NEW q \in NewSlots(p) PROVE q \in Path
<1>1. PICK k \in DOMAIN p :
        p[k] \notin Key /\ \E j \in 0..(p[k] - 1) : q = Append(UpTo(p, k - 1), j)
  BY SlotIs
<1>6. PICK j \in 0..(p[k] - 1) : q = Append(UpTo(p, k - 1), j)
  BY <1>1
<1>2. p[k] \in Nat /\ k - 1 \in 0..Len(p)
  BY <1>1 DEF Path
<1>3. UpTo(p, k - 1) \in Path
  BY <1>2, UpToIs
<1>4. j \in Key \cup Nat
  BY <1>2
<1>5. QED
  BY <1>3, <1>4, <1>6 DEF Path

LEMMA GrowIs ==
  ASSUME NEW doc, Paths(doc), NEW p \in Path, NEW e, e = Grow(doc, p)
  PROVE  /\ Paths(e) /\ \A q : q \in DOMAIN e <=> q \in DOMAIN doc \/ q \in NewSlots(p)
         /\ \A q \in DOMAIN doc : e[q] = doc[q]
         /\ \A q \in NewSlots(p) \ DOMAIN doc :
              e[q] = IF Len(q) = Len(p) THEN "nil" ELSE Kind(p[Len(q) + 1])
BY SlotsArePaths DEF Grow, Paths

LEMMA SetIs ==
  ASSUME NEW doc, Paths(doc), NEW p \in Path, NEW v, NEW d, d = SetJSONPathAbsolute(doc, p, v)
  PROVE  /\ Paths(d) /\ p \in DOMAIN d /\ d[p] = v
         /\ \A q \in DOMAIN doc : Apart(p, q) => q \in DOMAIN d /\ d[q] = doc[q]
<1>1. PICK e : e = Put(doc, p, v)
  OBVIOUS
<1>2. Paths(e) /\ p \in DOMAIN e /\ e[p] = v
  BY <1>1, PutIs
<1>3. \A q \in DOMAIN doc : Apart(p, q) => q \in DOMAIN e /\ e[q] = doc[q]
  <2>1. SameApart(doc, e, p)
    BY <1>1, PutAside
  <2>2. QED
    BY <2>1 DEF Paths, SameApart
<1>4. d = Grow(e, p)
  BY <1>1 DEF SetJSONPathAbsolute
<1>5. QED
  BY <1>2, <1>3, <1>4, GrowIs

LEMMA DifferAt ==
  ASSUME NEW p \in Path, NEW q \in Path, NEW i \in Nat \ {0}, i <= Len(p), i <= Len(q), p[i] # q[i]
  PROVE  Apart(p, q)
BY PrefixIs DEF Apart, Path

LEMMA ApartBelow ==
  ASSUME NEW p \in Path, NEW q \in Path, NEW r \in Path, IsPrefix(p, r), Apart(p, q)
  PROVE  Apart(r, q)
<1>1. Len(p) \in Nat /\ Len(q) \in Nat /\ Len(r) \in Nat
  BY DEF Path
<1>2. Len(p) <= Len(r) /\ \A i \in 1..Len(p) : p[i] = r[i]
  BY PrefixIs
<1>3. ~IsPrefix(r, q)
  BY <1>1, <1>2, PrefixIs DEF Apart
<1>4. ASSUME IsPrefix(q, r) PROVE FALSE
  <2>1. Len(q) <= Len(r) /\ \A i \in 1..Len(q) : q[i] = r[i]
    BY <1>4, PrefixIs
  <2>2. CASE Len(q) <= Len(p)
    BY <1>1, <1>2, <2>1, <2>2, PrefixIs DEF Apart
  <2>3. CASE Len(p) <= Len(q)
    BY <1>1, <1>2, <2>1, <2>3, PrefixIs DEF Apart
  <2>4. QED
    BY <1>1, <2>2, <2>3
<1>5. QED
  BY <1>3, <1>4 DEF Apart

-----------------------------------------------------------------------------
(* The labels.                                                               *)
LEMMA Ensured ==
  ASSUME NEW doc, Paths(doc), NEW p \in Path, NEW e, e = EnsureMap(doc, p)
  PROVE  Paths(e) /\ IsMap(e, p) /\ SameApart(doc, e, p)
<1>1. CASE e = doc /\ p \in DOMAIN doc /\ doc[p] = "map"
  BY <1>1 DEF IsMap, SameApart
<1>2. CASE e = Put(doc, p, "map")
  BY <1>2, PutIs, PutAside DEF IsMap
<1>3. QED
  BY <1>1, <1>2 DEF EnsureMap

LEMMA SameBelow ==
  ASSUME NEW p \in Path, NEW r \in Path, IsPrefix(p, r), NEW d, NEW e, SameApart(d, e, r)
  PROVE  SameApart(d, e, p)
BY ApartBelow DEF SameApart

LEMMA SameTrans ==
  ASSUME NEW p, NEW c, NEW d, NEW e, SameApart(c, d, p), SameApart(d, e, p)
  PROVE  SameApart(c, e, p)
BY DEF SameApart

LEMMA MetaPaths ==
  ASSUME NEW m \in Path
  PROVE  /\ Append(m, labels) \in Path /\ m \o <<labels, release>> \in Path
         /\ IsPrefix(m, Append(m, labels)) /\ IsPrefix(m, m \o <<labels, release>>)
<1>1. Append(m, labels) \in Path /\ m \o <<labels, release>> \in Path
  BY KeysAreKeys DEF Path
<1>2. /\ Len(m) <= Len(Append(m, labels)) /\ \A i \in 1..Len(m) : m[i] = Append(m, labels)[i]
      /\ Len(m) <= Len(m \o <<labels, release>>)
      /\ \A i \in 1..Len(m) : m[i] = (m \o <<labels, release>>)[i]
  BY DEF Path
<1>3. QED
  BY <1>1, <1>2, PrefixIs

(* The path of the label below some metadata.                                *)
Label(m) == m \o <<labels, release>>
Owned(doc, p) == p \in DOMAIN doc /\ doc[p] = "own"

LEMMA Stamped ==
  ASSUME NEW doc, Paths(doc), NEW m \in Path, NEW e, e = StampLabelsOnto(doc, m),
         NEW r, r = Label(m)
  PROVE  Paths(e) /\ Owned(e, r) /\ SameApart(doc, e, m)
<1>1. PICK l : l = Append(m, labels)
  OBVIOUS
<1>2. l \in Path /\ r \in Path /\ IsPrefix(m, l) /\ IsPrefix(m, r)
  BY <1>1, MetaPaths DEF Label
<1>3. PICK d1 : d1 = EnsureMap(doc, m)
  OBVIOUS
<1>4. PICK d2 : d2 = EnsureMap(d1, l)
  OBVIOUS
<1>5. e = Put(d2, r, "own")
  BY <1>1, <1>3, <1>4 DEF StampLabelsOnto, WriteLabel, Label
<1>6. Paths(d1) /\ SameApart(doc, d1, m)
  BY <1>3, Ensured
<1>7. Paths(d2) /\ SameApart(d1, d2, l)
  BY <1>2, <1>4, <1>6, Ensured
<1>8. Paths(e) /\ Owned(e, r) /\ SameApart(d2, e, r)
  BY <1>2, <1>5, <1>7, PutIs, PutAside DEF Owned
<1>9. SameApart(d1, d2, m) /\ SameApart(d2, e, m)
  BY <1>2, <1>7, <1>8, SameBelow
<1>10. QED
  BY <1>6, <1>8, <1>9, SameTrans

-----------------------------------------------------------------------------
(* A document is a tree (every node's ancestors are containers of the right  *)
(* kind) and its arrays have no gaps.                                        *)
Tree(doc) ==
  /\ Paths(doc) /\ IsMap(doc, <<>>)
  /\ \A q \in DOMAIN doc :
       /\ doc[q] \in Scalar \cup Container
       /\ \A k \in DOMAIN q : UpTo(q, k - 1) \in DOMAIN doc /\ doc[UpTo(q, k - 1)] = Kind(q[k])

Filled(q, D) ==
  \A k \in DOMAIN q : q[k] \notin Key /\ q[k] > 0 => Append(UpTo(q, k - 1), q[k] - 1) \in D
Dense(doc) == \A q \in DOMAIN doc : Filled(q, DOMAIN doc)

LEMMA DocIs == \A doc : IsDoc(doc) <=> Tree(doc) /\ Dense(doc)
BY DEF IsDoc, Tree, Dense, Filled, Paths, Path, IsMap

(* What is on the way to p can hold p.                                       *)
Fits(doc, p) ==
  \A a \in Above(p) \cap DOMAIN doc :
    doc[a] = Kind(p[Len(a) + 1]) \/ (a # <<>> /\ doc[a] = "nil")

LEMMA StepUp ==
  ASSUME NEW q \in Path, NEW k \in DOMAIN q
  PROVE  /\ k \in Nat \ {0} /\ k <= Len(q) /\ k - 1 \in 0..Len(q)
         /\ UpTo(q, k - 1) \in Path /\ Len(UpTo(q, k - 1)) = k - 1
         /\ UpTo(q, k - 1) \in Above(q) /\ IsStrictPrefix(UpTo(q, k - 1), q)
<1>1. k \in Nat \ {0} /\ k <= Len(q) /\ k - 1 \in 0..Len(q) - 1 /\ k - 1 \in 0..Len(q)
  BY DEF Path
<1>2. UpTo(q, k - 1) \in Path /\ Len(UpTo(q, k - 1)) = k - 1
  BY <1>1, UpToIs
<1>3. UpTo(q, k - 1) \in Above(q)
  BY <1>1 DEF Above
<1>4. QED
  BY <1>1, <1>2, <1>3, AboveIs

LEMMA SameAbove ==
  ASSUME NEW p \in Path, NEW q \in Path, NEW k \in DOMAIN q, IsPrefix(q, p)
  PROVE  k \in DOMAIN p /\ q[k] = p[k] /\ UpTo(q, k - 1) = UpTo(p, k - 1)
<1>1. Len(q) \in Nat /\ Len(p) \in Nat /\ Len(q) <= Len(p) /\ \A i \in 1..Len(q) : q[i] = p[i]
  BY PrefixIs DEF Path
<1>2. k \in 1..Len(q) /\ k \in DOMAIN p
  BY <1>1 DEF Path
<1>3. /\ UpTo(q, k - 1) \in Path /\ Len(UpTo(q, k - 1)) = k - 1
      /\ UpTo(p, k - 1) \in Path /\ Len(UpTo(p, k - 1)) = k - 1
  BY <1>2, StepUp
<1>4. \A i \in 1..k - 1 : UpTo(q, k - 1)[i] = q[i] /\ UpTo(p, k - 1)[i] = p[i]
  BY <1>1, <1>2, UpToIs
<1>5. UpTo(q, k - 1) = UpTo(p, k - 1)
  BY <1>1, <1>2, <1>3, <1>4, SamePath
<1>6. QED
  BY <1>1, <1>2, <1>5

LEMMA StrictBelow ==
  ASSUME NEW p \in Path, NEW q \in Path, NEW k \in DOMAIN q, IsPrefix(p, UpTo(q, k - 1))
  PROVE  IsStrictPrefix(p, q)
<1>1. k \in Nat \ {0} /\ k <= Len(q) /\ UpTo(q, k - 1) \in Path /\ Len(UpTo(q, k - 1)) = k - 1
  BY StepUp
<1>2. Len(p) \in Nat /\ Len(q) \in Nat
  BY DEF Path
<1>3. Len(p) <= k - 1 /\ \A i \in 1..Len(p) : p[i] = UpTo(q, k - 1)[i]
  BY <1>1, PrefixIs
<1>4. \A i \in 1..k - 1 : UpTo(q, k - 1)[i] = q[i]
  BY StepUp, UpToIs
<1>5. IsPrefix(p, q)
  BY <1>1, <1>2, <1>3, <1>4, PrefixIs
<1>6. QED
  BY <1>1, <1>2, <1>3, <1>5 DEF IsStrictPrefix

LEMMA OnTheWay == \A p, q \in Path : q = p \/ q \in Above(p) => IsPrefix(q, p)
<1>1. SUFFICES ASSUME NEW p \in Path, NEW q \in Path, q = p \/ q \in Above(p)
               PROVE  IsPrefix(q, p)
  OBVIOUS
<1>2. CASE q = p
  BY <1>2, PrefixIs DEF Path
<1>3. CASE q \in Above(p)
  BY <1>3, AboveIs DEF IsStrictPrefix
<1>4. QED
  BY <1>1, <1>2, <1>3

LEMMA PutTree ==
  ASSUME NEW doc, Tree(doc), NEW p \in Path, p # <<>>, Fits(doc, p),
         NEW v \in Scalar \cup Container, NEW e, e = Put(doc, p, v)
  PROVE  Tree(e)
<1>1. Paths(doc)
  BY DEF Tree
<1>2. /\ Paths(e) /\ e[p] = v
      /\ \A q : q \in DOMAIN e <=>
                 q = p \/ q \in Above(p) \/ (q \in DOMAIN doc /\ ~IsStrictPrefix(p, q))
      /\ \A q \in Above(p) : e[q] = Kind(p[Len(q) + 1])
      /\ \A q \in DOMAIN doc :
           ~IsStrictPrefix(p, q) /\ q # p /\ q \notin Above(p) => e[q] = doc[q]
  BY <1>1, PutIs
<1>3. IsMap(e, <<>>)
  <2>1. <<>> \in Path /\ <<>> \in Above(p)
    <3>1. <<>> \in Path /\ Len(<<>>) = 0
      BY DEF Path
    <3>4. Len(p) \in Nat
      BY DEF Path
    <3>5. IsPrefix(<<>>, p)
      BY <3>1, <3>4, PrefixIs
    <3>2. IsStrictPrefix(<<>>, p)
      BY <3>5 DEF IsStrictPrefix
    <3>3. QED
      BY <3>1, <3>2, AboveIs
  <2>2. <<>> \in DOMAIN doc /\ doc[<<>>] = "map"
    BY DEF Tree, IsMap
  <2>3. doc[<<>>] = Kind(p[Len(<<>>) + 1])
    BY <2>1, <2>2 DEF Fits
  <2>4. QED
    BY <1>2, <2>1, <2>2, <2>3 DEF IsMap
<1>4. \A s : Kind(s) \in Container /\ Kind(s) # "nil"
  BY DEF Kind, Container
<1>5. ASSUME NEW q \in DOMAIN e PROVE e[q] \in Scalar \cup Container
  BY <1>2, <1>4 DEF Tree
<1>6. ASSUME NEW q \in DOMAIN e, NEW k \in DOMAIN q
      PROVE  UpTo(q, k - 1) \in DOMAIN e /\ e[UpTo(q, k - 1)] = Kind(q[k])
  <2> DEFINE a == UpTo(q, k - 1)
  <2>1. q \in Path
    BY <1>2 DEF Paths
  <2>2. a \in Path /\ Len(a) = k - 1 /\ k \in Nat
    BY <2>1, StepUp
  <2>3. CASE q = p \/ q \in Above(p)
    <3>1. IsPrefix(q, p)
      BY <2>1, <2>3, OnTheWay
    <3>2. k \in DOMAIN p /\ q[k] = p[k] /\ a = UpTo(p, k - 1)
      BY <2>1, <3>1, SameAbove
    <3>3. a \in Above(p)
      BY <3>2, StepUp
    <3>4. QED
      BY <1>2, <2>2, <3>2, <3>3
  <2>4. CASE q \in DOMAIN doc /\ ~IsStrictPrefix(p, q) /\ q # p /\ q \notin Above(p)
    <3>1. a \in DOMAIN doc /\ doc[a] = Kind(q[k])
      BY <2>4 DEF Tree
    <3>2. a # p /\ ~IsStrictPrefix(p, a)
      <4>1. ~IsPrefix(p, a)
        BY <2>1, <2>4, StrictBelow
      <4>2. QED
        BY <4>1, PrefixIs DEF IsStrictPrefix, Path
    <3>3. a \in DOMAIN e
      BY <1>2, <3>1, <3>2
    <3>4. CASE a \notin Above(p)
      BY <1>2, <3>1, <3>2, <3>3, <3>4
    <3>5. CASE a \in Above(p)
      <4>1. e[a] = Kind(p[Len(a) + 1])
        BY <1>2, <3>5
      <4>2. doc[a] = Kind(p[Len(a) + 1]) \/ doc[a] = "nil"
        BY <3>1, <3>5 DEF Fits
      <4>3. QED
        BY <1>4, <3>1, <3>3, <4>1, <4>2
    <3>6. QED
      BY <3>4, <3>5
  <2>5. QED
    BY <1>2, <2>3, <2>4
<1>7. QED
  BY <1>2, <1>3, <1>5, <1>6 DEF Tree


(* Siblings below an index are kept, so an array only ends earlier or later  *)
(* where p passes through it.                                                *)
LEMMA PutDense ==
  ASSUME NEW doc, Paths(doc), Dense(doc), NEW p \in Path, NEW v, NEW e, e = Put(doc, p, v),
         NEW D, DOMAIN e \subseteq D, Filled(p, D)
  PROVE  \A q \in DOMAIN e : Filled(q, D)
<1>1. /\ Paths(e)
      /\ \A q : q \in DOMAIN e <=>
                 q = p \/ q \in Above(p) \/ (q \in DOMAIN doc /\ ~IsStrictPrefix(p, q))
  BY PutIs
<1>2. SUFFICES ASSUME NEW q \in DOMAIN e, NEW k \in DOMAIN q, q[k] \notin Key, q[k] > 0
               PROVE  Append(UpTo(q, k - 1), q[k] - 1) \in D
  BY DEF Filled
<1>3. q \in Path
  BY <1>1 DEF Paths
<1>4. CASE q = p \/ q \in Above(p)
  <2>1. IsPrefix(q, p)
    BY <1>3, <1>4, OnTheWay
  <2>2. k \in DOMAIN p /\ q[k] = p[k] /\ UpTo(q, k - 1) = UpTo(p, k - 1)
    BY <1>3, <2>1, SameAbove
  <2>3. QED
    BY <1>2, <2>2 DEF Filled
<1>5. CASE q \in DOMAIN doc /\ ~IsStrictPrefix(p, q) /\ q # p /\ q \notin Above(p)
  <2> DEFINE a == UpTo(q, k - 1)
             s == Append(a, q[k] - 1)
  <2>1. s \in DOMAIN doc
    BY <1>2, <1>5 DEF Dense, Filled
  <2>2. s \in Path /\ a \in Path /\ Len(a) = k - 1 /\ k \in Nat
    BY <1>3, <2>1, StepUp DEF Paths
  <2>3. k \in DOMAIN s /\ UpTo(s, k - 1) = a
    <3>1. Len(s) = k /\ k \in DOMAIN s /\ \A i \in 1..k - 1 : s[i] = a[i]
      BY <1>3, <2>2, StepUp DEF Path
    <3>2. k - 1 \in 0..Len(s) /\ Len(UpTo(s, k - 1)) = k - 1 /\ UpTo(s, k - 1) \in Path
      BY <2>2, <3>1, StepUp
    <3>3. \A i \in 1..k - 1 : UpTo(s, k - 1)[i] = s[i]
      BY <2>2, <3>2, UpToIs
    <3>4. QED
      BY <2>2, <3>1, <3>2, <3>3, SamePath
  <2>4. ~IsStrictPrefix(p, s)
    <3>1. SUFFICES ASSUME IsStrictPrefix(p, s) PROVE FALSE
      OBVIOUS
    <3>2. Len(s) = k /\ Len(p) \in Nat
      BY <2>2, <2>3, StepUp DEF Path
    <3>3. Len(p) <= k /\ Len(p) # k /\ \A i \in 1..Len(p) : p[i] = s[i]
      BY <2>2, <3>1, <3>2, PrefixIs, SamePath DEF IsStrictPrefix
    <3>4. \A i \in 1..k - 1 : s[i] = a[i]
      BY <2>2, <2>3, <3>2, UpToIs
    <3>5. IsPrefix(p, a)
      BY <2>2, <3>2, <3>3, <3>4, PrefixIs
    <3>6. QED
      BY <1>3, <1>5, <3>5, StrictBelow
  <2>5. QED
    BY <1>1, <2>1, <2>4
<1>6. QED
  BY <1>1, <1>4, <1>5

(* A slot of the arrays on p: its path is p's as far as the array.           *)
LEMMA SlotPath ==
  ASSUME NEW p \in Path, NEW q \in NewSlots(p)
  PROVE  \E n \in DOMAIN p :
           /\ p[n] \notin Key /\ p[n] \in Nat /\ n \in Nat \ {0} /\ n <= Len(p)
           /\ q \in Path /\ Len(q) = n /\ DOMAIN q = 1..n /\ q = Append(UpTo(p, n - 1), q[n])
           /\ q[n] \in 0..(p[n] - 1) /\ q[n] \notin Key
           /\ \A k \in 1..n : k \in DOMAIN p /\ UpTo(q, k - 1) = UpTo(p, k - 1)
           /\ \A k \in 1..n - 1 : q[k] = p[k]
<1>10. PICK n \in DOMAIN p : \E j \in 0..(p[n] - 1) :
              p[n] \notin Key /\ q = Append(UpTo(p, n - 1), j)
  BY SlotIs
<1>11. PICK j \in 0..(p[n] - 1) : p[n] \notin Key /\ q = Append(UpTo(p, n - 1), j)
  BY <1>10
<1>1. /\ n \in Nat \ {0} /\ n <= Len(p) /\ n - 1 \in 0..Len(p) /\ Len(p) \in Nat
      /\ UpTo(p, n - 1) \in Path /\ Len(UpTo(p, n - 1)) = n - 1 /\ p[n] \in Nat
  BY <1>11, StepUp DEF Path
<1>2. j \in Nat /\ j \notin Key
  BY <1>1, KeysAreKeys
<1>3. q \in Path /\ Len(q) = n /\ q[n] = j /\ \A i \in 1..n - 1 : q[i] = UpTo(p, n - 1)[i]
  BY <1>1, <1>2, <1>11 DEF Path
<1>4. \A i \in 1..n - 1 : q[i] = p[i]
  BY <1>1, <1>3, UpToIs
<1>5. DOMAIN q = 1..n
  BY <1>3 DEF Path
<1>6. ASSUME NEW k \in 1..n PROVE k \in DOMAIN p /\ UpTo(q, k - 1) = UpTo(p, k - 1)
  <2>1. k \in DOMAIN p /\ k \in DOMAIN q /\ k \in Nat
    BY <1>1, <1>5 DEF Path
  <2>2. /\ UpTo(q, k - 1) \in Path /\ Len(UpTo(q, k - 1)) = k - 1 /\ k - 1 \in 0..Len(q)
        /\ UpTo(p, k - 1) \in Path /\ Len(UpTo(p, k - 1)) = k - 1 /\ k - 1 \in 0..Len(p)
    BY <1>3, <2>1, StepUp
  <2>3. \A i \in 1..k - 1 : UpTo(q, k - 1)[i] = q[i] /\ UpTo(p, k - 1)[i] = p[i]
    BY <1>3, <2>2, UpToIs
  <2>4. \A i \in 1..k - 1 : q[i] = p[i]
    BY <1>1, <1>4, <2>1
  <2>5. QED
    BY <2>1, <2>2, <2>3, <2>4, SamePath
<1>7. QED
  BY <1>1, <1>2, <1>3, <1>4, <1>5, <1>6, <1>11

LEMMA GrowTree ==
  ASSUME NEW doc, Tree(doc), NEW p \in Path,
         \A k \in DOMAIN p : UpTo(p, k - 1) \in DOMAIN doc /\ doc[UpTo(p, k - 1)] = Kind(p[k]),
         NEW e, e = Grow(doc, p)
  PROVE  Tree(e)
<1>1. /\ Paths(e) /\ \A q : q \in DOMAIN e <=> q \in DOMAIN doc \/ q \in NewSlots(p)
      /\ \A q \in DOMAIN doc : e[q] = doc[q]
      /\ \A q \in NewSlots(p) \ DOMAIN doc :
           e[q] = IF Len(q) = Len(p) THEN "nil" ELSE Kind(p[Len(q) + 1])
  BY GrowIs DEF Tree
<1>2. IsMap(e, <<>>)
  BY <1>1 DEF Tree, IsMap
<1>3. ASSUME NEW q \in DOMAIN e PROVE e[q] \in Scalar \cup Container
  BY <1>1 DEF Tree, Kind, Container
<1>4. ASSUME NEW q \in DOMAIN e, NEW k \in DOMAIN q
      PROVE  UpTo(q, k - 1) \in DOMAIN e /\ e[UpTo(q, k - 1)] = Kind(q[k])
  <2>1. CASE q \in DOMAIN doc
    BY <1>1, <2>1 DEF Tree
  <2>2. CASE q \in NewSlots(p)
    <3>1. PICK n \in DOMAIN p :
            /\ p[n] \notin Key /\ n \in Nat \ {0} /\ DOMAIN q = 1..n /\ q[n] \notin Key
            /\ \A i \in 1..n : i \in DOMAIN p /\ UpTo(q, i - 1) = UpTo(p, i - 1)
            /\ \A i \in 1..n - 1 : q[i] = p[i]
      BY <2>2, SlotPath
    <3>4. Kind(q[k]) = Kind(p[k])
      <4>1. CASE k = n
        BY <3>1, <4>1 DEF Kind
      <4>2. CASE k # n
        BY <3>1, <4>2
      <4>3. QED
        BY <4>1, <4>2
    <3>5. QED
      BY <1>1, <3>1, <3>4
  <2>3. QED
    BY <1>1, <2>1, <2>2
<1>5. QED
  BY <1>1, <1>2, <1>3, <1>4 DEF Tree

LEMMA SlotsFill ==
  ASSUME NEW p \in Path, NEW D, NewSlots(p) \subseteq D
  PROVE  Filled(p, D) /\ \A q \in NewSlots(p) : Filled(q, D)
<1>1. ASSUME NEW n \in DOMAIN p, p[n] \notin Key, NEW j \in 0..(p[n] - 1)
      PROVE  Append(UpTo(p, n - 1), j) \in D
  BY <1>1, SlotIs
<1>2. Filled(p, D)
  <2>1. SUFFICES ASSUME NEW k \in DOMAIN p, p[k] \notin Key, p[k] > 0
                 PROVE  Append(UpTo(p, k - 1), p[k] - 1) \in D
    BY DEF Filled
  <2>2. p[k] - 1 \in 0..(p[k] - 1)
    BY <2>1 DEF Path
  <2>3. QED
    BY <1>1, <2>1, <2>2
<1>3. ASSUME NEW q \in NewSlots(p) PROVE Filled(q, D)
  <2>1. PICK n \in DOMAIN p :
          /\ p[n] \notin Key /\ p[n] \in Nat /\ n \in Nat \ {0} /\ DOMAIN q = 1..n
          /\ q = Append(UpTo(p, n - 1), q[n]) /\ q[n] \in 0..(p[n] - 1)
          /\ \A i \in 1..n : i \in DOMAIN p /\ UpTo(q, i - 1) = UpTo(p, i - 1)
          /\ \A i \in 1..n - 1 : q[i] = p[i]
    BY SlotPath
  <2>2. UpTo(q, n - 1) = UpTo(p, n - 1)
    BY <2>1
  <2>4. SUFFICES ASSUME NEW k \in DOMAIN q, q[k] \notin Key, q[k] > 0
                 PROVE  Append(UpTo(q, k - 1), q[k] - 1) \in D
    BY DEF Filled
  <2>5. CASE k = n
    <3>1. q[k] - 1 \in 0..(p[n] - 1)
      BY <2>1, <2>4, <2>5
    <3>2. QED
      BY <1>1, <2>1, <2>2, <2>5, <3>1
  <2>6. CASE k # n
    <3>1. k \in DOMAIN p /\ q[k] = p[k] /\ UpTo(q, k - 1) = UpTo(p, k - 1)
      BY <2>1, <2>6
    <3>2. QED
      BY <1>2, <2>4, <3>1 DEF Filled
  <2>7. QED
    BY <2>5, <2>6
<1>4. QED
  BY <1>2, <1>3


(* Every setter makes a document of a document.                              *)
LEMMA UpToAbove ==
  ASSUME NEW p \in Path, NEW a \in Above(p)
  PROVE  \E k \in DOMAIN p : /\ a = UpTo(p, k - 1) /\ Len(a) = k - 1 /\ Len(a) + 1 = k
                             /\ k - 1 \in 0..Len(p) - 1
<1>1. PICK k \in 0..Len(p) - 1 : a = UpTo(p, k)
  BY DEF Above
<1>2. k + 1 \in DOMAIN p /\ (k + 1) - 1 = k /\ k \in 0..Len(p)
  BY DEF Path
<1>3. Len(a) = k
  BY <1>1, <1>2, UpToIs
<1>4. QED
  BY <1>1, <1>2, <1>3

LEMMA SetDoc ==
  ASSUME NEW doc, IsDoc(doc), NEW p \in Path, p # <<>>, SettableAbsolute(doc, p),
         NEW v \in Scalar, NEW d, d = SetJSONPathAbsolute(doc, p, v)
  PROVE  IsDoc(d)
<1>1. Tree(doc) /\ Dense(doc) /\ Paths(doc)
  BY DocIs DEF Tree
<1>2. Fits(doc, p)
  <2>1. SUFFICES ASSUME NEW a \in Above(p), a \in DOMAIN doc
                 PROVE  doc[a] = Kind(p[Len(a) + 1]) \/ (a # <<>> /\ doc[a] = "nil")
    BY DEF Fits
  <2>2. PICK k \in DOMAIN p : a = UpTo(p, k - 1) /\ Len(a) = k - 1 /\ k - 1 \in 0..Len(p) - 1
    BY UpToAbove
  <2>3. doc[a] = Kind(p[(k - 1) + 1]) \/ (k - 1 > 0 /\ doc[a] = "nil")
    BY <2>1, <2>2 DEF SettableAbsolute
  <2>4. k - 1 > 0 => a # <<>>
    BY <2>2
  <2>5. QED
    BY <2>2, <2>3, <2>4
<1>3. PICK e : e = Put(doc, p, v)
  OBVIOUS
<1>4. d = Grow(e, p)
  BY <1>3 DEF SetJSONPathAbsolute
<1>5. Tree(e)
  BY <1>1, <1>2, <1>3, PutTree
<1>6. \A k \in DOMAIN p : UpTo(p, k - 1) \in DOMAIN e /\ e[UpTo(p, k - 1)] = Kind(p[k])
  <2>1. ASSUME NEW k \in DOMAIN p
        PROVE  UpTo(p, k - 1) \in Above(p) /\ Len(UpTo(p, k - 1)) + 1 = k
    BY StepUp
  <2>2. QED
    BY <1>1, <1>3, <2>1, PutIs
<1>7. Tree(d)
  BY <1>4, <1>5, <1>6, GrowTree
<1>8. DOMAIN e \subseteq DOMAIN d /\ NewSlots(p) \subseteq DOMAIN d
      /\ \A q \in DOMAIN d : q \in DOMAIN e \/ q \in NewSlots(p)
  BY <1>4, <1>5, GrowIs DEF Tree
<1>9. Filled(p, DOMAIN d) /\ \A q \in NewSlots(p) : Filled(q, DOMAIN d)
  BY <1>8, SlotsFill
<1>10. \A q \in DOMAIN e : Filled(q, DOMAIN d)
  BY <1>1, <1>3, <1>8, <1>9, PutDense
<1>11. QED
  BY <1>7, <1>8, <1>9, <1>10, DocIs DEF Dense

LEMMA PutDoc ==
  ASSUME NEW doc, IsDoc(doc), NEW p \in Path, p # <<>>, Settable(doc, p),
         NEW v \in Scalar \cup Container, NEW e, e = Put(doc, p, v)
  PROVE  IsDoc(e)
<1>1. Tree(doc) /\ Dense(doc) /\ Paths(doc)
  BY DocIs DEF Tree
<1>2. ASSUME NEW k \in DOMAIN p, UpTo(p, k - 1) \in DOMAIN doc
      PROVE  /\ doc[UpTo(p, k - 1)] = Kind(p[k])
             /\ p[k] \notin Key => UpTo(p, k) \in DOMAIN doc
  <2>1. k - 1 \in 0..Len(p) - 1 /\ (k - 1) + 1 = k
    BY DEF Path
  <2>2. QED
    BY <1>2, <2>1 DEF Settable
<1>3. ASSUME NEW k \in DOMAIN p, UpTo(p, k - 1) \notin DOMAIN doc PROVE p[k] \in Key
  <2>1. k - 1 \in 0..Len(p) - 1 /\ (k - 1) + 1 = k
    BY DEF Path
  <2>2. QED
    BY <1>3, <2>1 DEF Settable
<1>4. Fits(doc, p)
  <2>1. SUFFICES ASSUME NEW a \in Above(p), a \in DOMAIN doc
                 PROVE  doc[a] = Kind(p[Len(a) + 1])
    BY DEF Fits
  <2>2. PICK k \in DOMAIN p : a = UpTo(p, k - 1) /\ Len(a) + 1 = k
    BY UpToAbove
  <2>3. QED
    BY <1>2, <2>1, <2>2
<1>5. Tree(e)
  BY <1>1, <1>4, PutTree
<1>6. Filled(p, DOMAIN e)
  <2>1. SUFFICES ASSUME NEW k \in DOMAIN p, p[k] \notin Key, p[k] > 0
                 PROVE  Append(UpTo(p, k - 1), p[k] - 1) \in DOMAIN e
    BY DEF Filled
  <2> DEFINE u == UpTo(p, k)
             s == Append(UpTo(p, k - 1), p[k] - 1)
  <2>2. u \in DOMAIN doc
    BY <1>2, <1>3, <2>1
  <2>3. k \in 0..Len(p) /\ k \in Nat \ {0} /\ p[k] - 1 \in Nat
    BY <2>1 DEF Path
  <2>4. u \in Path /\ Len(u) = k /\ \A i \in 1..k : u[i] = p[i]
    BY <2>3, UpToIs
  <2>5. IsPrefix(u, p) /\ k \in DOMAIN u
    BY <2>3, <2>4, PrefixIs DEF Path
  <2>6. u[k] = p[k] /\ UpTo(u, k - 1) = UpTo(p, k - 1)
    BY <2>4, <2>5, SameAbove
  <2>7. s \in DOMAIN doc
    BY <1>1, <2>1, <2>2, <2>5, <2>6 DEF Dense, Filled
  <2>8. UpTo(p, k - 1) \in Path /\ Len(UpTo(p, k - 1)) = k - 1
    BY StepUp
  <2>9. s \in Path /\ Len(s) = k
    BY <2>3, <2>8 DEF Path
  <2>10. ~IsStrictPrefix(p, s)
    <3>1. SUFFICES ASSUME IsStrictPrefix(p, s) PROVE FALSE
      OBVIOUS
    <3>5. IsPrefix(p, s)
      BY <3>1 DEF IsStrictPrefix
    <3>6. Len(p) \in Nat
      BY DEF Path
    <3>2. Len(p) \in Nat /\ Len(p) <= k /\ \A i \in 1..Len(p) : p[i] = s[i]
      BY <2>9, <3>5, <3>6, PrefixIs
    <3>3. Len(p) = k
      BY <2>3, <3>2
    <3>4. QED
      BY <2>9, <3>1, <3>2, <3>3, SamePath DEF IsStrictPrefix
  <2>11. QED
    BY <1>1, <2>7, <2>10, PutIs
<1>7. Dense(e)
  BY <1>1, <1>6, PutDense DEF Dense
<1>8. QED
  BY <1>5, <1>7, DocIs

LEMMA BelowMap ==
  ASSUME NEW doc, IsDoc(doc), NEW t \in Path, IsMap(doc, t), NEW k \in Key
  PROVE  Append(t, k) \in Path /\ Append(t, k) # <<>> /\ Settable(doc, Append(t, k))
<1> DEFINE p == Append(t, k)
<1>1. /\ p \in Path /\ Len(p) = Len(t) + 1 /\ p[Len(t) + 1] = k /\ \A i \in 1..Len(t) : p[i] = t[i]
      /\ p # <<>> /\ Len(t) \in Nat /\ DOMAIN t = 1..Len(t)
  BY DEF Path
<1> HIDE DEF p
<1>2. IsPrefix(t, p)
  <2>1. Len(t) <= Len(p)
    BY <1>1
  <2>2. QED
    BY <1>1, <2>1, PrefixIs
<1>3. Tree(doc)
  BY DocIs
<1>4. ASSUME NEW i \in 0..Len(t) PROVE UpTo(p, i) = UpTo(t, i)
  <2>1. i \in 0..Len(p) /\ i \in Nat
    BY <1>1
  <2>2. /\ UpTo(p, i) \in Path /\ Len(UpTo(p, i)) = i /\ \A n \in 1..i : UpTo(p, i)[n] = p[n]
        /\ UpTo(t, i) \in Path /\ Len(UpTo(t, i)) = i /\ \A n \in 1..i : UpTo(t, i)[n] = t[n]
    BY <1>1, <2>1, UpToIs
  <2>3. \A n \in 1..i : p[n] = t[n]
    BY <1>1, <2>1
  <2>4. QED
    BY <2>2, <2>3, SamePath
<1>5. UpTo(t, Len(t)) = t
  BY <1>1, UpToIs, SamePath
<1>6. ASSUME NEW i \in 0..Len(p) - 1
      PROVE  /\ UpTo(p, i) \in DOMAIN doc /\ doc[UpTo(p, i)] = Kind(p[i + 1])
             /\ p[i + 1] \notin Key => UpTo(p, i + 1) \in DOMAIN doc
  <2>4. i \in Nat /\ i <= Len(t) /\ Len(t) \in Nat
    BY <1>1
  <2>5. i = Len(t) \/ i < Len(t)
    BY <2>4
  <2>1. CASE i = Len(t)
    BY <1>1, <1>4, <1>5, <2>1 DEF IsMap, Kind
  <2>2. CASE i < Len(t)
    <3>1. i + 1 \in DOMAIN t /\ (i + 1) - 1 = i /\ i \in 0..Len(t) /\ i + 1 \in 0..Len(t)
      BY <1>1, <2>2
    <3>2. UpTo(t, i) \in DOMAIN doc /\ doc[UpTo(t, i)] = Kind(t[i + 1])
      BY <1>3, <3>1 DEF Tree, IsMap
    <3>3. UpTo(t, i + 1) \in DOMAIN doc
      <4>1. CASE i + 1 = Len(t)
        BY <1>5, <4>1 DEF IsMap
      <4>2. CASE i + 1 < Len(t)
        <5>1. i + 2 \in DOMAIN t /\ (i + 2) - 1 = i + 1
          BY <1>1, <3>1, <4>2
        <5>2. QED
          BY <1>3, <5>1 DEF Tree, IsMap
      <4>3. i + 1 = Len(t) \/ i + 1 < Len(t)
        BY <2>2, <2>4
      <4>4. QED
        BY <4>1, <4>2, <4>3
    <3>4. QED
      BY <1>1, <1>4, <3>1, <3>2, <3>3
  <2>3. QED
    BY <2>1, <2>2, <2>5
<1>7. Settable(doc, p)
  BY <1>6 DEF Settable
<1>8. QED
  BY <1>1, <1>7 DEF p


-----------------------------------------------------------------------------
(* Stamping: a document stays a document, and has the labels.                *)
LEMMA OwnIsScalar == "own" \in Scalar \cup Container /\ "map" \in Scalar \cup Container
BY DEF Scalar, Origin, Container

LEMMA EnsuredDoc ==
  ASSUME NEW doc, IsDoc(doc), NEW t \in Path, IsMap(doc, t), NEW k \in Key,
         NEW e, e = EnsureMap(doc, Append(t, k))
  PROVE  IsDoc(e)
<1>1. Append(t, k) \in Path /\ Append(t, k) # <<>> /\ Settable(doc, Append(t, k))
  BY BelowMap
<1>2. CASE e = doc
  BY <1>2
<1>3. CASE e = Put(doc, Append(t, k), "map")
  BY <1>1, <1>3, OwnIsScalar, PutDoc
<1>4. QED
  BY <1>2, <1>3 DEF EnsureMap

LEMMA MetaIs ==
  \A m \in Path : /\ m \o <<labels, release>> = Append(Append(m, labels), release)
                  /\ Append(m, labels) \in Path
BY KeysAreKeys DEF Path

LEMMA StampedDoc ==
  ASSUME NEW doc, IsDoc(doc), NEW t \in Path, IsMap(doc, t),
         NEW e, e = StampLabelsOnto(doc, Append(t, metadata))
  PROVE  IsDoc(e)
<1>1. metadata \in Key /\ labels \in Key /\ release \in Key
  BY KeysAreKeys
<1>2. PICK m : m = Append(t, metadata)
  OBVIOUS
<1>3. m \in Path
  BY <1>1, <1>2, BelowMap
<1>4. PICK d1 : d1 = EnsureMap(doc, m)
  OBVIOUS
<1>5. PICK d2 : d2 = EnsureMap(d1, Append(m, labels))
  OBVIOUS
<1>6. e = Put(d2, Append(Append(m, labels), release), "own")
  BY <1>2, <1>3, <1>4, <1>5, MetaIs DEF StampLabelsOnto, WriteLabel
<1>7. \A d : IsDoc(d) => Paths(d)
  BY DocIs DEF Tree
<1>8. IsDoc(d1) /\ IsMap(d1, m)
  BY <1>1, <1>2, <1>3, <1>4, <1>7, EnsuredDoc, Ensured
<1>9. IsDoc(d2) /\ IsMap(d2, Append(m, labels)) /\ Append(m, labels) \in Path
  BY <1>1, <1>3, <1>5, <1>7, <1>8, EnsuredDoc, Ensured, MetaIs
<1>10. QED
  BY <1>1, <1>6, <1>9, BelowMap, OwnIsScalar, PutDoc

LEMMA TemplateStamped ==
  ASSUME NEW doc, IsDoc(doc), NEW t \in Path, NEW e, e = StampTemplate(doc, t),
         NEW m, m = Append(t, metadata), NEW l, l = Label(m)
  PROVE  /\ IsDoc(e) /\ m \in Path
         /\ IsMap(e, t) => Owned(e, l)
         /\ SameApart(doc, e, m)
<1>1. m \in Path /\ Paths(doc)
  BY KeysAreKeys, DocIs DEF Path, Tree
<1>2. CASE IsMap(doc, t)
  <2>1. e = StampLabelsOnto(doc, m)
    BY <1>2 DEF StampTemplate
  <2>2. IsDoc(e)
    <3>1. e = StampLabelsOnto(doc, Append(t, metadata))
      BY <2>1
    <3>2. QED
      BY <1>2, <3>1, StampedDoc
  <2>3. QED
    BY <1>1, <2>1, <2>2, Stamped
<1>3. CASE ~IsMap(doc, t)
  BY <1>1, <1>3 DEF StampTemplate, SameApart
<1>4. QED
  BY <1>2, <1>3

LEMMA LabelPath ==
  ASSUME NEW t \in Path, NEW m, m = Append(t, metadata)
  PROVE  /\ m \in Path /\ t \o <<metadata, labels, release>> \in Path
         /\ t \o <<metadata, labels, release>> = Label(m)
<1>1. m \in Path /\ Len(m) = Len(t) + 1 /\ Len(t) \in Nat
  BY KeysAreKeys DEF Path
<1>2. t \o <<metadata, labels, release>> \in Path
  BY KeysAreKeys DEF Path
<1>3. m \o <<labels, release>> \in Path
  BY <1>1, KeysAreKeys DEF Path
<1>4. Len(t \o <<metadata, labels, release>>) = Len(t) + 3 /\ Len(m \o <<labels, release>>) = Len(t) + 3
  BY <1>1 DEF Path
<1>5. ASSUME NEW i \in 1..Len(t) + 3
      PROVE  (t \o <<metadata, labels, release>>)[i] = (m \o <<labels, release>>)[i]
  <2>1. CASE i \in 1..Len(t)
    BY <1>1, <2>1 DEF Path
  <2>2. CASE i = Len(t) + 1
    BY <1>1, <2>2 DEF Path
  <2>3. CASE i = Len(t) + 2
    BY <1>1, <2>3 DEF Path
  <2>4. CASE i = Len(t) + 3
    BY <1>1, <2>4 DEF Path
  <2>5. QED
    BY <1>1, <2>1, <2>2, <2>3, <2>4
<1>6. QED
  BY <1>1, <1>2, <1>3, <1>4, <1>5, SamePath DEF Label

LEMMA LabelPaths ==
  /\ <<>> \in Path /\ <<metadata>> \in Path /\ <<spec, template>> \in Path /\ OfJob \in Path
  /\ <<metadata>> = Append(<<>>, metadata)
BY KeysAreKeys DEF Path, OfJob

LEMMA LabelsApart ==
  ASSUME NEW L, L = <<>> \o <<metadata, labels, release>>,
         NEW M, M = Append(<<spec, template>>, metadata), NEW J, J = Append(OfJob, metadata),
         NEW K, K = <<spec, template>> \o <<metadata, labels, release>>,
         NEW T, T = <<spec, template>>
  PROVE  /\ L \in Path /\ K \in Path
         /\ Apart(M, L) /\ Apart(J, L) /\ Apart(J, K) /\ Apart(J, T)
<1>1. L \in Path /\ M \in Path /\ J \in Path /\ K \in Path /\ T \in Path
  BY KeysAreKeys DEF Path, OfJob
<1>2. spec # metadata /\ jobTemplate # template
  BY KeysAreKeys
<1>3. /\ Len(L) = 3 /\ L[1] = metadata /\ Len(M) = 3 /\ M[1] = spec
      /\ Len(J) = 5 /\ J[1] = spec /\ J[2] = jobTemplate
      /\ Len(K) = 5 /\ K[2] = template
  BY DEF OfJob
<1>4. /\ Len(T) = 2 /\ T[2] = template
      /\ \A p, q \in Path : Len(p) >= 2 /\ Len(q) >= 2 /\ (p[1] # q[1] \/ p[2] # q[2]) => Apart(p, q)
  <2>1. Len(T) = 2 /\ T[2] = template
    OBVIOUS
  <2>2. ASSUME NEW p \in Path, NEW q \in Path, Len(p) >= 2, Len(q) >= 2, p[1] # q[1] \/ p[2] # q[2]
        PROVE  Apart(p, q)
    <3>1. Len(p) \in Nat /\ Len(q) \in Nat
      BY DEF Path
    <3>2. CASE p[1] # q[1]
      BY <2>2, <3>1, <3>2, DifferAt
    <3>3. CASE p[2] # q[2]
      BY <2>2, <3>1, <3>3, DifferAt
    <3>4. QED
      BY <2>2, <3>2, <3>3
  <2>3. QED
    BY <2>1, <2>2
<1>5. Len(L) >= 2 /\ Len(M) >= 2 /\ Len(J) >= 2 /\ Len(K) >= 2 /\ Len(T) >= 2
  BY <1>3, <1>4
<1>6. Apart(M, L)
  BY ONLY <1>1, <1>2, <1>3, <1>4, <1>5
<1>7. Apart(J, L)
  BY ONLY <1>1, <1>2, <1>3, <1>4, <1>5
<1>8. Apart(J, K)
  BY ONLY <1>1, <1>2, <1>3, <1>4, <1>5
<1>9. Apart(J, T)
  BY ONLY <1>1, <1>2, <1>3, <1>4, <1>5
<1>10. QED
  BY <1>1, <1>6, <1>7, <1>8, <1>9

LEMMA LabelsAreStamped ==
  ASSUME NEW doc, IsDoc(doc), NEW e, e = StampLabels(doc)
  PROVE  /\ IsDoc(e)
         /\ \A t \in {<<>>} \cup PodTemplate :
              t = <<>> \/ IsMap(e, t) =>
                /\ t \o <<metadata, labels, release>> \in DOMAIN e
                /\ e[t \o <<metadata, labels, release>>] = "own"
<1>1. PICK T : T = <<spec, template>>
  OBVIOUS
<1>2. PICK L : L = <<>> \o <<metadata, labels, release>>
  OBVIOUS
<1>3. PICK K : K = T \o <<metadata, labels, release>>
  OBVIOUS
<1>4. PICK N : N = OfJob \o <<metadata, labels, release>>
  OBVIOUS
<1>5. PICK M : M = Append(T, metadata)
  OBVIOUS
<1>6. PICK J : J = Append(OfJob, metadata)
  OBVIOUS
<1>7. /\ <<>> \in Path /\ <<metadata>> \in Path /\ T \in Path /\ OfJob \in Path
      /\ <<metadata>> = Append(<<>>, metadata)
  BY <1>1, LabelPaths
<1>8. L = Label(<<metadata>>) /\ K = Label(M) /\ N = Label(J)
  BY <1>2, <1>3, <1>4, <1>5, <1>6, <1>7, LabelPath
<1>9. L \in Path /\ K \in Path /\ Apart(M, L) /\ Apart(J, L) /\ Apart(J, K) /\ Apart(J, T)
  BY <1>1, <1>2, <1>3, <1>5, <1>6, LabelsApart
<1>10. PICK d1 : d1 = StampLabelsOnto(doc, <<metadata>>)
  OBVIOUS
<1>11. PICK d2 : d2 = StampTemplate(d1, T)
  OBVIOUS
<1>12. e = StampTemplate(d2, OfJob)
  BY <1>1, <1>10, <1>11 DEF StampLabels
<1>13. IsDoc(d1) /\ Owned(d1, L)
  <2>1. IsMap(doc, <<>>) /\ Paths(doc)
    BY DocIs DEF Tree
  <2>2. d1 = StampLabelsOnto(doc, Append(<<>>, metadata))
    BY <1>7, <1>10
  <2>3. IsDoc(d1)
    BY <1>7, <2>1, <2>2, StampedDoc
  <2>4. Owned(d1, L)
    BY <1>7, <1>8, <1>10, <2>1, Stamped
  <2>5. QED
    BY <2>3, <2>4
<1>14. IsDoc(d2) /\ (IsMap(d2, T) => Owned(d2, K)) /\ SameApart(d1, d2, M)
  BY <1>5, <1>7, <1>8, <1>11, <1>13, TemplateStamped
<1>15. IsDoc(e) /\ (IsMap(e, OfJob) => Owned(e, N)) /\ SameApart(d2, e, J)
  BY <1>6, <1>7, <1>8, <1>12, <1>14, TemplateStamped
<1>16. Owned(e, L)
  BY <1>9, <1>13, <1>14, <1>15 DEF Owned, SameApart
<1>17. IsMap(d2, T) => Owned(e, K)
  BY <1>9, <1>14, <1>15 DEF Owned, SameApart
<1>18. IsMap(e, T) => IsMap(d2, T)
  BY <1>7, <1>9, <1>15 DEF IsMap, SameApart
<1>19. QED
  BY <1>1, <1>2, <1>3, <1>4, <1>15, <1>16, <1>17, <1>18 DEF PodTemplate, Owned


-----------------------------------------------------------------------------
(* Type correctness.                                                         *)
LEMMA SlotIsPath ==
  \A f \in Slot : f[1] \in DOMAIN Names /\ f[2] \in Path /\ f[2] # <<>> /\ f = <<f[1], f[2]>>
BY SlotsAreSlots DEF Path

LEMMA NewDoc ==
  ASSUME NEW i \in DOMAIN Names, NEW doc,
         doc = Put([q \in {<<>>} |-> "map"], <<metadata, name>>, Names[i])
  PROVE  IsDoc(doc)
<1>1. PICK d : d = [q \in {<<>>} |-> "map"]
  OBVIOUS
<1>2. DOMAIN d = {<<>>} /\ d[<<>>] = "map"
  BY <1>1
<1>3. IsDoc(d)
  <2>1. <<>> \in Path /\ DOMAIN <<>> = {}
    BY DEF Path
  <2>2. Tree(d)
    BY <1>2, <2>1 DEF Tree, Paths, IsMap, Container
  <2>3. Dense(d)
    BY <1>2, <2>1 DEF Dense, Filled
  <2>4. QED
    BY <2>2, <2>3, DocIs
<1>4. <<metadata, name>> \in Path /\ <<metadata, name>> # <<>>
  BY KeysAreKeys DEF Path
<1>5. Settable(d, <<metadata, name>>)
  <2>1. PICK p : p = <<metadata, name>>
    OBVIOUS
  <2>2. p \in Path /\ Len(p) = 2 /\ p[1] \in Key /\ p[2] \in Key
    BY <1>4, <2>1, KeysAreKeys
  <2>3. UpTo(p, 0) = <<>>
    BY <2>2, UpToIs DEF Path
  <2>4. UpTo(p, 1) # <<>>
    <3>3. 1 \in 0..Len(p)
      BY <2>2
    <3>1. Len(UpTo(p, 1)) = 1
      BY <2>2, <3>3, UpToIs
    <3>2. QED
      BY <3>1
  <2>5. Settable(d, p)
    <3>1. ASSUME NEW k \in 0..Len(p) - 1
          PROVE  IF UpTo(p, k) \in DOMAIN d
                 THEN d[UpTo(p, k)] = Kind(p[k + 1])
                      /\ (p[k + 1] \notin Key => UpTo(p, k + 1) \in DOMAIN d)
                 ELSE p[k + 1] \in Key
      <4>1. CASE k = 0
        BY <1>2, <2>2, <2>3, <4>1 DEF Kind
      <4>2. CASE k = 1
        BY <1>2, <2>2, <2>4, <4>2
      <4>3. QED
        BY <2>2, <4>1, <4>2
    <3>2. QED
      BY <3>1 DEF Settable
  <2>6. QED
    BY <2>1, <2>5
<1>6. Names[i] \in Scalar \cup Container
  BY DEF Scalar
<1>7. QED
  BY <1>1, <1>3, <1>4, <1>5, <1>6, PutDoc

LEMMA InitType == Init => TypeOK
<1> SUFFICES ASSUME Init PROVE TypeOK
  OBVIOUS
<1>1. PICK S \in SUBSET Slot : ui \in [S -> Field]
  BY DEF Init
<1>2. \A i \in DOMAIN docs : IsDoc(docs[i])
  BY NewDoc DEF Init
<1>3. DOMAIN ui \subseteq Slot /\ \A f \in DOMAIN ui : ui[f] \in Field
  BY <1>1
<1>4. DOMAIN form = {} /\ fields \in Seq(DOMAIN ui)
  BY DEF Init
<1>5. DOMAIN docs = DOMAIN Names /\ todo \subseteq DOMAIN ui /\ phase = "serialize"
  BY DEF Init
<1>6. QED
  BY <1>2, <1>3, <1>4, <1>5 DEF TypeOK

LEMMA ConstantIs == \A f : Constant(f) \in Scalar
BY DEF Constant, Scalar, Origin

LEMMA ValueIs ==
  ASSUME TypeOK, NEW f \in DOMAIN form, ~Refuses(f), Value(f) # "absent"
  PROVE  Value(f) \in Scalar /\ Value(f) \in {"given", "default"}
BY DEF TypeOK, Value, Refuses, Scalar, Origin

(* The form has every field that is left to set.                             *)
FormIsWhole == phase = "render" => \A k \in DOMAIN fields : fields[k] \in DOMAIN form
DocInv == TypeOK /\ FormIsWhole

LEMMA HeadIs ==
  ASSUME TypeOK, fields # <<>>, NEW f, f = Head(fields)
  PROVE  /\ f \in DOMAIN ui /\ f \in Slot /\ \E k \in DOMAIN fields : f = fields[k]
         /\ Tail(fields) \in Seq(DOMAIN ui)
         /\ \A k \in DOMAIN Tail(fields) : k + 1 \in DOMAIN fields /\ Tail(fields)[k] = fields[k + 1]
         /\ \A k \in DOMAIN fields : fields[k] = f \/ \E n \in DOMAIN Tail(fields) : fields[k] = Tail(fields)[n]
<1>1. fields \in Seq(DOMAIN ui) /\ DOMAIN ui \subseteq Slot
  BY DEF TypeOK
<1>2. 1 \in DOMAIN fields /\ f = fields[1] /\ f \in DOMAIN ui /\ Tail(fields) \in Seq(DOMAIN ui)
  BY <1>1
<1>3. \A k \in DOMAIN Tail(fields) : k + 1 \in DOMAIN fields /\ Tail(fields)[k] = fields[k + 1]
  BY <1>1
<1>4. ASSUME NEW k \in DOMAIN fields, fields[k] # f
      PROVE  \E n \in DOMAIN Tail(fields) : fields[k] = Tail(fields)[n]
  <2>1. k \in 1..Len(fields) /\ k # 1
    BY <1>1, <1>2, <1>4
  <2>2. k - 1 \in DOMAIN Tail(fields) /\ Tail(fields)[k - 1] = fields[k]
    BY <1>1, <2>1
  <2>3. QED
    BY <2>2
<1>5. QED
  BY <1>1, <1>2, <1>3, <1>4

LEMMA DocStep == DocInv /\ [Next]_vars => DocInv'
<1> SUFFICES ASSUME DocInv, [Next]_vars PROVE DocInv'
  OBVIOUS
<1>1. /\ DOMAIN ui \subseteq Slot /\ (\A f \in DOMAIN ui : ui[f] \in Field)
      /\ todo \subseteq DOMAIN ui /\ fields \in Seq(DOMAIN ui)
      /\ DOMAIN docs = DOMAIN Names /\ (\A i \in DOMAIN docs : IsDoc(docs[i]))
      /\ \A f \in DOMAIN form : f \in DOMAIN ui /\ form[f] \in {"absent", "given", "bad"}
  BY DEF DocInv, TypeOK
<1>2. ASSUME NEW f \in Slot, SerializeField(f) PROVE DocInv'
  <2>1. /\ DOMAIN docs' = DOMAIN Names /\ \A i \in DOMAIN docs' : IsDoc(docs'[i])
    <3>1. CASE Writes(f)
      <4>1. PICK d : d = SetJSONPathAbsolute(docs[f[1]], f[2], Constant(f))
        OBVIOUS
      <4>2. docs' = [docs EXCEPT ![f[1]] = d]
        BY <1>2, <3>1, <4>1 DEF SerializeField
      <4>3. f[1] \in DOMAIN docs /\ f[2] \in Path /\ f[2] # <<>>
        BY <1>1, SlotIsPath
      <4>4. SettableAbsolute(docs[f[1]], f[2]) /\ IsDoc(docs[f[1]])
        BY <1>1, <1>2, <3>1, <4>3 DEF SerializeField
      <4>5. IsDoc(d)
        BY <4>1, <4>3, <4>4, ConstantIs, SetDoc
      <4>6. QED
        BY <1>1, <4>2, <4>5
    <3>2. CASE ~Writes(f)
      BY <1>1, <1>2, <3>2 DEF SerializeField
    <3>3. QED
      BY <3>1, <3>2
  <2>2. f \in DOMAIN ui
    BY <1>1, <1>2 DEF SerializeField, NextField
  <2>3. fields' \in Seq(DOMAIN ui)
    <3>1. fields' = Append(fields, f) \/ fields' = fields
      BY <1>2 DEF SerializeField
    <3>2. fields \in Seq(DOMAIN ui) => Append(fields, f) \in Seq(DOMAIN ui)
      BY <2>2
    <3>3. QED
      BY <1>1, <3>1, <3>2
  <2>4. phase = "serialize" /\ ui' = ui /\ phase' = phase /\ form' = form /\ todo' \subseteq todo
    BY <1>2 DEF SerializeField, NextField
  <2>5. QED
    BY <1>1, <2>1, <2>3, <2>4 DEF DocInv, TypeOK, FormIsWhole
<1>3. ASSUME NEW f \in Slot, SerializeRejects(f) PROVE DocInv'
  <2>1. UNCHANGED <<ui, todo, docs, fields, form>> /\ phase' = "rejected"
    BY <1>3 DEF SerializeRejects
  <2>2. QED
    BY <1>1, <2>1 DEF DocInv, TypeOK, FormIsWhole
<1>4. CASE Serialized
  <2>1. UNCHANGED <<ui, todo, docs, fields, form>> /\ phase' = "deploy"
    BY <1>4 DEF Serialized
  <2>2. QED
    BY <1>1, <2>1 DEF DocInv, TypeOK, FormIsWhole
<1>5. CASE Deploy
  <2>1. UNCHANGED <<ui, todo, docs, fields>> /\ phase' = "render"
    BY <1>5 DEF Deploy
  <2>2. form' \in [{fields[k] : k \in DOMAIN fields} -> {"absent", "given", "bad"}]
    BY <1>5 DEF Deploy
  <2>3. \A k \in DOMAIN fields : fields[k] \in DOMAIN ui
    BY <1>1
  <2>4. \A f \in DOMAIN form' : f \in DOMAIN ui /\ form'[f] \in {"absent", "given", "bad"}
    BY <2>2, <2>3
  <2>5. \A k \in DOMAIN fields : fields[k] \in DOMAIN form'
    BY <2>2
  <2>6. QED
    BY <1>1, <2>1, <2>4, <2>5 DEF DocInv, TypeOK, FormIsWhole
<1>6. CASE SetField
  <2>1. PICK f : f = Head(fields)
    OBVIOUS
  <2>2. TypeOK /\ fields # <<>> /\ phase = "render"
    BY <1>6 DEF SetField, DocInv
  <2>3. /\ f \in Slot /\ (\E k \in DOMAIN fields : f = fields[k]) /\ Tail(fields) \in Seq(DOMAIN ui)
        /\ \A k \in DOMAIN Tail(fields) : k + 1 \in DOMAIN fields /\ Tail(fields)[k] = fields[k + 1]
    BY <2>1, <2>2, HeadIs
  <2>4. f \in DOMAIN form
    BY <2>2, <2>3 DEF DocInv, FormIsWhole
  <2>5. UNCHANGED <<ui, phase, todo, form>> /\ fields' = Tail(fields)
    BY <1>6 DEF SetField
  <2>6. DOMAIN docs' = DOMAIN Names /\ \A i \in DOMAIN docs' : IsDoc(docs'[i])
    <3>1. CASE Value(f) = "absent"
      BY <1>1, <1>6, <2>1, <3>1 DEF SetField
    <3>2. CASE Value(f) # "absent"
      <4>1. PICK i \in Named(Names[f[1]]) :
              /\ Settable(docs[i], f[2])
              /\ docs' = [docs EXCEPT ![i] = Put(@, f[2], Value(f))]
        BY <1>6, <2>1, <3>2 DEF SetField
      <4>2. i \in DOMAIN docs
        BY <4>1 DEF Named
      <4>3. PICK d : d = Put(docs[i], f[2], Value(f))
        OBVIOUS
      <4>4. docs' = [docs EXCEPT ![i] = d]
        BY <4>1, <4>3
      <4>5. f[2] \in Path /\ f[2] # <<>> /\ ~Refuses(f)
        BY <1>6, <2>1, <2>3, SlotIsPath DEF SetField
      <4>6. Value(f) \in Scalar \cup Container
        BY <2>2, <2>4, <3>2, <4>5, ValueIs
      <4>7. IsDoc(d)
        BY <1>1, <4>1, <4>2, <4>3, <4>5, <4>6, PutDoc
      <4>8. QED
        BY <1>1, <4>4, <4>7
    <3>3. QED
      BY <3>1, <3>2
  <2>7. \A k \in DOMAIN fields' : fields'[k] \in DOMAIN form
    BY <2>2, <2>3, <2>5 DEF DocInv, FormIsWhole
  <2>8. QED
    BY <1>1, <2>2, <2>3, <2>5, <2>6, <2>7 DEF DocInv, TypeOK, FormIsWhole
<1>7. CASE Refuse
  <2>1. UNCHANGED <<ui, todo, docs, fields, form>> /\ phase' = "refused"
    BY <1>7 DEF Refuse
  <2>2. QED
    BY <1>1, <2>1 DEF DocInv, TypeOK, FormIsWhole
<1>8. CASE Fail
  <2>1. UNCHANGED <<ui, todo, docs, fields, form>> /\ phase' = "failed"
    BY <1>8 DEF Fail
  <2>2. QED
    BY <1>1, <2>1 DEF DocInv, TypeOK, FormIsWhole
<1>9. CASE Stamp
  <2>1. UNCHANGED <<ui, todo, fields, form>> /\ phase' = "rendered"
    BY <1>9 DEF Stamp
  <2>2. docs' = [i \in DOMAIN docs |-> StampLabels(docs[i])]
    BY <1>9 DEF Stamp
  <2>3. DOMAIN docs' = DOMAIN Names /\ \A i \in DOMAIN docs' : IsDoc(docs'[i])
    BY <1>1, <2>2, LabelsAreStamped
  <2>4. QED
    BY <1>1, <2>1, <2>3 DEF DocInv, TypeOK, FormIsWhole
<1>10. CASE UNCHANGED vars
  BY <1>10 DEF DocInv, TypeOK, FormIsWhole, vars
<1>11. QED
  BY <1>2, <1>3, <1>4, <1>5, <1>6, <1>7, <1>8, <1>9, <1>10 DEF Next

LEMMA DocCorrect == Spec => []DocInv
<1>1. Init => DocInv
  BY InitType DEF DocInv, FormIsWhole, Init
<1>2. QED
  BY <1>1, DocStep, PTL DEF Spec

(* Every document is a tree without gaps in its arrays, whatever is written  *)
(* to it and stamped on it, so setInto and setJSONPathAbsolute meet no node  *)
(* whose parent is missing.                                                  *)
THEOREM TypeCorrect == Spec => []TypeOK
BY DocCorrect, PTL DEF DocInv

-----------------------------------------------------------------------------
(* What leaves a document's labels alone: nothing happens to a manifest.     *)
LEMMA LabelStep == DocInv /\ Labelled /\ [Next]_vars => Labelled'
<1> SUFFICES ASSUME DocInv, Labelled, [Next]_vars PROVE Labelled'
  OBVIOUS
<1>1. CASE Stamp
  <2>1. docs' = [i \in DOMAIN docs |-> StampLabels(docs[i])]
    BY <1>1 DEF Stamp
  <2>2. \A i \in DOMAIN docs : IsDoc(docs[i])
    BY DEF DocInv, TypeOK
  <2>3. ASSUME NEW i \in DOMAIN docs'
        PROVE  \A t \in {<<>>} \cup PodTemplate :
                 t = <<>> \/ IsMap(docs'[i], t) =>
                   /\ t \o <<metadata, labels, release>> \in DOMAIN docs'[i]
                   /\ docs'[i][t \o <<metadata, labels, release>>] = "own"
    <3>1. i \in DOMAIN docs /\ docs'[i] = StampLabels(docs[i])
      BY <2>1
    <3>2. QED
      BY <2>2, <3>1, LabelsAreStamped
  <2>4. QED
    BY <2>3 DEF Labelled
<1>2. CASE UNCHANGED vars
  BY <1>2 DEF Labelled, vars
<1>3. ASSUME phase' # "rendered" PROVE Labelled'
  BY <1>3 DEF Labelled
<1>4. ASSUME ~Stamp, ~UNCHANGED vars PROVE phase' # "rendered"
  BY <1>4 DEF Next, SerializeField, NextField, SerializeRejects, Serialized, Deploy, SetField,
              Refuse, Fail
<1>5. QED
  BY <1>1, <1>2, <1>3, <1>4

(* Every document of a manifest carries the release's own label, and so do   *)
(* its pod templates, whatever the template and the form put there: what     *)
(* deletion sweeps and the status page lists is all that was applied.        *)
THEOREM AllAreLabelled == Spec => []Labelled
<1>1. Init => Labelled
  BY DEF Init, Labelled
<1>2. QED
  BY <1>1, LabelStep, DocCorrect, PTL DEF Spec


-----------------------------------------------------------------------------
(* Stamping keeps what can be in one document with the labels.               *)
LEMMA PrefixTrans ==
  ASSUME NEW p \in Path, NEW q \in Path, NEW r \in Path, IsPrefix(p, q), IsPrefix(q, r)
  PROVE  IsPrefix(p, r)
<1>1. Len(p) \in Nat /\ Len(q) \in Nat /\ Len(r) \in Nat
  BY DEF Path
<1>2. /\ Len(p) <= Len(q) /\ \A i \in 1..Len(p) : p[i] = q[i]
      /\ Len(q) <= Len(r) /\ \A i \in 1..Len(q) : q[i] = r[i]
  BY PrefixIs
<1>3. Len(p) <= Len(r) /\ \A i \in 1..Len(p) : p[i] = r[i]
  BY <1>1, <1>2
<1>4. QED
  BY <1>3, PrefixIs

LEMMA UpToOfPrefix ==
  ASSUME NEW a \in Path, NEW q \in Path, IsPrefix(a, q), a # q
  PROVE  /\ Len(a) \in Nat /\ Len(a) + 1 \in 1..Len(q) /\ Len(a) + 1 \in DOMAIN q
         /\ UpTo(q, Len(a)) = a
<1>1. Len(a) \in Nat /\ Len(q) \in Nat
  BY DEF Path
<1>2. Len(a) <= Len(q) /\ \A i \in 1..Len(a) : a[i] = q[i]
  BY PrefixIs
<1>3. Len(a) # Len(q)
  BY <1>2, SamePath
<1>4. UpTo(q, Len(a)) = a
  BY <1>1, <1>2, UpToIs, SamePath
<1>5. QED
  BY <1>1, <1>2, <1>3, <1>4 DEF Path

Keeps(doc, e, q) == q \in DOMAIN doc => q \in DOMAIN e /\ e[q] = doc[q]

LEMMA EnsureKeeps ==
  ASSUME NEW doc, IsDoc(doc), NEW r \in Path, NEW a \in Path, IsPrefix(a, r), a # r,
         Kind(r[Len(a) + 1]) = "map",
         NEW q \in Path, Apart(q, r), Agreeing(q, r), NEW e, e = EnsureMap(doc, a)
  PROVE  Keeps(doc, e, q)
<1>1. Paths(doc) /\ Tree(doc)
  BY DocIs DEF Tree
<1>2. CASE Apart(a, q)
  <2>1. SameApart(doc, e, a)
    BY <1>1, Ensured
  <2>2. QED
    BY <1>2, <2>1 DEF SameApart, Keeps
<1>3. CASE IsPrefix(q, a)
  BY <1>3, PrefixTrans DEF Apart
<1>4. CASE IsPrefix(a, q) /\ a # q
  <2>1. SUFFICES ASSUME q \in DOMAIN doc PROVE e = doc
    BY DEF Keeps
  <2>2. PICK k : k = Len(a) + 1
    OBVIOUS
  <2>3. k - 1 = Len(a) /\ k \in 1..Len(q) /\ k \in DOMAIN q /\ UpTo(q, k - 1) = a
    BY <1>4, <2>2, UpToOfPrefix
  <2>4. k <= Len(r) /\ UpTo(r, k - 1) = a
    BY <2>2, <2>3, UpToOfPrefix
  <2>5. doc[a] = Kind(q[k]) /\ a \in DOMAIN doc
    BY <1>1, <2>1, <2>3 DEF Tree
  <2>6. Kind(q[k]) = Kind(r[k])
    BY <2>3, <2>4 DEF Agreeing
  <2>7. QED
    BY <2>2, <2>5, <2>6 DEF EnsureMap
<1>5. CASE a = q
  BY <1>5, PrefixIs DEF Apart
<1>6. QED
  BY <1>2, <1>3, <1>4, <1>5 DEF Apart

LEMMA StampKeeps ==
  ASSUME NEW doc, IsDoc(doc), NEW t \in Path, IsMap(doc, t), NEW m, m = Append(t, metadata),
         NEW r, r = Label(m), NEW q \in Path, Apart(q, r), Agreeing(q, r),
         NEW e, e = StampLabelsOnto(doc, m)
  PROVE  Keeps(doc, e, q)
<1>1. m \in Path /\ labels \in Key /\ release \in Key /\ metadata \in Key
  BY KeysAreKeys DEF Path
<1>2. PICK l : l = Append(m, labels)
  OBVIOUS
<1>3. /\ l \in Path /\ r \in Path /\ IsPrefix(m, l) /\ IsPrefix(m, r) /\ r = Append(l, release)
  BY <1>1, <1>2, MetaPaths, MetaIs DEF Label
<1>4. /\ Len(l) = Len(m) + 1 /\ Len(r) = Len(l) + 1 /\ r[Len(m) + 1] = labels
      /\ r[Len(l) + 1] = release /\ Len(m) \in Nat /\ \A i \in 1..Len(l) : r[i] = l[i]
  BY <1>1, <1>2, <1>3 DEF Path
<1>5. IsPrefix(l, r) /\ l # r /\ m # r
  <2>1. Len(l) <= Len(r) /\ l # r /\ m # r
    BY <1>4
  <2>2. QED
    BY <1>3, <1>4, <2>1, PrefixIs
<1>6. Kind(r[Len(m) + 1]) = "map" /\ Kind(r[Len(l) + 1]) = "map"
  BY <1>1, <1>4 DEF Kind
<1>7. PICK d1 : d1 = EnsureMap(doc, m)
  OBVIOUS
<1>8. PICK d2 : d2 = EnsureMap(d1, l)
  OBVIOUS
<1>9. e = Put(d2, r, "own")
  BY <1>2, <1>3, <1>7, <1>8 DEF StampLabelsOnto, WriteLabel, Label
<1>10. Paths(doc)
  BY DocIs DEF Tree
<1>11. IsDoc(d1) /\ IsMap(d1, m)
  <2>1. d1 = EnsureMap(doc, Append(t, metadata))
    BY <1>7
  <2>2. IsDoc(d1)
    BY <1>1, <2>1, EnsuredDoc
  <2>3. QED
    BY <1>1, <1>7, <1>10, <2>2, Ensured
<1>12. Keeps(doc, d1, q)
  BY <1>1, <1>3, <1>5, <1>6, <1>7, EnsureKeeps
<1>13. Keeps(d1, d2, q)
  BY <1>3, <1>5, <1>6, <1>8, <1>11, EnsureKeeps
<1>14. Paths(d2)
  <2>1. Paths(d1)
    BY <1>11, DocIs DEF Tree
  <2>2. QED
    BY <1>3, <1>8, <2>1, Ensured
<1>15. SameApart(d2, e, r)
  BY <1>3, <1>9, <1>14, PutAside
<1>16. Keeps(d2, e, q)
  BY <1>15 DEF SameApart, Keeps, Apart
<1>17. QED
  BY <1>12, <1>13, <1>16 DEF Keeps

(* What q must be to stand in one document with the label under t.           *)
Spared(q, t) ==
  LET p == t \o <<metadata, labels, release>> IN q # p /\ Agreeing(q, p) /\ Agreeing(p, q)

LEMMA SparedIs ==
  ASSUME NEW t \in Path, NEW q \in Path, Spared(q, t),
         NEW m, m = Append(t, metadata), NEW r, r = Label(m)
  PROVE  Apart(q, r) /\ Agreeing(q, r) /\ r \in Path
<1>1. r \in Path /\ r = t \o <<metadata, labels, release>>
  BY LabelPath
<1>2. q # r /\ Agreeing(q, r) /\ Agreeing(r, q)
  BY <1>1 DEF Spared
<1>3. ~IsStrictPrefix(q, r) /\ ~IsStrictPrefix(r, q)
  BY <1>2 DEF Agreeing
<1>4. QED
  BY <1>1, <1>2, <1>3 DEF Apart, IsStrictPrefix

LEMMA StampTemplateKeeps ==
  ASSUME NEW doc, IsDoc(doc), NEW t \in Path, NEW q \in Path, Spared(q, t),
         NEW e, e = StampTemplate(doc, t)
  PROVE  IsDoc(e) /\ Keeps(doc, e, q)
<1>1. PICK m : m = Append(t, metadata)
  OBVIOUS
<1>2. PICK r : r = Label(m)
  OBVIOUS
<1>3. IsDoc(e)
  BY <1>1, <1>2, TemplateStamped
<1>4. Apart(q, r) /\ Agreeing(q, r)
  BY <1>1, <1>2, SparedIs
<1>5. CASE IsMap(doc, t)
  <2>1. e = StampLabelsOnto(doc, m)
    BY <1>1, <1>5 DEF StampTemplate
  <2>2. QED
    BY <1>1, <1>2, <1>3, <1>4, <1>5, <2>1, StampKeeps
<1>6. CASE ~IsMap(doc, t)
  BY <1>3, <1>6 DEF StampTemplate, Keeps
<1>7. QED
  BY <1>5, <1>6

LEMMA LabelsKeep ==
  ASSUME NEW doc, IsDoc(doc), NEW q \in Path, \A t \in {<<>>} \cup PodTemplate : Spared(q, t),
         NEW e, e = StampLabels(doc)
  PROVE  Keeps(doc, e, q)
<1>1. PICK T : T = <<spec, template>>
  OBVIOUS
<1>2. /\ <<>> \in Path /\ T \in Path /\ OfJob \in Path /\ <<metadata>> = Append(<<>>, metadata)
  BY <1>1, LabelPaths
<1>3. Spared(q, <<>>) /\ Spared(q, T) /\ Spared(q, OfJob)
  BY <1>1 DEF PodTemplate
<1>4. PICK d1 : d1 = StampLabelsOnto(doc, <<metadata>>)
  OBVIOUS
<1>5. PICK d2 : d2 = StampTemplate(d1, T)
  OBVIOUS
<1>6. e = StampTemplate(d2, OfJob)
  BY <1>1, <1>4, <1>5 DEF StampLabels
<1>7. d1 = StampTemplate(doc, <<>>)
  <2>1. IsMap(doc, <<>>)
    BY DocIs DEF Tree
  <2>2. QED
    BY <1>2, <1>4, <2>1 DEF StampTemplate
<1>8. IsDoc(d1) /\ Keeps(doc, d1, q)
  BY <1>2, <1>3, <1>7, StampTemplateKeeps
<1>9. IsDoc(d2) /\ Keeps(d1, d2, q)
  BY <1>2, <1>3, <1>5, <1>8, StampTemplateKeeps
<1>10. Keeps(d2, e, q)
  BY <1>2, <1>3, <1>6, <1>9, StampTemplateKeeps
<1>11. QED
  BY <1>8, <1>9, <1>10 DEF Keeps


-----------------------------------------------------------------------------
(* What was entered is in the documents: for a field that no other of its    *)
(* resource covers, in a resource whose name is its own.                     *)
Alone(f) ==
  /\ \A j \in DOMAIN Names : Names[j] = Names[f[1]] => j = f[1]
  /\ \A g \in DOMAIN ui \ {f} : g[1] = f[1] => Apart(f[2], g[2])

Has(f, v) == f[2] \in DOMAIN docs[f[1]] /\ docs[f[1]][f[2]] = v
IsListed(f) == \E k \in DOMAIN fields : fields[k] = f

(* A document has its resource's name, or one that a field wrote.            *)
NamePath == <<metadata, name>>
OwnName(i, doc) ==
  NamePath \in DOMAIN doc => doc[NamePath] \in {Names[i]} \cup Origin \cup Container
NamesAreOwn == phase # "rendered" => \A i \in DOMAIN docs : OwnName(i, docs[i])

TodoDone == phase \in {"deploy", "render"} => todo = {}
OnlyExposed == \A f : IsListed(f) => f \in DOMAIN ui /\ ui[f].mode = "exposed"
AllListed ==
  phase \in {"serialize", "deploy"} =>
    \A f \in DOMAIN ui : ui[f].mode = "exposed" /\ f \notin todo => IsListed(f)

FixedKept ==
  phase \in {"serialize", "deploy", "render"} =>
    \A f \in DOMAIN ui : Alone(f) /\ ui[f].mode = "fixed" /\ f \notin todo => Has(f, "fixed")

(* A field that is no longer to be set is set.                               *)
Entered ==
  phase = "render" =>
    \A f \in DOMAIN ui : ui[f].mode = "exposed" =>
      /\ f \in DOMAIN form
      /\ ~IsListed(f) => /\ form[f] # "bad"
                         /\ Alone(f) /\ Value(f) # "absent" => Has(f, Value(f))

FaithInv == /\ DocInv /\ NamesAreOwn /\ TodoDone /\ OnlyExposed /\ AllListed
            /\ FixedKept /\ Entered /\ ManifestIsFaithful

LEMMA KindIs == \A s : Kind(s) \in Container
BY DEF Kind, Container

LEMMA PutName ==
  ASSUME NEW i \in DOMAIN Names, NEW doc, IsDoc(doc), OwnName(i, doc), NEW p \in Path,
         NEW v \in Origin \cup Container, NEW e, e = Put(doc, p, v)
  PROVE  OwnName(i, e)
<1>1. Paths(doc)
  BY DocIs DEF Tree
<1>2. /\ e[p] = v
      /\ \A q : q \in DOMAIN e <=>
                 q = p \/ q \in Above(p) \/ (q \in DOMAIN doc /\ ~IsStrictPrefix(p, q))
      /\ \A q \in Above(p) : e[q] = Kind(p[Len(q) + 1])
      /\ \A q \in DOMAIN doc :
           ~IsStrictPrefix(p, q) /\ q # p /\ q \notin Above(p) => e[q] = doc[q]
  BY <1>1, PutIs
<1>3. SUFFICES ASSUME NamePath \in DOMAIN e
               PROVE  e[NamePath] \in {Names[i]} \cup Origin \cup Container
  BY DEF OwnName
<1>4. CASE NamePath = p
  BY <1>2, <1>4
<1>5. CASE NamePath \in Above(p)
  BY <1>2, <1>5, KindIs
<1>6. CASE NamePath \notin Above(p) /\ NamePath # p
  BY <1>2, <1>3, <1>6 DEF OwnName
<1>7. QED
  BY <1>4, <1>5, <1>6

LEMMA SetName ==
  ASSUME NEW i \in DOMAIN Names, NEW doc, IsDoc(doc), OwnName(i, doc), NEW p \in Path,
         NEW v \in Origin \cup Container, NEW d, d = SetJSONPathAbsolute(doc, p, v)
  PROVE  OwnName(i, d)
<1>1. PICK e : e = Put(doc, p, v)
  OBVIOUS
<1>2. OwnName(i, e)
  BY <1>1, PutName
<1>3. d = Grow(e, p)
  BY <1>1 DEF SetJSONPathAbsolute
<1>4. Paths(e)
  <2>1. Paths(doc)
    BY DocIs DEF Tree
  <2>2. QED
    BY <1>1, <2>1, PutIs
<1>5. /\ \A q : q \in DOMAIN d <=> q \in DOMAIN e \/ q \in NewSlots(p)
      /\ \A q \in DOMAIN e : d[q] = e[q]
      /\ \A q \in NewSlots(p) \ DOMAIN e :
           d[q] = IF Len(q) = Len(p) THEN "nil" ELSE Kind(p[Len(q) + 1])
  BY <1>3, <1>4, GrowIs
<1>6. "nil" \in Container
  BY DEF Container
<1>7. QED
  BY <1>2, <1>5, <1>6, KindIs DEF OwnName

(* findDoc finds the resource that a field selects, if its name is its own.  *)
LEMMA FoundIs ==
  ASSUME NamesAreOwn, phase # "rendered", DOMAIN docs = DOMAIN Names,
         NEW g \in Slot, NEW i \in Named(Names[g[1]])
  PROVE  i \in DOMAIN Names /\ Names[i] = Names[g[1]]
<1>1. i \in DOMAIN docs /\ NamePath \in DOMAIN docs[i] /\ docs[i][NamePath] = Names[g[1]]
  BY DEF Named, HasName, NamePath
<1>2. docs[i][NamePath] \in {Names[i]} \cup Origin \cup Container
  BY <1>1 DEF NamesAreOwn, OwnName
<1>3. g[1] \in DOMAIN Names
  BY SlotIsPath
<1>4. QED
  BY <1>1, <1>2, <1>3, NamesAreNames


LEMMA FaithInit == Init => FaithInv
<1> SUFFICES ASSUME Init PROVE FaithInv
  OBVIOUS
<1>1. DocInv
  BY InitType DEF DocInv, FormIsWhole, Init
<1>2. phase = "serialize" /\ todo = DOMAIN ui /\ DOMAIN fields = {}
  BY DEF Init
<1>3. NamesAreOwn
  <2>1. SUFFICES ASSUME NEW i \in DOMAIN Names PROVE OwnName(i, docs[i])
    BY DEF NamesAreOwn, Init
  <2>2. NamePath \in Path
    BY KeysAreKeys DEF Path, NamePath
  <2>3. PICK d : d = [q \in {<<>>} |-> "map"]
    OBVIOUS
  <2>4. Paths(d)
    BY <2>3 DEF Paths, Path
  <2>5. docs[i] = Put(d, NamePath, Names[i])
    BY <2>3 DEF Init, NamePath
  <2>6. docs[i][NamePath] = Names[i]
    BY <2>2, <2>4, <2>5, PutIs
  <2>7. QED
    BY <2>6 DEF OwnName
<1>4. QED
  BY <1>1, <1>2, <1>3 DEF FaithInv, TodoDone, OnlyExposed, AllListed, FixedKept, Entered,
     ManifestIsFaithful, IsListed

LEMMA SerializeKeepsFaith ==
  ASSUME FaithInv, DocInv', NEW g \in Slot, SerializeField(g) PROVE FaithInv'
<1>1. /\ UNCHANGED <<ui, phase, form>> /\ phase = "serialize" /\ g \in todo /\ g \in DOMAIN ui
      /\ todo' = todo \ {g}
  BY DEF SerializeField, NextField, FaithInv, DocInv, TypeOK
<1>2. /\ DOMAIN docs = DOMAIN Names /\ (\A i \in DOMAIN docs : IsDoc(docs[i]))
      /\ (\A f \in DOMAIN ui : f \in Slot /\ ui[f] \in Field) /\ fields \in Seq(DOMAIN ui)
  BY DEF FaithInv, DocInv, TypeOK
<1>3. g[1] \in DOMAIN docs /\ g[2] \in Path
  BY <1>2, SlotIsPath
<1>4. PICK d : d = SetJSONPathAbsolute(docs[g[1]], g[2], Constant(g))
  OBVIOUS
<1>5. docs' = IF Writes(g) THEN [docs EXCEPT ![g[1]] = d] ELSE docs
  BY <1>4 DEF SerializeField
<1>6. Constant(g) \in Origin
  BY DEF Constant, Origin
<1>7. NamesAreOwn'
  <2>1. \A i \in DOMAIN docs : OwnName(i, docs[i])
    BY <1>1 DEF FaithInv, NamesAreOwn
  <2>2. OwnName(g[1], d)
    BY <1>2, <1>3, <1>4, <1>6, <2>1, SetName
  <2>3. \A i \in DOMAIN docs' : docs'[i] = docs[i] \/ (i = g[1] /\ docs'[i] = d)
    BY <1>5
  <2>4. DOMAIN docs' = DOMAIN docs
    BY <1>5
  <2>5. QED
    BY <2>1, <2>2, <2>3, <2>4 DEF NamesAreOwn
<1>8. \A f : IsListed(f)' <=> IsListed(f) \/ (f = g /\ ui[g].mode = "exposed")
  <2>1. CASE ui[g].mode = "exposed"
    <3>1. fields' = Append(fields, g)
      BY <2>1 DEF SerializeField
    <3>2. Len(fields) \in Nat /\ DOMAIN fields = 1..Len(fields)
      BY <1>2
    <3>3. /\ DOMAIN fields' = 1..Len(fields) + 1 /\ fields'[Len(fields) + 1] = g
          /\ \A k \in 1..Len(fields) : fields'[k] = fields[k]
      BY <1>1, <1>2, <3>1
    <3>4. QED
      BY <2>1, <3>2, <3>3 DEF IsListed
  <2>2. CASE ui[g].mode # "exposed"
    BY <2>2 DEF SerializeField, IsListed
  <2>3. QED
    BY <2>1, <2>2
<1>9. OnlyExposed' /\ AllListed'
  BY <1>1, <1>8 DEF FaithInv, OnlyExposed, AllListed
<1>10. FixedKept'
  <2>1. SUFFICES ASSUME NEW f \in DOMAIN ui, Alone(f), ui[f].mode = "fixed", f \notin todo'
                 PROVE  Has(f, "fixed")'
    BY <1>1 DEF FixedKept, Alone
  <2>2. f[1] \in DOMAIN docs /\ f[2] \in Path
    BY <1>2, SlotIsPath
  <2>3. Paths(docs[g[1]])
    BY <1>2, <1>3, DocIs DEF Tree
  <2>4. CASE f = g
    <3>1. Writes(f) /\ Constant(f) = "fixed"
      BY <2>1 DEF Writes, Constant
    <3>2. f[2] \in DOMAIN d /\ d[f[2]] = "fixed"
      BY <1>3, <1>4, <2>3, <2>4, <3>1, SetIs
    <3>3. docs'[f[1]] = d
      BY <1>3, <1>5, <2>4, <3>1
    <3>4. QED
      BY <3>2, <3>3 DEF Has
  <2>5. CASE f # g
    <3>1. Has(f, "fixed")
      BY <1>1, <2>1, <2>5 DEF FaithInv, FixedKept
    <3>2. CASE f[1] = g[1]
      <4>1. Apart(f[2], g[2])
        BY <1>1, <2>1, <2>5, <3>2 DEF Alone
      <4>2. f[2] \in DOMAIN d /\ d[f[2]] = "fixed"
        BY <1>3, <1>4, <2>3, <3>1, <3>2, <4>1, SetIs DEF Has, Apart
      <4>3. docs'[f[1]] = d \/ docs'[f[1]] = docs[f[1]]
        BY <1>3, <1>5, <3>2
      <4>4. QED
        BY <3>1, <4>2, <4>3 DEF Has
    <3>3. CASE f[1] # g[1]
      <4>1. docs'[f[1]] = docs[f[1]]
        BY <1>5, <2>2, <3>3
      <4>2. QED
        BY <3>1, <4>1 DEF Has
    <3>4. QED
      BY <3>2, <3>3
  <2>6. QED
    BY <2>4, <2>5
<1>11. QED
  BY <1>1, <1>7, <1>9, <1>10 DEF FaithInv, TodoDone, Entered, ManifestIsFaithful

LEMMA SetKeepsFaith ==
  ASSUME FaithInv, DocInv', SetField PROVE FaithInv'
<1>1. PICK g : g = Head(fields)
  OBVIOUS
<1>2. /\ UNCHANGED <<ui, phase, todo, form>> /\ phase = "render" /\ fields # <<>> /\ ~Refuses(g)
      /\ fields' = Tail(fields) /\ TypeOK
  BY <1>1 DEF SetField, FaithInv, DocInv
<1>3. /\ DOMAIN docs = DOMAIN Names /\ (\A i \in DOMAIN docs : IsDoc(docs[i]))
      /\ \A f \in DOMAIN ui : f \in Slot /\ ui[f] \in Field
  BY <1>2 DEF TypeOK
<1>4. /\ g \in DOMAIN ui /\ g \in Slot /\ (\E k \in DOMAIN fields : g = fields[k])
      /\ \A k \in DOMAIN Tail(fields) : k + 1 \in DOMAIN fields /\ Tail(fields)[k] = fields[k + 1]
      /\ \A k \in DOMAIN fields :
           fields[k] = g \/ \E n \in DOMAIN Tail(fields) : fields[k] = Tail(fields)[n]
  BY <1>1, <1>2, HeadIs
<1>5. g[1] \in DOMAIN docs /\ g[2] \in Path /\ ui[g].mode = "exposed" /\ g \in DOMAIN form
  <2>1. IsListed(g)
    BY <1>4 DEF IsListed
  <2>2. ui[g].mode = "exposed"
    BY <2>1 DEF FaithInv, OnlyExposed
  <2>3. QED
    BY <1>2, <1>3, <1>4, <2>2, SlotIsPath DEF FaithInv, Entered
<1>6. (\A f : IsListed(f)' => IsListed(f)) /\ \A f : IsListed(f) => f = g \/ IsListed(f)'
  BY <1>2, <1>4 DEF IsListed
<1>7. CASE Value(g) = "absent"
  <2>1. docs' = docs
    BY <1>1, <1>7 DEF SetField
  <2>2. OnlyExposed' /\ NamesAreOwn' /\ FixedKept'
    BY <1>2, <1>6, <2>1 DEF FaithInv, OnlyExposed, NamesAreOwn, FixedKept, Alone, Has
  <2>3. form[g] # "bad"
    BY <1>2 DEF Refuses
  <2>4. Entered'
    BY <1>2, <1>5, <1>6, <1>7, <2>1, <2>3 DEF FaithInv, Entered, Alone, Has, Value
  <2>5. QED
    BY <1>2, <2>2, <2>4 DEF FaithInv, TodoDone, AllListed, ManifestIsFaithful
<1>8. CASE Value(g) # "absent"
  <2>1. PICK i \in Named(Names[g[1]]) : docs' = [docs EXCEPT ![i] = Put(@, g[2], Value(g))]
    BY <1>1, <1>8 DEF SetField
  <2>2. i \in DOMAIN docs /\ Names[i] = Names[g[1]]
    BY <1>2, <1>3, <1>4, <2>1, FoundIs DEF FaithInv
  <2>3. PICK d : d = Put(docs[i], g[2], Value(g))
    OBVIOUS
  <2>4. docs' = [docs EXCEPT ![i] = d] /\ DOMAIN docs' = DOMAIN docs /\ docs'[i] = d
    BY <2>1, <2>2, <2>3
  <2>5. Value(g) \in Origin
    BY <1>2, <1>5, <1>8, ValueIs DEF Origin
  <2>6. IsDoc(docs[i]) /\ Paths(docs[i])
    BY <1>3, <2>2, DocIs DEF Tree
  <2>7. NamesAreOwn'
    <3>1. \A j \in DOMAIN docs : OwnName(j, docs[j])
      BY <1>2 DEF FaithInv, NamesAreOwn
    <3>2. OwnName(i, d)
      BY <1>3, <1>5, <2>2, <2>3, <2>5, <2>6, <3>1, PutName
    <3>3. \A j \in DOMAIN docs' : docs'[j] = docs[j] \/ (j = i /\ docs'[j] = d)
      BY <2>4
    <3>4. QED
      BY <2>4, <3>1, <3>2, <3>3 DEF NamesAreOwn
  <2>8. ASSUME NEW f \in DOMAIN ui, Alone(f), f # g, NEW v, Has(f, v) PROVE Has(f, v)'
    <3>1. f[1] \in DOMAIN docs /\ f[2] \in Path
      BY <1>3, SlotIsPath
    <3>2. CASE i # f[1]
      <4>1. docs'[f[1]] = docs[f[1]]
        BY <2>4, <3>1, <3>2
      <4>2. QED
        BY <2>8, <4>1 DEF Has
    <3>3. CASE i = f[1]
      <4>1. g[1] = f[1]
        BY <1>3, <1>5, <2>2, <2>8, <3>3 DEF Alone
      <4>2. Apart(g[2], f[2])
        BY <1>4, <2>8, <4>1 DEF Alone, Apart
      <4>3. SameApart(docs[i], d, g[2])
        BY <1>5, <2>3, <2>6, PutAside
      <4>4. f[2] \in DOMAIN d /\ d[f[2]] = v
        BY <2>8, <3>1, <3>3, <4>2, <4>3 DEF SameApart, Has
      <4>5. QED
        BY <2>4, <3>3, <4>4 DEF Has
    <3>4. QED
      BY <3>2, <3>3
  <2>9. Alone(g) => Has(g, Value(g))'
    <3>1. SUFFICES ASSUME Alone(g) PROVE Has(g, Value(g))'
      OBVIOUS
    <3>2. i = g[1]
      BY <1>3, <2>2, <3>1 DEF Alone
    <3>3. g[2] \in DOMAIN d /\ d[g[2]] = Value(g)
      BY <1>5, <2>3, <2>6, PutIs
    <3>4. Value(g)' = Value(g)
      BY <1>2 DEF Value
    <3>5. QED
      BY <2>4, <3>2, <3>3, <3>4 DEF Has
  <2>10. FixedKept'
    <3>1. SUFFICES ASSUME NEW f \in DOMAIN ui, Alone(f), ui[f].mode = "fixed", f \notin todo
                   PROVE  Has(f, "fixed")'
      BY <1>2 DEF FixedKept, Alone
    <3>2. f # g
      BY <1>5, <3>1
    <3>3. Has(f, "fixed")
      BY <1>2, <3>1 DEF FaithInv, FixedKept
    <3>4. QED
      BY <2>8, <3>1, <3>2, <3>3
  <2>11. Entered'
    <3>1. SUFFICES ASSUME NEW f \in DOMAIN ui, ui[f].mode = "exposed"
                   PROVE  /\ f \in DOMAIN form
                          /\ ~IsListed(f)' =>
                               form[f] # "bad" /\ (Alone(f) /\ Value(f) # "absent" => Has(f, Value(f))')
      BY <1>2 DEF Entered, Alone, Value, Has
    <3>2. f \in DOMAIN form
      BY <1>2, <3>1 DEF FaithInv, Entered
    <3>3. CASE f = g
      BY <1>2, <2>9, <3>2, <3>3 DEF Refuses
    <3>4. CASE f # g
      <4>1. SUFFICES ASSUME ~IsListed(f)'
                     PROVE  form[f] # "bad" /\ (Alone(f) /\ Value(f) # "absent" => Has(f, Value(f))')
        BY <3>2
      <4>2. ~IsListed(f)
        BY <1>6, <3>4, <4>1
      <4>3. form[f] # "bad" /\ (Alone(f) /\ Value(f) # "absent" => Has(f, Value(f)))
        BY <1>2, <3>1, <4>2 DEF FaithInv, Entered
      <4>4. PICK v : v = Value(f)
        OBVIOUS
      <4>5. Value(f)' = v
        BY <1>2, <4>4 DEF Value
      <4>6. Alone(f) /\ v # "absent" => Has(f, v)'
        BY <2>8, <3>4, <4>3, <4>4
      <4>7. QED
        BY <4>3, <4>4, <4>5, <4>6 DEF Has
    <3>5. QED
      BY <3>3, <3>4
  <2>12. OnlyExposed'
    BY <1>2, <1>6 DEF FaithInv, OnlyExposed
  <2>13. QED
    BY <1>2, <2>7, <2>10, <2>11, <2>12 DEF FaithInv, TodoDone, AllListed, ManifestIsFaithful
<1>9. QED
  BY <1>7, <1>8


LEMMA DeployKeepsFaith ==
  ASSUME FaithInv, DocInv', Deploy PROVE FaithInv'
<1>1. UNCHANGED <<ui, todo, docs, fields>> /\ phase = "deploy" /\ phase' = "render"
  BY DEF Deploy
<1>2. form' \in [{fields[k] : k \in DOMAIN fields} -> {"absent", "given", "bad"}]
  BY DEF Deploy
<1>3. \A f \in DOMAIN ui : ui[f].mode = "exposed" => IsListed(f)
  BY <1>1 DEF FaithInv, TodoDone, AllListed
<1>4. \A f : IsListed(f) => f \in DOMAIN form'
  BY <1>2 DEF IsListed
<1>5. Entered'
  <2>1. \A f : IsListed(f)' <=> IsListed(f)
    BY <1>1 DEF IsListed
  <2>2. QED
    BY <1>1, <1>3, <1>4, <2>1 DEF Entered
<1>6. NamesAreOwn' /\ OnlyExposed' /\ FixedKept'
  BY <1>1 DEF FaithInv, NamesAreOwn, OnlyExposed, FixedKept, Alone, Has, IsListed
<1>7. QED
  BY <1>1, <1>5, <1>6 DEF FaithInv, TodoDone, AllListed, ManifestIsFaithful

LEMMA StampKeepsFaith ==
  ASSUME FaithInv, DocInv', Stamp PROVE FaithInv'
<1>1. /\ UNCHANGED <<ui, todo, fields, form>> /\ phase = "render" /\ phase' = "rendered"
      /\ fields = <<>> /\ docs' = [i \in DOMAIN docs |-> StampLabels(docs[i])]
  BY DEF Stamp
<1>2. /\ DOMAIN docs = DOMAIN Names /\ (\A i \in DOMAIN docs : IsDoc(docs[i]))
      /\ (\A f \in DOMAIN ui : f \in Slot /\ ui[f] \in Field)
      /\ \A f \in DOMAIN form : form[f] \in {"absent", "given", "bad"}
  BY DEF FaithInv, DocInv, TypeOK
<1>3. ASSUME NEW f \in DOMAIN ui, NEW v, v # "absent",
             v = IF ui[f].mode = "fixed" THEN "fixed"
                 ELSE IF form[f] = "given" THEN "given"
                 ELSE IF ui[f].default THEN "default" ELSE "absent",
             Alone(f), \A t \in {<<>>} \cup PodTemplate : Spared(f[2], t)
      PROVE  f[2] \in DOMAIN docs'[f[1]] /\ docs'[f[1]][f[2]] = v
  <2>1. f[1] \in DOMAIN docs /\ f[2] \in Path
    BY <1>2, SlotIsPath
  <2>2. Has(f, v)
    <3>1. CASE ui[f].mode = "fixed"
      <4>1. f \notin todo
        BY <1>1 DEF FaithInv, TodoDone
      <4>2. QED
        BY <1>1, <1>3, <3>1, <4>1 DEF FaithInv, FixedKept
    <3>2. CASE ui[f].mode = "exposed"
      <4>1. ~IsListed(f)
        BY <1>1 DEF IsListed
      <4>2. f \in DOMAIN form /\ form[f] # "bad" /\ (Value(f) # "absent" => Has(f, Value(f)))
        BY <1>1, <1>3, <3>2, <4>1 DEF FaithInv, Entered
      <4>3. form[f] \in {"absent", "given"}
        BY <1>2, <4>2
      <4>4. v = Value(f)
        BY <1>3, <3>2, <4>3 DEF Value
      <4>5. QED
        BY <1>3, <4>2, <4>4
    <3>3. ui[f].mode \in {"fixed", "exposed"}
      BY <1>2 DEF Field
    <3>4. QED
      BY <3>1, <3>2, <3>3
  <2>3. docs'[f[1]] = StampLabels(docs[f[1]]) /\ IsDoc(docs[f[1]])
    BY <1>1, <1>2, <2>1
  <2>4. Keeps(docs[f[1]], docs'[f[1]], f[2])
    BY <1>3, <2>1, <2>3, LabelsKeep
  <2>5. QED
    BY <2>2, <2>4 DEF Has, Keeps
<1>4. ManifestIsFaithful'
  <2>1. SUFFICES ASSUME NEW f \in DOMAIN ui, NEW v, v # "absent",
             v = IF ui[f].mode = "fixed" THEN "fixed"
                 ELSE IF form[f] = "given" THEN "given"
                 ELSE IF ui[f].default THEN "default" ELSE "absent",
             \A j \in DOMAIN Names : Names[j] = Names[f[1]] => j = f[1],
             \A g \in DOMAIN ui \ {f} : g[1] = f[1] =>
               ~IsPrefix(f[2], g[2]) /\ ~IsPrefix(g[2], f[2]),
             \A t \in {<<>>} \cup PodTemplate :
               LET p == t \o <<metadata, labels, release>> IN
               f[2] # p /\ Agreeing(f[2], p) /\ Agreeing(p, f[2])
           PROVE  f[2] \in DOMAIN docs'[f[1]] /\ docs'[f[1]][f[2]] = v
    BY <1>1 DEF ManifestIsFaithful
  <2>2. Alone(f)
    BY <2>1 DEF Alone, Apart
  <2>3. \A t \in {<<>>} \cup PodTemplate : Spared(f[2], t)
    BY <2>1 DEF Spared
  <2>4. QED
    BY <1>3, <2>1, <2>2, <2>3
<1>5. OnlyExposed'
  BY <1>1 DEF FaithInv, OnlyExposed, IsListed
<1>6. QED
  BY <1>1, <1>4, <1>5 DEF FaithInv, NamesAreOwn, TodoDone, AllListed, FixedKept, Entered

LEMMA FaithStep == FaithInv /\ [Next]_vars => FaithInv'
<1> SUFFICES ASSUME FaithInv, [Next]_vars PROVE FaithInv'
  OBVIOUS
<1>1. DocInv'
  BY DocStep DEF FaithInv
<1>2. ASSUME NEW f \in Slot, SerializeField(f) PROVE FaithInv'
  BY <1>1, <1>2, SerializeKeepsFaith
<1>3. CASE Deploy
  BY <1>1, <1>3, DeployKeepsFaith
<1>4. CASE SetField
  BY <1>1, <1>4, SetKeepsFaith
<1>5. CASE Stamp
  BY <1>1, <1>5, StampKeepsFaith
<1>6. ASSUME UNCHANGED <<ui, todo, docs, fields, form>>, phase' \in {"rejected", "refused", "failed"},
             phase # "rendered"
      PROVE  FaithInv'
  BY <1>1, <1>6 DEF FaithInv, NamesAreOwn, TodoDone, OnlyExposed, AllListed, FixedKept, Entered,
     ManifestIsFaithful, IsListed
<1>7. ASSUME NEW f \in Slot, SerializeRejects(f) PROVE FaithInv'
  BY <1>6, <1>7 DEF SerializeRejects, NextField
<1>8. CASE Refuse
  BY <1>6, <1>8 DEF Refuse
<1>9. CASE Fail
  BY <1>6, <1>9 DEF Fail
<1>10. CASE Serialized
  <2>1. /\ UNCHANGED <<ui, todo, docs, fields, form>>
        /\ phase = "serialize" /\ todo = {} /\ phase' = "deploy"
    BY <1>10 DEF Serialized
  <2>2. OnlyExposed' /\ NamesAreOwn' /\ AllListed'
    BY <2>1 DEF FaithInv, OnlyExposed, NamesAreOwn, AllListed, IsListed
  <2>3. FixedKept'
    BY <2>1 DEF FaithInv, FixedKept, Alone, Has
  <2>4. QED
    BY <1>1, <2>1, <2>2, <2>3 DEF FaithInv, TodoDone, Entered, ManifestIsFaithful
<1>11. CASE UNCHANGED vars
  <2>1. UNCHANGED <<ui, phase, todo, docs, fields, form>>
    BY <1>11 DEF vars
  <2>2. NamesAreOwn' /\ TodoDone' /\ OnlyExposed' /\ AllListed'
    BY <2>1 DEF FaithInv, NamesAreOwn, TodoDone, OnlyExposed, AllListed, IsListed
  <2>3. FixedKept' /\ Entered'
    BY <2>1 DEF FaithInv, FixedKept, Entered, Alone, Has, Value, IsListed
  <2>4. ManifestIsFaithful'
    BY <2>1 DEF FaithInv, ManifestIsFaithful
  <2>5. QED
    BY <1>1, <2>2, <2>3, <2>4 DEF FaithInv
<1>12. QED
  BY <1>2, <1>3, <1>4, <1>5, <1>7, <1>8, <1>9, <1>10, <1>11 DEF Next

(* What the editor fixed, and what the user entered or left at its default,  *)
(* is in the manifest that is applied, whatever the order in which           *)
(* SerializeUIMode took the fields.                                          *)
THEOREM FormIsRendered == Spec => []ManifestIsFaithful
<1>1. FaithInv => ManifestIsFaithful
  BY DEF FaithInv
<1>2. QED
  BY <1>1, FaithInit, FaithStep, PTL DEF Spec


-----------------------------------------------------------------------------
(* SerializeUIMode makes what the fields declare.  Written fields done so    *)
(* far, with the name, are on the document with all that is above them; what *)
(* else there is are slots by which an array on the way has grown.           *)
IsWritten(f) == f \in DOMAIN ui /\ Writes(f)
IsDone(i, q) == q = NamePath \/ \E f \in Slot : IsWritten(f) /\ f \notin todo /\ f[1] = i /\ f[2] = q
Scalars(i) == PathsOf({f \in DOMAIN ui : Writes(f)}, i) \cup {NamePath}
IsPlain(i) ==
  Coherent(Scalars(i)) /\ NamePath \notin PathsOf({f \in DOMAIN ui : Writes(f)}, i)

DoneIsThere(i) == \A p : IsDone(i, p) => p \in DOMAIN docs[i] /\ Above(p) \subseteq DOMAIN docs[i]
NoMoreThanDone(i) ==
  \A q \in DOMAIN docs[i] : \E p : IsDone(i, p) /\ (q = p \/ q \in Above(p) \/ q \in NewSlots(p))
DoneIsConstant(i) ==
  \A f \in Slot : IsWritten(f) /\ f \notin todo /\ f[1] = i => docs[i][f[2]] = Constant(f)

MadeSoFar ==
  phase \in {"serialize", "deploy"} =>
    \A i \in DOMAIN Names :
      IsPlain(i) => DoneIsThere(i) /\ NoMoreThanDone(i) /\ DoneIsConstant(i)

MadeInv == DocInv /\ TodoDone /\ MadeSoFar

LEMMA PathsAre ==
  \A F, i, q : q \in PathsOf(F, i) <=> \E f \in F : f[1] = i /\ f[2] = q
BY DEF PathsOf

LEMMA WrittenSlot == ASSUME DocInv, NEW f, IsWritten(f) PROVE f \in Slot /\ f[2] \in Scalars(f[1])
<1>1. f \in {g \in DOMAIN ui : Writes(g)} /\ f \in Slot
  BY DEF IsWritten, DocInv, TypeOK
<1>2. QED
  BY <1>1, PathsAre DEF Scalars

LEMMA NameIsPath == NamePath \in Path
BY KeysAreKeys DEF Path, NamePath

(* Two declared paths that are not the same lie apart.                       *)
LEMMA DeclaredApart ==
  ASSUME NEW P, Coherent(P), NEW p \in P, NEW q \in P, p # q PROVE Apart(p, q)
BY DEF Coherent, Agreeing, Apart, IsStrictPrefix

LEMMA MadeInit == Init => MadeInv
<1> SUFFICES ASSUME Init PROVE MadeInv
  OBVIOUS
<1>1. DocInv
  BY InitType DEF DocInv, FormIsWhole, Init
<1>2. phase = "serialize" /\ todo = DOMAIN ui
  BY DEF Init
<1>3. ASSUME NEW i \in DOMAIN Names
      PROVE  DoneIsThere(i) /\ NoMoreThanDone(i) /\ DoneIsConstant(i)
  <2>1. \A p : IsDone(i, p) <=> p = NamePath
    BY <1>2 DEF IsDone, IsWritten
  <2>2. PICK d : d = [q \in {<<>>} |-> "map"]
    OBVIOUS
  <2>3. Paths(d) /\ DOMAIN d = {<<>>}
    BY <2>2 DEF Paths, Path
  <2>4. docs[i] = Put(d, NamePath, Names[i])
    BY <2>2 DEF Init, NamePath
  <2>5. \A q : q \in DOMAIN docs[i] <=>
               q = NamePath \/ q \in Above(NamePath) \/ (q = <<>> /\ ~IsStrictPrefix(NamePath, q))
    BY <2>3, <2>4, NameIsPath, PutIs
  <2>6. <<>> \in Above(NamePath)
    <3>1. <<>> \in Path /\ Len(<<>>) = 0 /\ Len(NamePath) = 2 /\ NamePath # <<>>
      BY DEF Path, NamePath
    <3>2. IsPrefix(<<>>, NamePath)
      BY <3>1, NameIsPath, PrefixIs
    <3>3. QED
      BY <3>1, <3>2, NameIsPath, AboveIs DEF IsStrictPrefix
  <2>7. DoneIsThere(i)
    BY <2>1, <2>5 DEF DoneIsThere
  <2>8. NoMoreThanDone(i)
    BY <2>1, <2>5, <2>6 DEF NoMoreThanDone
  <2>9. DoneIsConstant(i)
    BY <1>2 DEF DoneIsConstant, IsWritten
  <2>10. QED
    BY <2>7, <2>8, <2>9
<1>4. QED
  BY <1>1, <1>2, <1>3 DEF MadeInv, TodoDone, MadeSoFar

LEMMA FieldMakes ==
  ASSUME MadeInv, DocInv', NEW g \in Slot, SerializeField(g) PROVE MadeInv'
<1>1. /\ UNCHANGED <<ui, phase, form>> /\ phase = "serialize" /\ g \in todo /\ g \in DOMAIN ui
      /\ todo' = todo \ {g} /\ DocInv
  BY DEF SerializeField, NextField, MadeInv, DocInv, TypeOK
<1>2. DOMAIN docs = DOMAIN Names /\ (\A i \in DOMAIN docs : IsDoc(docs[i]))
  BY <1>1 DEF DocInv, TypeOK
<1>3. g[1] \in DOMAIN docs /\ g[2] \in Path
  BY <1>2, SlotIsPath
<1>4. PICK d : d = SetJSONPathAbsolute(docs[g[1]], g[2], Constant(g))
  OBVIOUS
<1>5. docs' = IF Writes(g) THEN [docs EXCEPT ![g[1]] = d] ELSE docs
  BY <1>4 DEF SerializeField
<1>6. \A f : IsWritten(f)' = IsWritten(f) /\ Constant(f)' = Constant(f)
  BY <1>1 DEF IsWritten, Writes, Constant
<1>7. \A i : IsPlain(i)' = IsPlain(i)
  BY <1>1 DEF IsPlain, Scalars, Writes
<1>8. \A i, q : IsDone(i, q)' <=> IsDone(i, q) \/ (Writes(g) /\ g[1] = i /\ g[2] = q)
  <2>1. IsWritten(g) <=> Writes(g)
    BY <1>1 DEF IsWritten
  <2>2. QED
    BY <1>1, <1>6, <2>1 DEF IsDone
<1>9. SUFFICES ASSUME NEW i \in DOMAIN Names, IsPlain(i)
               PROVE  DoneIsThere(i)' /\ NoMoreThanDone(i)' /\ DoneIsConstant(i)'
  BY <1>1, <1>7 DEF MadeInv, TodoDone, MadeSoFar
<1>10. DoneIsThere(i) /\ NoMoreThanDone(i) /\ DoneIsConstant(i)
  BY <1>1, <1>9 DEF MadeInv, MadeSoFar
<1>11. CASE ~(Writes(g) /\ g[1] = i)
  <2>1. docs'[i] = docs[i]
    BY <1>2, <1>5, <1>9, <1>11
  <2>2. \A q : IsDone(i, q)' <=> IsDone(i, q)
    BY <1>8, <1>11
  <2>3. DoneIsThere(i)' /\ NoMoreThanDone(i)'
    BY <1>10, <2>1, <2>2 DEF DoneIsThere, NoMoreThanDone
  <2>4. DoneIsConstant(i)'
    BY <1>1, <1>6, <1>10, <1>11, <2>1 DEF DoneIsConstant, IsWritten
  <2>5. QED
    BY <2>3, <2>4
<1>12. CASE Writes(g) /\ g[1] = i
  <2> DEFINE p == g[2]
  <2>1. docs'[i] = d /\ d = SetJSONPathAbsolute(docs[i], p, Constant(g)) /\ p \in Path
    BY <1>2, <1>3, <1>4, <1>5, <1>12
  <2> HIDE DEF p
  <2>2. PICK e : e = Put(docs[i], p, Constant(g))
    OBVIOUS
  <2>3. d = Grow(e, p)
    BY <2>1, <2>2 DEF SetJSONPathAbsolute
  <2>4. Paths(docs[i])
    BY <1>2, <1>9, DocIs DEF Tree
  <2>5. Paths(e) /\ \A q : q \in DOMAIN e <=>
           q = p \/ q \in Above(p) \/ (q \in DOMAIN docs[i] /\ ~IsStrictPrefix(p, q))
    BY <2>1, <2>2, <2>4, PutIs
  <2>6. \A q : q \in DOMAIN d <=> q \in DOMAIN e \/ q \in NewSlots(p)
    BY <2>1, <2>3, <2>5, GrowIs
  <2>7. p \in Scalars(i) /\ Coherent(Scalars(i)) /\ p # NamePath
    <3>1. IsWritten(g)
      BY <1>1, <1>12 DEF IsWritten
    <3>2. p \in Scalars(i)
      BY <1>1, <1>12, <3>1, WrittenSlot DEF p
    <3>3. p \in PathsOf({f \in DOMAIN ui : Writes(f)}, i)
      BY <1>1, <1>12, PathsAre DEF p
    <3>4. QED
      BY <1>9, <3>2, <3>3 DEF IsPlain
  <2>8. \A q : IsDone(i, q) => q \in Path /\ q \in Scalars(i) /\ (q = p \/ Apart(p, q))
    <3>1. ASSUME NEW q, IsDone(i, q) PROVE q \in Path /\ q \in Scalars(i)
      <4>1. CASE q = NamePath
        BY <4>1, NameIsPath DEF Scalars
      <4>2. CASE \E f \in Slot : IsWritten(f) /\ f[1] = i /\ f[2] = q
        BY <1>1, <4>2, WrittenSlot, SlotIsPath
      <4>3. QED
        BY <3>1, <4>1, <4>2 DEF IsDone
    <3>2. QED
      BY <2>7, <3>1, DeclaredApart
  <2>9. DoneIsThere(i)'
    <3>1. \A q : (q = p \/ q \in Above(p)) => q \in DOMAIN d
      BY <2>5, <2>6
    <3>2. ASSUME NEW q, IsDone(i, q), q # p
          PROVE  q \in DOMAIN d /\ Above(q) \subseteq DOMAIN d
      <4>1. q \in DOMAIN docs[i] /\ Above(q) \subseteq DOMAIN docs[i] /\ q \in Path /\ Apart(p, q)
        BY <1>10, <2>8, <3>2 DEF DoneIsThere
      <4>2. ~IsStrictPrefix(p, q)
        BY <4>1 DEF Apart, IsStrictPrefix
      <4>3. ASSUME NEW a \in Above(q) PROVE ~IsStrictPrefix(p, a)
        <5>1. a \in Path /\ IsPrefix(a, q)
          BY <4>1, AboveArePaths, OnTheWay
        <5>2. QED
          BY <2>1, <4>1, <5>1, PrefixTrans DEF Apart, IsStrictPrefix
      <4>4. QED
        BY <2>5, <2>6, <4>1, <4>2, <4>3
    <3>3. \A q : IsDone(i, q)' => IsDone(i, q) \/ q = p
      BY <1>8, <1>12 DEF p
    <3>4. QED
      BY <2>1, <3>1, <3>2, <3>3 DEF DoneIsThere
  <2>10. NoMoreThanDone(i)'
    <3>1. IsDone(i, p)' /\ \A q : IsDone(i, q) => IsDone(i, q)'
      BY <1>8, <1>12 DEF p
    <3>2. ASSUME NEW q \in DOMAIN d
          PROVE  \E r : IsDone(i, r)' /\ (q = r \/ q \in Above(r) \/ q \in NewSlots(r))
      <4>1. CASE q = p \/ q \in Above(p) \/ q \in NewSlots(p)
        BY <3>1, <4>1
      <4>2. CASE q \in DOMAIN docs[i]
        BY <1>10, <3>1, <4>2 DEF NoMoreThanDone
      <4>3. QED
        BY <2>5, <2>6, <4>1, <4>2
    <3>3. QED
      BY <2>1, <3>2 DEF NoMoreThanDone
  <2>11. DoneIsConstant(i)'
    <3>1. SUFFICES ASSUME NEW f \in Slot, IsWritten(f), f \notin todo', f[1] = i
                   PROVE  docs'[i][f[2]] = Constant(f)
      BY <1>6 DEF DoneIsConstant
    <3>2. CASE f = g
      BY <2>1, <2>4, <3>2, SetIs DEF p
    <3>3. CASE f # g
      <4>1. f \notin todo /\ f[2] # p
        BY <1>1, <1>12, <3>1, <3>3, SlotIsPath DEF p
      <4>2. IsDone(i, f[2]) /\ docs[i][f[2]] = Constant(f)
        BY <1>10, <3>1, <4>1 DEF IsDone, DoneIsConstant
      <4>3. Apart(p, f[2]) /\ f[2] \in DOMAIN docs[i]
        BY <1>10, <2>8, <4>1, <4>2 DEF DoneIsThere
      <4>4. QED
        BY <2>1, <2>4, <4>2, <4>3, SetIs
    <3>4. QED
      BY <3>2, <3>3
  <2>12. QED
    BY <2>9, <2>10, <2>11
<1>13. QED
  BY <1>11, <1>12


LEMMA MadeStep == MadeInv /\ [Next]_vars => MadeInv'
<1> SUFFICES ASSUME MadeInv, [Next]_vars PROVE MadeInv'
  OBVIOUS
<1>1. DocInv'
  BY DocStep DEF MadeInv
<1>2. ASSUME NEW f \in Slot, SerializeField(f) PROVE MadeInv'
  BY <1>1, <1>2, FieldMakes
<1>3. ASSUME UNCHANGED <<ui, todo, docs>>, phase' \in {"serialize", "deploy"} => phase = "serialize",
             phase' = "deploy" => todo = {}, phase' = "render" => phase = "deploy" \/ todo = {}
      PROVE  MadeInv'
  <2>1. TodoDone'
    BY <1>3 DEF MadeInv, TodoDone
  <2>2. \A f : IsWritten(f)' = IsWritten(f) /\ Constant(f)' = Constant(f)
    BY <1>3 DEF IsWritten, Writes, Constant
  <2>3. \A i : IsPlain(i)' = IsPlain(i)
    BY <1>3 DEF IsPlain, Scalars, Writes
  <2>4. \A i, q : IsDone(i, q)' = IsDone(i, q)
    BY <1>3, <2>2 DEF IsDone
  <2>5. ASSUME NEW i \in DOMAIN Names, DoneIsThere(i), NoMoreThanDone(i), DoneIsConstant(i)
        PROVE  DoneIsThere(i)' /\ NoMoreThanDone(i)' /\ DoneIsConstant(i)'
    <3>1. DoneIsThere(i)' /\ NoMoreThanDone(i)'
      BY <1>3, <2>4, <2>5 DEF DoneIsThere, NoMoreThanDone
    <3>2. DoneIsConstant(i)'
      BY <1>3, <2>2, <2>5 DEF DoneIsConstant
    <3>3. QED
      BY <3>1, <3>2
  <2>6. MadeSoFar'
    BY <1>3, <2>3, <2>5 DEF MadeInv, MadeSoFar
  <2>7. QED
    BY <1>1, <2>1, <2>6 DEF MadeInv
<1>4. CASE Serialized
  BY <1>3, <1>4 DEF Serialized
<1>5. CASE Deploy
  BY <1>3, <1>5 DEF Deploy
<1>6. CASE SetField \/ Stamp
  <2>1. phase' \notin {"serialize", "deploy"} /\ phase = "render" /\ todo' = todo
    BY <1>6 DEF SetField, Stamp
  <2>2. QED
    BY <1>1, <2>1 DEF MadeInv, TodoDone, MadeSoFar
<1>7. ASSUME NEW f \in Slot, SerializeRejects(f) PROVE MadeInv'
  BY <1>3, <1>7 DEF SerializeRejects
<1>8. CASE Refuse \/ Fail
  BY <1>3, <1>8 DEF Refuse, Fail
<1>9. CASE UNCHANGED vars
  <2>1. UNCHANGED <<ui, phase, todo, docs, fields, form>>
    BY <1>9 DEF vars
  <2>2. TodoDone'
    BY <2>1 DEF MadeInv, TodoDone
  <2>3. \A f : IsWritten(f)' = IsWritten(f) /\ Constant(f)' = Constant(f)
    BY <2>1 DEF IsWritten, Writes, Constant
  <2>4. \A i : IsPlain(i)' = IsPlain(i)
    BY <2>1 DEF IsPlain, Scalars, Writes
  <2>5. \A i, q : IsDone(i, q)' = IsDone(i, q)
    BY <2>1, <2>3 DEF IsDone
  <2>6. ASSUME NEW i \in DOMAIN Names, DoneIsThere(i), NoMoreThanDone(i), DoneIsConstant(i)
        PROVE  DoneIsThere(i)' /\ NoMoreThanDone(i)' /\ DoneIsConstant(i)'
    BY <2>1, <2>3, <2>5, <2>6 DEF DoneIsThere, NoMoreThanDone, DoneIsConstant
  <2>7. MadeSoFar'
    BY <2>1, <2>4, <2>6 DEF MadeInv, MadeSoFar
  <2>8. QED
    BY <1>1, <2>2, <2>7 DEF MadeInv
<1>10. QED
  BY <1>2, <1>4, <1>5, <1>6, <1>7, <1>8, <1>9 DEF Next

(* When nothing is left out of an array, its slots are nodes of the document *)
(* that is declared.                                                         *)
LEMMA SlotsAreDeclared ==
  ASSUME NEW P \in SUBSET Path, Coherent(P), NEW p \in P, NEW q \in NewSlots(p)
  PROVE  q \in P \/ \E r \in P : q \in Above(r)
<1>1. PICK n \in DOMAIN p :
        /\ p[n] \notin Key /\ p[n] \in Nat /\ n \in Nat \ {0}
        /\ q = Append(UpTo(p, n - 1), q[n]) /\ q[n] \in 0..(p[n] - 1)
  BY SlotPath
<1>2. PICK r \in P : Len(r) >= n /\ UpTo(r, n) = q
  <2>1. p[n] > 0
    BY <1>1
  <2>2. QED
    BY <1>1, <2>1 DEF Coherent
<1>3. r \in Path /\ Len(r) \in Nat
  BY DEF Path
<1>4. CASE Len(r) = n
  <2>1. UpTo(r, Len(r)) = r
    BY <1>3, UpToIs, SamePath
  <2>2. QED
    BY <1>2, <1>4, <2>1
<1>5. CASE Len(r) > n
  BY <1>1, <1>2, <1>3, <1>5 DEF Above
<1>6. QED
  BY <1>1, <1>2, <1>3, <1>4, <1>5

LEMMA MadeIsDeclared == MadeInv => SerializesDeclared
<1> SUFFICES ASSUME MadeInv, phase = "deploy", NEW i \in DOMAIN docs, IsPlain(i)
             PROVE  /\ DOMAIN docs[i] = Scalars(i) \cup UNION {Above(p) : p \in Scalars(i)}
                    /\ \A f \in {g \in DOMAIN ui : Writes(g)} : f[1] = i => docs[i][f[2]] = Constant(f)
  BY DEF SerializesDeclared, IsPlain, Scalars, NamePath
<1>1. todo = {} /\ DOMAIN docs = DOMAIN Names /\ DocInv
  BY DEF MadeInv, TodoDone, DocInv, TypeOK
<1>2. DoneIsThere(i) /\ NoMoreThanDone(i) /\ DoneIsConstant(i)
  BY <1>1 DEF MadeInv, MadeSoFar
<1>3. \A f : f \in {g \in DOMAIN ui : Writes(g)} <=> f \in Slot /\ IsWritten(f)
  BY <1>1, WrittenSlot DEF IsWritten
<1>4. \A q : IsDone(i, q) <=> q \in Scalars(i)
  <2>1. ASSUME NEW q PROVE q \in PathsOf({g \in DOMAIN ui : Writes(g)}, i)
                             <=> \E f \in Slot : IsWritten(f) /\ f[1] = i /\ f[2] = q
    BY <1>3, PathsAre
  <2>2. QED
    BY <1>1, <2>1 DEF IsDone, Scalars
<1>5. Scalars(i) \subseteq Path /\ Coherent(Scalars(i))
  <2>1. \A q \in Scalars(i) : q \in Path
    BY <1>4, NameIsPath, SlotIsPath DEF IsDone
  <2>2. QED
    BY <2>1 DEF IsPlain
<1>6. ASSUME NEW q \in DOMAIN docs[i]
      PROVE  q \in Scalars(i) \/ \E p \in Scalars(i) : q \in Above(p)
  <2>1. PICK p : p \in Scalars(i) /\ (q = p \/ q \in Above(p) \/ q \in NewSlots(p))
    BY <1>2, <1>4 DEF NoMoreThanDone
  <2>2. QED
    BY <1>5, <2>1, SlotsAreDeclared
<1>7. \A p \in Scalars(i) : p \in DOMAIN docs[i] /\ Above(p) \subseteq DOMAIN docs[i]
  BY <1>2, <1>4 DEF DoneIsThere
<1>8. DOMAIN docs[i] = Scalars(i) \cup UNION {Above(p) : p \in Scalars(i)}
  BY <1>6, <1>7
<1>9. \A f \in {g \in DOMAIN ui : Writes(g)} : f[1] = i => docs[i][f[2]] = Constant(f)
  BY <1>1, <1>2, <1>3 DEF DoneIsConstant
<1>10. QED
  BY <1>8, <1>9

(* From fields that can be parts of one document SerializeUIMode makes that  *)
(* document, the node of every field and of what is above it and nothing     *)
(* else, in whatever order Go ranges over the fields.                        *)
THEOREM DeclaredIsSerialized == Spec => []SerializesDeclared
BY MadeInit, MadeStep, MadeIsDeclared, PTL DEF Spec

-----------------------------------------------------------------------------
(* Why a deployment fails.  The way of a path in a document: the containers  *)
(* above it are of its kinds.                                                *)
Clear(doc, p) == \A a \in Above(p) \cap DOMAIN doc : doc[a] = Kind(p[Len(a) + 1])

LEMMA ClearPut ==
  ASSUME NEW doc, Paths(doc), NEW p \in Path, Clear(doc, p),
         NEW q \in Path, Agreeing(p, q), Agreeing(q, p), NEW v, NEW e, e = Put(doc, q, v)
  PROVE  Clear(e, p)
<1>1. SUFFICES ASSUME NEW a \in Above(p), a \in DOMAIN e
               PROVE  e[a] = Kind(p[Len(a) + 1])
  BY DEF Clear
<1>2. PICK k \in DOMAIN p : a = UpTo(p, k - 1) /\ Len(a) + 1 = k
  BY UpToAbove
<1>3. a \in Path /\ IsStrictPrefix(a, p) /\ k \in 1..Len(p)
  BY AboveArePaths, AboveIs DEF Path
<1>4. a # q
  BY <1>3 DEF Agreeing
<1>5. CASE a \in Above(q)
  <2>1. PICK n \in DOMAIN q : a = UpTo(q, n - 1) /\ Len(a) + 1 = n
    BY <1>5, UpToAbove
  <2>2. n = k /\ n <= Len(q)
    BY <1>2, <2>1, StepUp
  <2>3. Kind(p[k]) = Kind(q[k])
    BY <1>2, <1>3, <2>1, <2>2 DEF Agreeing
  <2>4. QED
    BY <1>2, <1>5, <2>1, <2>2, <2>3, PutIs
<1>6. CASE a \notin Above(q)
  <2>1. a \in DOMAIN doc /\ e[a] = doc[a]
    BY <1>1, <1>4, <1>6, PutIs
  <2>2. QED
    BY <1>1, <2>1 DEF Clear
<1>7. QED
  BY <1>5, <1>6

(* The slots of an array that holds containers are containers as p has them. *)
LEMMA ClearGrow ==
  ASSUME NEW doc, Paths(doc), NEW p \in Path, Clear(doc, p),
         NEW q \in Path, Agreeing(p, q), OneKind(p, q), NEW d, d = Grow(doc, q)
  PROVE  Clear(d, p)
<1>1. SUFFICES ASSUME NEW a \in Above(p), a \in DOMAIN d
               PROVE  d[a] = Kind(p[Len(a) + 1])
  BY DEF Clear
<1>2. CASE a \in DOMAIN doc
  BY <1>1, <1>2, GrowIs DEF Clear
<1>3. CASE a \notin DOMAIN doc
  <2>1. a \in NewSlots(q)
        /\ d[a] = IF Len(a) = Len(q) THEN "nil" ELSE Kind(q[Len(a) + 1])
    BY <1>1, <1>3, GrowIs
  <2>2. PICK n \in DOMAIN q :
          /\ q[n] \notin Key /\ n \in Nat \ {0} /\ n <= Len(q)
          /\ a \in Path /\ Len(a) = n /\ DOMAIN a = 1..n /\ a[n] \notin Key
          /\ \A k \in 1..n : k \in DOMAIN q /\ UpTo(a, k - 1) = UpTo(q, k - 1)
    BY <2>1, SlotPath
  <2>3. IsStrictPrefix(a, p) /\ IsPrefix(a, p) /\ n \in DOMAIN a /\ n \in 1..n
    BY <1>1, <2>2, AboveIs DEF IsStrictPrefix
  <2>4. n \in DOMAIN p /\ a[n] = p[n] /\ UpTo(a, n - 1) = UpTo(p, n - 1)
    BY <2>2, <2>3, SameAbove
  <2>5. Len(p) \in Nat /\ Len(q) \in Nat /\ n \in 1..Len(p) /\ n < Len(p)
    <3>1. PICK m \in DOMAIN p : Len(a) + 1 = m
      BY <1>1, UpToAbove
    <3>2. QED
      BY <2>2, <2>4, <3>1 DEF Path
  <2>6. UpTo(p, n - 1) = UpTo(q, n - 1) /\ p[n] \notin Key
    BY <2>2, <2>3, <2>4
  <2>7. n < Len(q)
    BY <2>2, <2>5, <2>6 DEF OneKind
  <2>8. Kind(p[n + 1]) = Kind(q[n + 1])
    BY <2>2, <2>5, <2>6, <2>7 DEF Agreeing
  <2>9. QED
    BY <2>1, <2>2, <2>7, <2>8
<1>4. QED
  BY <1>2, <1>3

LEMMA ClearSet ==
  ASSUME NEW doc, Paths(doc), NEW p \in Path, Clear(doc, p),
         NEW q \in Path, Agreeing(p, q), Agreeing(q, p), OneKind(p, q),
         NEW v, NEW d, d = SetJSONPathAbsolute(doc, q, v)
  PROVE  Clear(d, p)
<1>1. PICK e : e = Put(doc, q, v)
  OBVIOUS
<1>2. Clear(e, p) /\ Paths(e)
  BY <1>1, ClearPut, PutIs
<1>3. QED
  BY <1>1, <1>2, ClearGrow DEF SetJSONPathAbsolute

(* Nothing on the way of p is lost when what is set is not above p.          *)
LEMMA PutLeaves ==
  ASSUME NEW doc, Paths(doc), NEW p \in Path, NEW q \in Path, ~IsStrictPrefix(q, p),
         NEW v, NEW e, e = Put(doc, q, v), NEW k \in 0..Len(p), UpTo(p, k) \in DOMAIN doc
  PROVE  UpTo(p, k) \in DOMAIN e
<1> DEFINE a == UpTo(p, k)
<1>1. a \in Path /\ Len(a) = k /\ (\A i \in 1..k : a[i] = p[i]) /\ Len(p) \in Nat /\ k <= Len(p)
  BY UpToIs DEF Path
<1>2. IsPrefix(a, p)
  BY <1>1, PrefixIs
<1>3. ~IsStrictPrefix(q, a)
  <2>1. SUFFICES ASSUME IsPrefix(q, a), q # a PROVE FALSE
    BY DEF IsStrictPrefix
  <2>2. IsPrefix(q, p)
    BY <1>1, <1>2, <2>1, PrefixTrans
  <2>3. q = p
    BY <2>2 DEF IsStrictPrefix
  <2>4. Len(p) <= Len(a)
    BY <1>1, <2>1, <2>3, PrefixIs
  <2>5. Len(a) = Len(p) /\ \A i \in 1..Len(a) : a[i] = p[i]
    BY <1>1, <2>4
  <2>6. a = p
    BY <1>1, <2>5, SamePath
  <2>7. QED
    BY <2>1, <2>3, <2>6
<1>4. QED
  BY <1>3, PutIs

LEMMA SetLeaves ==
  ASSUME NEW doc, Paths(doc), NEW p \in Path, NEW q \in Path, ~IsStrictPrefix(q, p),
         NEW v, NEW d, d = SetJSONPathAbsolute(doc, q, v),
         NEW k \in 0..Len(p), UpTo(p, k) \in DOMAIN doc
  PROVE  UpTo(p, k) \in DOMAIN d
<1>1. PICK e : e = Put(doc, q, v)
  OBVIOUS
<1>2. UpTo(p, k) \in DOMAIN e /\ Paths(e)
  BY <1>1, PutLeaves, PutIs
<1>3. QED
  BY <1>1, <1>2, GrowIs DEF SetJSONPathAbsolute

LEMMA UpToStep ==
  ASSUME NEW p \in Path, NEW k \in DOMAIN p
  PROVE  UpTo(p, k) = Append(UpTo(p, k - 1), p[k]) /\ UpTo(p, k) \in Path
<1>1. /\ UpTo(p, k - 1) \in Path /\ Len(UpTo(p, k - 1)) = k - 1
      /\ k \in Nat \ {0} /\ k \in 0..Len(p) /\ k - 1 \in 0..Len(p)
      /\ p[k] \in Key \cup Nat
  BY StepUp DEF Path
<1>2. PICK u : u = Append(UpTo(p, k - 1), p[k])
  OBVIOUS
<1>3. u \in Path /\ Len(u) = k /\ u[k] = p[k] /\ \A i \in 1..k - 1 : u[i] = UpTo(p, k - 1)[i]
  BY <1>1, <1>2 DEF Path
<1>4. /\ UpTo(p, k) \in Path /\ Len(UpTo(p, k)) = k
      /\ \A i \in 1..k : UpTo(p, k)[i] = p[i]
      /\ \A i \in 1..k - 1 : UpTo(p, k - 1)[i] = p[i]
  BY <1>1, UpToIs
<1>5. \A i \in 1..k : u[i] = UpTo(p, k)[i]
  BY <1>1, <1>3, <1>4
<1>6. QED
  BY <1>2, <1>3, <1>4, <1>5, SamePath

(* The array that is made has the index at which p enters it, and the ones   *)
(* before it.                                                                *)
LEMMA SetMakes ==
  ASSUME NEW doc, Paths(doc), NEW p \in Path, NEW q \in Path,
         NEW k \in DOMAIN p, p[k] \notin Key, k <= Len(q), UpTo(q, k - 1) = UpTo(p, k - 1),
         q[k] \notin Key, q[k] >= p[k], NEW v, NEW d, d = SetJSONPathAbsolute(doc, q, v)
  PROVE  UpTo(p, k) \in DOMAIN d
<1>1. k \in Nat \ {0} /\ k \in DOMAIN q /\ Len(q) \in Nat /\ p[k] \in Nat /\ q[k] \in Nat
  BY DEF Path
<1>2. UpTo(p, k) = Append(UpTo(q, k - 1), p[k])
  BY UpToStep
<1>3. PICK e : e = Put(doc, q, v)
  OBVIOUS
<1>4. d = Grow(e, q) /\ Paths(e)
  BY <1>3, PutIs DEF SetJSONPathAbsolute
<1>5. CASE q[k] = p[k]
  <2>1. UpTo(p, k) = UpTo(q, k)
    BY <1>1, <1>2, <1>5, UpToStep
  <2>2. UpTo(q, k) = q \/ UpTo(q, k) \in Above(q)
    <3>1. CASE k = Len(q)
      BY <1>1, <3>1, UpToIs, SamePath
    <3>2. CASE k # Len(q)
      BY <1>1, <3>2 DEF Above
    <3>3. QED
      BY <3>1, <3>2
  <2>3. UpTo(p, k) \in DOMAIN e
    BY <1>3, <2>1, <2>2, PutIs
  <2>4. QED
    BY <1>4, <2>3, GrowIs
<1>6. CASE q[k] > p[k]
  <2>1. p[k] \in 0..(q[k] - 1)
    BY <1>1, <1>6
  <2>2. UpTo(p, k) \in NewSlots(q)
    BY <1>1, <1>2, <2>1, SlotIs
  <2>3. QED
    BY <1>4, <2>2, GrowIs
<1>7. QED
  BY <1>1, <1>5, <1>6

(* A name that is a scalar is neither replaced nor passed through.           *)
HasOwnName(i, doc) == NamePath \in DOMAIN doc /\ doc[NamePath] = Names[i]

LEMMA NameApart ==
  ASSUME NEW i \in DOMAIN Names, NEW doc, HasOwnName(i, doc), NEW q \in Path,
         q # <<>>, q \notin {<<metadata>>, <<metadata, name>>},
         SettableAbsolute(doc, q) \/ Settable(doc, q)
  PROVE  Apart(q, NamePath)
<1>1. /\ NamePath \in Path /\ Len(NamePath) = 2 /\ NamePath[1] = metadata /\ NamePath[2] = name
      /\ <<metadata>> \in Path /\ Len(<<metadata>>) = 1 /\ Len(q) \in Nat /\ name \in Key
  BY NameIsPath, LabelPaths, KeysAreKeys DEF NamePath, Path
<1>2. ASSUME IsPrefix(q, NamePath) PROVE FALSE
  <2>1. Len(q) <= 2 /\ \A n \in 1..Len(q) : q[n] = NamePath[n]
    BY <1>1, <1>2, PrefixIs
  <2>2. CASE Len(q) = 0
    BY <2>2 DEF Path
  <2>3. CASE Len(q) = 1
    <3>1. \A n \in 1..Len(q) : q[n] = <<metadata>>[n]
      BY <1>1, <2>1, <2>3
    <3>2. QED
      BY <1>1, <2>3, <3>1, SamePath
  <2>4. CASE Len(q) = 2
    <3>1. q = NamePath
      BY <1>1, <2>1, <2>4, SamePath
    <3>2. QED
      BY <3>1 DEF NamePath
  <2>5. Len(q) = 0 \/ Len(q) = 1 \/ Len(q) = 2
    <3>1. PICK n : n = Len(q)
      OBVIOUS
    <3>2. n \in Nat
      BY <1>1, <3>1
    <3>3. n <= 2
      BY <2>1, <3>1
    <3>4. n = 0 \/ n = 1 \/ n = 2
      BY ONLY <3>2, <3>3
    <3>5. QED
      BY <3>1, <3>4
  <2>6. QED
    BY <2>2, <2>3, <2>4, <2>5
<1>3. ASSUME IsPrefix(NamePath, q) PROVE FALSE
  <2>1. 2 <= Len(q) /\ (\A n \in 1..2 : NamePath[n] = q[n]) /\ NamePath # q
    BY <1>1, <1>3, PrefixIs DEF NamePath
  <2>2. UpTo(q, 2) = NamePath /\ 3 \in DOMAIN q
    <3>1. /\ Len(NamePath) + 1 \in DOMAIN q /\ UpTo(q, Len(NamePath)) = NamePath
      BY <1>1, <1>3, <2>1, UpToOfPrefix
    <3>2. Len(NamePath) = 2 /\ 2 + 1 = 3
      BY <1>1
    <3>3. QED
      BY <3>1, <3>2, Zenon
  <2>3. 2 \in 0..Len(q) - 1 /\ q[2] \in Key
    BY <1>1, <2>1, <2>2 DEF Path
  <2>4. doc[NamePath] = Kind(q[3])
    <3>1. 2 + 1 = 3
      OBVIOUS
    <3>2. CASE SettableAbsolute(doc, q)
      BY <2>2, <2>3, <3>1, <3>2 DEF SettableAbsolute, HasOwnName
    <3>3. CASE Settable(doc, q)
      BY <2>2, <2>3, <3>1, <3>3 DEF Settable, HasOwnName
    <3>4. QED
      BY <3>2, <3>3
  <2>5. QED
    BY <2>4, KindIs, NamesAreNames DEF HasOwnName
<1>4. QED
  BY <1>2, <1>3 DEF Apart

(* Where the slots of arrays come from: a field that wrote there, or later.  *)
Reached(i, doc) ==
  \A x \in DOMAIN doc : \A k \in DOMAIN x : x[k] \notin Key =>
    \E g \in DOMAIN ui : Writes(g) /\ Reaches(g, <<i, x>>, k)

LEMMA ReachedBySet ==
  ASSUME NEW doc, Paths(doc), NEW g \in DOMAIN ui, g \in Slot, Writes(g), Reached(g[1], doc),
         NEW v, NEW d, d = SetJSONPathAbsolute(doc, g[2], v)
  PROVE  Reached(g[1], d)
<1> DEFINE q == g[2]
<1>1. q \in Path
  BY SlotIsPath
<1> HIDE DEF q
<1>2. PICK e : e = Put(doc, q, v)
  OBVIOUS
<1>3. d = Grow(e, q) /\ Paths(e)
  BY <1>1, <1>2, PutIs DEF SetJSONPathAbsolute, q
<1>4. SUFFICES ASSUME NEW x \in DOMAIN d, NEW k \in DOMAIN x, x[k] \notin Key
               PROVE  \E h \in DOMAIN ui : Writes(h) /\ Reaches(h, <<g[1], x>>, k)
  BY DEF Reached
<1>5. x \in Path /\ k \in Nat /\ x[k] \in Nat
  <2>1. x \in Path
    BY <1>1, <1>3, GrowIs DEF Paths
  <2>2. QED
    BY <1>4, <2>1 DEF Path
<1>6. ASSUME k <= Len(q), UpTo(q, k - 1) = UpTo(x, k - 1), q[k] \notin Key, q[k] >= x[k]
      PROVE  \E h \in DOMAIN ui : Writes(h) /\ Reaches(h, <<g[1], x>>, k)
  BY <1>6 DEF Reaches, q
<1>7. CASE x = q \/ x \in Above(q)
  <2>1. k \in DOMAIN q /\ x[k] = q[k] /\ UpTo(x, k - 1) = UpTo(q, k - 1)
    BY <1>1, <1>5, <1>7, OnTheWay, SameAbove
  <2>2. k <= Len(q)
    BY <1>1, <2>1, StepUp
  <2>3. QED
    BY <1>4, <1>5, <1>6, <2>1, <2>2
<1>8. CASE x \in NewSlots(q)
  <2>1. PICK n \in DOMAIN q :
          /\ q[n] \notin Key /\ q[n] \in Nat /\ n \in Nat /\ n <= Len(q)
          /\ DOMAIN x = 1..n /\ x[n] \in 0..(q[n] - 1)
          /\ \A m \in 1..n : m \in DOMAIN q /\ UpTo(x, m - 1) = UpTo(q, m - 1)
          /\ \A m \in 1..n - 1 : x[m] = q[m]
    BY <1>1, <1>8, SlotPath
  <2>2. k \in 1..n /\ k <= Len(q) /\ UpTo(x, k - 1) = UpTo(q, k - 1)
    <3>1. k \in 1..n
      BY <2>1
    <3>2. k \in DOMAIN q
      BY <2>1, <3>1
    <3>3. k <= Len(q)
      BY <1>1, <3>2, StepUp
    <3>4. QED
      BY <2>1, <3>1, <3>3
  <2>3. q[k] \notin Key /\ q[k] >= x[k]
    <3>1. CASE k = n
      BY <2>1, <3>1
    <3>2. CASE k # n
      <4>1. k \in 1..n - 1
        BY <2>1, <2>2, <3>2
      <4>2. x[k] = q[k]
        BY <2>1, <4>1
      <4>3. QED
        BY <1>4, <1>5, <4>2
    <3>3. QED
      BY <3>1, <3>2
  <2>4. QED
    BY <1>6, <2>2, <2>3
<1>9. CASE x \in DOMAIN doc
  BY <1>4, <1>9 DEF Reached
<1>10. x \in DOMAIN doc \/ x = q \/ x \in Above(q) \/ x \in NewSlots(q)
  BY <1>1, <1>2, <1>3, PutIs, GrowIs
<1>11. QED
  BY <1>7, <1>8, <1>9, <1>10

(* A value that could be set makes no slot: they were there.                 *)
LEMMA SettableAt ==
  ASSUME NEW doc, NEW q \in Path, Settable(doc, q), NEW k \in DOMAIN q, q[k] \notin Key
  PROVE  UpTo(q, k) \in DOMAIN doc
<1>1. k - 1 \in 0..Len(q) - 1 /\ (k - 1) + 1 = k
  BY DEF Path
<1>2. IF UpTo(q, k - 1) \in DOMAIN doc
      THEN doc[UpTo(q, k - 1)] = Kind(q[k]) /\ (q[k] \notin Key => UpTo(q, k) \in DOMAIN doc)
      ELSE q[k] \in Key
  BY <1>1 DEF Settable
<1>3. QED
  BY <1>2

(* What reaches the slot at the end of a part of p reaches p there.          *)
LEMMA ReachesOn ==
  ASSUME NEW i, NEW p \in Path, NEW k \in DOMAIN p, NEW g, Reaches(g, <<i, UpTo(p, k)>>, k)
  PROVE  k \in DOMAIN UpTo(p, k) /\ UpTo(p, k)[k] = p[k] /\ Reaches(g, <<i, p>>, k)
<1>1. k \in Nat \ {0} /\ k \in 0..Len(p) /\ Len(p) \in Nat
  BY DEF Path
<1>2. UpTo(p, k) \in Path /\ Len(UpTo(p, k)) = k /\ \A n \in 1..k : UpTo(p, k)[n] = p[n]
  BY <1>1, UpToIs
<1>3. IsPrefix(UpTo(p, k), p) /\ k \in DOMAIN UpTo(p, k)
  BY <1>1, <1>2, PrefixIs DEF Path
<1>4. UpTo(p, k)[k] = p[k] /\ UpTo(UpTo(p, k), k - 1) = UpTo(p, k - 1)
  BY <1>2, <1>3, SameAbove
<1>5. QED
  BY <1>3, <1>4 DEF Reaches

LEMMA SettableIsReached ==
  ASSUME NEW i, NEW doc, Reached(i, doc), NEW q \in Path, Settable(doc, q),
         NEW k \in DOMAIN q, q[k] \notin Key
  PROVE  \E g \in DOMAIN ui : Writes(g) /\ Reaches(g, <<i, q>>, k)
<1>1. UpTo(q, k) \in DOMAIN doc
  BY SettableAt
<1>2. k \in DOMAIN UpTo(q, k) /\ UpTo(q, k)[k] = q[k]
  <2>1. k \in Nat \ {0} /\ k \in 0..Len(q)
    BY DEF Path
  <2>2. UpTo(q, k) \in Path /\ Len(UpTo(q, k)) = k /\ \A n \in 1..k : UpTo(q, k)[n] = q[n]
    BY <2>1, UpToIs
  <2>3. QED
    BY <2>1, <2>2 DEF Path
<1>3. PICK g \in DOMAIN ui : Writes(g) /\ Reaches(g, <<i, UpTo(q, k)>>, k)
  BY <1>1, <1>2 DEF Reached
<1>4. QED
  BY <1>3, ReachesOn

LEMMA ReachedByPut ==
  ASSUME NEW i, NEW doc, Paths(doc), Reached(i, doc), NEW q \in Path, Settable(doc, q),
         NEW v, NEW e, e = Put(doc, q, v)
  PROVE  Reached(i, e)
<1>1. SUFFICES ASSUME NEW x \in DOMAIN e, NEW k \in DOMAIN x, x[k] \notin Key
               PROVE  \E g \in DOMAIN ui : Writes(g) /\ Reaches(g, <<i, x>>, k)
  BY DEF Reached
<1>2. CASE x \in DOMAIN doc
  BY <1>1, <1>2 DEF Reached
<1>3. CASE x = q \/ x \in Above(q)
  <2>1. x \in Path
    BY <1>3, AboveArePaths
  <2>2. k \in DOMAIN q /\ x[k] = q[k] /\ UpTo(x, k - 1) = UpTo(q, k - 1)
    BY <1>1, <1>3, <2>1, OnTheWay, SameAbove
  <2>3. PICK g \in DOMAIN ui : Writes(g) /\ Reaches(g, <<i, q>>, k)
    BY <1>1, <2>2, SettableIsReached
  <2>4. QED
    BY <2>2, <2>3 DEF Reaches
<1>4. QED
  BY <1>1, <1>2, <1>3, PutIs

(* Until it is stamped, the way of a field that no other disturbs is clear,  *)
(* and its resource has its name; the slots on it are there as soon as, and  *)
(* only if, a field reaches them.                                            *)
AtWork == phase \in {"serialize", "deploy", "render"}

WaysAreClear ==
  AtWork => \A f \in DOMAIN ui : Undisturbed(f) =>
              Clear(docs[f[1]], f[2]) /\ HasOwnName(f[1], docs[f[1]])

SlotsAreMade ==
  AtWork =>
    \A f \in DOMAIN ui : Undisturbed(f) =>
      \A k \in DOMAIN f[2], g \in DOMAIN ui :
        f[2][k] \notin Key /\ Writes(g) /\ g \notin todo /\ Reaches(g, f, k) =>
          UpTo(f[2], k) \in DOMAIN docs[f[1]]

SlotsAreReached == AtWork => \A i \in DOMAIN docs : Reached(i, docs[i])

FoundArrays ==
  phase = "render" =>
    \A f \in DOMAIN form :
      ~IsListed(f) /\ Value(f) # "absent" /\ Undisturbed(f) => ArraysAreMade(f)

ReasonInv == FaithInv /\ WaysAreClear /\ SlotsAreMade /\ SlotsAreReached /\ FoundArrays
             /\ FailsForAReason

LEMMA UpToNone == ASSUME NEW p \in Path PROVE UpTo(p, 0) = <<>>
BY UpToIs DEF Path

LEMMA SameUi ==
  ASSUME ui' = ui
  PROVE  /\ \A f : Undisturbed(f)' = Undisturbed(f) /\ ArraysAreMade(f)' = ArraysAreMade(f)
         /\ \A f : Writes(f)' = Writes(f)
         /\ \A g, f, k : Reaches(g, f, k)' = Reaches(g, f, k)
<1>1. \A f : Writes(f)' = Writes(f)
  BY DEF Writes
<1>2. \A f : Undisturbed(f)' = Undisturbed(f)
  BY DEF Undisturbed
<1>3. \A f : ArraysAreMade(f)' = ArraysAreMade(f)
  BY <1>1 DEF ArraysAreMade
<1>4. QED
  BY <1>1, <1>2, <1>3

LEMMA ReasonInit == Init => ReasonInv
<1> SUFFICES ASSUME Init PROVE ReasonInv
  OBVIOUS
<1>1. FaithInv
  BY FaithInit
<1>2. /\ phase = "serialize" /\ todo = DOMAIN ui /\ DOMAIN docs = DOMAIN Names
      /\ \A f \in DOMAIN ui : f \in Slot
  BY <1>1 DEF Init, FaithInv, DocInv, TypeOK
<1>3. PICK d : d = [q \in {<<>>} |-> "map"]
  OBVIOUS
<1>4. Paths(d) /\ DOMAIN d = {<<>>} /\ d[<<>>] = "map" /\ <<>> \in Path /\ Len(<<>>) = 0
  BY <1>3 DEF Paths, Path
<1>5. \A i \in DOMAIN Names : docs[i] = Put(d, NamePath, Names[i])
  BY <1>3 DEF Init, NamePath
<1>6. NamePath[1] \in Key /\ NamePath[2] \in Key /\ Len(NamePath) = 2
  BY KeysAreKeys DEF NamePath
<1>7. ASSUME NEW i \in DOMAIN Names PROVE HasOwnName(i, docs[i])
  BY <1>4, <1>5, NameIsPath, PutIs DEF HasOwnName
<1>8. ASSUME NEW f \in DOMAIN ui, Undisturbed(f) PROVE Clear(docs[f[1]], f[2])
  <2>1. f[2] \in Path /\ f[1] \in DOMAIN Names
    BY <1>2, SlotIsPath
  <2>2. Agreeing(f[2], NamePath) /\ Agreeing(NamePath, f[2])
    BY <1>8 DEF Undisturbed, NamePath
  <2>3. Clear(d, f[2])
    <3>1. SUFFICES ASSUME <<>> \in Above(f[2]) PROVE Kind(f[2][1]) = "map"
      BY <1>4 DEF Clear
    <3>2. 1 \in DOMAIN f[2] /\ 1 \in 1..Len(f[2])
      BY <1>4, <2>1, <3>1, UpToAbove DEF Path
    <3>3. UpTo(f[2], 0) = <<>> /\ UpTo(NamePath, 0) = <<>>
      BY <2>1, NameIsPath, UpToNone
    <3>4. Kind(f[2][1]) = Kind(NamePath[1])
      BY <1>6, <2>2, <3>2, <3>3 DEF Agreeing
    <3>5. QED
      BY <1>6, <3>4 DEF Kind
  <2>4. QED
    BY <1>4, <1>5, <2>1, <2>2, <2>3, NameIsPath, ClearPut
<1>9. ASSUME NEW i \in DOMAIN Names PROVE Reached(i, docs[i])
  <2>1. SUFFICES ASSUME NEW x \in DOMAIN docs[i], NEW k \in DOMAIN x PROVE x[k] \in Key
    BY DEF Reached
  <2>2. x = NamePath \/ x \in Above(NamePath) \/ x = <<>>
    BY <1>4, <1>5, NameIsPath, PutIs
  <2>3. CASE x = NamePath \/ x \in Above(NamePath)
    <3>1. x \in Path
      BY <2>3, NameIsPath, AboveArePaths
    <3>2. k \in DOMAIN NamePath /\ x[k] = NamePath[k]
      BY <2>3, <3>1, NameIsPath, OnTheWay, SameAbove
    <3>3. k = 1 \/ k = 2
      BY <3>2 DEF NamePath
    <3>4. QED
      BY <1>6, <3>2, <3>3
  <2>4. CASE x = <<>>
    BY <2>4
  <2>5. QED
    BY <2>2, <2>3, <2>4
<1>10. WaysAreClear
  BY <1>2, <1>7, <1>8, SlotIsPath DEF WaysAreClear
<1>11. QED
  BY <1>1, <1>2, <1>9, <1>10 DEF ReasonInv, SlotsAreMade, SlotsAreReached, FoundArrays, FailsForAReason

LEMMA SerializeKeepsReason ==
  ASSUME ReasonInv, FaithInv', NEW g \in Slot, SerializeField(g) PROVE ReasonInv'
<1>1. /\ UNCHANGED <<ui, phase, form>> /\ phase = "serialize" /\ g \in DOMAIN ui
      /\ todo' = todo \ {g} /\ AtWork
  BY DEF SerializeField, NextField, ReasonInv, FaithInv, DocInv, TypeOK, AtWork
<1>2. /\ DOMAIN docs = DOMAIN Names /\ (\A i \in DOMAIN docs : IsDoc(docs[i]) /\ Paths(docs[i]))
      /\ \A f \in DOMAIN ui : f \in Slot
  BY DocIs DEF ReasonInv, FaithInv, DocInv, TypeOK, Tree
<1>3. /\ (\A f : Undisturbed(f)' = Undisturbed(f)) /\ (\A f : Writes(f)' = Writes(f))
      /\ \A h, f, k : Reaches(h, f, k)' = Reaches(h, f, k)
  BY <1>1, SameUi
<1>4. PICK i, q : i = g[1] /\ q = g[2]
  OBVIOUS
<1>5. i \in DOMAIN docs /\ i \in DOMAIN Names /\ q \in Path /\ q # <<>>
  BY <1>2, <1>4, SlotIsPath
<1>6. PICK d : d = SetJSONPathAbsolute(docs[i], q, Constant(g))
  OBVIOUS
<1>7. docs' = IF Writes(g) THEN [docs EXCEPT ![i] = d] ELSE docs
  BY <1>4, <1>6 DEF SerializeField
<1>8. Writes(g) => SettableAbsolute(docs[i], q)
  BY <1>4 DEF SerializeField
<1>9. \A j \in DOMAIN docs : docs'[j] = IF Writes(g) /\ j = i THEN d ELSE docs[j]
  BY <1>5, <1>7
<1>10. DOMAIN docs' = DOMAIN docs
  BY <1>7
<1>11. ASSUME NEW f \in DOMAIN ui, Undisturbed(f), Writes(g), f[1] = i
       PROVE  /\ Clear(d, f[2]) /\ HasOwnName(i, d)
              /\ \A k \in DOMAIN f[2] : UpTo(f[2], k) \in DOMAIN docs[i] => UpTo(f[2], k) \in DOMAIN d
  <2>1. f[2] \in Path
    BY <1>2, SlotIsPath
  <2>2. /\ q \notin {<<metadata>>, <<metadata, name>>}
        /\ Agreeing(f[2], q) /\ Agreeing(q, f[2]) /\ OneKind(f[2], q)
    BY <1>1, <1>4, <1>11 DEF Undisturbed
  <2>3. Clear(docs[i], f[2]) /\ HasOwnName(i, docs[i])
    BY <1>1, <1>11 DEF ReasonInv, WaysAreClear
  <2>4. Clear(d, f[2])
    BY <1>2, <1>5, <1>6, <2>1, <2>2, <2>3, ClearSet
  <2>5. Apart(q, NamePath)
    BY <1>5, <1>8, <1>11, <2>2, <2>3, NameApart
  <2>6. HasOwnName(i, d)
    BY <1>2, <1>5, <1>6, <2>3, <2>5, SetIs DEF HasOwnName
  <2>7. ~IsStrictPrefix(q, f[2])
    BY <2>2 DEF Agreeing
  <2>8. \A k \in DOMAIN f[2] : k \in 0..Len(f[2])
    BY <2>1 DEF Path
  <2>9. QED
    BY <1>2, <1>5, <1>6, <2>1, <2>4, <2>6, <2>7, <2>8, SetLeaves
<1>12. WaysAreClear'
  <2>1. SUFFICES ASSUME NEW f \in DOMAIN ui, Undisturbed(f)
                 PROVE  Clear(docs'[f[1]], f[2]) /\ HasOwnName(f[1], docs'[f[1]])
    BY <1>1, <1>3 DEF WaysAreClear, HasOwnName, Clear
  <2>2. f[1] \in DOMAIN docs
    BY <1>2, SlotIsPath
  <2>3. Clear(docs[f[1]], f[2]) /\ HasOwnName(f[1], docs[f[1]])
    BY <1>1, <2>1 DEF ReasonInv, WaysAreClear
  <2>4. CASE Writes(g) /\ f[1] = i
    BY <1>9, <1>11, <2>1, <2>2, <2>4
  <2>5. CASE ~(Writes(g) /\ f[1] = i)
    BY <1>9, <2>2, <2>3, <2>5
  <2>6. QED
    BY <2>4, <2>5
<1>13. SlotsAreMade'
  <2>1. SUFFICES ASSUME NEW f \in DOMAIN ui, Undisturbed(f), NEW k \in DOMAIN f[2], NEW h \in DOMAIN ui,
                        f[2][k] \notin Key, Writes(h), h \notin todo', Reaches(h, f, k)
                 PROVE  UpTo(f[2], k) \in DOMAIN docs'[f[1]]
    BY <1>1, <1>3 DEF SlotsAreMade
  <2>2. f[1] \in DOMAIN docs /\ f[2] \in Path
    BY <1>2, SlotIsPath
  <2>3. CASE h = g
    <3>1. /\ i = f[1] /\ k <= Len(q) /\ UpTo(q, k - 1) = UpTo(f[2], k - 1)
          /\ q[k] \notin Key /\ q[k] >= f[2][k]
      BY <1>4, <2>1, <2>3 DEF Reaches
    <3>2. UpTo(f[2], k) \in DOMAIN d
      BY <1>2, <1>5, <1>6, <2>1, <2>2, <3>1, SetMakes
    <3>3. QED
      BY <1>9, <2>1, <2>2, <2>3, <3>1, <3>2
  <2>4. CASE h # g
    <3>1. UpTo(f[2], k) \in DOMAIN docs[f[1]]
      BY <1>1, <2>1, <2>4 DEF ReasonInv, SlotsAreMade
    <3>2. CASE Writes(g) /\ f[1] = i
      BY <1>9, <1>11, <2>1, <2>2, <3>1, <3>2
    <3>3. CASE ~(Writes(g) /\ f[1] = i)
      BY <1>9, <2>2, <3>1, <3>3
    <3>4. QED
      BY <3>2, <3>3
  <2>5. QED
    BY <2>3, <2>4
<1>14. SlotsAreReached'
  <2>1. SUFFICES ASSUME NEW j \in DOMAIN docs PROVE Reached(j, docs'[j])
    BY <1>1, <1>3, <1>10 DEF SlotsAreReached, Reached
  <2>2. Reached(j, docs[j])
    BY <1>1 DEF ReasonInv, SlotsAreReached
  <2>3. CASE Writes(g) /\ j = i
    <3>1. Reached(i, d)
      BY <1>1, <1>2, <1>4, <1>5, <1>6, <2>2, <2>3, ReachedBySet
    <3>2. QED
      BY <1>9, <2>3, <3>1
  <2>4. CASE ~(Writes(g) /\ j = i)
    BY <1>9, <2>2, <2>4
  <2>5. QED
    BY <2>3, <2>4
<1>15. QED
  BY <1>1, <1>12, <1>13, <1>14 DEF ReasonInv, FoundArrays, FailsForAReason

LEMMA SetKeepsReason ==
  ASSUME ReasonInv, FaithInv', SetField PROVE ReasonInv'
<1>1. PICK g : g = Head(fields)
  OBVIOUS
<1>2. /\ UNCHANGED <<ui, phase, todo, form>> /\ phase = "render" /\ fields # <<>> /\ ~Refuses(g)
      /\ fields' = Tail(fields) /\ TypeOK /\ AtWork
  BY <1>1 DEF SetField, ReasonInv, FaithInv, DocInv, AtWork
<1>3. /\ DOMAIN docs = DOMAIN Names /\ (\A i \in DOMAIN docs : IsDoc(docs[i]) /\ Paths(docs[i]))
      /\ (\A f \in DOMAIN ui : f \in Slot) /\ (\A f \in DOMAIN form : f \in DOMAIN ui)
  BY <1>2, DocIs DEF TypeOK, Tree
<1>4. /\ g \in DOMAIN ui /\ g \in Slot
      /\ \A k \in DOMAIN fields :
           fields[k] = g \/ \E n \in DOMAIN Tail(fields) : fields[k] = Tail(fields)[n]
  BY <1>1, <1>2, HeadIs
<1>5. PICK q : q = g[2]
  OBVIOUS
<1>6. g[1] \in DOMAIN Names /\ q \in Path /\ q # <<>> /\ g = <<g[1], q>>
  BY <1>4, <1>5, SlotIsPath
<1>7. \A f : IsListed(f) => f = g \/ IsListed(f)'
  BY <1>2, <1>4 DEF IsListed
<1>8. /\ (\A f : Undisturbed(f)' = Undisturbed(f) /\ ArraysAreMade(f)' = ArraysAreMade(f))
      /\ (\A f : Writes(f)' = Writes(f)) /\ (\A f : Value(f)' = Value(f))
      /\ \A h, f, k : Reaches(h, f, k)' = Reaches(h, f, k)
  BY <1>2, SameUi DEF Value
<1>9. FoundArrays' <=> \A f \in DOMAIN form :
        ~IsListed(f)' /\ Value(f) # "absent" /\ Undisturbed(f) => ArraysAreMade(f)
  BY <1>2, <1>8 DEF FoundArrays
<1>10. ASSUME NEW f \in DOMAIN form, ~IsListed(f)', f # g, Value(f) # "absent", Undisturbed(f)
       PROVE  ArraysAreMade(f)
  BY <1>2, <1>7, <1>10 DEF ReasonInv, FoundArrays
<1>11. CASE Value(g) = "absent"
  <2>1. docs' = docs
    BY <1>1, <1>11 DEF SetField
  <2>2. WaysAreClear' /\ SlotsAreMade' /\ SlotsAreReached'
    BY <1>2, <1>8, <2>1 DEF ReasonInv, WaysAreClear, SlotsAreMade, SlotsAreReached, AtWork, Clear,
       HasOwnName, Reached
  <2>3. FoundArrays'
    BY <1>9, <1>10, <1>11
  <2>4. QED
    BY <1>2, <2>2, <2>3 DEF ReasonInv, FailsForAReason
<1>12. CASE Value(g) # "absent"
  <2>1. PICK i \in Named(Names[g[1]]) :
          Settable(docs[i], q) /\ docs' = [docs EXCEPT ![i] = Put(@, q, Value(g))]
    BY <1>1, <1>5, <1>12 DEF SetField
  <2>2. i \in DOMAIN docs /\ Names[i] = Names[g[1]]
    BY <1>2, <1>3, <1>4, <2>1, FoundIs DEF ReasonInv, FaithInv
  <2>3. PICK d : d = Put(docs[i], q, Value(g))
    OBVIOUS
  <2>4. /\ \A j \in DOMAIN docs : docs'[j] = IF j = i THEN d ELSE docs[j]
        /\ DOMAIN docs' = DOMAIN docs
    BY <2>1, <2>3
  <2>5. \A f : Undisturbed(f) /\ f[1] = i => g[1] = i
    BY <1>3, <1>6, <2>2 DEF Undisturbed
  <2>6. ASSUME NEW f \in DOMAIN ui, Undisturbed(f), f[1] = i
        PROVE  /\ Clear(d, f[2]) /\ HasOwnName(i, d)
               /\ \A k \in DOMAIN f[2] : UpTo(f[2], k) \in DOMAIN docs[i] => UpTo(f[2], k) \in DOMAIN d
    <3>1. f[2] \in Path
      BY <1>3, SlotIsPath
    <3>2. /\ q \notin {<<metadata>>, <<metadata, name>>} /\ Agreeing(f[2], q) /\ Agreeing(q, f[2])
      BY <1>4, <1>5, <2>5, <2>6 DEF Undisturbed
    <3>3. Clear(docs[i], f[2]) /\ HasOwnName(i, docs[i])
      BY <1>2, <2>6 DEF ReasonInv, WaysAreClear
    <3>4. Clear(d, f[2])
      BY <1>3, <1>6, <2>2, <2>3, <3>1, <3>2, <3>3, ClearPut
    <3>5. Apart(q, NamePath)
      BY <1>3, <1>6, <2>1, <2>2, <3>2, <3>3, NameApart
    <3>6. SameApart(docs[i], d, q)
      BY <1>3, <1>6, <2>2, <2>3, PutAside
    <3>7. HasOwnName(i, d)
      BY <3>3, <3>5, <3>6, NameIsPath DEF HasOwnName, SameApart
    <3>8. ~IsStrictPrefix(q, f[2])
      BY <3>2 DEF Agreeing
    <3>9. \A k \in DOMAIN f[2] : k \in 0..Len(f[2])
      BY <3>1 DEF Path
    <3>10. QED
      BY <1>3, <1>6, <2>2, <2>3, <3>1, <3>4, <3>7, <3>8, <3>9, PutLeaves
  <2>7. WaysAreClear'
    <3>1. SUFFICES ASSUME NEW f \in DOMAIN ui, Undisturbed(f)
                   PROVE  Clear(docs'[f[1]], f[2]) /\ HasOwnName(f[1], docs'[f[1]])
      BY <1>2, <1>8 DEF WaysAreClear, HasOwnName, Clear
    <3>2. f[1] \in DOMAIN docs
      BY <1>3, SlotIsPath
    <3>3. Clear(docs[f[1]], f[2]) /\ HasOwnName(f[1], docs[f[1]])
      BY <1>2, <3>1 DEF ReasonInv, WaysAreClear
    <3>4. CASE f[1] = i
      BY <2>4, <2>6, <3>1, <3>2, <3>4
    <3>5. CASE f[1] # i
      BY <2>4, <3>2, <3>3, <3>5
    <3>6. QED
      BY <3>4, <3>5
  <2>8. SlotsAreMade'
    <3>1. SUFFICES ASSUME NEW f \in DOMAIN ui, Undisturbed(f), NEW k \in DOMAIN f[2],
                          NEW h \in DOMAIN ui,
                          f[2][k] \notin Key, Writes(h), h \notin todo, Reaches(h, f, k)
                   PROVE  UpTo(f[2], k) \in DOMAIN docs'[f[1]]
      BY <1>2, <1>8 DEF SlotsAreMade
    <3>2. f[1] \in DOMAIN docs
      BY <1>3, SlotIsPath
    <3>3. UpTo(f[2], k) \in DOMAIN docs[f[1]]
      BY <1>2, <3>1 DEF ReasonInv, SlotsAreMade
    <3>4. CASE f[1] = i
      BY <2>4, <2>6, <3>1, <3>2, <3>3, <3>4
    <3>5. CASE f[1] # i
      BY <2>4, <3>2, <3>3, <3>5
    <3>6. QED
      BY <3>4, <3>5
  <2>9. \A j \in DOMAIN docs : Reached(j, docs[j])
    BY <1>2 DEF ReasonInv, SlotsAreReached
  <2>10. SlotsAreReached'
    <3>1. SUFFICES ASSUME NEW j \in DOMAIN docs PROVE Reached(j, docs'[j])
      BY <1>2, <1>8, <2>4 DEF SlotsAreReached, Reached
    <3>2. CASE j = i
      <4>1. Reached(i, d)
        BY <1>3, <1>6, <2>1, <2>2, <2>3, <2>9, ReachedByPut
      <4>2. QED
        BY <2>4, <3>2, <4>1
    <3>3. CASE j # i
      BY <2>4, <2>9, <3>3
    <3>4. QED
      BY <3>2, <3>3
  <2>11. Undisturbed(g) => ArraysAreMade(g)
    <3>1. SUFFICES ASSUME Undisturbed(g), NEW k \in DOMAIN q, q[k] \notin Key
                   PROVE  \E h \in DOMAIN ui : Writes(h) /\ Reaches(h, g, k)
      BY <1>5 DEF ArraysAreMade
    <3>2. i = g[1]
      BY <1>3, <2>2, <3>1 DEF Undisturbed
    <3>3. \E h \in DOMAIN ui : Writes(h) /\ Reaches(h, <<i, q>>, k)
      BY <1>6, <2>1, <2>2, <2>9, <3>1, SettableIsReached
    <3>4. QED
      BY <1>6, <3>2, <3>3
  <2>12. FoundArrays'
    BY <1>9, <1>10, <2>11
  <2>13. QED
    BY <1>2, <2>7, <2>8, <2>10, <2>12 DEF ReasonInv, FailsForAReason
<1>13. QED
  BY <1>11, <1>12

(* A field that no other disturbs, and whose arrays are made, can be set on  *)
(* its document, and on no other.                                            *)
LEMMA CanBeSet ==
  ASSUME ReasonInv, phase = "render", NEW f \in DOMAIN ui, Undisturbed(f), ArraysAreMade(f)
  PROVE  \E i \in Named(Names[f[1]]) : Settable(docs[i], f[2])
<1>1. /\ TypeOK /\ AtWork /\ todo = {} /\ DOMAIN docs = DOMAIN Names
      /\ \A i \in DOMAIN docs : IsDoc(docs[i])
  BY DEF ReasonInv, FaithInv, DocInv, TypeOK, TodoDone, AtWork
<1>2. PICK i, p : i = f[1] /\ p = f[2]
  OBVIOUS
<1>3. i \in DOMAIN Names /\ p \in Path
  <2>1. f \in Slot
    BY <1>1 DEF TypeOK
  <2>2. QED
    BY <1>2, <2>1, SlotIsPath
<1>4. Clear(docs[i], p) /\ HasOwnName(i, docs[i])
  BY <1>1, <1>2 DEF ReasonInv, WaysAreClear
<1>5. i \in Named(Names[i])
  <2>1. DOMAIN Names = 1..Len(Names) /\ Len(Names) \in Nat
    BY NamesAreNames
  <2>2. HasName(docs[i], Names[i])
    BY <1>4 DEF HasName, HasOwnName, NamePath
  <2>3. ASSUME NEW j \in 1..(i - 1), HasName(docs[j], Names[i]) PROVE FALSE
    <3>1. j \in DOMAIN Names /\ j # i
      BY <1>3, <2>1
    <3>2. OwnName(j, docs[j])
      BY <1>1, <3>1 DEF ReasonInv, FaithInv, NamesAreOwn
    <3>3. Names[i] \in {Names[j]} \cup Origin \cup Container
      BY <2>3, <3>2 DEF HasName, OwnName, NamePath
    <3>4. Names[j] = Names[i]
      BY <1>3, <3>3, NamesAreNames
    <3>5. QED
      BY <1>2, <3>1, <3>4 DEF Undisturbed
  <2>4. QED
    BY <1>1, <1>3, <2>2, <2>3 DEF Named
<1>6. ASSUME NEW k \in DOMAIN p, p[k] \notin Key PROVE UpTo(p, k) \in DOMAIN docs[i]
  <2>1. PICK g \in DOMAIN ui : Writes(g) /\ Reaches(g, f, k)
    BY <1>2, <1>6 DEF ArraysAreMade
  <2>2. QED
    BY <1>1, <1>2, <1>6, <2>1 DEF ReasonInv, SlotsAreMade
<1>7. Settable(docs[i], p)
  <2>1. SUFFICES ASSUME NEW k \in 0..Len(p) - 1
                 PROVE  IF UpTo(p, k) \in DOMAIN docs[i]
                        THEN docs[i][UpTo(p, k)] = Kind(p[k + 1])
                             /\ (p[k + 1] \notin Key => UpTo(p, k + 1) \in DOMAIN docs[i])
                        ELSE p[k + 1] \in Key
    BY DEF Settable
  <2>2. /\ k + 1 \in DOMAIN p /\ k \in 0..Len(p) /\ k + 1 \in 0..Len(p)
        /\ k + 1 \in Nat \ {0} /\ (k + 1) - 1 = k /\ Len(p) \in Nat
    BY <1>3 DEF Path
  <2>3. UpTo(p, k) \in Above(p) /\ Len(UpTo(p, k)) = k
    BY <1>3, <2>2, UpToIs DEF Above
  <2>4. CASE UpTo(p, k) \in DOMAIN docs[i]
    <3>1. docs[i][UpTo(p, k)] = Kind(p[k + 1])
      BY <1>4, <2>3, <2>4 DEF Clear
    <3>2. QED
      BY <1>6, <2>2, <2>4, <3>1
  <2>5. CASE UpTo(p, k) \notin DOMAIN docs[i]
    <3>1. SUFFICES ASSUME p[k + 1] \notin Key PROVE FALSE
      BY <2>5
    <3>2. PICK u : u = UpTo(p, k + 1)
      OBVIOUS
    <3>3. u \in DOMAIN docs[i]
      BY <1>6, <2>2, <3>1, <3>2
    <3>4. u \in Path /\ Len(u) = k + 1 /\ \A n \in 1..k + 1 : u[n] = p[n]
      BY <1>3, <2>2, <3>2, UpToIs
    <3>5. IsPrefix(u, p) /\ k + 1 \in DOMAIN u
      BY <1>3, <2>2, <3>4, PrefixIs DEF Path
    <3>6. UpTo(u, k) = UpTo(p, k)
      BY <1>3, <2>2, <3>4, <3>5, SameAbove
    <3>7. UpTo(u, (k + 1) - 1) \in DOMAIN docs[i]
      BY <1>1, <1>3, <3>3, <3>5, DocIs DEF Tree
    <3>8. QED
      BY <2>2, <2>5, <3>6, <3>7
  <2>6. QED
    BY <2>4, <2>5
<1>8. QED
  BY <1>2, <1>5, <1>7

LEMMA ReasonStep == ReasonInv /\ [Next]_vars => ReasonInv'
<1> SUFFICES ASSUME ReasonInv, [Next]_vars PROVE ReasonInv'
  OBVIOUS
<1>1. FaithInv'
  BY FaithStep DEF ReasonInv
<1>2. ASSUME NEW f \in Slot, SerializeField(f) PROVE ReasonInv'
  BY <1>1, <1>2, SerializeKeepsReason
<1>3. CASE SetField
  BY <1>1, <1>3, SetKeepsReason
<1>4. ASSUME UNCHANGED <<ui, todo, docs>>, AtWork' => AtWork, FoundArrays', FailsForAReason'
      PROVE  ReasonInv'
  <2>1. /\ (\A f : Undisturbed(f)' = Undisturbed(f)) /\ (\A f : Writes(f)' = Writes(f))
        /\ \A g, f, k : Reaches(g, f, k)' = Reaches(g, f, k)
    BY <1>4, SameUi
  <2>2. WaysAreClear' /\ SlotsAreMade' /\ SlotsAreReached'
    BY <1>4, <2>1 DEF ReasonInv, WaysAreClear, SlotsAreMade, SlotsAreReached, Clear, HasOwnName, Reached
  <2>3. QED
    BY <1>1, <1>4, <2>2 DEF ReasonInv
<1>5. ASSUME phase' \notin {"render", "rendered", "failed"}
      PROVE  FoundArrays' /\ FailsForAReason'
  BY <1>5 DEF FoundArrays, FailsForAReason
<1>6. ASSUME NEW f \in Slot, SerializeRejects(f) PROVE ReasonInv'
  BY <1>4, <1>5, <1>6 DEF SerializeRejects, AtWork
<1>7. CASE Serialized
  BY <1>4, <1>5, <1>7 DEF Serialized, AtWork
<1>8. CASE Refuse
  BY <1>4, <1>5, <1>8 DEF Refuse, AtWork
<1>9. CASE Deploy
  <2>1. /\ UNCHANGED <<ui, todo, docs, fields>> /\ phase = "deploy" /\ phase' = "render"
        /\ form' \in [{fields[k] : k \in DOMAIN fields} -> {"absent", "given", "bad"}]
    BY <1>9 DEF Deploy
  <2>2. \A f \in DOMAIN form' : IsListed(f)'
    BY <2>1 DEF IsListed
  <2>3. FoundArrays' /\ FailsForAReason'
    BY <2>1, <2>2 DEF FoundArrays, FailsForAReason
  <2>4. QED
    BY <1>4, <2>1, <2>3 DEF AtWork
<1>10. CASE Fail
  <2>1. PICK f : f = Head(fields)
    OBVIOUS
  <2>2. /\ UNCHANGED <<ui, todo, docs, fields, form>> /\ phase = "render" /\ phase' = "failed"
        /\ fields # <<>> /\ \A i \in Named(Names[f[1]]) : ~Settable(docs[i], f[2])
    BY <1>10, <2>1 DEF Fail
  <2>3. f \in DOMAIN ui
    BY <2>1, <2>2, HeadIs DEF ReasonInv, FaithInv, DocInv
  <2>4. ~(Undisturbed(f) /\ ArraysAreMade(f))
    BY <2>2, <2>3, CanBeSet
  <2>5. FoundArrays' /\ FailsForAReason'
    BY <2>1, <2>2, <2>4, SameUi DEF FoundArrays, FailsForAReason
  <2>6. QED
    BY <1>4, <2>2, <2>5 DEF AtWork
<1>11. CASE Stamp
  <2>1. /\ UNCHANGED <<ui, todo, fields, form>> /\ phase = "render" /\ phase' = "rendered" /\ fields = <<>>
    BY <1>11 DEF Stamp
  <2>2. \A f : ~IsListed(f)
    BY <2>1 DEF IsListed
  <2>3. \A f \in DOMAIN form : Value(f) # "absent" /\ Undisturbed(f) => ArraysAreMade(f)
    BY <2>1, <2>2 DEF ReasonInv, FoundArrays
  <2>4. \A f : Value(f)' = Value(f)
    BY <2>1 DEF Value
  <2>5. FailsForAReason'
    BY <2>1, <2>3, <2>4, SameUi DEF FailsForAReason
  <2>6. QED
    BY <1>1, <2>1, <2>5 DEF ReasonInv, WaysAreClear, SlotsAreMade, SlotsAreReached, FoundArrays, AtWork
<1>12. CASE UNCHANGED vars
  <2>1. UNCHANGED <<ui, phase, todo, docs, fields, form>>
    BY <1>12 DEF vars
  <2>2. /\ (\A f : Undisturbed(f)' = Undisturbed(f) /\ ArraysAreMade(f)' = ArraysAreMade(f))
        /\ (\A f : Value(f)' = Value(f)) /\ (\A f : IsListed(f)' = IsListed(f))
    BY <2>1, SameUi DEF Value, IsListed
  <2>3. FoundArrays' /\ FailsForAReason'
    BY <2>1, <2>2 DEF ReasonInv, FoundArrays, FailsForAReason
  <2>4. QED
    BY <1>4, <2>1, <2>3 DEF AtWork
<1>13. QED
  BY <1>2, <1>3, <1>6, <1>7, <1>8, <1>9, <1>10, <1>11, <1>12 DEF Next

(* A value cannot be set on a field that no other disturbs if, and only if,  *)
(* an array on its way is made by no fixed value or default: setInto makes   *)
(* every map that is missing, and nothing that was set before is in its way. *)
THEOREM FailureHasAReason == Spec => []FailsForAReason
<1>1. ReasonInv => FailsForAReason
  BY DEF ReasonInv
<1>2. QED
  BY <1>1, ReasonInit, ReasonStep, PTL DEF Spec
=============================================================================
