------------------------ MODULE BootstrapPeersProofs ------------------------
(* Lemmas about the list of the bootstrap cache, for every length.          *)
EXTENDS BootstrapPeers, SequenceTheorems, WellFoundedInduction, TLAPS

\* A set of natural numbers that is not empty has a least element, which Min
\* chooses.
LEMMA MinIsLeast ==
  ASSUME NEW I \in SUBSET Nat, I # {}
  PROVE  Min(I) \in I /\ \A i \in I : Min(I) <= i
<1> DEFINE R == OpToRel(<, Nat)
<1>1. IsWellFoundedOn(R, Nat)
  BY Zenon, NatLessThanWellFounded
<1>2. \A y \in Nat, x \in Nat : y < x => <<y, x>> \in R
  BY DEF OpToRel
<1> HIDE DEF R
<1>3. PICK x \in I : \A y \in I : ~(<<y, x>> \in R)
  BY Zenon, <1>1, WFMin, I \subseteq Nat
<1>4. \A y \in I : x <= y
  <2> SUFFICES ASSUME NEW y \in I, y < x PROVE FALSE
    OBVIOUS
  <2> QED BY Zenon, <1>2, <1>3, x \in Nat, y \in Nat
<1> QED BY Zenon, <1>4 DEF Min

\* The peer of a list that is moved is found in it.
LEMMA PositionFacts ==
  ASSUME NEW S, NEW s \in Seq(S), NEW x \in Range(s)
  PROVE  LET k == Min({i \in DOMAIN s : s[i] = x}) IN k \in 1..Len(s) /\ s[k] = x
<1> DEFINE I == {i \in DOMAIN s : s[i] = x}
<1>1. I \in SUBSET Nat /\ I # {}
  BY LenProperties DEF Range
<1>2. Min(I) \in I
  BY Zenon, <1>1, MinIsLeast
<1> QED BY <1>2, LenProperties

\* RemoveIndex, spelled out.
LEMMA RemoveIndexFacts ==
  ASSUME NEW S, NEW s \in Seq(S), NEW k \in 1..Len(s)
  PROVE  /\ RemoveIndex(s, k) \in Seq(S)
         /\ Len(RemoveIndex(s, k)) = Len(s) - 1
         /\ \A i \in 1..(Len(s) - 1) : RemoveIndex(s, k)[i] = IF i < k THEN s[i] ELSE s[i + 1]
<1> DEFINE a == SubSeq(s, 1, k - 1)
           b == SubSeq(s, k + 1, Len(s))
<1>1. Len(s) \in Nat /\ k \in Int
  BY LenProperties
<1>2. a \in Seq(S) /\ Len(a) = k - 1 /\ \A i \in 1..(k - 1) : a[i] = s[i]
  <2>1. \A i \in 1..(k - 1) : s[i] \in S
    BY <1>1, ElementOfSeq
  <2> QED BY <1>1, <2>1, SubSeqProperties
<1>3. b \in Seq(S) /\ Len(b) = Len(s) - k /\ \A i \in 1..(Len(s) - k) : b[i] = s[k + i]
  <2>1. \A i \in (k + 1)..Len(s) : s[i] \in S
    BY <1>1, ElementOfSeq
  <2>2. /\ b \in Seq(S)
        /\ Len(b) = IF k + 1 <= Len(s) THEN Len(s) - (k + 1) + 1 ELSE 0
        /\ \A i \in 1..(Len(s) - (k + 1) + 1) : b[i] = s[(k + 1) + i - 1]
    BY <1>1, <2>1, SubSeqProperties
  <2> QED BY <1>1, <2>2
<1> HIDE DEF a, b
<1>4. RemoveIndex(s, k) = a \o b
  BY DEF RemoveIndex, a, b
<1>5. /\ a \o b \in Seq(S)
      /\ Len(a \o b) = Len(a) + Len(b)
      /\ \A i \in 1..(Len(a) + Len(b)) : (a \o b)[i] = IF i <= Len(a) THEN a[i] ELSE b[i - Len(a)]
  BY Zenon, <1>2, <1>3, ConcatProperties
<1>6. Len(a) + Len(b) = Len(s) - 1
  BY <1>1, <1>2, <1>3
<1>7. ASSUME NEW i \in 1..(Len(s) - 1)
      PROVE  (a \o b)[i] = IF i < k THEN s[i] ELSE s[i + 1]
  <2>1. CASE i < k
    BY <2>1, <1>1, <1>2, <1>5, <1>6
  <2>2. CASE ~(i < k)
    <3>1. (a \o b)[i] = b[i - (k - 1)]
      <4>1. i \in 1..(Len(a) + Len(b)) /\ ~(i <= Len(a))
        BY <2>2, <1>1, <1>2, <1>6
      <4>2. (a \o b)[i] = b[i - Len(a)]
        BY Zenon, <4>1, <1>5
      <4> QED BY Zenon, <4>2, <1>2
    <3>2. i - (k - 1) \in 1..(Len(s) - k) /\ k + (i - (k - 1)) = i + 1
      BY <2>2, <1>1
    <3> QED BY Zenon, <2>2, <3>1, <3>2, <1>3
  <2> QED BY Zenon, <2>1, <2>2
<1> QED BY <1>4, <1>5, <1>6, <1>7

\* InsertNew, spelled out: the oldest peer leaves a full list.
LEMMA InsertNewElements ==
  ASSUME NEW S, NEW s \in Seq(S), NEW p \in S
  PROVE  /\ InsertNew(s, p) \in Seq(S)
         /\ Len(s) < MaxCacheSize =>
              /\ Len(InsertNew(s, p)) = Len(s) + 1
              /\ \A i \in 1..Len(s) : InsertNew(s, p)[i] = s[i]
              /\ InsertNew(s, p)[Len(s) + 1] = p
         /\ Len(s) >= MaxCacheSize =>
              /\ Len(InsertNew(s, p)) = Len(s)
              /\ \A i \in 1..(Len(s) - 1) : InsertNew(s, p)[i] = s[i + 1]
              /\ InsertNew(s, p)[Len(s)] = p
<1> DEFINE a == Append(s, p)
           t == Tail(a)
<1>1. Len(s) \in Nat /\ MaxCacheSize \in Nat /\ MaxCacheSize > 0
  BY LenProperties, CacheSizeAssumption
<1>2. /\ a \in Seq(S) /\ a # <<>> /\ Len(a) = Len(s) + 1
      /\ \A i \in 1..Len(s) : a[i] = s[i]
      /\ a[Len(s) + 1] = p
  BY AppendProperties
<1>3. InsertNew(s, p) = IF Len(a) > MaxCacheSize THEN t ELSE a
  BY Zenon DEF InsertNew
<1> HIDE DEF a
<1>4. CASE Len(s) >= MaxCacheSize
  <2>1. /\ t \in Seq(S) /\ Len(t) = Len(s)
        /\ \A i \in 1..Len(s) : t[i] = a[i + 1]
    BY <1>1, <1>2, HeadTailProperties
  <2>2. InsertNew(s, p) = t
    BY <1>1, <1>2, <1>3, <1>4
  <2> HIDE DEF t
  <2>3. \A i \in 1..(Len(s) - 1) : t[i] = s[i + 1]
    BY <1>1, <1>2, <2>1
  <2>4. t[Len(s)] = p
    BY <1>1, <1>2, <1>4, <2>1
  <2> QED BY <1>1, <1>4, <2>1, <2>2, <2>3, <2>4
<1>5. CASE Len(s) < MaxCacheSize
  <2>1. InsertNew(s, p) = a
    BY <1>1, <1>2, <1>3, <1>5
  <2> QED BY <1>1, <1>2, <1>5, <2>1
<1> QED BY <1>1, <1>4, <1>5

\* An index is the last one or one of those before it.
LEMMA IndexFacts ==
  ASSUME NEW n \in Nat, NEW i \in 1..n
  PROVE  i = n \/ i \in 1..(n - 1)
  OBVIOUS

\* Inserting a new peer into a list within its bound.
LEMMA InsertNewFacts ==
  ASSUME NEW S, NEW s \in Seq(S), NEW p \in S
  PROVE  /\ InsertNew(s, p) \in Seq(S)
         /\ Len(s) <= MaxCacheSize => Len(InsertNew(s, p)) <= MaxCacheSize
         /\ Range(InsertNew(s, p)) \subseteq Range(s) \union {p}
         /\ IsInjective(s) /\ p \notin Range(s) => IsInjective(InsertNew(s, p))
<1> DEFINE t == InsertNew(s, p)
<1>1. /\ Len(s) \in Nat /\ DOMAIN s = 1..Len(s)
      /\ MaxCacheSize \in Nat /\ MaxCacheSize > 0
  BY LenProperties, CacheSizeAssumption
<1>2. t \in Seq(S) /\ Len(t) \in Nat /\ DOMAIN t = 1..Len(t)
  BY InsertNewElements, LenProperties
<1>3. CASE Len(s) < MaxCacheSize
  <2>1. /\ Len(t) = Len(s) + 1
        /\ \A i \in 1..Len(s) : t[i] = s[i]
        /\ t[Len(s) + 1] = p
    BY ZenonT(60), <1>3, InsertNewElements
  <2> HIDE DEF t
  <2>2. Range(t) \subseteq Range(s) \union {p}
    BY <1>1, <1>2, <2>1 DEF Range
  <2>3. IsInjective(s) /\ p \notin Range(s) => IsInjective(t)
    BY <1>1, <1>2, <2>1 DEF IsInjective, Range
  <2> QED BY <1>1, <1>2, <1>3, <2>1, <2>2, <2>3 DEF t
<1>4. CASE Len(s) >= MaxCacheSize
  <2>1. /\ Len(t) = Len(s)
        /\ \A i \in 1..(Len(s) - 1) : t[i] = s[i + 1]
        /\ t[Len(s)] = p
    BY ZenonT(60), <1>4, InsertNewElements
  <2> HIDE DEF t
  <2>2. Range(t) \subseteq Range(s) \union {p}
    BY <1>1, <1>2, <2>1 DEF Range
  <2>3. ASSUME IsInjective(s), p \notin Range(s) PROVE IsInjective(t)
    <3>1. \A i \in 1..(Len(s) - 1) : i + 1 \in DOMAIN s /\ t[i] = s[i + 1] /\ t[i] # p
      BY <1>1, <2>1, <2>3 DEF Range
    <3>2. ASSUME NEW i \in 1..Len(s), NEW j \in 1..Len(s), t[i] = t[j]
          PROVE  i = j
      <4>1. /\ i = Len(s) \/ i \in 1..(Len(s) - 1)
            /\ j = Len(s) \/ j \in 1..(Len(s) - 1)
        BY Zenon, <1>1, IndexFacts
      <4>2. CASE i \in 1..(Len(s) - 1) /\ j \in 1..(Len(s) - 1)
        <5>1. i + 1 = j + 1
          BY Zenon, <4>2, <3>1, <3>2, <2>3 DEF IsInjective
        <5> QED BY <5>1, i \in Int, j \in Int
      <4> QED BY Zenon, <4>1, <4>2, <2>1, <3>1, <3>2
    <3> QED BY Zenon, <1>2, <2>1, <3>2 DEF IsInjective
  <2> QED BY <1>1, <1>2, <1>4, <2>1, <2>2, <2>3 DEF t
<1> QED BY <1>1, <1>3, <1>4

\* Where the element at i was before the k-th of n elements moved to the end.
OldIndex(i, k, n) == IF i = n THEN k ELSE IF i < k THEN i ELSE i + 1

\* Where the element at i was before the one at k was moved to the end.
LEMMA OldIndexFacts ==
  ASSUME NEW n \in Nat, NEW k \in 1..n, NEW i \in 1..n, NEW j \in 1..n
  PROVE  /\ OldIndex(i, k, n) \in 1..n
         /\ OldIndex(i, k, n) = OldIndex(j, k, n) => i = j
         /\ i # n => i \in 1..(n - 1)
  BY DEF OldIndex

\* MoveToCacheTop, spelled out.
LEMMA MoveToCacheTopElements ==
  ASSUME NEW S, NEW s \in Seq(S), NEW p \in Range(s)
  PROVE  /\ MoveToCacheTop(s, p) \in Seq(S)
         /\ Len(MoveToCacheTop(s, p)) = Len(s)
         /\ MoveToCacheTop(s, p)[Len(s)] = p
         /\ \E k \in 1..Len(s) :
              /\ s[k] = p
              /\ \A i \in 1..(Len(s) - 1) :
                   MoveToCacheTop(s, p)[i] = IF i < k THEN s[i] ELSE s[i + 1]
<1>1. Len(s) \in Nat /\ DOMAIN s = 1..Len(s) /\ p \in S
  BY LenProperties, ElementOfSeq DEF Range
<1>2. PICK k \in 1..Len(s) : s[k] = p /\ MoveToCacheTop(s, p) = Append(RemoveIndex(s, k), p)
  BY ZenonT(30), PositionFacts DEF MoveToCacheTop
<1> DEFINE r == RemoveIndex(s, k)
           m == Append(r, p)
<1>3. /\ r \in Seq(S) /\ Len(r) = Len(s) - 1
      /\ \A i \in 1..(Len(s) - 1) : r[i] = IF i < k THEN s[i] ELSE s[i + 1]
  BY Zenon, RemoveIndexFacts
<1> HIDE DEF r
<1>4. /\ m \in Seq(S) /\ Len(m) = Len(s)
      /\ \A i \in 1..(Len(s) - 1) : m[i] = r[i]
      /\ m[Len(s)] = p
  <2>1. /\ m \in Seq(S) /\ Len(m) = Len(r) + 1
        /\ \A i \in 1..Len(r) : m[i] = r[i]
        /\ m[Len(r) + 1] = p
    <3>1. r \in Seq(S) /\ p \in S
      BY <1>1, <1>3
    <3> QED BY <3>1, AppendProperties
  <2>2. Len(r) + 1 = Len(s)
    BY <1>1, <1>3
  <2> HIDE DEF m
  <2> QED BY <2>1, <2>2, <1>3
<1> HIDE DEF m
<1>5. MoveToCacheTop(s, p) = m
  BY <1>2 DEF r, m
<1> QED BY Zenon, <1>2, <1>3, <1>4, <1>5

\* Moving a peer of the list to its end.
LEMMA MoveToCacheTopFacts ==
  ASSUME NEW S, NEW s \in Seq(S), NEW p \in Range(s)
  PROVE  /\ MoveToCacheTop(s, p) \in Seq(S)
         /\ Len(MoveToCacheTop(s, p)) = Len(s)
         /\ Range(MoveToCacheTop(s, p)) \subseteq Range(s)
         /\ IsInjective(s) => IsInjective(MoveToCacheTop(s, p))
<1> DEFINE m == MoveToCacheTop(s, p)
<1>1. Len(s) \in Nat /\ DOMAIN s = 1..Len(s)
  BY LenProperties
<1>2. PICK k \in 1..Len(s) :
        s[k] = p /\ \A i \in 1..(Len(s) - 1) : m[i] = IF i < k THEN s[i] ELSE s[i + 1]
  BY Zenon, MoveToCacheTopElements
<1>4. m \in Seq(S) /\ Len(m) = Len(s) /\ m[Len(s)] = p
  BY Zenon, MoveToCacheTopElements
<1> HIDE DEF m
<1>5. DOMAIN m = 1..Len(s)
  BY <1>4, LenProperties
<1> DEFINE old(i) == OldIndex(i, k, Len(s))
<1>7. \A i \in 1..Len(s) : old(i) \in 1..Len(s) /\ m[i] = s[old(i)]
  <2> SUFFICES ASSUME NEW i \in 1..Len(s) PROVE old(i) \in 1..Len(s) /\ m[i] = s[old(i)]
    OBVIOUS
  <2>1. CASE i = Len(s)
    BY <2>1, <1>2, <1>4 DEF OldIndex
  <2>2. CASE i # Len(s)
    <3>1. i \in 1..(Len(s) - 1)
      BY Zenon, <2>2, <1>1, OldIndexFacts
    <3>2. m[i] = IF i < k THEN s[i] ELSE s[i + 1]
      BY <3>1, <1>2
    <3> QED BY Zenon, <2>2, <3>2, <1>1, OldIndexFacts DEF OldIndex
  <2> QED BY <2>1, <2>2
<1>8. \A i, j \in 1..Len(s) : old(i) = old(j) => i = j
  BY <1>1, OldIndexFacts
<1> HIDE DEF old
<1>9. Range(m) \subseteq Range(s)
  BY <1>1, <1>5, <1>7 DEF Range
<1>10. IsInjective(s) => IsInjective(m)
  BY <1>1, <1>5, <1>7, <1>8 DEF IsInjective
<1> QED BY <1>4, <1>9, <1>10 DEF m

\* add_peer keeps the list a list of peers (bootstrap_cache.rs:82).
LEMMA AddPeerType ==
  ASSUME NEW S, NEW s \in Seq(S), NEW p \in S
  PROVE  /\ AddPeer(s, p) \in Seq(S)
         /\ Range(AddPeer(s, p)) \subseteq Range(s) \union {p}
<1>1. CASE p \in HardCoded
  BY <1>1 DEF AddPeer
<1>2. CASE p \notin HardCoded /\ p \in Range(s)
  <2>1. AddPeer(s, p) = MoveToCacheTop(s, p)
    BY <1>2 DEF AddPeer
  <2> QED BY <1>2, <2>1, MoveToCacheTopFacts
<1>3. CASE p \notin HardCoded /\ p \notin Range(s)
  <2>1. AddPeer(s, p) = InsertNew(s, p)
    BY <1>3 DEF AddPeer
  <2> QED BY <2>1, InsertNewFacts
<1> QED BY <1>1, <1>2, <1>3

\* add_peer keeps a list within MAX_CACHE_SIZE, with no peer twice and without
\* hard coded contacts, for every bound and every list (bootstrap_cache.rs:82).
THEOREM AddPeerKeepsListSound ==
  ASSUME NEW S, NEW s \in Seq(S), NEW p \in S,
         Len(s) <= MaxCacheSize, IsInjective(s), Range(s) \cap HardCoded = {}
  PROVE  /\ Len(AddPeer(s, p)) <= MaxCacheSize
         /\ IsInjective(AddPeer(s, p))
         /\ Range(AddPeer(s, p)) \cap HardCoded = {}
<1>1. CASE p \in HardCoded
  BY <1>1 DEF AddPeer
<1>2. CASE p \notin HardCoded /\ p \in Range(s)
  <2>1. AddPeer(s, p) = MoveToCacheTop(s, p)
    BY <1>2 DEF AddPeer
  <2>2. /\ Len(MoveToCacheTop(s, p)) = Len(s)
        /\ Range(MoveToCacheTop(s, p)) \subseteq Range(s)
        /\ IsInjective(MoveToCacheTop(s, p))
    BY <1>2, MoveToCacheTopFacts
  <2> QED BY <2>1, <2>2
<1>3. CASE p \notin HardCoded /\ p \notin Range(s)
  <2>1. AddPeer(s, p) = InsertNew(s, p)
    BY <1>3 DEF AddPeer
  <2>2. /\ Len(InsertNew(s, p)) <= MaxCacheSize
        /\ Range(InsertNew(s, p)) \subseteq Range(s) \union {p}
        /\ IsInjective(InsertNew(s, p))
    BY <1>3, InsertNewFacts
  <2> QED BY <1>3, <2>1, <2>2
<1> QED BY <1>1, <1>2, <1>3
=============================================================================
