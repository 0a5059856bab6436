------------------------ MODULE BootstrapCacheProofs ------------------------
(***************************************************************************)
(* The properties of the bootstrap cache and its file, for every bound and *)
(* every set of nodes, across any number of crashes and restarts.          *)
(***************************************************************************)
EXTENDS BootstrapCache, BootstrapPeersProofs, FiniteSetTheorems

\* What the lengths of the list can be.
LEMMA LengthFacts ==
  ASSUME NEW a \in Nat, NEW b \in Nat, a <= b
  PROVE  /\ a < b \/ a = b
         /\ a = b => a >= b
         /\ a < b => a # b
         /\ (a + 1) - 1 = a
         /\ a + 1 \in Nat \ {0}
         /\ a > 0 => a \in Nat \ {0} /\ a \in 1..a
  OBVIOUS

\* The list t is s with n moved or added to its end: the others keep their order,
\* and only the oldest of a full list is dropped.
OrderKept(s, t, n) ==
  /\ Len(t) \in Nat \ {0} /\ DOMAIN t = 1..Len(t) /\ t[Len(t)] = n
  /\ \A i, j \in 1..(Len(t) - 1) : i < j =>
       \E a, b \in DOMAIN s : a < b /\ t[i] = s[a] /\ t[j] = s[b]
  /\ Len(s) = MaxCacheSize => Len(t) = MaxCacheSize
  /\ \A x \in Range(s) \ Range(t) : Len(s) = MaxCacheSize /\ x = s[1]

\* add_peer of a peer that is not hard coded puts it at the end and keeps the
\* others in their order (bootstrap_cache.rs:82).
LEMMA AddPeerOrder ==
  ASSUME NEW S, NEW s \in Seq(S), NEW n \in S, n \notin HardCoded,
         Len(s) <= MaxCacheSize, IsInjective(s)
  PROVE  OrderKept(s, AddPeer(s, n), n)
<1>0. PICK t : t = AddPeer(s, n)
  OBVIOUS
<1>1. /\ Len(s) \in Nat /\ DOMAIN s = 1..Len(s)
      /\ MaxCacheSize \in Nat /\ MaxCacheSize > 0
  BY LenProperties, CacheSizeAssumption
<1>2. t \in Seq(S)
  BY Zenon, <1>0, AddPeerType
<1>3. Len(t) \in Nat /\ DOMAIN t = 1..Len(t)
  BY <1>2, LenProperties
<1>4. CASE n \in Range(s)
  <2>1. t = MoveToCacheTop(s, n)
    BY Zenon, <1>0, <1>4 DEF AddPeer
  <2>2. Len(t) = Len(s) /\ t[Len(s)] = n
    <3>1. Len(MoveToCacheTop(s, n)) = Len(s) /\ MoveToCacheTop(s, n)[Len(s)] = n
      BY Zenon, <1>4, MoveToCacheTopElements
    <3> QED BY Zenon, <2>1, <3>1
  <2>3. PICK k \in 1..Len(s) :
          s[k] = n /\ \A i \in 1..(Len(s) - 1) : t[i] = IF i < k THEN s[i] ELSE s[i + 1]
    <3>1. \E k \in 1..Len(s) :
            /\ s[k] = n
            /\ \A i \in 1..(Len(s) - 1) :
                 MoveToCacheTop(s, n)[i] = IF i < k THEN s[i] ELSE s[i + 1]
      BY Zenon, <1>4, MoveToCacheTopElements
    <3> QED BY Zenon, <2>1, <3>1
  <2>4. Len(s) > 0
    BY <1>1
  <2>5. ASSUME NEW i \in 1..(Len(s) - 1), NEW j \in 1..(Len(s) - 1), i < j
        PROVE  \E a, b \in DOMAIN s : a < b /\ t[i] = s[a] /\ t[j] = s[b]
    <3> DEFINE a == IF i < k THEN i ELSE i + 1
               b == IF j < k THEN j ELSE j + 1
    <3>1. a \in 1..Len(s) /\ b \in 1..Len(s) /\ a < b
      BY <1>1, <2>5
    <3>2. t[i] = s[a] /\ t[j] = s[b]
      BY Zenon, <2>3
    <3> HIDE DEF a, b
    <3> QED BY Zenon, <1>1, <3>1, <3>2
  <2>6. ASSUME NEW x \in Range(s) PROVE x \in Range(t)
    <3>1. PICK a \in 1..Len(s) : x = s[a]
      BY Zenon, <1>1 DEF Range
    <3>2. \E i \in 1..Len(s) : x = t[i]
      <4>1. CASE a < k
        <5>1. a \in 1..(Len(s) - 1)
          BY <1>1, <4>1
        <5>2. t[a] = s[a]
          BY Zenon, <2>3, <4>1, <5>1
        <5> QED BY Zenon, <3>1, <5>2
      <4>2. CASE a = k
        <5>1. Len(s) \in 1..Len(s)
          BY <1>1, <2>4
        <5> QED BY Zenon, <2>2, <2>3, <3>1, <4>2, <5>1
      <4>3. CASE a > k
        <5>1. a - 1 \in 1..(Len(s) - 1) /\ a - 1 \in 1..Len(s) /\ ~(a - 1 < k) /\ (a - 1) + 1 = a
          BY <1>1, <4>3
        <5>2. t[a - 1] = s[(a - 1) + 1]
          BY Zenon, <2>3, <5>1
        <5> QED BY Zenon, <3>1, <5>1, <5>2
      <4> QED BY <4>1, <4>2, <4>3
    <3> QED BY Zenon, <1>3, <2>2, <3>2 DEF Range
  <2>7. Len(t) \in Nat \ {0}
    BY <1>3, <2>2, <2>4
  <2>8. \A i, j \in 1..(Len(t) - 1) : i < j =>
          \E a, b \in DOMAIN s : a < b /\ t[i] = s[a] /\ t[j] = s[b]
    <3>1. 1..(Len(t) - 1) = 1..(Len(s) - 1)
      BY Zenon, <2>2
    <3>2. ASSUME NEW i \in 1..(Len(t) - 1), NEW j \in 1..(Len(t) - 1), i < j
          PROVE  \E a, b \in DOMAIN s : a < b /\ t[i] = s[a] /\ t[j] = s[b]
      <4>1. i \in 1..(Len(s) - 1) /\ j \in 1..(Len(s) - 1)
        BY Zenon, <3>1
      <4> QED BY Zenon, <2>5, <3>2, <4>1
    <3> QED BY Zenon, <3>2
  <2>9. t[Len(t)] = n /\ (Len(s) = MaxCacheSize => Len(t) = MaxCacheSize)
    BY Zenon, <2>2
  <2>10. OrderKept(s, t, n)
    BY Zenon, <1>3, <2>6, <2>7, <2>8, <2>9 DEF OrderKept
  <2> QED BY Zenon, <1>0, <2>10
<1>5. CASE n \notin Range(s) /\ Len(s) < MaxCacheSize
  <2>1. t = InsertNew(s, n)
    BY Zenon, <1>0, <1>5 DEF AddPeer
  <2>2. /\ Len(t) = Len(s) + 1 /\ t[Len(s) + 1] = n
        /\ \A i \in 1..Len(s) : t[i] = s[i]
    <3>1. /\ Len(InsertNew(s, n)) = Len(s) + 1 /\ InsertNew(s, n)[Len(s) + 1] = n
          /\ \A i \in 1..Len(s) : InsertNew(s, n)[i] = s[i]
      BY <1>5, InsertNewElements
    <3> QED BY Zenon, <2>1, <3>1
  <2>3. Len(t) - 1 = Len(s) /\ Len(t) \in Nat \ {0} /\ Len(s) # MaxCacheSize
    <3>1. (Len(s) + 1) - 1 = Len(s) /\ Len(s) + 1 \in Nat \ {0} /\ Len(s) # MaxCacheSize
      BY Zenon, <1>1, <1>5, LengthFacts
    <3>2. Len(t) = Len(s) + 1
      BY <2>2
    <3> QED BY Zenon, <3>1, <3>2
  <2>4. \A x \in Range(s) : x \in Range(t)
    <3>1. 1..Len(s) \subseteq 1..Len(t)
      BY <1>1, <2>2
    <3> QED BY Zenon, <1>1, <1>3, <2>2, <3>1 DEF Range
  <2> QED BY Zenon, <1>0, <1>1, <1>3, <2>2, <2>3, <2>4 DEF OrderKept
<1>6. CASE n \notin Range(s) /\ Len(s) = MaxCacheSize
  <2>1. t = InsertNew(s, n) /\ Len(s) >= MaxCacheSize
    <3>1. t = InsertNew(s, n)
      BY Zenon, <1>0, <1>6 DEF AddPeer
    <3> QED BY Zenon, <1>1, <1>6, <3>1, LengthFacts
  <2>2. /\ Len(t) = Len(s) /\ t[Len(s)] = n
        /\ \A i \in 1..(Len(s) - 1) : t[i] = s[i + 1]
    <3>1. /\ Len(InsertNew(s, n)) = Len(s) /\ InsertNew(s, n)[Len(s)] = n
          /\ \A i \in 1..(Len(s) - 1) : InsertNew(s, n)[i] = s[i + 1]
      <4>1. Len(s) >= MaxCacheSize =>
              /\ Len(InsertNew(s, n)) = Len(s)
              /\ \A i \in 1..(Len(s) - 1) : InsertNew(s, n)[i] = s[i + 1]
              /\ InsertNew(s, n)[Len(s)] = n
        BY ZenonT(60), InsertNewElements
      <4> QED BY Zenon, <2>1, <4>1
    <3> QED BY Zenon, <2>1, <3>1
  <2>3. ASSUME NEW i \in 1..(Len(s) - 1), NEW j \in 1..(Len(s) - 1), i < j
        PROVE  \E a, b \in DOMAIN s : a < b /\ t[i] = s[a] /\ t[j] = s[b]
    <3>1. i + 1 \in 1..Len(s) /\ j + 1 \in 1..Len(s) /\ i + 1 < j + 1
      BY <1>1, <2>3
    <3> QED BY Zenon, <1>1, <2>2, <3>1
  <2>4. ASSUME NEW x \in Range(s) \ Range(t) PROVE x = s[1]
    <3>1. PICK a \in 1..Len(s) : x = s[a]
      BY Zenon, <1>1 DEF Range
    <3>2. CASE a # 1
      <4>1. a - 1 \in 1..(Len(s) - 1) /\ a - 1 \in 1..Len(s) /\ (a - 1) + 1 = a
        BY <1>1, <3>2
      <4>2. t[a - 1] = s[a]
        BY Zenon, <2>2, <4>1
      <4> QED BY Zenon, <1>3, <2>2, <3>1, <4>1, <4>2 DEF Range
    <3> QED BY Zenon, <3>1, <3>2
  <2>5. Len(t) \in Nat \ {0}
    BY Zenon, <1>1, <1>6, <2>2, LengthFacts
  <2>6. \A i, j \in 1..(Len(t) - 1) : i < j =>
          \E a, b \in DOMAIN s : a < b /\ t[i] = s[a] /\ t[j] = s[b]
    <3>1. 1..(Len(t) - 1) = 1..(Len(s) - 1)
      BY Zenon, <2>2
    <3>2. ASSUME NEW i \in 1..(Len(t) - 1), NEW j \in 1..(Len(t) - 1), i < j
          PROVE  \E a, b \in DOMAIN s : a < b /\ t[i] = s[a] /\ t[j] = s[b]
      <4>1. i \in 1..(Len(s) - 1) /\ j \in 1..(Len(s) - 1)
        BY Zenon, <3>1
      <4> QED BY Zenon, <2>3, <3>2, <4>1
    <3> QED BY Zenon, <3>2
  <2>7. t[Len(t)] = n /\ (Len(s) = MaxCacheSize => Len(t) = MaxCacheSize)
    BY Zenon, <2>2
  <2>8. OrderKept(s, t, n)
    BY Zenon, <1>3, <1>6, <2>4, <2>5, <2>6, <2>7 DEF OrderKept
  <2> QED BY Zenon, <1>0, <2>8
<1>7. Len(s) < MaxCacheSize \/ Len(s) = MaxCacheSize
  BY Zenon, <1>1, LengthFacts
<1> QED BY Zenon, <1>4, <1>5, <1>6, <1>7

\* What one more use changes in the order of the last uses.
LEMMA UseFacts ==
  ASSUME NEW u \in Seq(Node), NEW n \in Node, NEW v, v = Append(u, n)
  PROVE  /\ Range(v) = Range(u) \union {n}
         /\ \A x, y : x # n /\ UsedBefore(u, x, y) => UsedBefore(v, x, y)
         /\ \A x : x # n => UsedBefore(v, x, n)
<1>1. Len(u) \in Nat /\ DOMAIN u = 1..Len(u)
  BY LenProperties
<1>2. /\ v \in Seq(Node) /\ Len(v) = Len(u) + 1
      /\ \A i \in 1..Len(u) : v[i] = u[i]
      /\ v[Len(u) + 1] = n
  BY AppendProperties
<1>3. DOMAIN v = DOMAIN u \union {Len(u) + 1} /\ \A i \in DOMAIN u : i < Len(u) + 1
  <2>1. DOMAIN v = 1..(Len(u) + 1)
    BY <1>2, LenProperties
  <2> QED BY <1>1, <2>1
<1>4. /\ \A i \in DOMAIN u : v[i] = u[i]
      /\ v[Len(u) + 1] = n
  BY Zenon, <1>1, <1>2
<1>5. Range(v) = Range(u) \union {n}
  BY <1>3, <1>4 DEF Range
<1>6. ASSUME NEW x, NEW y, x # n, UsedBefore(u, x, y) PROVE UsedBefore(v, x, y)
  BY Zenon, <1>3, <1>4, <1>6 DEF UsedBefore
<1>7. ASSUME NEW x, x # n PROVE UsedBefore(v, x, n)
  <2>1. \A i \in DOMAIN v : v[i] = x => i < Len(u) + 1
    BY Zenon, <1>3, <1>4, <1>7
  <2> QED BY Zenon, <1>3, <1>4, <2>1 DEF UsedBefore
<1> QED BY Zenon, <1>5, <1>6, <1>7

\* HoldsMostRecent of a list s and the uses u.
MostRecent(s, u) ==
  /\ Range(s) \subseteq Range(u)
  /\ \A i, j \in DOMAIN s : i < j => UsedBefore(u, s[i], s[j])
  /\ \A x \in Range(u) \ Range(s) :
       /\ Len(s) = MaxCacheSize
       /\ \A y \in Range(s) : UsedBefore(u, x, y)

\* CacheIsSound of a list s.
SoundList(s) ==
  /\ Len(s) <= MaxCacheSize
  /\ IsInjective(s)
  /\ Range(s) \cap HardCoded = {}

\* A list is the most recent of itself: what a start leaves (lib.rs:113).
LEMMA MostRecentAtStart ==
  ASSUME NEW s \in Seq(Node), IsInjective(s)
  PROVE  MostRecent(s, s)
<1>1. ASSUME NEW i \in DOMAIN s, NEW j \in DOMAIN s, i < j PROVE UsedBefore(s, s[i], s[j])
  <2>1. \A k \in DOMAIN s : s[k] = s[i] => k = i
    BY Zenon DEF IsInjective
  <2>2. \A k \in DOMAIN s : s[k] = s[i] => k < j
    BY Zenon, <1>1, <2>1
  <2> QED BY Zenon, <2>2 DEF UsedBefore
<1> QED BY Zenon, <1>1 DEF MostRecent

\* add_peer keeps the list the most recently used ones (bootstrap_cache.rs:82).
LEMMA MostRecentAfterUse ==
  ASSUME NEW s \in Seq(Node), NEW u \in Seq(Node), NEW n \in Node, n \notin HardCoded,
         SoundList(s), MostRecent(s, u)
  PROVE  MostRecent(AddPeer(s, n), Append(u, n))
<1>0. PICK t, v : t = AddPeer(s, n) /\ v = Append(u, n)
  BY Zenon
<1>1. Len(s) <= MaxCacheSize /\ IsInjective(s) /\ Range(s) \cap HardCoded = {}
  BY Zenon DEF SoundList
<1>2. /\ t \in Seq(Node) /\ Range(t) \subseteq Range(s) \union {n} /\ IsInjective(t)
  <2>1. AddPeer(s, n) \in Seq(Node) /\ Range(AddPeer(s, n)) \subseteq Range(s) \union {n}
    BY Zenon, AddPeerType
  <2>2. IsInjective(AddPeer(s, n))
    BY Zenon, <1>1, AddPeerKeepsListSound
  <2> QED BY Zenon, <1>0, <2>1, <2>2
<1>3. /\ Len(t) \in Nat \ {0} /\ DOMAIN t = 1..Len(t) /\ t[Len(t)] = n
      /\ \A i, j \in 1..(Len(t) - 1) : i < j =>
           \E a, b \in DOMAIN s : a < b /\ t[i] = s[a] /\ t[j] = s[b]
      /\ Len(s) = MaxCacheSize => Len(t) = MaxCacheSize
      /\ \A x \in Range(s) \ Range(t) : Len(s) = MaxCacheSize /\ x = s[1]
  <2>1. OrderKept(s, AddPeer(s, n), n)
    BY Zenon, <1>1, AddPeerOrder
  <2>2. OrderKept(s, t, n)
    BY Zenon, <1>0, <2>1
  <2> QED BY Zenon, <2>2 DEF OrderKept
<1>4. /\ Range(v) = Range(u) \union {n}
      /\ \A x, y : x # n /\ UsedBefore(u, x, y) => UsedBefore(v, x, y)
      /\ \A x : x # n => UsedBefore(v, x, n)
  BY Zenon, <1>0, UseFacts
<1>5. n \in Range(t) /\ Len(t) \in DOMAIN t
  <2>1. Len(t) \in DOMAIN t
    BY <1>3
  <2> QED BY Zenon, <1>3, <2>1 DEF Range
<1>6. Range(t) \subseteq Range(v)
  BY Zenon, <1>2, <1>4 DEF MostRecent
<1>7. ASSUME NEW i \in DOMAIN t, NEW j \in DOMAIN t, i < j PROVE UsedBefore(v, t[i], t[j])
  <2>1. i \in 1..(Len(t) - 1) /\ i # Len(t) /\ (j = Len(t) \/ j \in 1..(Len(t) - 1))
    BY <1>3, <1>7
  <2>2. t[i] # n
    BY Zenon, <1>2, <1>3, <1>5, <2>1 DEF IsInjective
  <2>3. CASE j = Len(t)
    BY Zenon, <1>3, <1>4, <2>2, <2>3
  <2>4. CASE j \in 1..(Len(t) - 1)
    <3>1. PICK a \in DOMAIN s : \E b \in DOMAIN s : a < b /\ t[i] = s[a] /\ t[j] = s[b]
      BY Zenon, <1>3, <1>7, <2>1, <2>4
    <3>2. PICK b \in DOMAIN s : a < b /\ t[i] = s[a] /\ t[j] = s[b]
      BY Zenon, <3>1
    <3>3. UsedBefore(u, s[a], s[b])
      BY Zenon, <3>2 DEF MostRecent
    <3>4. UsedBefore(v, s[a], s[b])
      BY Zenon, <1>4, <2>2, <3>2, <3>3
    <3> QED BY Zenon, <3>2, <3>4
  <2> QED BY Zenon, <2>1, <2>3, <2>4
<1>8. ASSUME NEW x \in Range(v) \ Range(t)
      PROVE  Len(t) = MaxCacheSize /\ \A y \in Range(t) : UsedBefore(v, x, y)
  <2>1. x \in Range(u) /\ x # n
    BY Zenon, <1>4, <1>5
  <2>2. CASE x \in Range(s)
    <3>1. Len(s) = MaxCacheSize /\ x = s[1] /\ Len(t) = MaxCacheSize
      BY Zenon, <1>3, <2>2
    <3>2. ASSUME NEW y \in Range(t), y # n PROVE UsedBefore(v, x, y)
      <4>1. y \in Range(s) /\ y # x
        BY Zenon, <1>2, <3>2
      <4>2. PICK b \in DOMAIN s : y = s[b]
        BY Zenon, <4>1 DEF Range
      <4>3. b # 1
        BY Zenon, <3>1, <4>1, <4>2
      <4>4. 1 \in DOMAIN s /\ 1 < b
        BY <4>3, LenProperties
      <4>5. UsedBefore(u, s[1], s[b])
        BY Zenon, <4>4 DEF MostRecent
      <4> QED BY Zenon, <1>4, <2>1, <3>1, <4>2, <4>5
    <3> QED BY Zenon, <1>4, <2>1, <3>1, <3>2
  <2>3. CASE x \notin Range(s)
    <3>1. Len(s) = MaxCacheSize /\ \A y \in Range(s) : UsedBefore(u, x, y)
      BY Zenon, <2>1, <2>3 DEF MostRecent
    <3>2. Len(t) = MaxCacheSize
      BY Zenon, <1>3, <3>1
    <3> QED BY Zenon, <1>2, <1>4, <2>1, <3>1, <3>2
  <2> QED BY Zenon, <2>2, <2>3
<1>9. MostRecent(t, v)
  BY Zenon, <1>6, <1>7, <1>8 DEF MostRecent
<1> QED BY Zenon, <1>0, <1>9

-----------------------------------------------------------------------------
\* add_count stays a counter that is reset once it exceeds its bound, and the file
\* holds a list of nodes, whatever proxies the builder was given
\* (bootstrap_cache.rs:111).
THEOREM CacheTypes == Spec => []TypeOK
<1>1. Init => TypeOK
  <2>1. <<>> \in Seq(Node)
    BY EmptySeq
  <2>2. 0 \in 0..(SyncAfter + 1) /\ 0 <= SyncAfter /\ 0 \in Nat
    BY CacheAssumption
  <2>3. NoFile \in [kind : {"none", "torn", "saved"}, peers : Seq(Node)]
    BY <2>1 DEF NoFile
  <2> QED BY Zenon, <2>1, <2>2, <2>3 DEF Init, TypeOK
<1>2. ASSUME TypeOK, [Next]_vars PROVE TypeOK'
  <2>1. CASE UNCHANGED vars
    BY Zenon, <1>2, <2>1 DEF TypeOK, vars
  <2>2. CASE Start
    <3>1. PICK proxies \in ProxyLists, exclusively \in BOOLEAN :
            peers' = Started(disk.peers, proxies, exclusively)
      BY Zenon, <2>2 DEF Start
    <3>2. proxies \in Seq(Node) /\ disk.peers \in Seq(Node)
      BY Zenon, <1>2, CacheAssumption DEF TypeOK
    <3>3. disk.peers \o proxies \in Seq(Node)
      BY Zenon, <3>2, ConcatProperties
    <3>4. peers' \in Seq(Node)
      BY Zenon, <3>1, <3>2, <3>3 DEF Started
    <3>5. 0 \in 0..(SyncAfter + 1) /\ 0 <= SyncAfter
      BY CacheAssumption
    <3> QED BY Zenon, <1>2, <2>2, <3>4, <3>5 DEF Start, TypeOK
  <2>3. CASE StartFails
    BY Zenon, <1>2, <2>3 DEF StartFails, TypeOK
  <2>4. CASE Stop
    <3>1. <<>> \in Seq(Node)
      BY EmptySeq
    <3>2. 0 \in 0..(SyncAfter + 1) /\ 0 <= SyncAfter /\ 0 \in Nat
      BY CacheAssumption
    <3> QED BY Zenon, <1>2, <2>4, <3>1, <3>2 DEF Stop, TypeOK
  <2>5. ASSUME NEW n \in Node, Use(n)
        PROVE  /\ peers' \in Seq(Node) /\ uses' \in Seq(Node)
               /\ Counted(n) \in 0..(SyncAfter + 1)
    <3>1. AddPeer(peers, n) \in Seq(Node)
      BY Zenon, <1>2, AddPeerType DEF TypeOK
    <3>2. Append(uses, n) \in Seq(Node)
      BY Zenon, <1>2, AppendProperties DEF TypeOK
    <3>3. Counted(n) \in 0..(SyncAfter + 1)
      BY <1>2, <2>5, CacheAssumption DEF Use, TypeOK, Counted
    <3> QED BY Zenon, <1>2, <2>5, <3>1, <3>2, <3>3 DEF Use, TypeOK
  <2>6. ASSUME NEW n \in Node, AddPeerInMemory(n) PROVE TypeOK'
    <3>1. Use(n)
      BY Zenon, <2>6 DEF AddPeerInMemory
    <3>2. peers' \in Seq(Node) /\ uses' \in Seq(Node) /\ Counted(n) \in 0..(SyncAfter + 1)
      BY Zenon, <2>5, <3>1
    <3>3. /\ addCount' = Counted(n) /\ ~(addCount' > SyncAfter)
          /\ disk' = disk /\ process' = process /\ failedWrites' = failedWrites
      BY Zenon, <2>6 DEF AddPeerInMemory, SyncIsDue
    <3>4. addCount' \in 0..(SyncAfter + 1) /\ addCount' <= SyncAfter
      BY <3>2, <3>3, CacheAssumption
    <3> QED BY Zenon, <1>2, <3>2, <3>3, <3>4 DEF TypeOK
  <2>7. ASSUME NEW n \in Node, AddPeerAndTruncate(n) PROVE TypeOK'
    <3>1. Use(n)
      BY Zenon, <2>7 DEF AddPeerAndTruncate
    <3>2. peers' \in Seq(Node) /\ uses' \in Seq(Node) /\ Counted(n) \in 0..(SyncAfter + 1)
      BY Zenon, <2>5, <3>1
    <3>3. Torn \in [kind : {"none", "torn", "saved"}, peers : Seq(Node)]
      BY EmptySeq DEF Torn
    <3>4. addCount' = Counted(n) /\ disk' = Torn /\ process' = "writing" /\ UNCHANGED failedWrites
      BY Zenon, <2>7 DEF AddPeerAndTruncate
    <3> QED BY Zenon, <1>2, <3>2, <3>3, <3>4 DEF TypeOK
  <2>8. ASSUME NEW n \in Node, AddPeerAndFailToCreate(n) PROVE TypeOK'
    <3>1. Use(n)
      BY Zenon, <2>8 DEF AddPeerAndFailToCreate
    <3>2. peers' \in Seq(Node) /\ uses' \in Seq(Node)
      BY Zenon, <2>5, <3>1
    <3>3. addCount' = 0 /\ failedWrites' = failedWrites + 1 /\ disk' = disk /\ process' = process
      BY Zenon, <2>8 DEF AddPeerAndFailToCreate
    <3>4. addCount' \in 0..(SyncAfter + 1) /\ addCount' <= SyncAfter /\ failedWrites' \in Nat
      <4>1. failedWrites \in Nat
        BY Zenon, <1>2 DEF TypeOK
      <4> QED BY <3>3, <4>1, CacheAssumption
    <3> QED BY Zenon, <1>2, <3>2, <3>3, <3>4 DEF TypeOK
  <2>9. ASSUME NEW succeeds \in BOOLEAN, FinishWrite(succeeds) PROVE TypeOK'
    <3>1. Saved(peers) \in [kind : {"none", "torn", "saved"}, peers : Seq(Node)]
      BY Zenon, <1>2 DEF TypeOK, Saved
    <3>2. disk' \in [kind : {"none", "torn", "saved"}, peers : Seq(Node)]
      BY Zenon, <1>2, <2>9, <3>1 DEF TypeOK, FinishWrite
    <3>3. /\ failedWrites' = (IF succeeds THEN 0 ELSE failedWrites + 1)
          /\ addCount' = 0 /\ process' = "up"
          /\ peers' = peers /\ uses' = uses
      BY Zenon, <2>9 DEF FinishWrite
    <3>4. failedWrites' \in Nat
      <4>1. failedWrites \in Nat
        BY Zenon, <1>2 DEF TypeOK
      <4> QED BY <3>3, <4>1
    <3>5. addCount' \in 0..(SyncAfter + 1) /\ addCount' <= SyncAfter
      BY <3>3, CacheAssumption
    <3> QED BY Zenon, <1>2, <3>2, <3>3, <3>4, <3>5 DEF TypeOK
  <2> QED BY Zenon, <1>2, <2>1, <2>2, <2>3, <2>4, <2>6, <2>7, <2>8, <2>9 DEF Next
<1> QED BY <1>1, <1>2, PTL DEF Spec

-----------------------------------------------------------------------------
\* What the list holds beyond another one is finite.
LEMMA FiniteDifference ==
  ASSUME NEW s \in Seq(Node), NEW D
  PROVE  IsFiniteSet(Range(s) \ D) /\ Cardinality(Range(s) \ D) \in Nat
<1>1. Len(s) \in Nat /\ DOMAIN s = 1..Len(s) /\ s \in [1..Len(s) -> Range(s)]
  BY LenProperties DEF Range
<1>2. s \in Surjection(1..Len(s), Range(s))
  BY <1>1 DEF Surjection, Range
<1>3. IsFiniteSet(1..Len(s))
  BY <1>1, FS_Interval
<1>4. IsFiniteSet(Range(s))
  BY Zenon, <1>2, <1>3, FS_Surjection
<1>5. IsFiniteSet(Range(s) \ D)
  BY Zenon, <1>4, FS_Subset, Range(s) \ D \in SUBSET Range(s)
<1> QED BY Zenon, <1>5, FS_CardinalityType

\* Two finite sets, of which the second has at most one element more.
LEMMA OneMore ==
  ASSUME NEW A, IsFiniteSet(A), NEW B, IsFiniteSet(B), NEW x, B \subseteq A \union {x}
  PROVE  /\ Cardinality(B) <= Cardinality(A) + 1
         /\ B \subseteq A => Cardinality(B) <= Cardinality(A)
<1>1. /\ Cardinality(A) \in Nat /\ Cardinality(B) \in Nat
  BY Zenon, FS_CardinalityType
<1>2. /\ IsFiniteSet(A \union {x})
      /\ Cardinality(A \union {x}) = IF x \in A THEN Cardinality(A) ELSE Cardinality(A) + 1
  BY Zenon, FS_AddElement
<1>3. Cardinality(B) <= Cardinality(A \union {x})
  BY Zenon, <1>2, FS_Subset
<1>4. B \subseteq A => Cardinality(B) <= Cardinality(A)
  BY Zenon, FS_Subset
<1>5. Cardinality(A \union {x}) \in Nat /\ Cardinality(A \union {x}) <= Cardinality(A) + 1
  BY <1>1, <1>2
<1> QED BY <1>1, <1>3, <1>4, <1>5

\* What holds after every step of a program that is given no proxies: the list in
\* memory and the one in the file are sound, and the file is torn during a write.
CacheInv ==
  /\ TypeOK
  /\ SoundList(peers) /\ SoundList(disk.peers)
  /\ MostRecent(peers, uses)
  /\ process = "writing" => disk.kind = "torn"
  /\ SavedUpToAddCount

\* The empty list is sound and the most recent of no uses.
LEMMA EmptyListFacts ==
  /\ <<>> \in Seq(Node)
  /\ SoundList(<<>>)
  /\ MostRecent(<<>>, <<>>)
<1>1. <<>> \in Seq(Node) /\ DOMAIN <<>> = {} /\ Len(<<>>) = 0
  BY EmptySeq, LenProperties
<1>2. Range(<<>>) = {} /\ IsInjective(<<>>)
  BY Zenon, <1>1 DEF Range, IsInjective
<1>3. SoundList(<<>>)
  <2>1. Len(<<>>) <= MaxCacheSize
    BY <1>1, CacheSizeAssumption
  <2> QED BY Zenon, <1>2, <2>1 DEF SoundList
<1> QED BY Zenon, <1>1, <1>2, <1>3, MostRecentAtStart

\* add_peer keeps the list sound and the most recently used one.
LEMMA UseKeepsList ==
  ASSUME CacheInv, NEW n \in Node, Use(n)
  PROVE  SoundList(peers') /\ MostRecent(peers', uses')
<1>1. /\ peers \in Seq(Node) /\ uses \in Seq(Node)
      /\ Len(peers) <= MaxCacheSize /\ IsInjective(peers) /\ Range(peers) \cap HardCoded = {}
      /\ MostRecent(peers, uses) /\ SoundList(peers)
  BY Zenon DEF CacheInv, TypeOK, SoundList
<1>2. SoundList(AddPeer(peers, n))
  BY Zenon, <1>1, AddPeerKeepsListSound DEF SoundList
<1>3. CASE n \in HardCoded
  <2>1. peers' = peers /\ uses' = uses
    BY Zenon, <1>3 DEF Use, AddPeer
  <2> QED BY Zenon, <1>1, <2>1
<1>4. CASE n \notin HardCoded
  <2>1. peers' = AddPeer(peers, n) /\ uses' = Append(uses, n)
    BY Zenon, <1>4 DEF Use
  <2>2. MostRecent(AddPeer(peers, n), Append(uses, n))
    BY Zenon, <1>1, <1>4, MostRecentAfterUse
  <2> QED BY Zenon, <1>2, <2>1, <2>2
<1> QED BY Zenon, <1>3, <1>4

\* Each write that fails leaves one more batch.
LEMMA LeftUnsavedFacts ==
  ASSUME TypeOK
  PROVE  /\ LeftUnsaved \in Nat
         /\ failedWrites = 0 => LeftUnsaved = 0
         /\ (failedWrites + 1) * (SyncAfter + 1) = LeftUnsaved + (SyncAfter + 1)
<1>1. failedWrites \in Nat /\ SyncAfter + 1 \in Nat
  <2>1. failedWrites \in Nat
    BY Zenon DEF TypeOK
  <2> QED BY <2>1, CacheAssumption
<1>2. \A f, s \in Nat : f * s \in Nat /\ 0 * s = 0 /\ (f + 1) * s = f * s + s
  OBVIOUS
<1> QED BY <1>1, <1>2 DEF LeftUnsaved

\* add_peer counts what it puts into the list.
LEMMA UseIsCounted ==
  ASSUME CacheInv, TypeOK', NEW n \in Node, Use(n), disk' = disk, disk.kind # "torn"
  PROVE  Cardinality(Range(peers') \ Range(disk'.peers)) <= Counted(n) + LeftUnsaved
<1> DEFINE D == Range(disk.peers)
<1>1. /\ peers \in Seq(Node) /\ peers' \in Seq(Node) /\ addCount \in Nat /\ LeftUnsaved \in Nat
  <2>1. peers \in Seq(Node) /\ peers' \in Seq(Node) /\ addCount \in 0..(SyncAfter + 1)
    BY Zenon DEF CacheInv, TypeOK
  <2>2. LeftUnsaved \in Nat
    BY Zenon, LeftUnsavedFacts DEF CacheInv
  <2> QED BY <2>1, <2>2, CacheAssumption
<1>2. process = "up" /\ peers' = AddPeer(peers, n)
  BY Zenon DEF Use
<1>3. Range(peers') \subseteq Range(peers) \union {n}
  <2>1. Range(AddPeer(peers, n)) \subseteq Range(peers) \union {n}
    BY Zenon, <1>1, AddPeerType
  <2> QED BY Zenon, <1>2, <2>1
<1>4. /\ IsFiniteSet(Range(peers) \ D) /\ Cardinality(Range(peers) \ D) \in Nat
      /\ IsFiniteSet(Range(peers') \ D) /\ Cardinality(Range(peers') \ D) \in Nat
  BY Zenon, <1>1, FiniteDifference
<1>5. Range(peers') \ D \subseteq (Range(peers) \ D) \union {n}
  BY Zenon, <1>3
<1>6. /\ Cardinality(Range(peers') \ D) <= Cardinality(Range(peers) \ D) + 1
      /\ Range(peers') \ D \subseteq Range(peers) \ D =>
           Cardinality(Range(peers') \ D) <= Cardinality(Range(peers) \ D)
  <2> DEFINE A == Range(peers) \ D
             B == Range(peers') \ D
  <2>1. IsFiniteSet(A) /\ IsFiniteSet(B) /\ B \subseteq A \union {n}
    BY Zenon, <1>4, <1>5
  <2> HIDE DEF A, B
  <2>2. /\ Cardinality(B) <= Cardinality(A) + 1
        /\ B \subseteq A => Cardinality(B) <= Cardinality(A)
    BY Zenon, <2>1, OneMore
  <2> QED BY Zenon, <2>2 DEF A, B
<1>7. Cardinality(Range(peers') \ D) <= Counted(n) + LeftUnsaved
  <2>1. Cardinality(Range(peers) \ D) <= addCount + LeftUnsaved
    BY Zenon, <1>2 DEF CacheInv, SavedUpToAddCount
  <2>2. CASE n \in HardCoded \/ n \in Range(peers)
    <3>1. Counted(n) = addCount + 0
      BY Zenon, <2>2 DEF Counted
    <3>2. Range(peers') \subseteq Range(peers)
      <4>1. CASE n \in HardCoded
        BY Zenon, <1>2, <4>1 DEF AddPeer
      <4>2. CASE n \in Range(peers)
        BY Zenon, <1>3, <4>2
      <4> QED BY Zenon, <2>2, <4>1, <4>2
    <3>3. Cardinality(Range(peers') \ D) <= Cardinality(Range(peers) \ D)
      BY Zenon, <1>6, <3>2
    <3> HIDE DEF D
    <3> QED BY <1>1, <1>4, <2>1, <3>1, <3>3
  <2>3. CASE ~(n \in HardCoded \/ n \in Range(peers))
    <3>1. Counted(n) = addCount + 1
      BY Zenon, <2>3 DEF Counted
    <3> HIDE DEF D
    <3> QED BY <1>1, <1>4, <1>6, <2>1, <3>1
  <2> QED BY Zenon, <2>2, <2>3
<1> QED BY Zenon, <1>7

\* Every step of a program that is given no proxies keeps CacheInv.
LEMMA CacheInvKept ==
  ASSUME ProxyLists \subseteq {<<>>}, CacheInv, TypeOK', Next PROVE CacheInv'
<1>1. /\ TypeOK /\ SoundList(peers) /\ SoundList(disk.peers)
      /\ MostRecent(peers, uses) /\ SavedUpToAddCount
      /\ process = "writing" => disk.kind = "torn"
  BY Zenon DEF CacheInv
<1>10. LeftUnsaved' \in Nat
  <2>1. failedWrites' \in Nat /\ SyncAfter + 1 \in Nat
    <3>1. failedWrites' \in Nat
      BY Zenon DEF TypeOK
    <3> QED BY <3>1, CacheAssumption
  <2>2. \A f, s \in Nat : f * s \in Nat
    OBVIOUS
  <2> QED BY Zenon, <2>1, <2>2 DEF LeftUnsaved
<1>11. \A k \in Nat : 0 <= 0 + k
  OBVIOUS
<1>2. CASE Start
  <2>1. peers' = disk.peers \/ peers' = <<>>
    <3>1. PICK proxies \in ProxyLists, exclusively \in BOOLEAN :
            peers' = Started(disk.peers, proxies, exclusively)
      BY Zenon, <1>2 DEF Start
    <3>2. proxies = <<>> /\ disk.peers \in Seq(Node)
      BY Zenon, <1>1 DEF TypeOK
    <3>3. disk.peers \o <<>> = disk.peers
      BY Zenon, <3>2, ConcatEmptySeq
    <3> QED BY Zenon, <3>1, <3>2, <3>3 DEF Started
  <2>2. peers' \in Seq(Node) /\ uses' = peers' /\ disk' = disk /\ process' # "writing"
    BY <1>2 DEF Start, TypeOK
  <2>3. SoundList(peers')
    BY Zenon, <1>1, <2>1, EmptyListFacts
  <2>4. MostRecent(peers', uses')
    <3>1. IsInjective(peers')
      BY Zenon, <2>3 DEF SoundList
    <3>2. MostRecent(peers', peers')
      BY Zenon, <2>2, <3>1, MostRecentAtStart
    <3> QED BY Zenon, <2>2, <3>2
  <2>5. SavedUpToAddCount'
    <3>1. Range(peers') \ Range(disk.peers) = {}
      <4>1. Range(<<>>) = {}
        BY EmptySeq DEF Range
      <4> QED BY Zenon, <2>1, <4>1
    <3>2. Cardinality(Range(peers') \ Range(disk'.peers)) = 0
      BY Zenon, <2>2, <3>1, FS_EmptySet
    <3>3. addCount' = 0 /\ LeftUnsaved' \in Nat
      BY Zenon, <1>2, <1>10 DEF Start
    <3>4. 0 <= addCount' + LeftUnsaved'
      BY Zenon, <1>11, <3>3
    <3> QED BY Zenon, <3>2, <3>4 DEF SavedUpToAddCount
  <2> QED BY Zenon, <1>1, <2>2, <2>3, <2>4, <2>5 DEF CacheInv
<1>3. CASE StartFails
  <2>1. UNCHANGED <<peers, uses, disk>> /\ process' \notin {"up", "writing"}
    BY <1>3 DEF StartFails
  <2> QED BY Zenon, <1>1, <2>1 DEF CacheInv, SavedUpToAddCount
<1>4. CASE Stop
  <2>1. peers' = <<>> /\ uses' = <<>> /\ disk' = disk /\ process' \notin {"up", "writing"}
    BY <1>4 DEF Stop
  <2>2. SoundList(peers') /\ MostRecent(peers', uses')
    BY Zenon, <2>1, EmptyListFacts
  <2> QED BY Zenon, <1>1, <2>1, <2>2 DEF CacheInv, SavedUpToAddCount
<1>5. ASSUME NEW n \in Node, AddPeerInMemory(n) PROVE CacheInv'
  <2>1. Use(n) /\ disk' = disk /\ process' = process
    BY Zenon, <1>5 DEF AddPeerInMemory
  <2>2. SoundList(peers') /\ MostRecent(peers', uses')
    BY Zenon, <2>1, UseKeepsList
  <2>3. SavedUpToAddCount'
    <3>1. addCount' = Counted(n) /\ LeftUnsaved' = LeftUnsaved
      BY Zenon, <1>5 DEF AddPeerInMemory, LeftUnsaved
    <3> QED BY Zenon, <2>1, <3>1, UseIsCounted DEF SavedUpToAddCount
  <2> QED BY Zenon, <1>1, <2>1, <2>2, <2>3 DEF CacheInv
<1>6. ASSUME NEW n \in Node, AddPeerAndTruncate(n) PROVE CacheInv'
  <2>1. Use(n) /\ disk' = Torn /\ process' # "up"
    BY <1>6 DEF AddPeerAndTruncate
  <2>2. SoundList(peers') /\ MostRecent(peers', uses')
    BY Zenon, <2>1, UseKeepsList
  <2>3. SoundList(disk'.peers) /\ disk'.kind = "torn"
    <3>1. disk'.peers = <<>> /\ disk'.kind = "torn"
      BY <2>1 DEF Torn
    <3> QED BY Zenon, <3>1, EmptyListFacts
  <2> QED BY Zenon, <2>1, <2>2, <2>3 DEF CacheInv, SavedUpToAddCount
<1>7. ASSUME NEW n \in Node, AddPeerAndFailToCreate(n) PROVE CacheInv'
  <2>1. Use(n) /\ disk' = disk /\ addCount' = 0 /\ process' = process
    BY Zenon, <1>7 DEF AddPeerAndFailToCreate
  <2>2. SoundList(peers') /\ MostRecent(peers', uses')
    BY Zenon, <2>1, UseKeepsList
  <2>3. LeftUnsaved' = LeftUnsaved + (SyncAfter + 1)
    <3>1. LeftUnsaved' = (failedWrites + 1) * (SyncAfter + 1)
      BY Zenon, <1>7 DEF AddPeerAndFailToCreate, LeftUnsaved
    <3> QED BY Zenon, <1>1, <3>1, LeftUnsavedFacts
  <2>4. ASSUME disk.kind # "torn" PROVE SavedUpToAddCount'
    <3> DEFINE k == Cardinality(Range(peers') \ Range(disk'.peers))
    <3>1. k <= Counted(n) + LeftUnsaved
      BY Zenon, <2>1, <2>4, UseIsCounted
    <3>2. Counted(n) \in Nat /\ Counted(n) <= SyncAfter + 1
      <4>1. addCount \in 0..(SyncAfter + 1) /\ addCount <= SyncAfter
        BY Zenon, <1>1, <2>1 DEF TypeOK, Use
      <4> QED BY <4>1, CacheAssumption DEF Counted
    <3>3. k \in Nat
      <4>1. peers' \in Seq(Node)
        BY Zenon DEF TypeOK
      <4> QED BY Zenon, <4>1, FiniteDifference
    <3>4. LeftUnsaved \in Nat
      BY Zenon, <1>1, LeftUnsavedFacts
    <3> HIDE DEF k
    <3>5. k <= addCount' + LeftUnsaved'
      BY <2>1, <2>3, <3>1, <3>2, <3>3, <3>4, CacheAssumption
    <3> QED BY Zenon, <3>5 DEF SavedUpToAddCount, k
  <2>5. SavedUpToAddCount'
    BY Zenon, <2>1, <2>4 DEF SavedUpToAddCount
  <2> QED BY Zenon, <1>1, <2>1, <2>2, <2>5 DEF CacheInv
<1>8. ASSUME FinishWrite(TRUE) PROVE CacheInv'
  <2>1. /\ disk' = Saved(peers) /\ peers' = peers /\ uses' = uses /\ addCount' = 0
        /\ process' # "writing"
    BY <1>8 DEF FinishWrite
  <2>2. disk'.peers = peers
    BY <2>1 DEF Saved
  <2>3. SavedUpToAddCount'
    <3>1. Range(peers') \ Range(disk'.peers) = {}
      BY Zenon, <2>1, <2>2
    <3>2. Cardinality(Range(peers') \ Range(disk'.peers)) = 0
      BY Zenon, <3>1, FS_EmptySet
    <3>3. 0 <= addCount' + LeftUnsaved'
      BY Zenon, <1>10, <1>11, <2>1
    <3> QED BY Zenon, <3>2, <3>3 DEF SavedUpToAddCount
  <2>4. SoundList(peers') /\ SoundList(disk'.peers) /\ MostRecent(peers', uses')
    BY Zenon, <1>1, <2>1, <2>2
  <2> QED BY Zenon, <2>1, <2>3, <2>4 DEF CacheInv
<1>9. ASSUME FinishWrite(FALSE) PROVE CacheInv'
  <2>1. disk' = disk /\ peers' = peers /\ uses' = uses /\ process = "writing"
    BY <1>9 DEF FinishWrite
  <2>2. disk.kind = "torn"
    BY Zenon, <1>1, <2>1
  <2> QED BY Zenon, <1>1, <2>1, <2>2 DEF CacheInv, SavedUpToAddCount
<1> QED BY Zenon, <1>2, <1>3, <1>4, <1>5, <1>6, <1>7, <1>8, <1>9 DEF Next

\* CacheInv holds of every run of a program that is given no proxies.
LEMMA CacheInvariance ==
  ASSUME ProxyLists \subseteq {<<>>} PROVE Spec => []CacheInv
<1>1. Init /\ TypeOK => CacheInv
  <2> SUFFICES ASSUME Init, TypeOK PROVE CacheInv
    OBVIOUS
  <2>1. peers = <<>> /\ uses = <<>> /\ disk.peers = <<>> /\ process \notin {"up", "writing"}
    BY DEF Init, NoFile
  <2> QED BY Zenon, <2>1, EmptyListFacts DEF CacheInv, SavedUpToAddCount
<1>2. CacheInv /\ TypeOK' /\ [Next]_vars => CacheInv'
  <2> SUFFICES ASSUME CacheInv, TypeOK', UNCHANGED vars PROVE CacheInv'
    BY Zenon, CacheInvKept
  <2> QED BY Zenon DEF CacheInv, SavedUpToAddCount, LeftUnsaved, vars
<1> QED BY <1>1, <1>2, CacheTypes, PTL DEF Spec

\* The list stays within MAX_CACHE_SIZE, holds no peer twice and no hard coded
\* contact, across any number of crashes and restarts, for every bound
\* (bootstrap_cache.rs:82).  Proxies given to the builder are appended unchecked
\* (lib.rs:113): the theorem is about programs that give none.
THEOREM ListStaysSound ==
  ASSUME ProxyLists \subseteq {<<>>} PROVE Spec => []CacheIsSound
<1>1. CacheInv => CacheIsSound
  BY Zenon DEF CacheInv, SoundList, CacheIsSound
<1> QED BY <1>1, CacheInvariance, PTL

\* The list is the MaxCacheSize most recently used peers in the order of their last
\* use, for every bound and every sequence of uses (bootstrap_cache.rs:82).
THEOREM ListIsMostRecent ==
  ASSUME ProxyLists \subseteq {<<>>} PROVE Spec => []HoldsMostRecent
<1>1. CacheInv => HoldsMostRecent
  BY Zenon DEF CacheInv, MostRecent, HoldsMostRecent
<1> QED BY <1>1, CacheInvariance, PTL

\* A crash loses at most add_count peers and a batch for every write that failed since
\* the last success, for every threshold (bootstrap_cache.rs:111).
THEOREM LossIsCounted ==
  ASSUME ProxyLists \subseteq {<<>>} PROVE Spec => []SavedUpToAddCount
<1>1. CacheInv => SavedUpToAddCount
  BY Zenon DEF CacheInv
<1> QED BY <1>1, CacheInvariance, PTL
=============================================================================
