-------------------------- MODULE OrderBookProofs --------------------------
(***************************************************************************)
(* Proofs about OrderBook: a span is applied like its events one after the *)
(* other, whatever its length and whatever levels they carry.              *)
(***************************************************************************)
EXTENDS OrderBook, TLAPS, WellFoundedInduction

-----------------------------------------------------------------------------
(***************************************************************************)
(* Induction over the natural numbers.                                     *)
(***************************************************************************)
\* Every non-empty set of natural numbers has a least member, by the library's
\* theorems about well founded relations.
LEMMA LeastNatural ==
    ASSUME NEW T, T \subseteq Nat, T # {}
    PROVE  \E m \in T : \A k \in T : m <= k
<1>1. PICK less : less = OpToRel(<, Nat)
  OBVIOUS
<1>2. PICK m \in T : \A k \in T : ~ (<<k, m>> \in less)
  BY <1>1, NatLessThanWellFounded, WFMin
<1>3. ASSUME NEW k \in T PROVE m <= k
  <2>1. m \in Nat /\ k \in Nat
    OBVIOUS
  <2>2. ~(k < m)
    BY <1>1, <1>2, <2>1 DEF OpToRel
  <2>. QED
    BY <2>1, <2>2
<1>. QED
  BY <1>3

\* Induction with a set in the place of a predicate: a set that holds 0 and with
\* every number its successor holds them all.
LEMMA SetInduction ==
    ASSUME NEW S, 0 \in S, \A n \in Nat : n \in S => n + 1 \in S
    PROVE  \A n \in Nat : n \in S
<1>. DEFINE T == {n \in Nat : n \notin S}
<1>1. SUFFICES ASSUME T # {} PROVE FALSE
  OBVIOUS
<1>2. PICK m \in T : \A k \in T : m <= k
  BY <1>1, LeastNatural
<1>3. m # 0 /\ m - 1 \in Nat /\ m - 1 \notin T
  BY <1>2
<1>. QED
  BY <1>2, <1>3

-----------------------------------------------------------------------------
(***************************************************************************)
(* Changes.  CommitChanges(levels, AsMap(changes)) is what one staging     *)
(* area makes of all changes at once.                                      *)
(***************************************************************************)
\* The levels that may rest.
Slots == {"Bid", "Ask"} \X (Nat \ {0})
Maps == UNION {[S -> Nat \ {0}] : S \in SUBSET Slots}

\* What update events may carry.
Changes == [side : {"Bid", "Ask"}, price : Nat \ {0}, quantity : Nat]

\* Max finds the last index.
LEMMA MaxIs ==
    ASSUME NEW n \in Nat, NEW T, T \subseteq 1 .. n, T # {}
    PROVE  Max(T) \in T /\ \A y \in T : Max(T) >= y
<1>. DEFINE D == {n - k : k \in T}
<1>1. D \subseteq Nat /\ D # {}
  OBVIOUS
<1>2. PICK d \in D : \A e \in D : d <= e
  <2>. HIDE DEF D
  <2>. QED
    BY <1>1, LeastNatural
<1>3. PICK m \in T : d = n - m
  OBVIOUS
<1>4. ASSUME NEW y \in T PROVE m >= y
  <2>1. n - y \in D
    OBVIOUS
  <2>2. d <= n - y
    BY <1>2, <2>1
  <2>. QED
    BY <1>3, <2>2
<1>5. \E x \in T : \A y \in T : x >= y
  BY <1>4
<1>. QED
  BY <1>5 DEF Max

\* insert_or_assign keeps the last entry of a key.
LEMMA LastEntryIs ==
    ASSUME NEW s \in Seq(Levels), NEW k \in Keys(s)
    PROVE  \E i \in 1 .. Len(s) :
               /\ Key(s[i]) = k /\ LastEntry(s, k) = s[i]
               /\ \A j \in 1 .. Len(s) : Key(s[j]) = k => j <= i
<1>. DEFINE T == {i \in DOMAIN s : Key(s[i]) = k}
<1>1. Len(s) \in Nat /\ DOMAIN s = 1 .. Len(s)
  OBVIOUS
<1>2. T \subseteq 1 .. Len(s) /\ T # {}
  BY <1>1 DEF Keys
<1>3. PICK i : i = Max(T)
  OBVIOUS
<1>4. i \in T /\ \A j \in T : i >= j
  <2>. HIDE DEF T
  <2>. QED
    BY <1>1, <1>2, <1>3, MaxIs
<1>5. LastEntry(s, k) = s[i]
  BY <1>3 DEF LastEntry
<1>6. ASSUME NEW j \in 1 .. Len(s), Key(s[j]) = k PROVE j <= i
  BY <1>1, <1>4, <1>6
<1>. QED
  BY <1>1, <1>4, <1>5, <1>6

\* It is the only one.
LEMMA LastEntryUnique ==
    ASSUME NEW s \in Seq(Levels), NEW i \in 1 .. Len(s), \A j \in 1 .. Len(s) : Key(s[j]) = Key(s[i]) => j <= i
    PROVE  Key(s[i]) \in Keys(s) /\ LastEntry(s, Key(s[i])) = s[i]
<1>1. DOMAIN s = 1 .. Len(s)
  OBVIOUS
<1>2. Key(s[i]) \in Keys(s)
  BY <1>1 DEF Keys
<1>3. PICK k : k = Key(s[i])
  OBVIOUS
<1>4. PICK j \in 1 .. Len(s) : Key(s[j]) = k /\ LastEntry(s, k) = s[j] /\ \A h \in 1 .. Len(s) : Key(s[h]) = k => h <= j
  BY <1>2, <1>3, LastEntryIs
<1>5. i <= j /\ j <= i
  BY <1>3, <1>4
<1>. QED
  BY <1>2, <1>3, <1>4, <1>5

\* Later changes take precedence.
LEMMA LastEntryConcat ==
    ASSUME NEW s \in Seq(Levels), NEW t \in Seq(Levels)
    PROVE  /\ Keys(s \o t) = Keys(s) \cup Keys(t)
           /\ \A k \in Keys(t) : LastEntry(s \o t, k) = LastEntry(t, k)
           /\ \A k \in Keys(s) \ Keys(t) : LastEntry(s \o t, k) = LastEntry(s, k)
<1>1. PICK u, a, b : u = s \o t /\ a = Len(s) /\ b = Len(t)
  OBVIOUS
<1>2. /\ a \in Nat /\ b \in Nat /\ u \in Seq(Levels) /\ Len(u) = a + b
      /\ DOMAIN u = 1 .. a + b /\ DOMAIN s = 1 .. a /\ DOMAIN t = 1 .. b
  BY <1>1
<1>3. \A i \in 1 .. a : u[i] = s[i]
  BY <1>1
<1>4. \A i \in 1 .. b : u[a + i] = t[i]
  BY <1>1
<1>5. ASSUME NEW i \in 1 .. a + b, ~(i <= a) PROVE i - a \in 1 .. b /\ u[i] = t[i - a]
  <2>1. i - a \in 1 .. b /\ a + (i - a) = i
    BY <1>2, <1>5
  <2>. QED
    BY <1>4, <2>1
<1>6. Keys(u) = Keys(s) \cup Keys(t)
  <2>1. ASSUME NEW k \in Keys(u) PROVE k \in Keys(s) \cup Keys(t)
    <3>1. PICK i \in 1 .. a + b : k = Key(u[i])
      BY <1>2 DEF Keys
    <3>2. CASE i <= a
      <4>1. i \in 1 .. a
        BY <1>2, <3>2
      <4>. QED
        BY <1>2, <1>3, <3>1, <4>1 DEF Keys
    <3>3. CASE ~(i <= a)
      BY <1>2, <1>5, <3>1, <3>3 DEF Keys
    <3>. QED
      BY <3>2, <3>3
  <2>2. ASSUME NEW k \in Keys(s) PROVE k \in Keys(u)
    <3>1. PICK i \in 1 .. a : k = Key(s[i])
      BY <1>2 DEF Keys
    <3>2. i \in 1 .. a + b /\ k = Key(u[i])
      BY <1>2, <1>3, <3>1
    <3>. QED
      BY <1>2, <3>2 DEF Keys
  <2>3. ASSUME NEW k \in Keys(t) PROVE k \in Keys(u)
    <3>1. PICK i \in 1 .. b : k = Key(t[i])
      BY <1>2 DEF Keys
    <3>2. a + i \in 1 .. a + b /\ k = Key(u[a + i])
      BY <1>2, <1>4, <3>1
    <3>. QED
      BY <1>2, <3>2 DEF Keys
  <2>. QED
    BY <2>1, <2>2, <2>3
<1>7. ASSUME NEW k \in Keys(t) PROVE LastEntry(u, k) = LastEntry(t, k)
  <2>1. PICK i \in 1 .. b : Key(t[i]) = k /\ LastEntry(t, k) = t[i] /\ \A j \in 1 .. b : Key(t[j]) = k => j <= i
    BY <1>1, <1>2, LastEntryIs
  <2>2. a + i \in 1 .. Len(u) /\ u[a + i] = t[i]
    BY <1>2, <1>4
  <2>3. ASSUME NEW j \in 1 .. Len(u), Key(u[j]) = Key(u[a + i]) PROVE j <= a + i
    <3>1. CASE j <= a
      BY <1>2, <3>1
    <3>2. CASE ~(j <= a)
      <4>1. j \in 1 .. a + b
        BY <1>2
      <4>2. j - a \in 1 .. b /\ u[j] = t[j - a]
        BY <1>5, <3>2, <4>1
      <4>3. j - a <= i
        BY <2>1, <2>2, <2>3, <4>2
      <4>. QED
        BY <1>2, <4>3
    <3>. QED
      BY <3>1, <3>2
  <2>. QED
    BY <1>2, <2>1, <2>2, <2>3, LastEntryUnique
<1>8. ASSUME NEW k \in Keys(s) \ Keys(t) PROVE LastEntry(u, k) = LastEntry(s, k)
  <2>1. PICK i \in 1 .. a : Key(s[i]) = k /\ LastEntry(s, k) = s[i] /\ \A j \in 1 .. a : Key(s[j]) = k => j <= i
    BY <1>1, <1>2, LastEntryIs
  <2>2. i \in 1 .. Len(u) /\ u[i] = s[i]
    BY <1>2, <1>3
  <2>3. ASSUME NEW j \in 1 .. Len(u), Key(u[j]) = Key(u[i]) PROVE j <= i
    <3>1. CASE j <= a
      <4>1. j \in 1 .. a
        BY <1>2, <3>1
      <4>. QED
        BY <1>3, <2>1, <2>2, <2>3, <4>1
    <3>2. CASE ~(j <= a)
      <4>1. j \in 1 .. a + b
        BY <1>2
      <4>2. j - a \in 1 .. b /\ u[j] = t[j - a]
        BY <1>5, <3>2, <4>1
      <4>3. k \in Keys(t)
        BY <1>2, <2>1, <2>2, <2>3, <4>2 DEF Keys
      <4>. QED
        BY <4>3
    <3>. QED
      BY <3>1, <3>2
  <2>. QED
    BY <1>2, <2>1, <2>2, <2>3, LastEntryUnique
<1>. QED
  BY <1>1, <1>6, <1>7, <1>8

Committed(levels, changes) == CommitChanges(levels, AsMap(changes))

\* A committed change replaces or erases a level, any other level stays.
LEMMA CommittedIs ==
    ASSUME NEW L, NEW s
    PROVE  Committed(L, s) =
               [k \in {x \in DOMAIN L \cup Keys(s) : x \in Keys(s) => LastEntry(s, x).quantity # 0} |->
                   IF k \in Keys(s) THEN LastEntry(s, k).quantity ELSE L[k]]
<1>1. PICK c : c = AsMap(s)
  OBVIOUS
<1>2. DOMAIN c = Keys(s) /\ \A k \in Keys(s) : c[k] = LastEntry(s, k).quantity
  BY <1>1 DEF AsMap
<1>3. {x \in DOMAIN L \cup DOMAIN c : x \in DOMAIN c => c[x] # 0} =
          {x \in DOMAIN L \cup Keys(s) : x \in Keys(s) => LastEntry(s, x).quantity # 0}
  BY <1>2
<1>4. Committed(L, s) = [k \in {x \in DOMAIN L \cup DOMAIN c : x \in DOMAIN c => c[x] # 0} |->
                            IF k \in DOMAIN c THEN c[k] ELSE L[k]]
  BY <1>1 DEF Committed, CommitChanges
<1>. QED
  BY <1>2, <1>3, <1>4

\* The level at one price.
LEMMA CommittedAt ==
    ASSUME NEW L, NEW s
    PROVE  /\ \A k : k \in DOMAIN Committed(L, s) <=>
                        IF k \in Keys(s) THEN LastEntry(s, k).quantity # 0 ELSE k \in DOMAIN L
           /\ \A k \in DOMAIN Committed(L, s) :
                  Committed(L, s)[k] = IF k \in Keys(s) THEN LastEntry(s, k).quantity ELSE L[k]
           /\ Committed(L, s) = [k \in DOMAIN Committed(L, s) |-> Committed(L, s)[k]]
<1>1. PICK c : c = Committed(L, s)
  OBVIOUS
<1>2. c = [k \in {x \in DOMAIN L \cup Keys(s) : x \in Keys(s) => LastEntry(s, x).quantity # 0} |->
              IF k \in Keys(s) THEN LastEntry(s, k).quantity ELSE L[k]]
  BY <1>1, CommittedIs
<1>. QED
  BY <1>1, <1>2

\* One staging area for two sequences of changes, or one for each.
LEMMA CommittedConcat ==
    ASSUME NEW L, NEW s \in Seq(Levels), NEW t \in Seq(Levels)
    PROVE  Committed(L, s \o t) = Committed(Committed(L, s), t)
<1>1. PICK u, M, A, B : u = s \o t /\ M = Committed(L, s) /\ A = Committed(L, u) /\ B = Committed(M, t)
  OBVIOUS
<1>2. /\ Keys(u) = Keys(s) \cup Keys(t)
      /\ \A k \in Keys(t) : LastEntry(u, k) = LastEntry(t, k)
      /\ \A k \in Keys(s) \ Keys(t) : LastEntry(u, k) = LastEntry(s, k)
  BY <1>1, LastEntryConcat
<1>3. /\ \A k : k \in DOMAIN M <=> IF k \in Keys(s) THEN LastEntry(s, k).quantity # 0 ELSE k \in DOMAIN L
      /\ \A k \in DOMAIN M : M[k] = IF k \in Keys(s) THEN LastEntry(s, k).quantity ELSE L[k]
  BY <1>1, CommittedAt
<1>4. /\ \A k : k \in DOMAIN A <=> IF k \in Keys(u) THEN LastEntry(u, k).quantity # 0 ELSE k \in DOMAIN L
      /\ \A k \in DOMAIN A : A[k] = IF k \in Keys(u) THEN LastEntry(u, k).quantity ELSE L[k]
      /\ A = [k \in DOMAIN A |-> A[k]]
  BY <1>1, CommittedAt
<1>5. /\ \A k : k \in DOMAIN B <=> IF k \in Keys(t) THEN LastEntry(t, k).quantity # 0 ELSE k \in DOMAIN M
      /\ \A k \in DOMAIN B : B[k] = IF k \in Keys(t) THEN LastEntry(t, k).quantity ELSE M[k]
      /\ B = [k \in DOMAIN B |-> B[k]]
  BY <1>1, CommittedAt
<1>6. ASSUME NEW k PROVE k \in DOMAIN A <=> k \in DOMAIN B
  BY <1>2, <1>3, <1>4, <1>5
<1>7. ASSUME NEW k \in DOMAIN A PROVE A[k] = B[k]
  <2>1. k \in DOMAIN B
    BY <1>6
  <2>2. CASE k \in Keys(t)
    BY <1>2, <1>4, <1>5, <2>1, <2>2
  <2>3. CASE k \notin Keys(t)
    <3>1. B[k] = M[k] /\ k \in DOMAIN M
      BY <1>5, <2>1, <2>3
    <3>. QED
      BY <1>2, <1>3, <1>4, <2>3, <3>1
  <2>. QED
    BY <2>2, <2>3
<1>8. A = B
  <2>1. DOMAIN A = DOMAIN B
    BY <1>6
  <2>. QED
    BY <1>4, <1>5, <1>7, <2>1
<1>. QED
  BY <1>1, <1>8

\* One change at a time is a staging area of one change.
LEMMA CommittedOne ==
    ASSUME NEW L, NEW c \in Levels
    PROVE  Committed(L, <<c>>) = OneChange(L, c)
<1>1. PICK s, key, A, B : s = <<c>> /\ key = Key(c) /\ A = Committed(L, s) /\ B = OneChange(L, c)
  OBVIOUS
<1>2. s \in Seq(Levels) /\ Len(s) = 1 /\ s[1] = c /\ DOMAIN s = 1 .. 1
  BY <1>1
<1>3. Keys(s) = {key}
  BY <1>1, <1>2 DEF Keys
<1>4. LastEntry(s, key) = c
  <2>1. 1 \in 1 .. Len(s) /\ \A j \in 1 .. Len(s) : Key(s[j]) = Key(s[1]) => j <= 1
    BY <1>2
  <2>. QED
    BY <1>1, <1>2, <2>1, LastEntryUnique
<1>5. A = [k \in {x \in DOMAIN L \cup {key} : x \in {key} => LastEntry(s, x).quantity # 0} |->
              IF k \in {key} THEN LastEntry(s, k).quantity ELSE L[k]]
  BY <1>1, <1>3, CommittedIs
<1>6. CASE c.quantity = 0
  <2>1. B = [k \in DOMAIN L \ {key} |-> L[k]]
    BY <1>1, <1>6 DEF OneChange
  <2>. QED
    BY <1>1, <1>4, <1>5, <1>6, <2>1
<1>7. CASE c.quantity # 0
  <2>1. PICK others : others = [k \in DOMAIN L \ {key} |-> L[k]]
    OBVIOUS
  <2>2. B = [k \in DOMAIN others \cup {key} |-> IF k = key THEN c.quantity ELSE others[k]]
    BY <1>1, <1>7, <2>1 DEF OneChange
  <2>. QED
    BY <1>1, <1>4, <1>5, <1>7, <2>1, <2>2
<1>. QED
  BY <1>6, <1>7

\* No change leaves the levels alone.
LEMMA CommittedNone ==
    ASSUME NEW L \in Maps
    PROVE  Committed(L, <<>>) = L
<1>1. Keys(<<>>) = {}
  BY DEF Keys
<1>2. L = [k \in DOMAIN L |-> L[k]]
  BY DEF Maps
<1>3. PICK none : none = <<>>
  OBVIOUS
<1>4. Committed(L, none) = [k \in {x \in DOMAIN L \cup Keys(none) : x \in Keys(none) => LastEntry(none, x).quantity # 0} |->
                               IF k \in Keys(none) THEN LastEntry(none, k).quantity ELSE L[k]]
  BY CommittedIs
<1>5. Keys(none) = {}
  BY <1>1, <1>3
<1>6. Committed(L, none) = [k \in DOMAIN L |-> L[k]]
  BY <1>4, <1>5
<1>. QED
  BY <1>2, <1>3, <1>6

\* Valid changes keep the levels valid: no tombstone comes to rest.
LEMMA CommittedTyped ==
    ASSUME NEW L \in Maps, NEW s \in Seq(Changes)
    PROVE  Committed(L, s) \in Maps
<1>1. PICK c : c = Committed(L, s)
  OBVIOUS
<1>2. s \in Seq(Levels)
  <2>1. Changes \subseteq Levels
    BY DEF Changes, Levels
  <2>. QED
    BY <2>1
<1>3. /\ \A k : k \in DOMAIN c <=> IF k \in Keys(s) THEN LastEntry(s, k).quantity # 0 ELSE k \in DOMAIN L
      /\ \A k \in DOMAIN c : c[k] = IF k \in Keys(s) THEN LastEntry(s, k).quantity ELSE L[k]
      /\ c = [k \in DOMAIN c |-> c[k]]
  BY <1>1, CommittedAt
<1>4. PICK D \in SUBSET Slots : L \in [D -> Nat \ {0}]
  BY DEF Maps
<1>5. ASSUME NEW k \in DOMAIN c PROVE k \in Slots /\ c[k] \in Nat \ {0}
  <2>1. CASE k \in Keys(s)
    <3>1. PICK i \in 1 .. Len(s) : Key(s[i]) = k /\ LastEntry(s, k) = s[i]
      BY <1>2, <2>1, LastEntryIs
    <3>2. s[i] \in Changes
      BY <3>1
    <3>3. k \in Slots
      BY <3>1, <3>2 DEF Key, Changes, Slots
    <3>4. s[i].quantity \in Nat /\ c[k] = s[i].quantity /\ s[i].quantity # 0
      BY <1>3, <2>1, <3>1, <3>2 DEF Changes
    <3>. QED
      BY <3>3, <3>4
  <2>2. CASE k \notin Keys(s)
    BY <1>3, <1>4, <2>2
  <2>. QED
    BY <2>1, <2>2
<1>6. c \in [DOMAIN c -> Nat \ {0}] /\ DOMAIN c \in SUBSET Slots
  BY <1>3, <1>5
<1>. QED
  BY <1>1, <1>6 DEF Maps

\* The recursive definition of Changed defines a function.
LEMMA ChangedExists ==
    ASSUME NEW L, NEW s \in Seq(Levels)
    PROVE  \E g : /\ g[0] = L
                  /\ \A i \in 1 .. Len(s) : g[i] = OneChange(g[i - 1], s[i])
                  /\ g[Len(s)] = Changed(L, s)
<1>. DEFINE Upto(g, n) == g = [i \in 0 .. n |-> IF i = 0 THEN L ELSE OneChange(g[i - 1], s[i])]
            S == {n \in Nat : \E g : Upto(g, n)}
<1>1. 0 \in S
  <2>1. Upto([i \in 0 .. 0 |-> L], 0)
    OBVIOUS
  <2>. QED
    BY <2>1
<1>2. ASSUME NEW n \in Nat, n \in S PROVE n + 1 \in S
  <2>1. PICK g : Upto(g, n)
    BY <1>2
  <2>2. PICK next : next = OneChange(g[n], s[n + 1])
    OBVIOUS
  <2>. DEFINE h == [i \in 0 .. n + 1 |-> IF i <= n THEN g[i] ELSE next]
  <2>3. Upto(h, n + 1)
    <3>1. ASSUME NEW i \in 0 .. n + 1
          PROVE  h[i] = IF i = 0 THEN L ELSE OneChange(h[i - 1], s[i])
      <4>1. CASE i <= n
        <5>1. h[i] = g[i] /\ (i # 0 => h[i - 1] = g[i - 1])
          BY <4>1
        <5>. QED
          BY <2>1, <4>1, <5>1
      <4>2. CASE i = n + 1
        <5>1. h[i] = next /\ h[i - 1] = g[n] /\ i # 0
          BY <4>2
        <5>. QED
          BY <2>2, <4>2, <5>1
      <4>. QED
        BY <4>1, <4>2
    <3>. QED
      BY <3>1
  <2>. HIDE DEF Upto, h
  <2>. QED
    BY <2>3
<1>3. \A n \in Nat : n \in S
  <2>. HIDE DEF S
  <2>. QED
    BY <1>1, <1>2, SetInduction
<1>4. \E g : Upto(g, Len(s))
  BY <1>3
<1>. DEFINE step[i \in 0 .. Len(s)] == IF i = 0 THEN L ELSE OneChange(step[i - 1], s[i])
<1>5. Upto(step, Len(s))
  BY <1>4, Zenon
<1>6. Changed(L, s) = step[Len(s)]
  BY Zenon DEF Changed
<1>7. step[0] = L /\ \A i \in 1 .. Len(s) : step[i] = OneChange(step[i - 1], s[i])
  <2>. HIDE DEF step
  <2>. QED
    BY <1>5
<1>. HIDE DEF step
<1>. QED
  BY <1>6, <1>7

\* The staging area makes of the changes what one change after the other makes of
\* the levels.
LEMMA ChangedIsCommitted ==
    ASSUME NEW L \in Maps, NEW s \in Seq(Levels)
    PROVE  Changed(L, s) = Committed(L, s)
<1>1. PICK n : n = Len(s)
  OBVIOUS
<1>2. n \in Nat
  BY <1>1
<1>3. PICK g : g[0] = L /\ (\A i \in 1 .. n : g[i] = OneChange(g[i - 1], s[i])) /\ g[n] = Changed(L, s)
  BY <1>1, ChangedExists
<1>. DEFINE S == {i \in Nat : i <= n => g[i] = Committed(L, SubSeq(s, 1, i))}
<1>4. 0 \in S
  <2>1. SubSeq(s, 1, 0) = <<>>
    OBVIOUS
  <2>2. g[0] = Committed(L, SubSeq(s, 1, 0))
    BY <1>3, <2>1, CommittedNone
  <2>. QED
    BY <2>2
<1>5. ASSUME NEW i \in Nat, i \in S PROVE i + 1 \in S
  <2>. SUFFICES ASSUME i + 1 <= n PROVE g[i + 1] = Committed(L, SubSeq(s, 1, i + 1))
    OBVIOUS
  <2>1. PICK t, c, u : t = SubSeq(s, 1, i) /\ c = s[i + 1] /\ u = <<s[i + 1]>>
    OBVIOUS
  <2>2. i <= n /\ i + 1 \in 1 .. n /\ (i + 1) - 1 = i
    BY <1>2
  <2>3. t \in Seq(Levels) /\ c \in Levels /\ u = <<c>> /\ u \in Seq(Levels)
    BY <1>1, <2>1, <2>2
  <2>4. SubSeq(s, 1, i + 1) = t \o u
    BY <1>1, <2>1, <2>2
  <2>5. g[i + 1] = OneChange(g[i], c)
    BY <1>3, <2>1, <2>2
  <2>6. g[i] = Committed(L, t)
    BY <1>5, <2>1, <2>2
  <2>7. OneChange(Committed(L, t), c) = Committed(Committed(L, t), u)
    BY <2>3, CommittedOne
  <2>8. Committed(L, t \o u) = Committed(Committed(L, t), u)
    BY <2>3, CommittedConcat
  <2>. QED
    BY <2>4, <2>5, <2>6, <2>7, <2>8
<1>6. \A i \in Nat : i \in S
  <2>. HIDE DEF S
  <2>. QED
    BY <1>4, <1>5, SetInduction
<1>7. g[n] = Committed(L, SubSeq(s, 1, n))
  BY <1>2, <1>6
<1>8. SubSeq(s, 1, n) = s
  BY <1>1
<1>. QED
  BY <1>3, <1>7, <1>8

-----------------------------------------------------------------------------
(***************************************************************************)
(* Spans.                                                                  *)
(***************************************************************************)

\* The changes of one more event.
Joined(all, event) == all \o event.levels

\* The recursive definition of AllChanges defines a function.
LEMMA AllChangesExists ==
    ASSUME NEW events, Len(events) \in Nat
    PROVE  \E g : /\ g[0] = <<>>
                  /\ \A i \in 1 .. Len(events) : g[i] = Joined(g[i - 1], events[i])
                  /\ g[Len(events)] = AllChanges(events)
<1>. DEFINE Upto(g, n) == g = [i \in 0 .. n |-> IF i = 0 THEN <<>> ELSE Joined(g[i - 1], events[i])]
            S == {n \in Nat : \E g : Upto(g, n)}
<1>1. 0 \in S
  <2>1. Upto([i \in 0 .. 0 |-> <<>>], 0)
    OBVIOUS
  <2>. QED
    BY <2>1
<1>2. ASSUME NEW n \in Nat, n \in S PROVE n + 1 \in S
  <2>1. PICK g : Upto(g, n)
    BY <1>2
  <2>2. PICK next : next = Joined(g[n], events[n + 1])
    OBVIOUS
  <2>. DEFINE h == [i \in 0 .. n + 1 |-> IF i <= n THEN g[i] ELSE next]
  <2>3. Upto(h, n + 1)
    <3>1. ASSUME NEW i \in 0 .. n + 1
          PROVE  h[i] = IF i = 0 THEN <<>> ELSE Joined(h[i - 1], events[i])
      <4>1. CASE i <= n
        <5>1. h[i] = g[i] /\ (i # 0 => h[i - 1] = g[i - 1])
          BY <4>1
        <5>. QED
          BY <2>1, <4>1, <5>1
      <4>2. CASE i = n + 1
        <5>1. h[i] = next /\ h[i - 1] = g[n] /\ i # 0
          BY <4>2
        <5>. QED
          BY <2>2, <4>2, <5>1
      <4>. QED
        BY <4>1, <4>2
    <3>. QED
      BY <3>1
  <2>. HIDE DEF Upto, h
  <2>. QED
    BY <2>3
<1>3. \A n \in Nat : n \in S
  <2>. HIDE DEF S
  <2>. QED
    BY <1>1, <1>2, SetInduction
<1>4. \E g : Upto(g, Len(events))
  BY <1>3
<1>. DEFINE step[i \in 0 .. Len(events)] == IF i = 0 THEN <<>> ELSE step[i - 1] \o events[i].levels
<1>5. Upto(step, Len(events))
  BY <1>4, Zenon DEF Joined
<1>6. AllChanges(events) = step[Len(events)]
  BY Zenon DEF AllChanges
<1>7. step[0] = <<>> /\ \A i \in 1 .. Len(events) : step[i] = Joined(step[i - 1], events[i])
  <2>. HIDE DEF step
  <2>. QED
    BY <1>5
<1>. HIDE DEF step
<1>. QED
  BY <1>6, <1>7

\* One more event on the staged copy.
StagedNext(staged, event) == IF staged.ok THEN ApplyEvent(staged.book, event) ELSE staged

\* The staged copy after all events.
StagedResult(b, events) ==
    LET staged[i \in 0 .. Len(events)] ==
            IF i = 0 THEN Accept(b)
            ELSE IF staged[i - 1].ok THEN ApplyEvent(staged[i - 1].book, events[i])
            ELSE staged[i - 1]
    IN staged[Len(events)]

\* So does that of ApplyStagedCopy.
LEMMA StagedExists ==
    ASSUME NEW b, NEW events, Len(events) \in Nat
    PROVE  \E g : /\ g[0] = Accept(b)
                  /\ \A i \in 1 .. Len(events) : g[i] = StagedNext(g[i - 1], events[i])
                  /\ g[Len(events)] = StagedResult(b, events)
<1>. DEFINE Upto(g, n) == g = [i \in 0 .. n |-> IF i = 0 THEN Accept(b) ELSE StagedNext(g[i - 1], events[i])]
            S == {n \in Nat : \E g : Upto(g, n)}
<1>1. 0 \in S
  <2>1. Upto([i \in 0 .. 0 |-> Accept(b)], 0)
    OBVIOUS
  <2>. QED
    BY <2>1
<1>2. ASSUME NEW n \in Nat, n \in S PROVE n + 1 \in S
  <2>1. PICK g : Upto(g, n)
    BY <1>2
  <2>2. PICK next : next = StagedNext(g[n], events[n + 1])
    OBVIOUS
  <2>. DEFINE h == [i \in 0 .. n + 1 |-> IF i <= n THEN g[i] ELSE next]
  <2>3. Upto(h, n + 1)
    <3>1. ASSUME NEW i \in 0 .. n + 1
          PROVE  h[i] = IF i = 0 THEN Accept(b) ELSE StagedNext(h[i - 1], events[i])
      <4>1. CASE i <= n
        <5>1. h[i] = g[i] /\ (i # 0 => h[i - 1] = g[i - 1])
          BY <4>1
        <5>. QED
          BY <2>1, <4>1, <5>1
      <4>2. CASE i = n + 1
        <5>1. h[i] = next /\ h[i - 1] = g[n] /\ i # 0
          BY <4>2
        <5>. QED
          BY <2>2, <4>2, <5>1
      <4>. QED
        BY <4>1, <4>2
    <3>. QED
      BY <3>1
  <2>. HIDE DEF Upto, h
  <2>. QED
    BY <2>3
<1>3. \A n \in Nat : n \in S
  <2>. HIDE DEF S
  <2>. QED
    BY <1>1, <1>2, SetInduction
<1>4. \E g : Upto(g, Len(events))
  BY <1>3
<1>. DEFINE step[i \in 0 .. Len(events)] ==
                IF i = 0 THEN Accept(b)
                ELSE IF step[i - 1].ok THEN ApplyEvent(step[i - 1].book, events[i])
                ELSE step[i - 1]
<1>5. Upto(step, Len(events))
  BY <1>4, Zenon DEF StagedNext
<1>6. StagedResult(b, events) = step[Len(events)]
  BY Zenon DEF StagedResult
<1>7. step[0] = Accept(b) /\ \A i \in 1 .. Len(events) : step[i] = StagedNext(step[i - 1], events[i])
  <2>. HIDE DEF step
  <2>. QED
    BY <1>5
<1>. HIDE DEF step
<1>. QED
  BY <1>6, <1>7

\* One more event in sequence.
OneMore(r, b, event) ==
    IF r.ok /\ Acceptable(r.book, event) THEN Accept(OneEvent(r.book, event)) ELSE Reject(b)

\* And that of Sequentially.
LEMMA SequentiallyExists ==
    ASSUME NEW b, NEW events, Len(events) \in Nat
    PROVE  \E g : /\ g[0] = Accept(b)
                  /\ \A i \in 1 .. Len(events) : g[i] = OneMore(g[i - 1], b, events[i])
                  /\ g[Len(events)] = Sequentially(b, events)
<1>. DEFINE Upto(g, n) == g = [i \in 0 .. n |-> IF i = 0 THEN Accept(b) ELSE OneMore(g[i - 1], b, events[i])]
            S == {n \in Nat : \E g : Upto(g, n)}
<1>1. 0 \in S
  <2>1. Upto([i \in 0 .. 0 |-> Accept(b)], 0)
    OBVIOUS
  <2>. QED
    BY <2>1
<1>2. ASSUME NEW n \in Nat, n \in S PROVE n + 1 \in S
  <2>1. PICK g : Upto(g, n)
    BY <1>2
  <2>2. PICK next : next = OneMore(g[n], b, events[n + 1])
    OBVIOUS
  <2>. DEFINE h == [i \in 0 .. n + 1 |-> IF i <= n THEN g[i] ELSE next]
  <2>3. Upto(h, n + 1)
    <3>1. ASSUME NEW i \in 0 .. n + 1
          PROVE  h[i] = IF i = 0 THEN Accept(b) ELSE OneMore(h[i - 1], b, events[i])
      <4>1. CASE i <= n
        <5>1. h[i] = g[i] /\ (i # 0 => h[i - 1] = g[i - 1])
          BY <4>1
        <5>. QED
          BY <2>1, <4>1, <5>1
      <4>2. CASE i = n + 1
        <5>1. h[i] = next /\ h[i - 1] = g[n] /\ i # 0
          BY <4>2
        <5>. QED
          BY <2>2, <4>2, <5>1
      <4>. QED
        BY <4>1, <4>2
    <3>. QED
      BY <3>1
  <2>. HIDE DEF Upto, h
  <2>. QED
    BY <2>3
<1>3. \A n \in Nat : n \in S
  <2>. HIDE DEF S
  <2>. QED
    BY <1>1, <1>2, SetInduction
<1>4. \E g : Upto(g, Len(events))
  BY <1>3
<1>. DEFINE step[i \in 0 .. Len(events)] ==
                IF i = 0 THEN Accept(b)
                ELSE IF step[i - 1].ok /\ Acceptable(step[i - 1].book, events[i])
                     THEN Accept(OneEvent(step[i - 1].book, events[i]))
                     ELSE Reject(b)
<1>5. Upto(step, Len(events))
  BY <1>4, Zenon DEF OneMore
<1>6. Sequentially(b, events) = step[Len(events)]
  BY Zenon DEF Sequentially
<1>7. step[0] = Accept(b) /\ \A i \in 1 .. Len(events) : step[i] = OneMore(step[i - 1], b, events[i])
  <2>. HIDE DEF step
  <2>. QED
    BY <1>5
<1>. HIDE DEF step
<1>. QED
  BY <1>6, <1>7

\* The books a program can reach, and the events it may apply.
Sound == [state : BookStates, levels : Maps, last_sequence : Nat \cup {NoSequence}]
AnyEvent == [kind : {"snapshot", "update"}, home : BOOLEAN, sequence : Nat, levels : Seq(Levels)]

\* The empty book is one of them.
LEMMA EmptyIsSound == <<>> \in Maps /\ EmptyBook \in Sound
<1>1. <<>> \in [{} -> Nat \ {0}] /\ {} \in SUBSET Slots
  OBVIOUS
<1>2. <<>> \in Maps
  BY <1>1 DEF Maps
<1>3. PICK none : none = <<>>
  OBVIOUS
<1>4. EmptyBook = [state |-> "Initializing", levels |-> none, last_sequence |-> NoSequence]
  BY <1>3 DEF EmptyBook
<1>. QED
  BY <1>2, <1>3, <1>4 DEF Sound, BookStates

\* Levels that pass validation.
LEMMA ValidatedChanges ==
    ASSUME NEW s \in Seq(Levels), \A i \in DOMAIN s : ValidLevel(s[i], FALSE)
    PROVE  s \in Seq(Changes)
<1>1. ASSUME NEW i \in DOMAIN s PROVE s[i] \in Changes
  <2>1. s[i] \in Levels /\ s[i].price > 0 /\ s[i].quantity >= 0
    BY DEF ValidLevel
  <2>. QED
    BY <2>1 DEF Levels, Changes
<1>2. DOMAIN s = 1 .. Len(s) /\ Len(s) \in Nat
  OBVIOUS
<1>3. s \in [1 .. Len(s) -> Changes]
  BY <1>1, <1>2
<1>. QED
  BY <1>2, <1>3

\* A snapshot's levels are its map: none of them is a tombstone.
LEMMA SnapshotIsMap ==
    ASSUME NEW s \in Seq(Levels), \A i \in DOMAIN s : ValidLevel(s[i], TRUE)
    PROVE  Committed(<<>>, s) = AsMap(s)
<1>1. PICK none : none = <<>>
  OBVIOUS
<1>2. DOMAIN none = {}
  BY <1>1
<1>3. ASSUME NEW k \in Keys(s) PROVE LastEntry(s, k).quantity # 0
  <2>1. PICK i \in 1 .. Len(s) : LastEntry(s, k) = s[i]
    BY LastEntryIs
  <2>2. s[i].quantity > 0 /\ s[i] \in Levels
    BY <2>1 DEF ValidLevel
  <2>. QED
    BY <2>1, <2>2 DEF Levels
<1>4. Committed(none, s) =
          [k \in {x \in DOMAIN none \cup Keys(s) : x \in Keys(s) => LastEntry(s, x).quantity # 0} |->
              IF k \in Keys(s) THEN LastEntry(s, k).quantity ELSE none[k]]
  BY CommittedIs
<1>5. {x \in DOMAIN none \cup Keys(s) : x \in Keys(s) => LastEntry(s, x).quantity # 0} = Keys(s)
  BY <1>2, <1>3
<1>6. Committed(none, s) = [k \in Keys(s) |-> LastEntry(s, k).quantity]
  BY <1>4, <1>5
<1>. QED
  BY <1>1, <1>6 DEF AsMap

\* What one event makes of a book.
Verdict(b, event) == IF Acceptable(b, event) THEN Accept(OneEvent(b, event)) ELSE Reject(b)

\* apply(BookSnapshot) against the reference.
LEMMA SnapshotApplied ==
    ASSUME NEW b \in Sound, NEW event \in AnyEvent, event.kind = "snapshot"
    PROVE  ApplyEvent(b, event) = Verdict(b, event) /\ (Acceptable(b, event) => OneEvent(b, event) \in Sound)
<1>1. PICK s : s = event.levels
  OBVIOUS
<1>2. s \in Seq(Levels) /\ event.sequence \in Nat
  BY <1>1 DEF AnyEvent
<1>3. Acceptable(b, event) <=> event.home /\ (\A i \in DOMAIN s : ValidLevel(s[i], TRUE)) /\ DuplicateFree(s)
  <2>1. (event.kind = "snapshot") = TRUE /\ event.kind # "update"
    OBVIOUS
  <2>2. \A i \in DOMAIN s : ValidLevel(s[i], event.kind = "snapshot") <=> ValidLevel(s[i], TRUE)
    BY DEF ValidLevel
  <2>. QED
    BY <1>1, <2>1, <2>2 DEF Acceptable
<1>4. CASE Acceptable(b, event)
  <2>1. \A i \in DOMAIN s : ValidLevel(s[i], TRUE)
    BY <1>3, <1>4
  <2>2. s \in Seq(Changes)
    <3>1. ASSUME NEW i \in DOMAIN s PROVE ValidLevel(s[i], FALSE)
      <4>1. s[i] \in Levels
        BY <1>2
      <4>. QED
        BY <2>1, <4>1 DEF ValidLevel, Levels
    <3>. QED
      BY <1>2, <3>1, ValidatedChanges
  <2>3. PICK none, m : none = <<>> /\ m = AsMap(s)
    OBVIOUS
  <2>4. none \in Maps
    BY <2>3, EmptyIsSound
  <2>5. Changed(none, s) = m /\ m \in Maps
    BY <1>2, <2>1, <2>2, <2>3, <2>4, ChangedIsCommitted, SnapshotIsMap, CommittedTyped
  <2>6. OneEvent(b, event) = [state |-> "Valid", last_sequence |-> event.sequence, levels |-> m]
    BY <1>1, <2>3, <2>5 DEF OneEvent
  <2>7. ApplyEvent(b, event) = Accept([state |-> "Valid", levels |-> m, last_sequence |-> event.sequence])
    BY <1>1, <1>3, <1>4, <2>3 DEF ApplyEvent, ApplySnapshot
  <2>8. OneEvent(b, event) = [state |-> "Valid", levels |-> m, last_sequence |-> event.sequence]
    BY <2>6
  <2>9. OneEvent(b, event) \in Sound
    BY <1>2, <2>5, <2>8 DEF Sound, BookStates
  <2>. QED
    BY <1>4, <2>7, <2>8, <2>9 DEF Verdict
<1>5. CASE ~Acceptable(b, event)
  BY <1>1, <1>3, <1>5 DEF ApplyEvent, ApplySnapshot, Verdict
<1>. QED
  BY <1>4, <1>5

\* apply(BookUpdate) against the reference.
LEMMA UpdateApplied ==
    ASSUME NEW b \in Sound, NEW event \in AnyEvent, event.kind = "update"
    PROVE  /\ ApplyEvent(b, event) = Verdict(b, event)
           /\ Acceptable(b, event) <=> b.state = "Valid" /\ Stageable(event)
           /\ Acceptable(b, event) =>
                  /\ OneEvent(b, event) = [state |-> "Valid", levels |-> Committed(b.levels, event.levels),
                                           last_sequence |-> event.sequence]
                  /\ OneEvent(b, event) \in Sound
<1>1. PICK s : s = event.levels
  OBVIOUS
<1>2. s \in Seq(Levels) /\ event.sequence \in Nat /\ b.levels \in Maps
  BY <1>1 DEF AnyEvent, Sound
<1>3. Acceptable(b, event) <=> b.state = "Valid" /\ Stageable(event)
  <2>1. \A i \in DOMAIN s : ValidLevel(s[i], event.kind = "snapshot") <=> ValidLevel(s[i], FALSE)
    BY DEF ValidLevel
  <2>2. event.kind # "snapshot"
    OBVIOUS
  <2>. QED
    BY <1>1, <2>1, <2>2 DEF Acceptable, Stageable
<1>4. CASE Acceptable(b, event)
  <2>1. \A i \in DOMAIN s : ValidLevel(s[i], FALSE)
    BY <1>1, <1>3, <1>4 DEF Stageable
  <2>2. PICK L, m : L = b.levels /\ m = Committed(L, s)
    OBVIOUS
  <2>3. Changed(L, s) = m /\ m \in Maps
    BY <1>2, <2>1, <2>2, ValidatedChanges, ChangedIsCommitted, CommittedTyped
  <2>4. OneEvent(b, event) = [state |-> "Valid", last_sequence |-> event.sequence, levels |-> m]
    BY <1>1, <2>2, <2>3 DEF OneEvent
  <2>5. OneEvent(b, event) = [state |-> "Valid", levels |-> m, last_sequence |-> event.sequence]
    BY <2>4
  <2>6. ApplyEvent(b, event) = Accept([b EXCEPT !.levels = m, !.last_sequence = event.sequence])
    BY <1>1, <1>3, <1>4, <2>2 DEF ApplyEvent, ApplyUpdate, Committed
  <2>7. [b EXCEPT !.levels = m, !.last_sequence = event.sequence] = OneEvent(b, event)
    <3>1. PICK q, n : q = b.last_sequence /\ n = event.sequence
      OBVIOUS
    <3>2. b = [state |-> "Valid", levels |-> L, last_sequence |-> q]
      <4>1. b.state = "Valid"
        BY <1>3, <1>4
      <4>2. b = [state |-> b.state, levels |-> b.levels, last_sequence |-> b.last_sequence]
        BY DEF Sound
      <4>. QED
        BY <2>2, <3>1, <4>1, <4>2
    <3>3. PICK x : x = [b EXCEPT !.levels = m, !.last_sequence = n]
      OBVIOUS
    <3>4. x = [state |-> "Valid", levels |-> m, last_sequence |-> n]
      BY <3>2, <3>3
    <3>. QED
      BY <2>5, <3>1, <3>3, <3>4
  <2>8. OneEvent(b, event) \in Sound
    BY <1>2, <2>3, <2>5 DEF Sound, BookStates
  <2>. QED
    BY <1>1, <1>3, <1>4, <2>2, <2>5, <2>6, <2>7, <2>8 DEF Verdict
<1>5. CASE ~Acceptable(b, event)
  BY <1>3, <1>5 DEF ApplyEvent, ApplyUpdate, Verdict
<1>. QED
  BY <1>3, <1>4, <1>5

\* Either overload against the reference.
LEMMA EventApplied ==
    ASSUME NEW b \in Sound, NEW event \in AnyEvent
    PROVE  ApplyEvent(b, event) = Verdict(b, event) /\ (Acceptable(b, event) => OneEvent(b, event) \in Sound)
<1>1. event.kind = "snapshot" \/ event.kind = "update"
  BY DEF AnyEvent
<1>. QED
  BY <1>1, SnapshotApplied, UpdateApplied

\* Accepting and rejecting are different.
LEMMA Verdicts ==
    ASSUME NEW b
    PROVE  Accept(b).ok /\ ~Reject(b).ok /\ Accept(b).book = b /\ Reject(b).book = b
  BY DEF Accept, Reject

\* The staged copy c and the book in sequence, with the first events applied.
InStep(staged, inorder, b) ==
    \/ \E c \in Sound : staged = Accept(c) /\ inorder = Accept(c)
    \/ \E c : staged = Reject(c) /\ inorder = Reject(b)

\* One more event keeps them in step.
LEMMA InStepNext ==
    ASSUME NEW staged, NEW inorder, NEW b, InStep(staged, inorder, b), NEW event \in AnyEvent
    PROVE  InStep(StagedNext(staged, event), OneMore(inorder, b, event), b)
<1>1. ASSUME NEW c \in Sound, staged = Accept(c), inorder = Accept(c)
      PROVE  InStep(StagedNext(staged, event), OneMore(inorder, b, event), b)
  <2>1. StagedNext(staged, event) = Verdict(c, event)
    BY <1>1, Verdicts, EventApplied DEF StagedNext
  <2>2. OneMore(inorder, b, event) = IF Acceptable(c, event) THEN Accept(OneEvent(c, event)) ELSE Reject(b)
    BY <1>1, Verdicts DEF OneMore
  <2>3. CASE Acceptable(c, event)
    <3>1. PICK d \in Sound : d = OneEvent(c, event)
      BY <2>3, EventApplied
    <3>2. StagedNext(staged, event) = Accept(d) /\ OneMore(inorder, b, event) = Accept(d)
      BY <2>1, <2>2, <2>3, <3>1 DEF Verdict
    <3>. QED
      BY <3>2 DEF InStep
  <2>4. CASE ~Acceptable(c, event)
    <3>1. StagedNext(staged, event) = Reject(c) /\ OneMore(inorder, b, event) = Reject(b)
      BY <2>1, <2>2, <2>4 DEF Verdict
    <3>. QED
      BY <3>1 DEF InStep
  <2>. QED
    BY <2>3, <2>4
<1>2. ASSUME NEW c, staged = Reject(c), inorder = Reject(b)
      PROVE  InStep(StagedNext(staged, event), OneMore(inorder, b, event), b)
  <2>1. StagedNext(staged, event) = Reject(c) /\ OneMore(inorder, b, event) = Reject(b)
    BY <1>2, Verdicts DEF StagedNext, OneMore
  <2>. QED
    BY <2>1 DEF InStep
<1>. QED
  BY <1>1, <1>2 DEF InStep

\* A span with a snapshot, against the reference.
LEMMA StagedIsSequential ==
    ASSUME NEW b \in Sound, NEW events \in Seq(AnyEvent)
    PROVE  /\ ApplyStagedCopy(b, events) = Sequentially(b, events)
           /\ Sequentially(b, events).book \in Sound
<1>1. PICK n : n = Len(events)
  OBVIOUS
<1>2. n \in Nat /\ \A i \in 1 .. n : events[i] \in AnyEvent
  BY <1>1
<1>3. PICK g : /\ g[0] = Accept(b) /\ \A i \in 1 .. n : g[i] = StagedNext(g[i - 1], events[i])
               /\ g[n] = StagedResult(b, events)
  BY <1>1, <1>2, StagedExists
<1>4. PICK h : /\ h[0] = Accept(b) /\ \A i \in 1 .. n : h[i] = OneMore(h[i - 1], b, events[i])
               /\ h[n] = Sequentially(b, events)
  BY <1>1, <1>2, SequentiallyExists
<1>. DEFINE S == {i \in Nat : i <= n => InStep(g[i], h[i], b)}
<1>5. 0 \in S
  <2>1. InStep(g[0], h[0], b)
    BY <1>3, <1>4 DEF InStep
  <2>. QED
    BY <2>1
<1>6. ASSUME NEW i \in Nat, i \in S PROVE i + 1 \in S
  <2>. SUFFICES ASSUME i + 1 <= n PROVE InStep(g[i + 1], h[i + 1], b)
    OBVIOUS
  <2>1. PICK j : j = i + 1
    OBVIOUS
  <2>2. j \in 1 .. n /\ j - 1 = i /\ i <= n
    BY <1>2, <2>1
  <2>3. InStep(g[i], h[i], b)
    BY <1>6, <2>2
  <2>4. g[j] = StagedNext(g[i], events[j]) /\ h[j] = OneMore(h[i], b, events[j]) /\ events[j] \in AnyEvent
    BY <1>2, <1>3, <1>4, <2>2
  <2>. QED
    BY <2>1, <2>3, <2>4, InStepNext
<1>7. \A i \in Nat : i \in S
  <2>. HIDE DEF S
  <2>. QED
    BY <1>5, <1>6, SetInduction
<1>8. InStep(g[n], h[n], b)
  BY <1>2, <1>7
<1>9. ApplyStagedCopy(b, events) = IF g[n].ok THEN g[n] ELSE Reject(b)
  BY <1>3 DEF ApplyStagedCopy, StagedResult
<1>10. ASSUME NEW c \in Sound, g[n] = Accept(c), h[n] = Accept(c)
       PROVE  ApplyStagedCopy(b, events) = h[n] /\ h[n].book \in Sound
  BY <1>9, <1>10, Verdicts
<1>11. ASSUME NEW c, g[n] = Reject(c), h[n] = Reject(b)
       PROVE  ApplyStagedCopy(b, events) = h[n] /\ h[n].book \in Sound
  BY <1>9, <1>11, Verdicts
<1>. QED
  BY <1>4, <1>8, <1>10, <1>11 DEF InStep

\* One commit of the changes staged so far.
Batch(b, all, number) == [state |-> "Valid", levels |-> Committed(b.levels, all), last_sequence |-> number]

\* The first i events of a span of updates, in sequence and staged together.
Batched(inorder, all, b, events, i) ==
    /\ all \in Seq(Levels)
    /\ IF b.state = "Valid" /\ \A j \in 1 .. i : Stageable(events[j])
       THEN /\ all \in Seq(Changes)
            /\ i > 0 => inorder = Accept(Batch(b, all, events[i].sequence))
       ELSE i > 0 => inorder = Reject(b)
    /\ i = 0 => inorder = Accept(b) /\ all = <<>>

\* A batch is a book.
LEMMA BatchIsSound ==
    ASSUME NEW b \in Sound, NEW all \in Seq(Changes), NEW number \in Nat
    PROVE  Batch(b, all, number) \in Sound
<1>1. PICK L, m : L = b.levels /\ m = Committed(L, all)
  OBVIOUS
<1>2. L \in Maps
  BY <1>1 DEF Sound
<1>3. m \in Maps
  BY <1>1, <1>2, CommittedTyped
<1>. QED
  BY <1>1, <1>3 DEF Batch, Sound, BookStates

\* One more update.
LEMMA BatchedNext ==
    ASSUME NEW b \in Sound, NEW events \in Seq(AnyEvent), NEW i \in Nat, i + 1 \in 1 .. Len(events),
           events[i + 1].kind = "update", NEW inorder, NEW all, Batched(inorder, all, b, events, i)
    PROVE  Batched(OneMore(inorder, b, events[i + 1]), Joined(all, events[i + 1]), b, events, i + 1)
<1>1. PICK n, e, s, more : n = i + 1 /\ e = events[i + 1] /\ s = events[i + 1].levels /\ more = Joined(all, events[i + 1])
  OBVIOUS
<1>2. n \in Nat /\ n > 0 /\ n # 0 /\ n \in 1 .. Len(events) /\ i \in 0 .. n
  BY <1>1
<1>3. e \in AnyEvent /\ e.kind = "update" /\ e = events[n] /\ s = e.levels
  BY <1>1
<1>4. s \in Seq(Levels) /\ e.sequence \in Nat
  BY <1>3 DEF AnyEvent
<1>5. all \in Seq(Levels) /\ more = all \o s
  BY <1>1 DEF Batched, Joined
<1>6. more \in Seq(Levels)
  <2>1. PICK E : E = Levels
    OBVIOUS
  <2>2. all \o s \in Seq(E)
    BY <1>4, <1>5, <2>1
  <2>. QED
    BY <1>5, <2>1, <2>2
<1>7. (\A j \in 1 .. n : Stageable(events[j])) <=> (\A j \in 1 .. i : Stageable(events[j])) /\ Stageable(e)
  <2>1. ASSUME NEW j \in 1 .. n PROVE j \in 1 .. i \/ j = n
    BY <1>1
  <2>2. ASSUME NEW j \in 1 .. i PROVE j \in 1 .. n
    BY <1>1
  <2>. QED
    BY <1>2, <1>3, <2>1, <2>2
<1>8. Stageable(e) => s \in Seq(Changes)
  BY <1>3, <1>4, ValidatedChanges DEF Stageable
<1>9. CASE b.state = "Valid" /\ \A j \in 1 .. i : Stageable(events[j])
  <2>1. all \in Seq(Changes)
    BY <1>9 DEF Batched
  <2>2. PICK c \in Sound : /\ inorder = Accept(c) /\ c.state = "Valid" /\ c.levels = Committed(b.levels, all)
    <3>1. CASE i = 0
      <4>1. inorder = Accept(b) /\ all = <<>>
        BY <3>1 DEF Batched
      <4>2. PICK L : L = b.levels
        OBVIOUS
      <4>3. L \in Maps
        BY <4>2 DEF Sound
      <4>4. b.levels = Committed(b.levels, all)
        BY <4>1, <4>2, <4>3, CommittedNone
      <4>. QED
        BY <1>9, <4>1, <4>4
    <3>2. CASE i > 0
      <4>1. PICK c : c = Batch(b, all, events[i].sequence)
        OBVIOUS
      <4>2. inorder = Accept(c)
        BY <1>9, <3>2, <4>1 DEF Batched
      <4>3. i \in 1 .. Len(events)
        BY <1>1, <1>2, <3>2
      <4>4. events[i] \in AnyEvent
        BY <4>3
      <4>5. PICK q : q = events[i].sequence
        OBVIOUS
      <4>6. q \in Nat
        BY <4>4, <4>5 DEF AnyEvent
      <4>7. c \in Sound
        BY <2>1, <4>1, <4>5, <4>6, BatchIsSound
      <4>8. c.state = "Valid" /\ c.levels = Committed(b.levels, all)
        BY <4>1 DEF Batch
      <4>. QED
        BY <4>2, <4>7, <4>8
    <3>. QED
      BY <3>1, <3>2
  <2>3. OneMore(inorder, b, e) = IF Acceptable(c, e) THEN Accept(OneEvent(c, e)) ELSE Reject(b)
    BY <2>2, Verdicts DEF OneMore
  <2>4. Acceptable(c, e) <=> Stageable(e)
    BY <1>3, <2>2, UpdateApplied
  <2>5. CASE Stageable(e)
    <3>1. OneEvent(c, e) = [state |-> "Valid", levels |-> Committed(c.levels, e.levels), last_sequence |-> e.sequence]
      BY <1>3, <2>2, <2>4, <2>5, UpdateApplied
    <3>2. Committed(c.levels, e.levels) = Committed(b.levels, more)
      <4>1. PICK L : L = b.levels
        OBVIOUS
      <4>2. Committed(L, all \o s) = Committed(Committed(L, all), s)
        BY <1>4, <1>5, CommittedConcat
      <4>. QED
        BY <1>3, <1>5, <2>2, <4>1, <4>2
    <3>3. OneEvent(c, e) = Batch(b, more, events[n].sequence)
      BY <1>3, <3>1, <3>2 DEF Batch
    <3>4. more \in Seq(Changes)
      <4>1. PICK E : E = Changes
        OBVIOUS
      <4>2. all \in Seq(E) /\ s \in Seq(E)
        BY <1>8, <2>1, <2>5, <4>1
      <4>3. all \o s \in Seq(E)
        BY <4>2
      <4>. QED
        BY <1>5, <4>1, <4>3
    <3>5. OneMore(inorder, b, e) = Accept(Batch(b, more, events[n].sequence))
      BY <2>3, <2>4, <2>5, <3>3
    <3>6. \A j \in 1 .. n : Stageable(events[j])
      BY <1>7, <1>9, <2>5
    <3>7. Batched(OneMore(inorder, b, e), more, b, events, n)
      BY <1>2, <1>6, <1>9, <3>4, <3>5, <3>6 DEF Batched
    <3>. QED
      BY <1>1, <3>7
  <2>6. CASE ~Stageable(e)
    <3>1. ~(\A j \in 1 .. n : Stageable(events[j]))
      BY <1>7, <2>6
    <3>2. OneMore(inorder, b, e) = Reject(b)
      BY <2>3, <2>4, <2>6
    <3>3. Batched(OneMore(inorder, b, e), more, b, events, n)
      BY <1>2, <1>6, <3>1, <3>2 DEF Batched
    <3>. QED
      BY <1>1, <3>3
  <2>. QED
    BY <2>5, <2>6
<1>10. CASE ~(b.state = "Valid" /\ \A j \in 1 .. i : Stageable(events[j]))
  <2>1. OneMore(inorder, b, e) = Reject(b)
    <3>1. CASE i = 0
      <4>1. inorder = Accept(b)
        BY <3>1 DEF Batched
      <4>2. b.state # "Valid"
        BY <1>10, <3>1
      <4>3. ~Acceptable(b, e)
        BY <1>3, <4>2, UpdateApplied
      <4>. QED
        BY <4>1, <4>3, Verdicts DEF OneMore
    <3>2. CASE i > 0
      <4>1. inorder = Reject(b)
        BY <1>10, <3>2 DEF Batched
      <4>. QED
        BY <4>1, Verdicts DEF OneMore
    <3>. QED
      BY <3>1, <3>2
  <2>2. ~(b.state = "Valid" /\ \A j \in 1 .. n : Stageable(events[j]))
    BY <1>7, <1>10
  <2>3. Batched(OneMore(inorder, b, e), more, b, events, n)
    BY <1>2, <1>6, <2>1, <2>2 DEF Batched
  <2>. QED
    BY <1>1, <2>3
<1>. QED
  BY <1>9, <1>10

\* A span of updates only, against the reference.
LEMMA UpdatesAreSequential ==
    ASSUME NEW b \in Sound, NEW events \in Seq(AnyEvent), events # <<>>,
           \A i \in 1 .. Len(events) : events[i].kind = "update"
    PROVE  ApplyUpdates(b, events) = Sequentially(b, events)
<1>1. PICK n : n = Len(events)
  OBVIOUS
<1>2. n \in Nat /\ n > 0 /\ n # 0 /\ DOMAIN events = 1 .. n
  BY <1>1
<1>3. PICK a : a[0] = <<>> /\ (\A i \in 1 .. n : a[i] = Joined(a[i - 1], events[i])) /\ a[n] = AllChanges(events)
  BY <1>1, <1>2, AllChangesExists
<1>4. PICK h : /\ h[0] = Accept(b) /\ \A i \in 1 .. n : h[i] = OneMore(h[i - 1], b, events[i])
               /\ h[n] = Sequentially(b, events)
  BY <1>1, <1>2, SequentiallyExists
<1>. DEFINE S == {i \in Nat : i <= n => Batched(h[i], a[i], b, events, i)}
<1>5. 0 \in S
  <2>1. PICK none : none = a[0]
    OBVIOUS
  <2>2. none \in Seq(Levels) /\ none \in Seq(Changes)
    BY <1>3, <2>1
  <2>3. Batched(h[0], a[0], b, events, 0)
    BY <1>3, <1>4, <2>1, <2>2 DEF Batched
  <2>. QED
    BY <2>3
<1>6. ASSUME NEW i \in Nat, i \in S PROVE i + 1 \in S
  <2>. SUFFICES ASSUME i + 1 <= n PROVE Batched(h[i + 1], a[i + 1], b, events, i + 1)
    OBVIOUS
  <2>1. i + 1 \in 1 .. n /\ (i + 1) - 1 = i /\ i <= n
    BY <1>2
  <2>2. Batched(h[i], a[i], b, events, i)
    BY <1>6, <2>1
  <2>3. h[i + 1] = OneMore(h[i], b, events[i + 1]) /\ a[i + 1] = Joined(a[i], events[i + 1])
    BY <1>3, <1>4, <2>1
  <2>4. i + 1 \in 1 .. Len(events) /\ events[i + 1].kind = "update"
    BY <1>1, <2>1
  <2>. QED
    BY <2>2, <2>3, <2>4, BatchedNext
<1>7. \A i \in Nat : i \in S
  <2>. HIDE DEF S
  <2>. QED
    BY <1>5, <1>6, SetInduction
<1>8. Batched(h[n], a[n], b, events, n)
  BY <1>2, <1>7
<1>9. CASE b.state = "Valid" /\ \A i \in 1 .. n : Stageable(events[i])
  <2>1. h[n] = Accept(Batch(b, a[n], events[n].sequence))
    BY <1>2, <1>8, <1>9 DEF Batched
  <2>2. PICK L, m, q, last : L = b.levels /\ m = Committed(L, a[n]) /\ q = b.last_sequence /\ last = events[n].sequence
    OBVIOUS
  <2>3. Last(events).sequence = last
    BY <1>1, <2>2 DEF Last
  <2>4. ApplyUpdates(b, events) = Accept([b EXCEPT !.levels = m, !.last_sequence = last])
    BY <1>2, <1>3, <1>9, <2>2, <2>3 DEF ApplyUpdates, Committed
  <2>5. b = [state |-> "Valid", levels |-> L, last_sequence |-> q]
    <3>1. b = [state |-> b.state, levels |-> b.levels, last_sequence |-> b.last_sequence]
      BY DEF Sound
    <3>. QED
      BY <1>9, <2>2, <3>1
  <2>6. PICK x : x = [b EXCEPT !.levels = m, !.last_sequence = last]
    OBVIOUS
  <2>7. x = [state |-> "Valid", levels |-> m, last_sequence |-> last]
    BY <2>5, <2>6
  <2>8. x = Batch(b, a[n], events[n].sequence)
    BY <2>2, <2>7 DEF Batch
  <2>. QED
    BY <1>4, <2>1, <2>4, <2>6, <2>8
<1>10. CASE ~(b.state = "Valid" /\ \A i \in 1 .. n : Stageable(events[i]))
  <2>1. h[n] = Reject(b)
    BY <1>2, <1>8, <1>10 DEF Batched
  <2>2. ApplyUpdates(b, events) = Reject(b)
    BY <1>2, <1>10 DEF ApplyUpdates
  <2>. QED
    BY <1>4, <2>1, <2>2
<1>. QED
  BY <1>9, <1>10

\* apply(span) against the reference, for every book and every span.
LEMMA SpanApplied ==
    ASSUME NEW b \in Sound, NEW events \in Seq(AnyEvent)
    PROVE  ApplySpan(b, events) = Sequentially(b, events) /\ Sequentially(b, events).book \in Sound
<1>1. Len(events) \in Nat /\ DOMAIN events = 1 .. Len(events)
  OBVIOUS
<1>2. ApplyStagedCopy(b, events) = Sequentially(b, events) /\ Sequentially(b, events).book \in Sound
  BY StagedIsSequential
<1>3. CASE events = <<>>
  <2>1. PICK h : h[0] = Accept(b) /\ h[Len(events)] = Sequentially(b, events)
    BY <1>1, SequentiallyExists
  <2>2. Len(events) = 0
    BY <1>3
  <2>. QED
    BY <1>2, <1>3, <2>1, <2>2 DEF ApplySpan
<1>4. CASE events # <<>> /\ HasSnapshot(events)
  BY <1>2, <1>4 DEF ApplySpan
<1>5. CASE events # <<>> /\ ~HasSnapshot(events)
  <2>1. ASSUME NEW i \in 1 .. Len(events) PROVE events[i].kind = "update"
    <3>1. events[i] \in AnyEvent
      OBVIOUS
    <3>. QED
      BY <1>1, <1>5, <3>1 DEF AnyEvent, HasSnapshot
  <2>2. ApplyUpdates(b, events) = Sequentially(b, events)
    BY <1>5, <2>1, UpdatesAreSequential
  <2>. QED
    BY <1>2, <1>5, <2>2 DEF ApplySpan
<1>. QED
  BY <1>3, <1>4, <1>5

\* A span of the model is a sequence of events the venues may send.
LEMMA SpansAreSequences ==
    ASSUME NEW events \in Spans
    PROVE  events \in Seq(AnyEvent)
<1>1. PICK n \in 0 .. MaxEvents : events \in [1 .. n -> Events]
  BY DEF Spans
<1>2. Events \subseteq AnyEvent /\ n \in Nat
  BY OrderBookAssumption DEF AnyEvent
<1>3. events \in [1 .. n -> AnyEvent]
  BY <1>1, <1>2
<1>. QED
  BY <1>2, <1>3

-----------------------------------------------------------------------------
(***************************************************************************)
(* A span that begins with a snapshot, on two books.                       *)
(***************************************************************************)
\* The same book, or both spans refused.
Alike(one, other, b, c) ==
    \/ \E d \in Sound : one = Accept(d) /\ other = Accept(d)
    \/ one = Reject(b) /\ other = Reject(c)

\* One more event.
LEMMA AlikeNext ==
    ASSUME NEW b, NEW c, NEW one, NEW other, Alike(one, other, b, c), NEW event \in AnyEvent
    PROVE  Alike(OneMore(one, b, event), OneMore(other, c, event), b, c)
<1>1. ASSUME NEW d \in Sound, one = Accept(d), other = Accept(d)
      PROVE  Alike(OneMore(one, b, event), OneMore(other, c, event), b, c)
  <2>1. OneMore(one, b, event) = IF Acceptable(d, event) THEN Accept(OneEvent(d, event)) ELSE Reject(b)
    BY <1>1, Verdicts DEF OneMore
  <2>2. OneMore(other, c, event) = IF Acceptable(d, event) THEN Accept(OneEvent(d, event)) ELSE Reject(c)
    BY <1>1, Verdicts DEF OneMore
  <2>3. CASE Acceptable(d, event)
    <3>1. PICK e \in Sound : e = OneEvent(d, event)
      BY <2>3, EventApplied
    <3>2. OneMore(one, b, event) = Accept(e) /\ OneMore(other, c, event) = Accept(e)
      BY <2>1, <2>2, <2>3, <3>1
    <3>. QED
      BY <3>2 DEF Alike
  <2>4. CASE ~Acceptable(d, event)
    <3>1. OneMore(one, b, event) = Reject(b) /\ OneMore(other, c, event) = Reject(c)
      BY <2>1, <2>2, <2>4
    <3>. QED
      BY <3>1 DEF Alike
  <2>. QED
    BY <2>3, <2>4
<1>2. ASSUME one = Reject(b), other = Reject(c)
      PROVE  Alike(OneMore(one, b, event), OneMore(other, c, event), b, c)
  <2>1. OneMore(one, b, event) = Reject(b) /\ OneMore(other, c, event) = Reject(c)
    BY <1>2, Verdicts DEF OneMore
  <2>. QED
    BY <2>1 DEF Alike
<1>. QED
  BY <1>1, <1>2 DEF Alike

\* The snapshot itself: neither its verdict nor its book depends on the levels, the
\* state or the sequence number before it.
LEMMA SnapshotAlike ==
    ASSUME NEW b \in Sound, NEW c \in Sound, NEW event \in AnyEvent, event.kind = "snapshot"
    PROVE  Alike(OneMore(Accept(b), b, event), OneMore(Accept(c), c, event), b, c)
<1>1. OneMore(Accept(b), b, event) = IF Acceptable(b, event) THEN Accept(OneEvent(b, event)) ELSE Reject(b)
  BY Verdicts DEF OneMore
<1>2. OneMore(Accept(c), c, event) = IF Acceptable(c, event) THEN Accept(OneEvent(c, event)) ELSE Reject(c)
  BY Verdicts DEF OneMore
<1>3. event.kind # "update"
  OBVIOUS
<1>4. Acceptable(b, event) <=> Acceptable(c, event)
  BY <1>3 DEF Acceptable
<1>5. OneEvent(b, event) = OneEvent(c, event)
  BY DEF OneEvent
<1>6. CASE Acceptable(b, event)
  <2>1. PICK e \in Sound : e = OneEvent(b, event)
    BY <1>6, EventApplied
  <2>2. OneMore(Accept(b), b, event) = Accept(e) /\ OneMore(Accept(c), c, event) = Accept(e)
    BY <1>1, <1>2, <1>4, <1>5, <1>6, <2>1
  <2>. QED
    BY <2>2 DEF Alike
<1>7. CASE ~Acceptable(b, event)
  <2>1. OneMore(Accept(b), b, event) = Reject(b) /\ OneMore(Accept(c), c, event) = Reject(c)
    BY <1>1, <1>2, <1>4, <1>7
  <2>. QED
    BY <2>1 DEF Alike
<1>. QED
  BY <1>6, <1>7

\* The whole span.
LEMMA SpansAlike ==
    ASSUME NEW b \in Sound, NEW c \in Sound, NEW events \in Seq(AnyEvent), events # <<>>,
           events[1].kind = "snapshot"
    PROVE  Alike(Sequentially(b, events), Sequentially(c, events), b, c)
<1>1. PICK n : n = Len(events)
  OBVIOUS
<1>2. n \in Nat /\ n >= 1 /\ \A i \in 1 .. n : events[i] \in AnyEvent
  BY <1>1
<1>3. PICK g : /\ g[0] = Accept(b) /\ \A i \in 1 .. n : g[i] = OneMore(g[i - 1], b, events[i])
               /\ g[n] = Sequentially(b, events)
  BY <1>1, <1>2, SequentiallyExists
<1>4. PICK h : /\ h[0] = Accept(c) /\ \A i \in 1 .. n : h[i] = OneMore(h[i - 1], c, events[i])
               /\ h[n] = Sequentially(c, events)
  BY <1>1, <1>2, SequentiallyExists
<1>. DEFINE S == {i \in Nat : i + 1 <= n => Alike(g[i + 1], h[i + 1], b, c)}
<1>5. 0 \in S
  <2>1. 1 \in 1 .. n /\ 1 - 1 = 0 /\ 0 + 1 = 1
    BY <1>2
  <2>2. g[1] = OneMore(Accept(b), b, events[1]) /\ h[1] = OneMore(Accept(c), c, events[1])
    BY <1>3, <1>4, <2>1
  <2>3. PICK e : e = events[1]
    OBVIOUS
  <2>4. e \in AnyEvent /\ e.kind = "snapshot"
    BY <1>2, <2>1, <2>3
  <2>5. Alike(g[1], h[1], b, c)
    BY <2>2, <2>3, <2>4, SnapshotAlike
  <2>. QED
    BY <2>1, <2>5
<1>6. ASSUME NEW i \in Nat, i \in S PROVE i + 1 \in S
  <2>. SUFFICES ASSUME (i + 1) + 1 <= n PROVE Alike(g[(i + 1) + 1], h[(i + 1) + 1], b, c)
    OBVIOUS
  <2>1. PICK j, k : j = (i + 1) + 1 /\ k = i + 1
    OBVIOUS
  <2>2. j \in 1 .. n /\ j - 1 = k /\ k <= n
    BY <1>2, <2>1
  <2>3. Alike(g[k], h[k], b, c)
    BY <1>6, <2>1, <2>2
  <2>4. g[j] = OneMore(g[k], b, events[j]) /\ h[j] = OneMore(h[k], c, events[j]) /\ events[j] \in AnyEvent
    BY <1>2, <1>3, <1>4, <2>2
  <2>. QED
    BY <2>1, <2>3, <2>4, AlikeNext
<1>7. \A i \in Nat : i \in S
  <2>. HIDE DEF S
  <2>. QED
    BY <1>5, <1>6, SetInduction
<1>8. Alike(g[n], h[n], b, c)
  <2>1. n - 1 \in Nat /\ (n - 1) + 1 = n
    BY <1>2
  <2>. QED
    BY <1>7, <2>1
<1>. QED
  BY <1>3, <1>4, <1>8

-----------------------------------------------------------------------------
(***************************************************************************)
(* The state machine.                                                      *)
(***************************************************************************)
BookIsSound == book \in Sound

\* No call leaves the books that can be reached: whatever callers apply and mark, in
\* whatever order, prices and quantities stay positive.
LEMMA SoundPreserved ==
    ASSUME BookIsSound, [Next]_vars
    PROVE  BookIsSound'
<1>1. PICK b \in Sound : b = book
  BY DEF BookIsSound
<1>2. ASSUME NEW events \in Spans, Apply(events) PROVE BookIsSound'
  <2>1. events \in Seq(AnyEvent)
    BY SpansAreSequences
  <2>2. ApplySpan(b, events).book \in Sound
    BY <2>1, SpanApplied
  <2>. QED
    BY <1>1, <1>2, <2>2 DEF Apply, BookIsSound
<1>3. ASSUME NEW event \in Events, ApplyOne(event) PROVE BookIsSound'
  <2>1. event \in AnyEvent
    BY OrderBookAssumption DEF AnyEvent
  <2>2. ApplyEvent(b, event) = Verdict(b, event) /\ (Acceptable(b, event) => OneEvent(b, event) \in Sound)
    BY <2>1, EventApplied
  <2>3. ApplyEvent(b, event).book \in Sound
    BY <2>2, Verdicts DEF Verdict
  <2>. QED
    BY <1>1, <1>3, <2>3 DEF ApplyOne, BookIsSound
<1>4. ASSUME NEW state \in Marks, Mark(state) PROVE BookIsSound'
  BY <1>4 DEF Mark, Marks, BookIsSound, Sound
<1>5. CASE UNCHANGED vars
  BY <1>5 DEF vars, BookIsSound
<1>. QED
  BY <1>2, <1>3, <1>4, <1>5 DEF Next

\* The inductive invariant: the book is always a record of a state, a sequence
\* number and levels with a positive price and quantity.
THEOREM BookInvariant == Spec => []BookIsSound
<1>1. Init => BookIsSound
  BY EmptyIsSound DEF Init, BookIsSound
<1>2. BookIsSound /\ [Next]_vars => BookIsSound'
  BY SoundPreserved
<1>. QED
  BY <1>1, <1>2, PTL DEF Spec

\* No sequence of snapshots, updates, tombstones and marks leaves a deleted or an
\* invalid level in bids_ or asks_.
THEOREM LevelsStayPositive == Spec => []TypeOK
<1>1. BookIsSound => TypeOK
  <2>. SUFFICES ASSUME BookIsSound PROVE TypeOK
    OBVIOUS
  <2>1. PICK b \in Sound : b = book
    BY DEF BookIsSound
  <2>2. PICK D \in SUBSET Slots : b.levels \in [D -> Nat \ {0}]
    BY DEF Sound, Maps
  <2>3. ASSUME NEW k \in DOMAIN b.levels PROVE k[1] \in {"Bid", "Ask"} /\ k[2] > 0 /\ b.levels[k] > 0
    <3>1. k \in Slots /\ b.levels[k] \in Nat \ {0}
      BY <2>2
    <3>. QED
      BY <3>1 DEF Slots
  <2>4. b.state \in BookStates /\ b.last_sequence \in Nat \cup {NoSequence}
    BY DEF Sound
  <2>. QED
    BY <2>1, <2>3, <2>4 DEF TypeOK
<1>. QED
  BY <1>1, BookInvariant, PTL

\* apply(span) is, on every book that can be reached and for spans of every length,
\* the atomic sequence of its events: one staging area for many updates, or a staged
\* copy, changes neither the verdict nor the book.
THEOREM SpansAreSequential == Spec => []SpanIsSequential
<1>1. BookIsSound => SpanIsSequential
  <2>. SUFFICES ASSUME BookIsSound, NEW events \in Spans
                PROVE  ApplySpan(book, events) = Sequentially(book, events)
    BY DEF SpanIsSequential
  <2>1. PICK b \in Sound : b = book
    BY DEF BookIsSound
  <2>2. events \in Seq(AnyEvent)
    BY SpansAreSequences
  <2>3. ApplySpan(b, events) = Sequentially(b, events)
    BY <2>2, SpanApplied
  <2>. QED
    BY <2>1, <2>3
<1>. QED
  BY <1>1, BookInvariant, PTL

\* Resynchronisation: a span that begins with a snapshot is accepted, and yields the
\* same book, whatever the book held before.
THEOREM SnapshotsForget == Spec => []SnapshotForgets
<1>1. BookIsSound => SnapshotForgets
  <2>. SUFFICES ASSUME BookIsSound, NEW events \in Spans, events # <<>>, events[1].kind = "snapshot"
                PROVE  /\ ApplySpan(book, events).ok = ApplySpan(EmptyBook, events).ok
                       /\ ApplySpan(book, events).ok => ApplySpan(book, events).book = ApplySpan(EmptyBook, events).book
    BY DEF SnapshotForgets
  <2>1. PICK b, c : b = book /\ c = EmptyBook
    OBVIOUS
  <2>2. b \in Sound /\ c \in Sound
    BY <2>1, EmptyIsSound DEF BookIsSound
  <2>3. events \in Seq(AnyEvent)
    BY SpansAreSequences
  <2>4. PICK x, y : x = ApplySpan(b, events) /\ y = ApplySpan(c, events)
    OBVIOUS
  <2>5. Alike(x, y, b, c)
    BY <2>2, <2>3, <2>4, SpanApplied, SpansAlike
  <2>6. x.ok = y.ok /\ (x.ok => x.book = y.book)
    <3>1. ASSUME NEW d \in Sound, x = Accept(d), y = Accept(d) PROVE x.ok = y.ok /\ (x.ok => x.book = y.book)
      BY <3>1
    <3>2. ASSUME x = Reject(b), y = Reject(c) PROVE x.ok = y.ok /\ (x.ok => x.book = y.book)
      BY <3>2 DEF Reject
    <3>. QED
      BY <2>5, <3>1, <3>2 DEF Alike
  <2>. QED
    BY <2>1, <2>4, <2>6
<1>. QED
  BY <1>1, BookInvariant, PTL
=============================================================================
