---------------------------- MODULE HTableProofs ----------------------------
(***************************************************************************)
(* Proofs about HTable, for words of any size, any pointers with the       *)
(* highest bit in common, any keys, hashes and sizes.                      *)
(*                                                                         *)
(* The invariant places the table: there is a distance d[p] for each       *)
(* element p, the entry of p is d[p] slots after its bucket, no slot       *)
(* before it is empty, and no other slot is used.                          *)
(***************************************************************************)
EXTENDS HTable, NaturalLemmas, FiniteSetTheorems

H(p) == hash[keyof[p]]

\* The bit that update_common leaves in the entries.
HighBit == CHOOSE top \in Word : \A p \in Ptr : top \in p /\ \A i \in p : i <= top

-----------------------------------------------------------------------------
(***************************************************************************)
(* Numbers.                                                                *)
(***************************************************************************)

\* No pointer is without the bit, and it is not that of the deleted marker.
LEMMA HighBitIs ==
    /\ HighBit \in Word
    /\ \A p \in Ptr : HighBit \in p /\ HighBit # 0 /\ p \subseteq Word /\ \A i \in p : i <= HighBit
  <1>1. HighBit \in Word /\ \A p \in Ptr : HighBit \in p /\ \A i \in p : i <= HighBit
    BY TopBitAssumption DEF HighBit
  <1>2. ASSUME NEW p \in Ptr, HighBit = 0 PROVE FALSE
    <2>1. p \subseteq Word /\ p # {0}
      <3>1. p \in (SUBSET Word) \ {{}, {0}}
        BY HTableAssumption
      <3> QED
        BY <3>1
    <2>2. \A i \in p : i = 0
      BY <1>1, <1>2, <2>1 DEF Word
    <2> QED
      BY <1>1, <1>2, <2>1, <2>2
  <1> QED
    BY <1>1, <1>2, HTableAssumption

LEMMA Powers ==
    /\ Pow2 \in [Nat -> Nat \ {0}]
    /\ Pow2[0] = 1
    /\ \A n \in Nat : Pow2[n + 1] = 2 * Pow2[n]
  <1> DEFINE Is(f) == f = [n \in Nat |-> IF n = 0 THEN 1 ELSE 2 * f[n - 1]]
             g == [x \in Nat \ {0} |-> 2 * x]
  <1>1. g \in [Nat \ {0} -> Nat \ {0}]
    OBVIOUS
  <1>2. PICK f \in [Nat -> Nat \ {0}] : f[0] = 1 /\ \A i \in Nat : f[i + 1] = g[f[i]]
    <2> HIDE DEF g
    <2>1. PICK S, a : S = Nat \ {0} /\ a = 1
      OBVIOUS
    <2>2. a \in S /\ g \in [S -> S]
      BY <1>1, <2>1
    <2>3. \E f \in [Nat -> S] : f[0] = a /\ \A i \in Nat : f[i + 1] = g[f[i]]
      BY <2>2, EndlessRecursion
    <2> QED
      BY <2>1, <2>3
  <1>3. Is(f)
    <2>1. ASSUME NEW n \in Nat, n # 0 PROVE f[n] = 2 * f[n - 1]
      <3>1. n - 1 \in Nat /\ (n - 1) + 1 = n
        BY <2>1
      <3> QED
        BY <1>2, <3>1
    <2> QED
      BY <1>2, <2>1
  <1>4. Is(Pow2)
    BY <1>3 DEF Pow2
  <1>5. Pow2[0] = 1 /\ \A n \in Nat : Pow2[n + 1] = 2 * Pow2[n]
    <2>1. \A n \in Nat : n + 1 \in Nat /\ n + 1 # 0 /\ (n + 1) - 1 = n
      OBVIOUS
    <2> QED
      BY <1>4, <2>1
  <1>6. ASSUME NEW n \in Nat PROVE Pow2[n] \in Nat \ {0}
    <2>1. PICK X : X = {i \in Nat : Pow2[i] \in Nat \ {0}}
      OBVIOUS
    <2>2. 0 \in X /\ \A i \in Nat : i \in X => i + 1 \in X
      BY <1>5, <2>1
    <2>3. \A i \in Nat : i \in X
      BY <2>2, ForEver
    <2> QED
      BY <2>1, <2>3
  <1> QED
    BY <1>4, <1>5, <1>6

LEMMA ValueIsNatural == ASSUME NEW w PROVE Value(w) \in Nat
  <1> DEFINE n == WordSize
             g == [i \in 1..n |-> [x \in Nat |-> 2 * x + Bit(w, n - i)]]
             Is(v) == v = [i \in 0..n |-> IF i = 0 THEN 0 ELSE 2 * v[i - 1] + Bit(w, n - i)]
  <1>1. n \in Nat /\ \A i : Bit(w, i) \in Nat
    BY HTableAssumption DEF Bit
  <1>2. g \in [1..n -> [Nat -> Nat]]
    BY <1>1
  <1>3. PICK v \in [0..n -> Nat] : v[0] = 0 /\ \A i \in 1..n : v[i] = g[i][v[i - 1]]
    <2> HIDE DEF g
    <2>1. 0 \in Nat
      OBVIOUS
    <2>2. PICK v : IsLoop(v, Nat, 0, n, g)
      BY <1>1, <1>2, <2>1, RecursiveFunction
    <2> QED
      BY <2>2 DEF IsLoop
  <1>4. Is(v)
    <2>1. ASSUME NEW i \in 1..n PROVE v[i] = 2 * v[i - 1] + Bit(w, n - i)
      <3>1. i - 1 \in 0..n /\ v[i - 1] \in Nat
        BY <1>1, <1>3
      <3> QED
        BY <1>3, <3>1
    <2>2. \A i \in 0..n : i = 0 \/ i \in 1..n
      BY <1>1
    <2> QED
      BY <1>3, <2>1, <2>2
  <1>5. ASSUME NEW u, Is(u) PROVE u[n] \in Nat
    <2>1. PICK X : X = {i \in 0..n : u[i] \in Nat}
      OBVIOUS
    <2>2. 0 \in X
      BY <1>1, <1>5, <2>1
    <2>3. ASSUME NEW i \in 1..n, i - 1 \in X PROVE i \in X
      <3>1. u[i] = 2 * u[i - 1] + Bit(w, n - i) /\ u[i - 1] \in Nat
        BY <1>1, <1>5, <2>1, <2>3
      <3> QED
        BY <1>1, <2>1, <3>1
    <2>4. \A i \in 0..n : i \in X
      BY <1>1, <2>2, <2>3, TurnByTurn
    <2> QED
      BY <1>1, <2>1, <2>4
  <1>6. Is(CHOOSE u : Is(u))
    BY <1>4
  <1>7. (CHOOSE u : Is(u))[n] \in Nat
    BY <1>5, <1>6
  <1> QED
    BY <1>7 DEF Value

-----------------------------------------------------------------------------
(***************************************************************************)
(* Slots.                                                                  *)
(***************************************************************************)

TableOf(b) ==
    [bits : {b}, table : [0..Pow2[b] - 1 -> SUBSET Word], shared : BOOLEAN, elems : Nat,
     deleted : Nat, mask : SUBSET Word, common : SUBSET Word, perfect : SUBSET Word]
Table == UNION {TableOf(b) : b \in Nat}

LEMMA TableIs ==
    ASSUME NEW t \in Table
    PROVE  /\ t.bits \in Nat /\ t \in TableOf(t.bits)
           /\ Size(t) \in Nat \ {0} /\ Size(t) = Pow2[t.bits]
           /\ t.table \in [SlotsOf(t) -> SUBSET Word]
           /\ t.shared \in BOOLEAN /\ t.elems \in Nat /\ t.deleted \in Nat
           /\ t.mask \subseteq Word /\ t.common \subseteq Word /\ t.perfect \subseteq Word
  <1>1. PICK b \in Nat : t \in TableOf(b)
    BY DEF Table
  <1>2. t.bits = b /\ Pow2[b] \in Nat \ {0}
    BY <1>1, Powers DEF TableOf
  <1> QED
    BY <1>1, <1>2 DEF TableOf, Size, SlotsOf

\* The remainder of a sum of two numbers below n.
LEMMA Around ==
    ASSUME NEW n \in Nat \ {0}, NEW a \in 0..n - 1, NEW b \in 0..n - 1
    PROVE  (a + b) % n = IF a + b < n THEN a + b ELSE a + b - n
  OBVIOUS

LEMMA BucketIs == ASSUME NEW t \in Table, NEW h PROVE Bucket(t, h) \in SlotsOf(t)
  <1>1. Value(h) \in Nat /\ Size(t) \in Nat \ {0}
    BY ValueIsNatural, TableIs
  <1>2. PICK v \in Nat, n \in Nat \ {0} : v = Value(h) /\ n = Size(t)
    BY <1>1
  <1>3. v % n \in 0..n - 1
    OBVIOUS
  <1> QED
    BY <1>2, <1>3 DEF Bucket, SlotsOf

\* The slots from the bucket of h on, all the way round.
LEMMA SlotIs ==
    ASSUME NEW t \in Table, NEW h, NEW d \in SlotsOf(t)
    PROVE  /\ Slot(t, h, d) \in SlotsOf(t)
           /\ Slot(t, h, d) = IF Bucket(t, h) + d < Size(t) THEN Bucket(t, h) + d
                              ELSE Bucket(t, h) + d - Size(t)
  <1>1. PICK n \in Nat \ {0} : n = Size(t)
    BY TableIs
  <1>2. PICK b \in 0..n - 1 : b = Bucket(t, h)
    BY <1>1, BucketIs DEF SlotsOf
  <1>3. d \in 0..n - 1
    BY <1>1 DEF SlotsOf
  <1>4. (b + d) % n = IF b + d < n THEN b + d ELSE b + d - n
    BY <1>3, Around
  <1> QED
    BY <1>1, <1>2, <1>3, <1>4 DEF Slot, SlotsOf

LEMMA AllSlots ==
    ASSUME NEW t \in Table, NEW h, NEW i \in SlotsOf(t)
    PROVE  \E d \in SlotsOf(t) : Slot(t, h, d) = i
  <1>1. PICK n \in Nat \ {0} : n = Size(t)
    BY TableIs
  <1>2. PICK b \in 0..n - 1 : b = Bucket(t, h)
    BY <1>1, BucketIs DEF SlotsOf
  <1>3. i \in 0..n - 1
    BY <1>1 DEF SlotsOf
  <1>4. PICK d \in 0..n - 1 : d = IF b <= i THEN i - b ELSE i - b + n
    BY <1>3
  <1>5. d \in SlotsOf(t) /\ Slot(t, h, d) = IF b + d < n THEN b + d ELSE b + d - n
    BY <1>1, <1>2, SlotIs DEF SlotsOf
  <1> QED
    BY <1>3, <1>4, <1>5

LEMMA OneDistance ==
    ASSUME NEW t \in Table, NEW h, NEW c \in SlotsOf(t), NEW d \in SlotsOf(t),
           Slot(t, h, c) = Slot(t, h, d)
    PROVE  c = d
  <1>1. PICK n \in Nat \ {0} : n = Size(t)
    BY TableIs
  <1>2. PICK b \in 0..n - 1 : b = Bucket(t, h)
    BY <1>1, BucketIs DEF SlotsOf
  <1>3. c \in 0..n - 1 /\ d \in 0..n - 1
    BY <1>1 DEF SlotsOf
  <1>4. /\ Slot(t, h, c) = IF b + c < n THEN b + c ELSE b + c - n
        /\ Slot(t, h, d) = IF b + d < n THEN b + d ELSE b + d - n
    BY <1>1, <1>2, SlotIs
  <1>5. (IF b + c < n THEN b + c ELSE b + c - n) = (IF b + d < n THEN b + d ELSE b + d - n)
    BY <1>4
  <1> QED
    BY <1>3, <1>5

\* The first of the entries, if one of the slots has one.
LEMMA FirstIs ==
    ASSUME NEW t \in Table, NEW h, NEW E, NEW i \in SlotsOf(t), t.table[i] \in E
    PROVE  /\ First(t, h, E) \in SlotsOf(t)
           /\ At(t, h, First(t, h, E)) \in E
           /\ \A c \in 0..First(t, h, E) - 1 : At(t, h, c) \notin E
           /\ \A d \in SlotsOf(t) : At(t, h, d) \in E => First(t, h, E) <= d
  <1>1. PICK T : T = {d \in SlotsOf(t) : At(t, h, d) \in E}
    OBVIOUS
  <1>2. T \in SUBSET Nat /\ T # {}
    <2>1. SlotsOf(t) \subseteq Nat
      BY TableIs DEF SlotsOf
    <2>2. PICK d \in SlotsOf(t) : Slot(t, h, d) = i
      BY AllSlots
    <2> QED
      BY <1>1, <2>1, <2>2 DEF At
  <1>3. PICK d \in T : \A c \in T : d <= c
    BY <1>2, LeastNatural
  <1>4. \A c \in SlotsOf(t) : 0..c - 1 \subseteq SlotsOf(t) /\ c \in Nat
    BY TableIs DEF SlotsOf
  <1>5. d \in SlotsOf(t) /\ At(t, h, d) \in E /\ \A c \in 0..d - 1 : At(t, h, c) \notin E
    BY <1>1, <1>3, <1>4
  <1>6. /\ First(t, h, E) \in SlotsOf(t)
        /\ At(t, h, First(t, h, E)) \in E
        /\ \A c \in 0..First(t, h, E) - 1 : At(t, h, c) \notin E
    BY <1>5 DEF First
  <1>7. ASSUME NEW c \in SlotsOf(t), At(t, h, c) \in E PROVE First(t, h, E) <= c
    <2>1. c \notin 0..First(t, h, E) - 1
      BY <1>6, <1>7
    <2> QED
      BY <1>4, <1>6, <2>1
  <1> QED
    BY <1>6, <1>7

-----------------------------------------------------------------------------
(***************************************************************************)
(* Entries.                                                                *)
(***************************************************************************)

\* What the fields about shared bits say of the elements; until the first one is
\* added, all bits count as shared.
Masks(t, S) ==
    /\ t.common \subseteq t.mask /\ t.perfect \subseteq t.mask
    /\ HighBit \notin t.mask \/ (t.mask = Word /\ t.common = {} /\ S = {})
    /\ \A p \in S : p \cap t.mask = t.common

\* The elements of S are the table, p at the distance d[p] from its bucket.
Placed(t, S, d) ==
    /\ d \in [S -> SlotsOf(t)]
    /\ \A p \in S : At(t, H(p), d[p]) = Entry(t, p, d[p])
    /\ \A p \in S : \A c \in 0..d[p] - 1 : At(t, H(p), c) # {}
    /\ \A i \in Used(t) : \E p \in S : i = Slot(t, H(p), d[p])

\* An entry is told from a marker, and both the pointer and the bits of its hash
\* can be read from it.
LEMMA EntryIs ==
    ASSUME NEW t \in Table, NEW S \in SUBSET Ptr, Masks(t, S), NEW p \in S, NEW d
    PROVE  /\ Entry(t, p, d) \in SUBSET Word
           /\ Valid(Entry(t, p, d))
           /\ RawPtr(t, Entry(t, p, d)) = p
           /\ Extra(t, Entry(t, p, d)) = HashBits(t, H(p)) \cup Home(t, d)
           /\ Entry(t, p, d) \cap t.perfect = Home(t, d)
  <1>1. p \subseteq Word /\ HighBit \in p /\ HighBit # 0
    BY HighBitIs
  <1>2. /\ t.mask \subseteq Word /\ t.perfect \subseteq Word /\ t.common \subseteq t.mask
        /\ t.perfect \subseteq t.mask /\ HighBit \notin t.mask /\ p \cap t.mask = t.common
    BY TableIs DEF Masks
  <1>3. PICK hb : hb = HashBits(t, H(p))
    OBVIOUS
  <1>4. hb \subseteq t.mask /\ hb \cap t.perfect = {}
    BY <1>3 DEF HashBits
  <1>5. PICK hm : hm = Home(t, d)
    OBVIOUS
  <1>6. hm \subseteq t.mask /\ (hm = t.perfect \/ hm = {})
    BY <1>2, <1>5 DEF Home
  <1>7. PICK e : e = Entry(t, p, d)
    OBVIOUS
  <1>8. e = (p \ t.mask) \cup hb \cup hm
    BY <1>3, <1>5, <1>7 DEF Entry, H
  <1>9. e \subseteq Word /\ HighBit \in e
    BY <1>1, <1>2, <1>4, <1>6, <1>8
  <1>10. Valid(e)
    BY <1>1, <1>9 DEF Valid, Markers, Deleted
  <1>11. (e \ t.mask) \cup t.common = p
    BY <1>2, <1>4, <1>6, <1>8
  <1>12. e \cap t.mask = hb \cup hm
    BY <1>4, <1>6, <1>8
  <1>13. e \cap t.perfect = hm
    BY <1>2, <1>4, <1>6, <1>8
  <1> QED
    BY <1>3, <1>5, <1>7, <1>9, <1>10, <1>11, <1>12, <1>13 DEF RawPtr, Extra

\* What only depends on the size and on the bits that are shared.
SameBits(n, t) ==
    n.bits = t.bits /\ n.mask = t.mask /\ n.common = t.common /\ n.perfect = t.perfect

LEMMA SameSlots ==
    ASSUME NEW n, NEW t, SameBits(n, t)
    PROVE  /\ Size(n) = Size(t) /\ SlotsOf(n) = SlotsOf(t)
           /\ \A h : Bucket(n, h) = Bucket(t, h) /\ HashBits(n, h) = HashBits(t, h)
           /\ \A h, d : Slot(n, h, d) = Slot(t, h, d)
           /\ \A d : Home(n, d) = Home(t, d)
           /\ \A p, d : Entry(n, p, d) = Entry(t, p, d)
           /\ \A e : RawPtr(n, e) = RawPtr(t, e)
           /\ \A S : Masks(n, S) = Masks(t, S)
  <1>1. Size(n) = Size(t)
    BY DEF SameBits, Size
  <1>2. \A h : Bucket(n, h) = Bucket(t, h)
    BY <1>1 DEF Bucket
  <1>3. \A h, d : Slot(n, h, d) = Slot(t, h, d)
    BY <1>1, <1>2 DEF Slot
  <1>4. \A h : HashBits(n, h) = HashBits(t, h)
    BY DEF HashBits, SameBits
  <1>5. \A d : Home(n, d) = Home(t, d)
    BY DEF Home, SameBits
  <1>6. \A p, d : Entry(n, p, d) = Entry(t, p, d)
    BY <1>4, <1>5 DEF Entry, SameBits
  <1>7. \A e : RawPtr(n, e) = RawPtr(t, e)
    BY DEF RawPtr, SameBits
  <1>8. \A S : Masks(n, S) = Masks(t, S)
    BY DEF Masks, SameBits
  <1> QED
    BY <1>1, <1>2, <1>3, <1>4, <1>5, <1>6, <1>7, <1>8 DEF SlotsOf

\* Two elements are never in one slot.
LEMMA OneElement ==
    ASSUME NEW t \in Table, NEW S \in SUBSET Ptr, Masks(t, S), NEW d, Placed(t, S, d),
           NEW p \in S, NEW q \in S, Slot(t, H(p), d[p]) = Slot(t, H(q), d[q])
    PROVE  p = q
  <1>1. Entry(t, p, d[p]) = Entry(t, q, d[q])
    BY DEF Placed, At
  <1>2. RawPtr(t, Entry(t, p, d[p])) = p /\ RawPtr(t, Entry(t, q, d[q])) = q
    BY EntryIs
  <1> QED
    BY <1>1, <1>2

\* A used slot is that of the element whose pointer it holds.
LEMMA UsedIs ==
    ASSUME NEW t \in Table, NEW S \in SUBSET Ptr, Masks(t, S), NEW d, Placed(t, S, d),
           NEW i \in Used(t)
    PROVE  /\ RawPtr(t, t.table[i]) \in S
           /\ i = Slot(t, H(RawPtr(t, t.table[i])), d[RawPtr(t, t.table[i])])
  <1>1. PICK p \in S : i = Slot(t, H(p), d[p])
    BY DEF Placed
  <1>2. t.table[i] = Entry(t, p, d[p])
    BY <1>1 DEF Placed, At
  <1>3. RawPtr(t, t.table[i]) = p
    BY <1>2, EntryIs
  <1> QED
    BY <1>1, <1>3

LEMMA ElementIsUsed ==
    ASSUME NEW t \in Table, NEW S \in SUBSET Ptr, Masks(t, S), NEW d, Placed(t, S, d), NEW p \in S
    PROVE  /\ d[p] \in SlotsOf(t) /\ Slot(t, H(p), d[p]) \in Used(t)
           /\ t.table[Slot(t, H(p), d[p])] = Entry(t, p, d[p])
           /\ RawPtr(t, t.table[Slot(t, H(p), d[p])]) = p
  <1>1. d[p] \in SlotsOf(t) /\ t.table[Slot(t, H(p), d[p])] = Entry(t, p, d[p])
    BY DEF Placed, At
  <1>2. Slot(t, H(p), d[p]) \in SlotsOf(t)
    BY <1>1, SlotIs
  <1> QED
    BY <1>1, <1>2, EntryIs DEF Used

-----------------------------------------------------------------------------
(***************************************************************************)
(* ht_add.                                                                 *)
(***************************************************************************)

\* It takes the first slot that has a marker, from the bucket on.
LEMMA PutIs ==
    ASSUME NEW t \in Table, NEW S \in SUBSET Ptr, Masks(t, S), NEW q \in S,
           NEW i \in SlotsOf(t), ~Valid(t.table[i])
    PROVE  \E d \in SlotsOf(t), k \in SlotsOf(t) :
              /\ k = Slot(t, H(q), d) /\ ~Valid(t.table[k])
              /\ \A c \in 0..d - 1 : Valid(At(t, H(q), c))
              /\ \A c \in SlotsOf(t) : ~Valid(At(t, H(q), c)) => d <= c
              /\ Put(t, q) \in TableOf(t.bits) /\ SameBits(Put(t, q), t)
              /\ Put(t, q).shared = t.shared /\ Put(t, q).elems = t.elems
              /\ Put(t, q).deleted = t.deleted
              /\ Put(t, q).table = [t.table EXCEPT ![k] = Entry(t, q, d)]
  <1>1. PICK d : d = First(t, H(q), Markers)
    OBVIOUS
  <1>2. /\ d \in SlotsOf(t) /\ At(t, H(q), d) \in Markers
        /\ \A c \in 0..d - 1 : At(t, H(q), c) \notin Markers
        /\ \A c \in SlotsOf(t) : At(t, H(q), c) \in Markers => d <= c
    <2>1. t.table[i] \in Markers
      BY DEF Valid
    <2> QED
      BY <1>1, <2>1, FirstIs
  <1>3. PICK k \in SlotsOf(t) : k = Slot(t, H(q), d)
    BY <1>2, SlotIs
  <1>4. Put(t, q) = [t EXCEPT !.table[k] = Entry(t, q, d)]
    BY <1>1, <1>3 DEF Put, H
  <1>5. Entry(t, q, d) \in SUBSET Word
    BY EntryIs
  <1>6. t \in TableOf(t.bits)
    BY TableIs
  <1>7. PICK e \in SUBSET Word : e = Entry(t, q, d)
    BY <1>5
  <1>8. Put(t, q) = [t EXCEPT !.table[k] = e]
    BY <1>4, <1>7
  <1>9. /\ Put(t, q) \in TableOf(t.bits) /\ SameBits(Put(t, q), t)
        /\ Put(t, q).shared = t.shared /\ Put(t, q).elems = t.elems
        /\ Put(t, q).deleted = t.deleted
        /\ Put(t, q).table = [t.table EXCEPT ![k] = e]
    BY <1>6, <1>8 DEF TableOf, SameBits
  <1> QED
    BY <1>2, <1>3, <1>4, <1>7, <1>9 DEF Valid, At

\* The new element has its place, and the others keep theirs.
LEMMA PutPlaces ==
    ASSUME NEW t \in Table, NEW S \in SUBSET Ptr, NEW q \in Ptr, q \notin S,
           Masks(t, S \cup {q}), NEW d, Placed(t, S, d),
           NEW i \in SlotsOf(t), ~Valid(t.table[i])
    PROVE  /\ Put(t, q) \in TableOf(t.bits) /\ SameBits(Put(t, q), t)
           /\ Put(t, q).shared = t.shared /\ Put(t, q).elems = t.elems
           /\ Put(t, q).deleted = t.deleted
           /\ \E e : Placed(Put(t, q), S \cup {q}, e)
           /\ \E k \in SlotsOf(t) :
                 /\ ~Valid(t.table[k]) /\ Valid(Put(t, q).table[k])
                 /\ \A j \in SlotsOf(t) \ {k} : Put(t, q).table[j] = t.table[j]
  <1>1. PICK R \in SUBSET Ptr : R = S \cup {q}
    OBVIOUS
  <1>2. q \in R /\ Masks(t, R) /\ Masks(t, S)
    BY <1>1 DEF Masks
  <1>3. PICK dq \in SlotsOf(t), k \in SlotsOf(t) :
          /\ k = Slot(t, H(q), dq) /\ ~Valid(t.table[k])
          /\ \A c \in 0..dq - 1 : Valid(At(t, H(q), c))
          /\ Put(t, q) \in TableOf(t.bits) /\ SameBits(Put(t, q), t)
          /\ Put(t, q).shared = t.shared /\ Put(t, q).elems = t.elems
          /\ Put(t, q).deleted = t.deleted
          /\ Put(t, q).table = [t.table EXCEPT ![k] = Entry(t, q, dq)]
    BY <1>2, PutIs
  <1>4. PICK n : n = Put(t, q)
    OBVIOUS
  <1>5. /\ SlotsOf(n) = SlotsOf(t)
        /\ \A h, c : Slot(n, h, c) = Slot(t, h, c)
        /\ \A p, c : Entry(n, p, c) = Entry(t, p, c)
    BY <1>3, <1>4, SameSlots
  <1>6. /\ n.table[k] = Entry(t, q, dq) /\ Valid(n.table[k])
        /\ \A j \in SlotsOf(t) \ {k} : n.table[j] = t.table[j]
    <2>1. k \in DOMAIN t.table /\ SlotsOf(t) = DOMAIN t.table
      BY TableIs
    <2>2. Valid(Entry(t, q, dq))
      BY <1>2, EntryIs
    <2> QED
      BY <1>3, <1>4, <2>1, <2>2
  <1>7. ASSUME NEW p \in S PROVE d[p] \in SlotsOf(t) /\ Slot(t, H(p), d[p]) \in SlotsOf(t) \ {k}
    <2>1. Slot(t, H(p), d[p]) \in Used(t) /\ d[p] \in SlotsOf(t)
      BY <1>2, ElementIsUsed
    <2> QED
      BY <1>3, <2>1 DEF Used
  <1>8. \A c \in SlotsOf(t) : \A h : At(t, h, c) # {} => At(n, h, c) # {}
    <2> SUFFICES ASSUME NEW c \in SlotsOf(t), NEW h, At(t, h, c) # {} PROVE At(n, h, c) # {}
      OBVIOUS
    <2>1. Slot(t, h, c) \in SlotsOf(t)
      BY SlotIs
    <2> QED
      BY <1>5, <1>6, <2>1 DEF At, Valid, Markers
  <1>9. \A c \in SlotsOf(t) : 0..c - 1 \subseteq SlotsOf(t)
    BY TableIs DEF SlotsOf
  <1>10. PICK e : e = [p \in R |-> IF p = q THEN dq ELSE d[p]]
    OBVIOUS
  <1>11. e[q] = dq /\ \A p \in S : e[p] = d[p] /\ p # q
    BY <1>1, <1>10
  <1>12. Placed(n, R, e)
    <2>1. e \in [R -> SlotsOf(n)]
      BY <1>1, <1>3, <1>5, <1>7, <1>10
    <2>2. ASSUME NEW p \in R PROVE At(n, H(p), e[p]) = Entry(n, p, e[p])
      <3>1. CASE p = q
        BY <1>3, <1>5, <1>6, <1>11, <3>1 DEF At
      <3>2. CASE p \in S
        <4>1. At(t, H(p), d[p]) = Entry(t, p, d[p])
          BY <3>2 DEF Placed
        <4> QED
          BY <1>5, <1>6, <1>7, <1>11, <3>2, <4>1 DEF At
      <3> QED
        BY <1>1, <3>1, <3>2
    <2>3. ASSUME NEW p \in R, NEW c \in 0..e[p] - 1 PROVE At(n, H(p), c) # {}
      <3>1. CASE p = q
        <4>1. c \in SlotsOf(t) /\ At(t, H(q), c) # {}
          BY <1>3, <1>9, <1>11, <3>1 DEF Valid, Markers
        <4> QED
          BY <1>8, <3>1, <4>1
      <3>2. CASE p \in S
        <4>1. c \in SlotsOf(t) /\ At(t, H(p), c) # {}
          BY <1>7, <1>9, <1>11, <3>2 DEF Placed
        <4> QED
          BY <1>8, <4>1
      <3> QED
        BY <1>1, <3>1, <3>2
    <2>4. ASSUME NEW j \in Used(n) PROVE \E p \in R : j = Slot(n, H(p), e[p])
      <3>1. CASE j = k
        BY <1>2, <1>3, <1>5, <1>11, <3>1
      <3>2. CASE j # k
        <4>1. j \in Used(t)
          BY <1>5, <1>6, <3>2 DEF Used
        <4>2. PICK p \in S : j = Slot(t, H(p), d[p])
          BY <4>1 DEF Placed
        <4> QED
          BY <1>1, <1>5, <1>11, <4>2
      <3> QED
        BY <3>1, <3>2
    <2> QED
      BY <2>1, <2>2, <2>3, <2>4 DEF Placed
  <1> QED
    BY <1>1, <1>3, <1>4, <1>6, <1>12

-----------------------------------------------------------------------------
(***************************************************************************)
(* Counting.                                                               *)
(***************************************************************************)

DeletedSlots(t) == {i \in SlotsOf(t) : t.table[i] = Deleted}

LEMMA SlotsAreFinite ==
    ASSUME NEW t \in Table
    PROVE  /\ IsFiniteSet(SlotsOf(t)) /\ Cardinality(SlotsOf(t)) = Size(t)
           /\ \A U \in SUBSET SlotsOf(t) : IsFiniteSet(U) /\ Cardinality(U) \in Nat
  <1>1. PICK n \in Nat \ {0} : n = Size(t)
    BY TableIs
  <1>2. 0 \in Int /\ n - 1 \in Int /\ ~(0 > n - 1) /\ (n - 1) - 0 + 1 = n
    OBVIOUS
  <1>3. IsFiniteSet(0..n - 1) /\ Cardinality(0..n - 1) = n
    BY <1>2, FS_Interval
  <1> QED
    BY <1>1, <1>3, FS_Subset, FS_CardinalityType DEF SlotsOf

\* As many slots are used as there are elements.
LEMMA UsedCount ==
    ASSUME NEW t \in Table, NEW S \in SUBSET Ptr, Masks(t, S), NEW d, Placed(t, S, d)
    PROVE  IsFiniteSet(S) /\ Cardinality(Used(t)) = Cardinality(S) /\ Cardinality(S) \in Nat
  <1>1. PICK g : g = [p \in S |-> Slot(t, H(p), d[p])]
    OBVIOUS
  <1>2. g \in Injection(S, Used(t))
    <2>1. g \in [S -> Used(t)]
      BY <1>1, ElementIsUsed
    <2>2. \A p, q \in S : g[p] = g[q] => p = q
      BY <1>1, OneElement
    <2> QED
      BY <2>1, <2>2 DEF Injection, IsInjective
  <1>3. g \in Surjection(S, Used(t))
    <2>1. \A i \in Used(t) : \E p \in S : g[p] = i
      BY <1>1 DEF Placed
    <2> QED
      BY <1>2, <2>1 DEF Injection, Surjection
  <1>4. IsFiniteSet(Used(t)) /\ Cardinality(Used(t)) \in Nat
    BY SlotsAreFinite DEF Used
  <1> QED
    BY <1>2, <1>3, <1>4, FS_Injection

LEMMA SomeFree ==
    ASSUME NEW t \in Table, NEW S \in SUBSET Ptr, Masks(t, S), NEW d, Placed(t, S, d),
           Cardinality(S) < Size(t)
    PROVE  \E i \in SlotsOf(t) : ~Valid(t.table[i])
  <1>1. ASSUME \A i \in SlotsOf(t) : Valid(t.table[i]) PROVE FALSE
    <2>1. Used(t) = SlotsOf(t)
      BY <1>1 DEF Used
    <2>2. Cardinality(SlotsOf(t)) = Cardinality(S) /\ Cardinality(S) \in Nat
      BY <2>1, UsedCount
    <2> QED
      BY <2>2, SlotsAreFinite
  <1> QED
    BY <1>1

LEMMA SomeEmpty ==
    ASSUME NEW t \in Table, NEW S \in SUBSET Ptr, Masks(t, S), NEW d, Placed(t, S, d),
           Cardinality(S) + Cardinality(DeletedSlots(t)) < Size(t)
    PROVE  \E i \in SlotsOf(t) : t.table[i] = {}
  <1>1. ASSUME \A i \in SlotsOf(t) : t.table[i] # {} PROVE FALSE
    <2>1. PICK U, D : U = Used(t) /\ D = DeletedSlots(t)
      OBVIOUS
    <2>2. U \cup D = SlotsOf(t) /\ U \cap D = {}
      BY <1>1, <2>1 DEF Used, DeletedSlots, Valid, Markers
    <2>3. U \subseteq SlotsOf(t) /\ D \subseteq SlotsOf(t)
      BY <2>2
    <2>4. IsFiniteSet(U) /\ IsFiniteSet(D) /\ Cardinality(U) \in Nat /\ Cardinality(D) \in Nat
      BY <2>3, SlotsAreFinite
    <2>5. PICK V, W : V = U \cup D /\ W = U \cap D
      OBVIOUS
    <2>6. Cardinality(V) = Cardinality(U) + Cardinality(D) - Cardinality(W) /\ Cardinality(W) = 0
      <3>1. Cardinality(U \cup D) = Cardinality(U) + Cardinality(D) - Cardinality(U \cap D)
        BY <2>4, FS_Union
      <3>2. W = {}
        BY <2>2, <2>5
      <3> QED
        BY <2>5, <3>1, <3>2, FS_EmptySet
    <2>7. Cardinality(U) = Cardinality(S)
      BY <2>1, UsedCount
    <2>8. Cardinality(SlotsOf(t)) = Cardinality(U) + Cardinality(D)
      <3>1. V = SlotsOf(t)
        BY <2>2, <2>5
      <3> QED
        BY <2>4, <2>6, <3>1
    <2>9. Cardinality(SlotsOf(t)) = Size(t) /\ D = DeletedSlots(t)
      BY <2>1, SlotsAreFinite
    <2> QED
      BY <2>4, <2>7, <2>8, <2>9
  <1> QED
    BY <1>1

-----------------------------------------------------------------------------
(***************************************************************************)
(* double_table.                                                           *)
(***************************************************************************)

LEMMA PutType ==
    ASSUME NEW t \in Table, NEW p \in SUBSET Word
    PROVE  Put(t, p) \in TableOf(t.bits)
  <1>1. PICK d : d = First(t, H(p), Markers)
    OBVIOUS
  <1>2. PICK k : k = Slot(t, H(p), d)
    OBVIOUS
  <1>3. Put(t, p) = [t EXCEPT !.table[k] = Entry(t, p, d)]
    BY <1>1, <1>2 DEF Put, H
  <1>4. HashBits(t, H(p)) \subseteq Word /\ Home(t, d) \subseteq Word
    BY TableIs DEF HashBits, Home
  <1>5. PICK e \in SUBSET Word : e = Entry(t, p, d)
    BY <1>4 DEF Entry, H
  <1>6. t \in TableOf(t.bits) /\ Put(t, p) = [t EXCEPT !.table[k] = e]
    BY <1>3, <1>5, TableIs
  <1> QED
    BY <1>6 DEF TableOf

\* The fields of the new table, before an entry is moved.
Regained(t) ==
    IF t.perfect = {} /\ t.mask # {}
    THEN {CHOOSE i \in t.mask : \A j \in t.mask : i <= j} ELSE t.perfect
NewTable(t) ==
    [t EXCEPT !.bits = @ + 1, !.table = EmptyTable(t.bits + 1), !.shared = FALSE,
              !.perfect = Regained(t), !.deleted = 0]

LEMMA NewTableIs ==
    ASSUME NEW t \in Table, NEW S \in SUBSET Ptr, Masks(t, S)
    PROVE  /\ NewTable(t) \in TableOf(t.bits + 1) /\ NewTable(t) \in Table
           /\ NewTable(t).bits = t.bits + 1 /\ Size(NewTable(t)) = 2 * Size(t)
           /\ NewTable(t).mask = t.mask /\ NewTable(t).common = t.common
           /\ NewTable(t).shared = FALSE /\ NewTable(t).elems = t.elems /\ NewTable(t).deleted = 0
           /\ \A i \in SlotsOf(NewTable(t)) : NewTable(t).table[i] = {}
           /\ Masks(NewTable(t), S)
           /\ \E e : Placed(NewTable(t), {}, e)
  <1>1. PICK r : r = Regained(t)
    OBVIOUS
  <1>2. r \subseteq t.mask /\ t.mask \subseteq Word
    <2>1. CASE t.perfect = {} /\ t.mask # {}
      <3>1. t.mask \in SUBSET Nat
        BY TableIs DEF Word
      <3>2. PICK i \in t.mask : \A j \in t.mask : i <= j
        BY <2>1, <3>1, LeastNatural
      <3>3. (CHOOSE k \in t.mask : \A j \in t.mask : k <= j) \in t.mask
        BY <3>2
      <3> QED
        BY <1>1, <2>1, <3>3, TableIs DEF Regained
    <2>2. CASE ~(t.perfect = {} /\ t.mask # {})
      BY <1>1, <2>2, TableIs DEF Regained, Masks
    <2> QED
      BY <2>1, <2>2
  <1>3. PICK b \in Nat : b = t.bits
    BY TableIs
  <1>4. PICK T : T = EmptyTable(b + 1)
    OBVIOUS
  <1>5. T \in [0..Pow2[b + 1] - 1 -> SUBSET Word] /\ \A i \in 0..Pow2[b + 1] - 1 : T[i] = {}
    BY <1>4 DEF EmptyTable
  <1>6. t \in TableOf(b) /\ b + 1 \in Nat
    BY <1>3, TableIs
  <1>7. PICK n : n = NewTable(t)
    OBVIOUS
  <1>8. n = [t EXCEPT !.bits = b + 1, !.table = T, !.shared = FALSE, !.perfect = r, !.deleted = 0]
    BY <1>1, <1>3, <1>4, <1>6, <1>7 DEF NewTable, TableOf
  <1>9. /\ n \in TableOf(b + 1) /\ n.bits = b + 1 /\ n.mask = t.mask /\ n.common = t.common
        /\ n.perfect = r /\ n.shared = FALSE /\ n.elems = t.elems /\ n.deleted = 0 /\ n.table = T
    BY <1>2, <1>5, <1>6, <1>8 DEF TableOf
  <1>10. n \in Table
    BY <1>6, <1>9 DEF Table
  <1>11. Size(n) = 2 * Size(t) /\ SlotsOf(n) = 0..Pow2[b + 1] - 1
    BY <1>3, <1>9, Powers DEF Size, SlotsOf
  <1>12. Masks(n, S)
    BY <1>2, <1>9 DEF Masks
  <1>13. \A i \in SlotsOf(n) : n.table[i] = {}
    BY <1>5, <1>9, <1>11
  <1>14. Placed(n, {}, [p \in {} |-> 0])
    BY <1>13 DEF Placed, Used, Valid, Markers
  <1> QED
    BY <1>3, <1>7, <1>9, <1>10, <1>11, <1>12, <1>13, <1>14

\* The elements whose entries double_table has moved when it is at slot i.
MovedBefore(t, S, d, i) == {p \in S : Slot(t, H(p), d[p]) < i}

DoubleInv(t, S, d, n, i) ==
    /\ n \in TableOf(t.bits + 1) /\ SameBits(n, NewTable(t))
    /\ n.shared = FALSE /\ n.elems = t.elems /\ n.deleted = 0
    /\ \A j \in SlotsOf(n) : n.table[j] # Deleted
    /\ \E e : Placed(n, MovedBefore(t, S, d, i), e)

LEMMA DoubleTurn ==
    ASSUME NEW t \in Table, NEW S \in SUBSET Ptr, Masks(t, S), NEW d, Placed(t, S, d),
           NEW i \in 1..Size(t), NEW n, DoubleInv(t, S, d, n, i - 1)
    PROVE  DoubleInv(t, S, d,
              IF Valid(t.table[i - 1]) THEN Put(n, RawPtr(t, t.table[i - 1])) ELSE n, i)
  <1>1. PICK N \in Nat \ {0} : N = Size(t)
    BY TableIs
  <1>2. i \in 1..N /\ i - 1 \in SlotsOf(t) /\ SlotsOf(t) = 0..N - 1
    BY <1>1 DEF SlotsOf
  <1>3. PICK R : R = MovedBefore(t, S, d, i - 1)
    OBVIOUS
  <1>4. PICK Q : Q = MovedBefore(t, S, d, i)
    OBVIOUS
  <1>5. \A p \in S : Slot(t, H(p), d[p]) \in 0..N - 1
    BY <1>2, ElementIsUsed DEF Used
  <1>6. R \subseteq S /\ Q \subseteq S
    BY <1>3, <1>4 DEF MovedBefore
  <1>7. n \in Table /\ t.bits + 1 \in Nat
    BY TableIs DEF DoubleInv, Table
  <1>8. CASE Valid(t.table[i - 1])
    <2>1. PICK q : q = RawPtr(t, t.table[i - 1])
      OBVIOUS
    <2>2. q \in S /\ i - 1 = Slot(t, H(q), d[q])
      <3>1. i - 1 \in Used(t)
        BY <1>2, <1>8 DEF Used
      <3> QED
        BY <2>1, <3>1, UsedIs
    <2>3. q \notin R
      BY <1>2, <1>3, <2>2 DEF MovedBefore
    <2>4. Q = R \cup {q}
      <3>1. ASSUME NEW p \in S, Slot(t, H(p), d[p]) = i - 1 PROVE p = q
        BY <2>2, <3>1, OneElement
      <3>2. \A p \in S : Slot(t, H(p), d[p]) < i <=> Slot(t, H(p), d[p]) < i - 1 \/ Slot(t, H(p), d[p]) = i - 1
        BY <1>2, <1>5
      <3> QED
        BY <1>3, <1>4, <2>2, <3>1, <3>2 DEF MovedBefore
    <2>5. Masks(n, S) /\ Masks(n, R \cup {q}) /\ Masks(n, R)
      <3>1. Masks(NewTable(t), S)
        BY NewTableIs
      <3>2. Masks(n, S)
        BY <3>1, SameSlots DEF DoubleInv
      <3> QED
        BY <1>6, <2>2, <3>2 DEF Masks
    <2>6. PICK e : Placed(n, R, e)
      BY <1>3 DEF DoubleInv
    <2>7. PICK free \in SlotsOf(n) : ~Valid(n.table[free])
      <3>1. IsFiniteSet(S) /\ Cardinality(S) = Cardinality(Used(t)) /\ Cardinality(S) \in Nat
        BY UsedCount
      <3>2. Cardinality(Used(t)) <= N
        <4>1. Used(t) \subseteq SlotsOf(t)
          BY DEF Used
        <4> QED
          BY <1>1, <4>1, SlotsAreFinite, FS_Subset
      <3>3. IsFiniteSet(R) /\ Cardinality(R) <= Cardinality(S) /\ Cardinality(R) \in Nat
        BY <1>6, <3>1, FS_Subset, FS_CardinalityType
      <3>4. Size(n) = 2 * N
        <4>1. Size(NewTable(t)) = 2 * N
          BY <1>1, NewTableIs
        <4> QED
          BY <4>1, SameSlots DEF DoubleInv
      <3>5. Cardinality(R) < Size(n)
        BY <3>1, <3>2, <3>3, <3>4
      <3>6. R \in SUBSET Ptr
        BY <1>6
      <3> QED
        BY <1>7, <2>5, <2>6, <3>5, <3>6, SomeFree
    <2>8. R \in SUBSET Ptr /\ q \in Ptr
      BY <1>6, <2>2
    <2>9. /\ Put(n, q) \in TableOf(n.bits) /\ SameBits(Put(n, q), n)
          /\ Put(n, q).shared = n.shared /\ Put(n, q).elems = n.elems
          /\ Put(n, q).deleted = n.deleted
          /\ \E c : Placed(Put(n, q), R \cup {q}, c)
          /\ \E k \in SlotsOf(n) :
                /\ ~Valid(n.table[k]) /\ Valid(Put(n, q).table[k])
                /\ \A j \in SlotsOf(n) \ {k} : Put(n, q).table[j] = n.table[j]
      BY <1>7, <2>3, <2>5, <2>6, <2>7, <2>8, PutPlaces
    <2>10. n.bits = t.bits + 1 /\ SlotsOf(Put(n, q)) = SlotsOf(n)
      BY <2>9, SameSlots DEF DoubleInv, TableOf
    <2>11. \A j \in SlotsOf(Put(n, q)) : Put(n, q).table[j] # Deleted
      BY <2>9, <2>10 DEF DoubleInv, Valid, Markers
    <2>12. SameBits(Put(n, q), NewTable(t))
      BY <2>9 DEF DoubleInv, SameBits
    <2>13. DoubleInv(t, S, d, Put(n, q), i)
      BY <1>4, <2>4, <2>9, <2>10, <2>11, <2>12 DEF DoubleInv
    <2> QED
      BY <1>8, <2>1, <2>13
  <1>9. CASE ~Valid(t.table[i - 1])
    <2>1. \A p \in S : Slot(t, H(p), d[p]) # i - 1
      BY <1>9, ElementIsUsed DEF Used
    <2>2. \A p \in S : Slot(t, H(p), d[p]) < i <=> Slot(t, H(p), d[p]) < i - 1
      BY <1>2, <1>5, <2>1
    <2>3. Q = R
      BY <1>3, <1>4, <2>2 DEF MovedBefore
    <2> QED
      BY <1>3, <1>4, <1>9, <2>3 DEF DoubleInv
  <1> QED
    BY <1>8, <1>9

\* double_table keeps the elements, in a table of twice the size.
LEMMA DoubledIs ==
    ASSUME NEW t \in Table, NEW S \in SUBSET Ptr, Masks(t, S), NEW d, Placed(t, S, d),
           t.shared => S = {}
    PROVE  /\ Doubled(t) \in Table /\ Doubled(t).bits = t.bits + 1
           /\ Size(Doubled(t)) = 2 * Size(t) /\ Doubled(t).shared = FALSE
           /\ Doubled(t).elems = t.elems /\ Doubled(t).deleted = 0
           /\ Masks(Doubled(t), S)
           /\ \A j \in SlotsOf(Doubled(t)) : Doubled(t).table[j] # Deleted
           /\ \E e : Placed(Doubled(t), S, e)
  <1>1. PICK new : new = NewTable(t)
    OBVIOUS
  <1>2. /\ new \in TableOf(t.bits + 1) /\ new \in Table /\ new.bits = t.bits + 1
        /\ Size(new) = 2 * Size(t) /\ new.shared = FALSE /\ new.elems = t.elems /\ new.deleted = 0
        /\ Masks(new, S) /\ \A i \in SlotsOf(new) : new.table[i] = {}
        /\ \E e : Placed(new, {}, e)
    BY <1>1, NewTableIs
  <1>3. CASE t.shared
    <2>1. Doubled(t) = new
      BY <1>1, <1>3 DEF Doubled, NewTable, Regained
    <2> QED
      BY <1>2, <1>3, <2>1 DEF Deleted
  <1>4. CASE ~t.shared
    <2>1. PICK N \in Nat \ {0} : N = Size(t)
      BY TableIs
    <2>2. PICK b \in Nat : b = t.bits + 1
      BY TableIs
    <2>3. PICK g : g = [i \in 1..N |-> [n \in TableOf(b) |->
              IF Valid(t.table[i - 1]) THEN Put(n, RawPtr(t, t.table[i - 1])) ELSE n]]
      OBVIOUS
    <2>4. g \in [1..N -> [TableOf(b) -> TableOf(b)]]
      <3>1. ASSUME NEW i \in 1..N, NEW n \in TableOf(b)
            PROVE  (IF Valid(t.table[i - 1]) THEN Put(n, RawPtr(t, t.table[i - 1])) ELSE n) \in TableOf(b)
        <4>1. n \in Table /\ n.bits = b
          BY <2>2 DEF Table, TableOf
        <4>2. i - 1 \in SlotsOf(t)
          BY <2>1 DEF SlotsOf
        <4>3. RawPtr(t, t.table[i - 1]) \in SUBSET Word
          BY <4>2, TableIs DEF RawPtr
        <4> QED
          BY <4>1, <4>3, PutType
      <3> QED
        BY <2>3, <3>1
    <2>5. PICK v : /\ v \in [0..N -> TableOf(b)] /\ v[0] = new
                   /\ \A i \in 1..N : v[i] = g[i][v[i - 1]]
      <3>1. PICK v : IsLoop(v, TableOf(b), new, N, g)
        BY <1>2, <2>2, <2>4, RecursiveFunction
      <3> QED
        BY <3>1 DEF IsLoop
    <2> DEFINE Code(u) == u = [i \in 0..N |->
                  IF i = 0 THEN new
                  ELSE IF Valid(t.table[i - 1]) THEN Put(u[i - 1], RawPtr(t, t.table[i - 1]))
                  ELSE u[i - 1]]
    <2>6. PICK loop : Code(loop) /\ Doubled(t) = loop[N]
      <3>1. Doubled(t) = (CHOOSE u : Code(u))[N]
        BY <1>1, <1>4, <2>1 DEF Doubled, NewTable, Regained
      <3>2. Code(v)
        <4>1. \A i \in 0..N : i = 0 \/ i \in 1..N
          OBVIOUS
        <4>2. ASSUME NEW i \in 1..N
              PROVE  v[i] = IF Valid(t.table[i - 1]) THEN Put(v[i - 1], RawPtr(t, t.table[i - 1]))
                            ELSE v[i - 1]
          <5>1. v[i - 1] \in TableOf(b)
            BY <2>5
          <5> QED
            BY <2>3, <2>5, <5>1
        <4> QED
          BY <2>5, <4>1, <4>2
      <3> QED
        BY <3>1, <3>2
    <2>7. PICK X : X = {i \in 0..N : DoubleInv(t, S, d, loop[i], i)}
      OBVIOUS
    <2>8. 0 \in X
      <3>1. MovedBefore(t, S, d, 0) = {}
        <4>1. \A p \in S : Slot(t, H(p), d[p]) \in 0..N - 1
          BY <2>1, ElementIsUsed DEF Used, SlotsOf
        <4> QED
          BY <4>1 DEF MovedBefore
      <3>2. SameBits(new, NewTable(t))
        BY <1>1 DEF SameBits
      <3>3. DoubleInv(t, S, d, new, 0)
        BY <1>2, <3>1, <3>2 DEF DoubleInv, Deleted
      <3> QED
        BY <2>6, <2>7, <3>3
    <2>9. ASSUME NEW i \in 1..N, i - 1 \in X PROVE i \in X
      <3>1. PICK n : n = loop[i - 1]
        OBVIOUS
      <3>2. DoubleInv(t, S, d, n, i - 1) /\ i \in 0..N /\ i # 0
        BY <2>7, <2>9, <3>1
      <3>3. loop[i] = IF Valid(t.table[i - 1]) THEN Put(n, RawPtr(t, t.table[i - 1])) ELSE n
        BY <2>6, <3>1, <3>2
      <3>4. DoubleInv(t, S, d, loop[i], i)
        BY <2>1, <3>2, <3>3, DoubleTurn
      <3> QED
        BY <2>7, <3>2, <3>4
    <2>10. DoubleInv(t, S, d, loop[N], N)
      <3>1. \A i \in 0..N : i \in X
        BY <2>8, <2>9, TurnByTurn
      <3> QED
        BY <2>7, <3>1
    <2>11. MovedBefore(t, S, d, N) = S
      <3>1. \A p \in S : Slot(t, H(p), d[p]) \in 0..N - 1
        BY <2>1, ElementIsUsed DEF Used, SlotsOf
      <3> QED
        BY <3>1 DEF MovedBefore
    <2>13. PICK n : n = loop[N]
      OBVIOUS
    <2>14. n \in TableOf(b) /\ n \in Table /\ n.bits = b
      <3>1. n \in TableOf(b)
        BY <2>2, <2>10, <2>13 DEF DoubleInv
      <3> QED
        BY <3>1 DEF Table, TableOf
    <2>15. Size(n) = Size(new) /\ Masks(n, S)
      BY <1>1, <1>2, <2>10, <2>13, SameSlots DEF DoubleInv
    <2> QED
      BY <1>2, <2>2, <2>6, <2>10, <2>11, <2>13, <2>14, <2>15 DEF DoubleInv
  <1> QED
    BY <1>3, <1>4, TableIs

-----------------------------------------------------------------------------
(***************************************************************************)
(* update_common.                                                          *)
(***************************************************************************)

\* The bits that are not shared any more, back in the entry e.
Differ(t, q) == Xor(t.common, q \cap t.mask)
Unshare(t, q, e) == IF Valid(e) THEN (e \ Differ(t, q)) \cup (t.common \cap Differ(t, q)) ELSE e
UnsharedTable(t, q) == [i \in SlotsOf(t) |-> Unshare(t, q, t.table[i])]

\* The bits of the first element, but for the highest.
LEMMA FirstElement ==
    ASSUME NEW t \in Table, NEW d, Placed(t, {}, d), NEW q \in Ptr, t.elems = 0
    PROVE  /\ UpdateCommon(t, q) \in TableOf(t.bits) /\ UpdateCommon(t, q).bits = t.bits
           /\ UpdateCommon(t, q).shared = t.shared /\ UpdateCommon(t, q).elems = t.elems
           /\ UpdateCommon(t, q).deleted = t.deleted
           /\ UpdateCommon(t, q).table = t.table
           /\ Masks(UpdateCommon(t, q), {q})
           /\ Placed(UpdateCommon(t, q), {}, d)
  <1>1. HighBit \in Word /\ HighBit \in q /\ HighBit # 0 /\ q \subseteq Word /\ \A i \in q : i <= HighBit
    BY HighBitIs
  <1>2. (CHOOSE i \in q : \A j \in q : j <= i) = HighBit
    <2>1. \A i \in q : i \in Nat
      BY <1>1 DEF Word
    <2>2. \A i \in q : (\A j \in q : j <= i) => i = HighBit
      BY <1>1, <2>1
    <2> QED
      BY <1>1, <2>2
  <1>3. PICK n : n = UpdateCommon(t, q)
    OBVIOUS
  <1>4. n = [t EXCEPT !.mask = Word \ {HighBit}, !.common = q \ {HighBit}, !.perfect = {0}]
    BY <1>2, <1>3 DEF UpdateCommon
  <1>5. 0 \in Word
    BY HTableAssumption DEF Word
  <1>6. t \in TableOf(t.bits)
    BY TableIs
  <1>7. /\ n \in TableOf(t.bits) /\ n.bits = t.bits /\ n.shared = t.shared
        /\ n.elems = t.elems /\ n.deleted = t.deleted /\ n.table = t.table
        /\ n.mask = Word \ {HighBit} /\ n.common = q \ {HighBit} /\ n.perfect = {0}
    BY <1>1, <1>4, <1>5, <1>6 DEF TableOf
  <1>8. Masks(n, {q})
    BY <1>1, <1>5, <1>7 DEF Masks
  <1>9. SlotsOf(n) = SlotsOf(t)
    BY <1>7 DEF SlotsOf, Size
  <1>10. Placed(n, {}, d)
    <2>1. Used(n) = {} /\ d \in [{} -> SlotsOf(n)]
      BY <1>7, <1>9 DEF Placed, Used
    <2> QED
      BY <2>1 DEF Placed
  <1> QED
    BY <1>3, <1>7, <1>8, <1>10

\* The entries of the others stand for the same pointers and hashes as before.
LEMMA UnsharedEntry ==
    ASSUME NEW t \in Table, NEW S \in SUBSET Ptr, Masks(t, S), NEW p \in S, NEW q \in Ptr,
           NEW n, n.bits = t.bits, n.mask = t.mask \ Differ(t, q),
           n.perfect = t.perfect \ Differ(t, q), NEW d
    PROVE  Entry(n, p, d) = Unshare(t, q, Entry(t, p, d))
  <1>1. PICK D : D = Differ(t, q)
    OBVIOUS
  <1>2. PICK X : X = Xor(H(p), Shift(H(p), t.bits))
    OBVIOUS
  <1>3. PICK M, C, P : M = t.mask /\ C = t.common /\ P = t.perfect
    OBVIOUS
  <1>4. p \cap M = C /\ C \subseteq M
    BY <1>3 DEF Masks
  <1>5. HashBits(t, H(p)) = (X \cap M) \ P /\ HashBits(n, H(p)) = (X \cap (M \ D)) \ (P \ D)
    BY <1>1, <1>2, <1>3 DEF HashBits
  <1>6. PICK h : h = IF d = 0 THEN P ELSE {}
    OBVIOUS
  <1>7. Home(t, d) = h /\ Home(n, d) = h \ D
    BY <1>1, <1>3, <1>6 DEF Home
  <1>8. Entry(t, p, d) = (p \ M) \cup ((X \cap M) \ P) \cup h
    BY <1>3, <1>5, <1>7 DEF Entry, H
  <1>9. Entry(n, p, d) = (p \ (M \ D)) \cup ((X \cap (M \ D)) \ (P \ D)) \cup (h \ D)
    BY <1>1, <1>3, <1>5, <1>7 DEF Entry, H
  <1>10. D \subseteq M
    BY <1>1, <1>3, <1>4 DEF Differ, Xor
  <1>11. (p \ (M \ D)) = ((p \ M) \ D) \cup (C \cap D)
    BY <1>4, <1>10
  <1>12. ((X \cap (M \ D)) \ (P \ D)) = ((X \cap M) \ P) \ D
    OBVIOUS
  <1>13. Entry(n, p, d) = (Entry(t, p, d) \ D) \cup (C \cap D)
    BY <1>8, <1>9, <1>11, <1>12
  <1>14. Valid(Entry(t, p, d))
    BY EntryIs
  <1> QED
    BY <1>1, <1>3, <1>13, <1>14 DEF Unshare

\* update_common leaves every element in its slot.
LEMMA UpdateIs ==
    ASSUME NEW t \in Table, NEW S \in SUBSET Ptr, Masks(t, S), NEW d, Placed(t, S, d),
           t.elems = 0 <=> S = {}, NEW q \in Ptr
    PROVE  /\ UpdateCommon(t, q) \in TableOf(t.bits) /\ UpdateCommon(t, q).bits = t.bits
           /\ UpdateCommon(t, q).shared = t.shared /\ UpdateCommon(t, q).elems = t.elems
           /\ UpdateCommon(t, q).deleted = t.deleted
           /\ Masks(UpdateCommon(t, q), S \cup {q})
           /\ Placed(UpdateCommon(t, q), S, d)
           /\ \A i \in SlotsOf(t) : ~Valid(t.table[i]) => UpdateCommon(t, q).table[i] = t.table[i]
           /\ \A i \in SlotsOf(t) : Valid(t.table[i]) => Valid(UpdateCommon(t, q).table[i])
  <1>1. CASE S = {}
    <2>1. Placed(t, {}, d) /\ t.elems = 0 /\ S \cup {q} = {q}
      BY <1>1
    <2>2. UpdateCommon(t, q).table = t.table
      BY <2>1, FirstElement
    <2> QED
      BY <1>1, <2>1, <2>2, FirstElement
  <1>2. CASE S # {}
    <2>1. PICK n : n = UpdateCommon(t, q)
      OBVIOUS
    <2>2. PICK D : D = Differ(t, q)
      OBVIOUS
    <2>3. PICK T : T = UnsharedTable(t, q)
      OBVIOUS
    <2>4. n = [t EXCEPT !.table = T, !.mask = @ \ D, !.common = @ \ D, !.perfect = @ \ D]
      <3>1. DOMAIN t.table = SlotsOf(t) /\ t.elems # 0
        BY <1>2, TableIs
      <3> QED
        BY <2>1, <2>2, <2>3, <3>1 DEF UpdateCommon, UnsharedTable, Unshare, Differ
    <2>5. T \in [SlotsOf(t) -> SUBSET Word] /\ \A i \in SlotsOf(t) : T[i] = Unshare(t, q, t.table[i])
      <3>1. ASSUME NEW i \in SlotsOf(t) PROVE Unshare(t, q, t.table[i]) \in SUBSET Word
        <4>1. t.table[i] \in SUBSET Word /\ t.common \subseteq Word
          BY TableIs
        <4> QED
          BY <4>1 DEF Unshare
      <3> QED
        BY <2>3, <3>1 DEF UnsharedTable
    <2>6. t \in TableOf(t.bits) /\ SlotsOf(t) = 0..Pow2[t.bits] - 1
      BY TableIs DEF SlotsOf
    <2>7. PICK M, C, P \in SUBSET Word : M = t.mask \ D /\ C = t.common \ D /\ P = t.perfect \ D
      <3>1. t.mask \ D \in SUBSET Word /\ t.common \ D \in SUBSET Word /\ t.perfect \ D \in SUBSET Word
        BY TableIs
      <3> QED
        BY <3>1
    <2>8. n = [t EXCEPT !.table = T, !.mask = M, !.common = C, !.perfect = P]
      BY <2>4, <2>6, <2>7 DEF TableOf
    <2>9. /\ n \in TableOf(t.bits) /\ n.bits = t.bits /\ n.shared = t.shared
          /\ n.elems = t.elems /\ n.deleted = t.deleted /\ n.table = T
          /\ n.mask = M /\ n.common = C /\ n.perfect = P
      BY <2>5, <2>6, <2>8 DEF TableOf
    <2>10. Masks(n, S \cup {q})
      <3>1. HighBit \notin t.mask /\ t.common \subseteq t.mask /\ t.perfect \subseteq t.mask
        BY <1>2 DEF Masks
      <3>2. HighBit \notin M /\ C \subseteq M /\ P \subseteq M
        BY <2>7, <3>1
      <3>3. ASSUME NEW p \in S PROVE p \cap M = C
        <4>1. p \cap t.mask = t.common
          BY DEF Masks
        <4> QED
          BY <2>7, <4>1
      <3>4. q \cap M = C
        <4>1. D = (t.common \ (q \cap t.mask)) \cup ((q \cap t.mask) \ t.common)
          BY <2>2 DEF Differ, Xor
        <4> QED
          BY <2>7, <3>1, <4>1
      <3> QED
        BY <2>9, <3>2, <3>3, <3>4 DEF Masks
    <2>11. /\ SlotsOf(n) = SlotsOf(t) /\ \A h, c : Slot(n, h, c) = Slot(t, h, c)
      <3>1. Size(n) = Size(t)
        BY <2>9 DEF Size
      <3> QED
        BY <3>1 DEF SlotsOf, Slot, Bucket
    <2>12. \A i \in SlotsOf(t) : /\ ~Valid(t.table[i]) => n.table[i] = t.table[i]
                                 /\ Valid(t.table[i]) => Valid(n.table[i])
      <3>1. ASSUME NEW i \in SlotsOf(t), ~Valid(t.table[i]) PROVE n.table[i] = t.table[i]
        BY <2>5, <2>9, <3>1 DEF Unshare
      <3>2. ASSUME NEW i \in SlotsOf(t), Valid(t.table[i]) PROVE Valid(n.table[i])
        <4>1. PICK p \in S : i = Slot(t, H(p), d[p])
          BY <3>2 DEF Placed, Used
        <4>2. t.table[i] = Entry(t, p, d[p])
          BY <4>1 DEF Placed, At
        <4>3. n.table[i] = Entry(n, p, d[p])
          BY <2>2, <2>5, <2>7, <2>9, <4>2, UnsharedEntry
        <4>4. n \in Table /\ S \cup {q} \in SUBSET Ptr /\ p \in S \cup {q}
          BY <2>9, TableIs DEF Table
        <4> QED
          BY <2>10, <4>3, <4>4, EntryIs
      <3> QED
        BY <3>1, <3>2
    <2>13. Placed(n, S, d)
      <3>1. d \in [S -> SlotsOf(n)]
        BY <2>11 DEF Placed
      <3>2. ASSUME NEW p \in S PROVE At(n, H(p), d[p]) = Entry(n, p, d[p])
        <4>1. Slot(t, H(p), d[p]) \in SlotsOf(t) /\ t.table[Slot(t, H(p), d[p])] = Entry(t, p, d[p])
          BY ElementIsUsed DEF Used
        <4>2. Entry(n, p, d[p]) = Unshare(t, q, Entry(t, p, d[p]))
          BY <2>2, <2>7, <2>9, UnsharedEntry
        <4> QED
          BY <2>5, <2>9, <2>11, <4>1, <4>2 DEF At
      <3>3. ASSUME NEW p \in S, NEW c \in 0..d[p] - 1 PROVE At(n, H(p), c) # {}
        <4>1. At(t, H(p), c) # {}
          BY DEF Placed
        <4>2. Slot(t, H(p), c) \in SlotsOf(t)
          <5>1. d[p] \in SlotsOf(t)
            BY DEF Placed
          <5>2. c \in SlotsOf(t)
            BY <5>1, TableIs DEF SlotsOf
          <5> QED
            BY <5>2, SlotIs
        <4> QED
          BY <2>11, <2>12, <4>1, <4>2 DEF At, Valid, Markers
      <3>4. ASSUME NEW i \in Used(n) PROVE \E p \in S : i = Slot(n, H(p), d[p])
        <4>1. i \in Used(t)
          BY <2>11, <2>12 DEF Used
        <4> QED
          BY <2>11, <4>1 DEF Placed
      <3> QED
        BY <3>1, <3>2, <3>3, <3>4 DEF Placed
    <2> QED
      BY <2>1, <2>9, <2>10, <2>12, <2>13
  <1> QED
    BY <1>1, <1>2

-----------------------------------------------------------------------------
(***************************************************************************)
(* rehash_table.  Slots are counted from the first empty one, in the order *)
(* of its loop: no element is on the other side of that slot from its      *)
(* bucket, so that counted like this the distances do not wrap.            *)
(***************************************************************************)

\* The slot of turn o of the loop, and the turn of the bucket of p.
TurnSlot(t, o) == (o + FirstEmpty(t)) % Size(t)
BucketTurn(t, p) == CHOOSE o \in SlotsOf(t) : TurnSlot(t, o) = Bucket(t, H(p))

LEMMA TurnIs ==
    ASSUME NEW t \in Table, NEW free \in SlotsOf(t), t.table[free] = {}
    PROVE  /\ FirstEmpty(t) \in SlotsOf(t) /\ t.table[FirstEmpty(t)] = {}
           /\ \A o \in SlotsOf(t) :
                 /\ TurnSlot(t, o) \in SlotsOf(t)
                 /\ TurnSlot(t, o) = IF o + FirstEmpty(t) < Size(t) THEN o + FirstEmpty(t)
                                     ELSE o + FirstEmpty(t) - Size(t)
           /\ \A o, c \in SlotsOf(t) : TurnSlot(t, o) = TurnSlot(t, c) => o = c
           /\ \A i \in SlotsOf(t) : \E o \in SlotsOf(t) : i = TurnSlot(t, o)
  <1>1. PICK T : T = {s \in SlotsOf(t) : t.table[s] = {}}
    OBVIOUS
  <1>2. T \in SUBSET Nat /\ T # {}
    BY <1>1, TableIs DEF SlotsOf
  <1>3. PICK s \in T : \A r \in T : s <= r
    BY <1>2, LeastNatural
  <1>4. \A r \in 0..s - 1 : r \in SlotsOf(t) /\ ~(s <= r)
    BY <1>1, TableIs DEF SlotsOf
  <1>5. s \in SlotsOf(t) /\ t.table[s] = {} /\ \A r \in 0..s - 1 : t.table[r] # {}
    BY <1>1, <1>3, <1>4
  <1>6. FirstEmpty(t) \in SlotsOf(t) /\ t.table[FirstEmpty(t)] = {}
    BY <1>5 DEF FirstEmpty
  <1>7. PICK n \in Nat \ {0} : n = Size(t)
    BY TableIs
  <1>8. PICK a \in 0..n - 1 : a = FirstEmpty(t)
    BY <1>6, <1>7 DEF SlotsOf
  <1>9. \A o \in 0..n - 1 : TurnSlot(t, o) = IF o + a < n THEN o + a ELSE o + a - n
    BY <1>7, <1>8, Around DEF TurnSlot
  <1>10. \A i \in 0..n - 1 : \E o \in 0..n - 1 : i = TurnSlot(t, o)
    <2> SUFFICES ASSUME NEW i \in 0..n - 1 PROVE \E o \in 0..n - 1 : i = TurnSlot(t, o)
      OBVIOUS
    <2>1. PICK o : o = IF a <= i THEN i - a ELSE i - a + n
      OBVIOUS
    <2>2. o \in 0..n - 1 /\ i = IF o + a < n THEN o + a ELSE o + a - n
      BY <2>1
    <2> QED
      BY <1>9, <2>2
  <1>11. \A o, c \in 0..n - 1 : TurnSlot(t, o) = TurnSlot(t, c) => o = c
    BY <1>9
  <1>12. \A o \in 0..n - 1 : TurnSlot(t, o) \in 0..n - 1
    BY <1>9
  <1> QED
    BY <1>6, <1>7, <1>8, <1>9, <1>10, <1>11, <1>12 DEF SlotsOf

LEMMA BucketTurnIs ==
    ASSUME NEW t \in Table, NEW free \in SlotsOf(t), t.table[free] = {}, NEW p
    PROVE  /\ BucketTurn(t, p) \in SlotsOf(t)
           /\ \A c \in SlotsOf(t) : BucketTurn(t, p) + c \in SlotsOf(t) =>
                 Slot(t, H(p), c) = TurnSlot(t, BucketTurn(t, p) + c)
           /\ \A c \in SlotsOf(t) : BucketTurn(t, p) + c \notin SlotsOf(t) =>
                 \E b \in 0..c : Slot(t, H(p), b) = FirstEmpty(t)
  <1>1. PICK n \in Nat \ {0} : n = Size(t)
    BY TableIs
  <1>2. PICK b \in 0..n - 1 : b = Bucket(t, H(p))
    BY <1>1, BucketIs DEF SlotsOf
  <1>3. PICK a \in 0..n - 1 : a = FirstEmpty(t)
    BY <1>1, TurnIs DEF SlotsOf
  <1>4. BucketTurn(t, p) \in SlotsOf(t) /\ TurnSlot(t, BucketTurn(t, p)) = b
    <2>1. \E o \in SlotsOf(t) : TurnSlot(t, o) = Bucket(t, H(p))
      BY BucketIs, TurnIs
    <2> QED
      BY <1>2, <2>1 DEF BucketTurn
  <1>5. PICK f \in 0..n - 1 : f = BucketTurn(t, p)
    BY <1>1, <1>4 DEF SlotsOf
  <1>6. \A o \in 0..n - 1 : TurnSlot(t, o) = IF o + a < n THEN o + a ELSE o + a - n
    BY <1>1, <1>3, TurnIs DEF SlotsOf
  <1>7. \A c \in 0..n - 1 : Slot(t, H(p), c) = IF b + c < n THEN b + c ELSE b + c - n
    BY <1>1, <1>2, SlotIs DEF SlotsOf
  <1>8. b = IF f + a < n THEN f + a ELSE f + a - n
    BY <1>4, <1>5, <1>6
  <1>9. \A c \in 0..n - 1 : f + c \in 0..n - 1 => Slot(t, H(p), c) = TurnSlot(t, f + c)
    BY <1>6, <1>7, <1>8
  <1>10. \A c \in 0..n - 1 : f + c \notin 0..n - 1 => \E r \in 0..c : Slot(t, H(p), r) = a
    <2> SUFFICES ASSUME NEW c \in 0..n - 1, f + c \notin 0..n - 1
                 PROVE  \E r \in 0..c : Slot(t, H(p), r) = a
      OBVIOUS
    <2>1. PICK r \in 0..c : r = n - f
      OBVIOUS
    <2>2. r \in 0..n - 1 /\ Slot(t, H(p), r) = IF b + r < n THEN b + r ELSE b + r - n
      BY <1>7
    <2>3. (IF b + r < n THEN b + r ELSE b + r - n) = a
      BY <1>8, <2>1
    <2> QED
      BY <2>2, <2>3
  <1> QED
    BY <1>1, <1>3, <1>4, <1>5, <1>9, <1>10 DEF SlotsOf

LEMMA NoWrap ==
    ASSUME NEW t \in Table, NEW free \in SlotsOf(t), t.table[free] = {},
           NEW S \in SUBSET Ptr, Masks(t, S), NEW d, Placed(t, S, d), NEW p \in S
    PROVE  BucketTurn(t, p) + d[p] \in SlotsOf(t)
  <1>1. d[p] \in SlotsOf(t)
    BY DEF Placed
  <1>2. ASSUME BucketTurn(t, p) + d[p] \notin SlotsOf(t) PROVE FALSE
    <2>1. PICK b \in 0..d[p] : Slot(t, H(p), b) = FirstEmpty(t)
      BY <1>1, <1>2, BucketTurnIs
    <2>2. At(t, H(p), b) = {}
      BY <2>1, TurnIs DEF At
    <2>3. At(t, H(p), d[p]) # {}
      BY ElementIsUsed DEF At, Used, Valid, Markers
    <2>4. d[p] \in Nat
      BY <1>1, TableIs DEF SlotsOf
    <2>5. b = d[p] \/ b \in 0..d[p] - 1
      BY <2>4
    <2> QED
      BY <2>2, <2>3, <2>5 DEF Placed
  <1> QED
    BY <1>2

\* When i turns of the loop are done: from there on nothing has changed, before
\* there no marker is left, and the elements there have all slots back to their
\* buckets used again.
RehashInv(t, S, d, n, e, i) ==
    /\ n \in TableOf(t.bits) /\ SameBits(n, t)
    /\ n.shared = t.shared /\ n.elems = t.elems /\ n.deleted = t.deleted
    /\ \A o \in SlotsOf(t) : IF o >= i THEN n.table[TurnSlot(t, o)] = t.table[TurnSlot(t, o)]
                             ELSE n.table[TurnSlot(t, o)] # Deleted
    /\ e \in [S -> SlotsOf(t)]
    /\ \A p \in S : /\ BucketTurn(t, p) + e[p] \in SlotsOf(t)
                    /\ n.table[TurnSlot(t, BucketTurn(t, p) + e[p])] = Entry(t, p, e[p])
                    /\ IF BucketTurn(t, p) + e[p] >= i THEN e[p] = d[p]
                       ELSE \A c \in 0..e[p] - 1 : n.table[TurnSlot(t, BucketTurn(t, p) + c)] # {}
    /\ \A o \in SlotsOf(t) : Valid(n.table[TurnSlot(t, o)]) => \E p \in S : o = BucketTurn(t, p) + e[p]

LEMMA RehashStart ==
    ASSUME NEW t \in Table, NEW free \in SlotsOf(t), t.table[free] = {},
           NEW S \in SUBSET Ptr, Masks(t, S), NEW d, Placed(t, S, d)
    PROVE  RehashInv(t, S, d, t, d, 0)
  <1>1. t \in TableOf(t.bits) /\ SameBits(t, t)
    BY TableIs DEF SameBits
  <1>2. \A o \in SlotsOf(t) : o >= 0
    BY TableIs DEF SlotsOf
  <1>3. d \in [S -> SlotsOf(t)]
    BY DEF Placed
  <1>4. ASSUME NEW p \in S
        PROVE  /\ BucketTurn(t, p) + d[p] \in SlotsOf(t)
               /\ Slot(t, H(p), d[p]) = TurnSlot(t, BucketTurn(t, p) + d[p])
               /\ t.table[TurnSlot(t, BucketTurn(t, p) + d[p])] = Entry(t, p, d[p])
    <2>1. BucketTurn(t, p) + d[p] \in SlotsOf(t) /\ d[p] \in SlotsOf(t)
      BY <1>3, NoWrap
    <2>2. Slot(t, H(p), d[p]) = TurnSlot(t, BucketTurn(t, p) + d[p])
      BY <2>1, BucketTurnIs
    <2> QED
      BY <2>1, <2>2, ElementIsUsed
  <1>5. ASSUME NEW o \in SlotsOf(t), Valid(t.table[TurnSlot(t, o)])
        PROVE  \E p \in S : o = BucketTurn(t, p) + d[p]
    <2>1. TurnSlot(t, o) \in Used(t)
      BY <1>5, TurnIs DEF Used
    <2>2. PICK p \in S : TurnSlot(t, o) = Slot(t, H(p), d[p])
      BY <2>1 DEF Placed
    <2>3. TurnSlot(t, o) = TurnSlot(t, BucketTurn(t, p) + d[p]) /\ BucketTurn(t, p) + d[p] \in SlotsOf(t)
      BY <1>4, <2>2
    <2>4. o = BucketTurn(t, p) + d[p]
      BY <2>3, TurnIs
    <2> QED
      BY <2>4
  <1> QED
    BY <1>1, <1>2, <1>3, <1>4, <1>5 DEF RehashInv

\* A turn that puts no entry: the slot is empty after it, or the entry in it is
\* in its bucket.
LEMMA RehashStays ==
    ASSUME NEW t \in Table, NEW free \in SlotsOf(t), t.table[free] = {},
           NEW S \in SUBSET Ptr, Masks(t, S), NEW d, NEW n, NEW e, NEW i \in 1..Size(t),
           RehashInv(t, S, d, n, e, i - 1),
           NEW m, m \in TableOf(t.bits), SameBits(m, n),
           m.shared = n.shared, m.elems = n.elems, m.deleted = n.deleted,
           \A o \in SlotsOf(t) : o # i - 1 => m.table[TurnSlot(t, o)] = n.table[TurnSlot(t, o)],
           \/ m.table[TurnSlot(t, i - 1)] = {} /\ ~Valid(n.table[TurnSlot(t, i - 1)])
           \/ /\ m.table[TurnSlot(t, i - 1)] = n.table[TurnSlot(t, i - 1)]
              /\ Valid(n.table[TurnSlot(t, i - 1)])
              /\ \A p \in S : BucketTurn(t, p) + e[p] = i - 1 => e[p] = 0
    PROVE  RehashInv(t, S, d, m, e, i)
  <1>1. PICK N \in Nat \ {0} : N = Size(t) /\ SlotsOf(t) = 0..N - 1
    BY TableIs DEF SlotsOf
  <1>2. PICK k \in 0..N - 1 : k = i - 1 /\ i = k + 1
    BY <1>1
  <1>3. SameBits(m, t) /\ m.shared = t.shared /\ m.elems = t.elems /\ m.deleted = t.deleted
    BY DEF RehashInv, SameBits
  <1>4. \A o \in 0..N - 1 : /\ o >= i => o >= k /\ o # k
                            /\ ~(o >= i) => o = k \/ ~(o >= k)
    BY <1>2
  <1>5. \A o \in 0..N - 1 : IF o >= i THEN m.table[TurnSlot(t, o)] = t.table[TurnSlot(t, o)]
                            ELSE m.table[TurnSlot(t, o)] # Deleted
    <2> SUFFICES ASSUME NEW o \in 0..N - 1
                 PROVE  IF o >= i THEN m.table[TurnSlot(t, o)] = t.table[TurnSlot(t, o)]
                        ELSE m.table[TurnSlot(t, o)] # Deleted
      OBVIOUS
    <2>1. CASE o = k
      BY <1>2, <1>4, <2>1 DEF Valid, Markers, Deleted
    <2>2. CASE o # k
      BY <1>1, <1>2, <1>4, <2>2 DEF RehashInv
    <2> QED
      BY <2>1, <2>2
  <1>6. e \in [S -> SlotsOf(t)]
    BY DEF RehashInv
  <1>7. ASSUME NEW p \in S
        PROVE  /\ BucketTurn(t, p) + e[p] \in SlotsOf(t)
               /\ m.table[TurnSlot(t, BucketTurn(t, p) + e[p])] = Entry(t, p, e[p])
               /\ IF BucketTurn(t, p) + e[p] >= i THEN e[p] = d[p]
                  ELSE \A c \in 0..e[p] - 1 : m.table[TurnSlot(t, BucketTurn(t, p) + c)] # {}
    <2>1. PICK f \in 0..N - 1 : f = BucketTurn(t, p)
      BY <1>1, BucketTurnIs
    <2>2. PICK x \in 0..N - 1 : x = e[p]
      BY <1>1, <1>6
    <2>3. /\ f + x \in 0..N - 1
          /\ n.table[TurnSlot(t, f + x)] = Entry(t, p, x)
          /\ IF f + x >= k THEN x = d[p]
             ELSE \A c \in 0..x - 1 : n.table[TurnSlot(t, f + c)] # {}
      BY <1>1, <1>2, <2>1, <2>2 DEF RehashInv
    <2>4. m.table[TurnSlot(t, f + x)] = Entry(t, p, x)
      <3>1. CASE f + x = k
        <4>1. Valid(Entry(t, p, x))
          BY EntryIs
        <4> QED
          BY <1>2, <2>3, <3>1, <4>1
      <3>2. CASE f + x # k
        BY <1>1, <1>2, <2>3, <3>2
      <3> QED
        BY <3>1, <3>2
    <2>5. IF f + x >= i THEN x = d[p]
          ELSE \A c \in 0..x - 1 : m.table[TurnSlot(t, f + c)] # {}
      <3>1. CASE f + x >= i
        BY <1>2, <2>3, <3>1
      <3>2. CASE f + x = k
        <4>1. Valid(Entry(t, p, x))
          BY EntryIs
        <4>2. x = 0
          BY <1>2, <2>1, <2>2, <2>3, <3>2, <4>1
        <4> QED
          BY <1>2, <3>2, <4>2
      <3>3. CASE ~(f + x >= k)
        <4>1. ASSUME NEW c \in 0..x - 1 PROVE m.table[TurnSlot(t, f + c)] # {}
          <5>1. f + c \in SlotsOf(t) /\ f + c # k
            BY <1>1, <2>3, <3>3
          <5>2. n.table[TurnSlot(t, f + c)] # {}
            BY <2>3, <3>3
          <5> QED
            BY <1>2, <5>1, <5>2
        <4>2. ~(f + x >= i)
          BY <1>2, <2>3, <3>3
        <4> QED
          BY <4>1, <4>2
      <3> QED
        BY <1>2, <2>3, <3>1, <3>2, <3>3
    <2> QED
      BY <1>1, <2>1, <2>2, <2>3, <2>4, <2>5
  <1>8. ASSUME NEW o \in SlotsOf(t), Valid(m.table[TurnSlot(t, o)])
        PROVE  \E p \in S : o = BucketTurn(t, p) + e[p]
    <2>1. Valid(n.table[TurnSlot(t, o)])
      BY <1>2, <1>8 DEF Valid, Markers
    <2> QED
      BY <2>1 DEF RehashInv
  <1> QED
    BY <1>1, <1>3, <1>5, <1>6, <1>7, <1>8 DEF RehashInv

\* A turn that takes an entry out and puts it again, no further from its bucket.
LEMMA RehashMoves ==
    ASSUME NEW t \in Table, NEW free \in SlotsOf(t), t.table[free] = {},
           NEW S \in SUBSET Ptr, Masks(t, S), NEW d, NEW n, NEW e, NEW i \in 1..Size(t),
           RehashInv(t, S, d, n, e, i - 1), NEW p \in S, BucketTurn(t, p) + e[p] = i - 1
    PROVE  \E x : RehashInv(t, S, d, Put([n EXCEPT !.table[TurnSlot(t, i - 1)] = {}], p), x, i)
  <1>1. PICK N \in Nat \ {0} : N = Size(t) /\ SlotsOf(t) = 0..N - 1
    BY TableIs DEF SlotsOf
  <1>2. PICK k \in 0..N - 1 : k = i - 1 /\ i = k + 1
    BY <1>1
  <1>3. PICK at \in SlotsOf(t) : at = TurnSlot(t, k)
    BY <1>1, TurnIs
  <1>4. PICK v : v = [n EXCEPT !.table[at] = {}]
    OBVIOUS
  <1>5. /\ v \in TableOf(t.bits) /\ SameBits(v, t) /\ v \in Table
        /\ v.shared = t.shared /\ v.elems = t.elems /\ v.deleted = t.deleted
        /\ v.table[at] = {} /\ \A j \in SlotsOf(t) \ {at} : v.table[j] = n.table[j]
    <2>1. n \in TableOf(t.bits) /\ SameBits(n, t) /\ {} \in SUBSET Word
          /\ n.shared = t.shared /\ n.elems = t.elems /\ n.deleted = t.deleted
      BY DEF RehashInv
    <2>2. SlotsOf(t) = 0..Pow2[t.bits] - 1 /\ t.bits \in Nat
      BY TableIs DEF SlotsOf
    <2>3. DOMAIN n.table = SlotsOf(t)
      BY <2>1, <2>2 DEF TableOf
    <2>4. v \in TableOf(t.bits) /\ v.table[at] = {} /\ \A j \in SlotsOf(t) \ {at} : v.table[j] = n.table[j]
      BY <1>4, <2>1, <2>2, <2>3 DEF TableOf
    <2>5. SameBits(v, t) /\ v.shared = t.shared /\ v.elems = t.elems /\ v.deleted = t.deleted
      BY <1>4, <2>1 DEF TableOf, SameBits
    <2> QED
      BY <2>2, <2>4, <2>5 DEF Table
  <1>6. /\ Size(v) = Size(t) /\ SlotsOf(v) = SlotsOf(t) /\ Masks(v, S)
        /\ \A h, c : Slot(v, h, c) = Slot(t, h, c)
        /\ \A q, c : Entry(v, q, c) = Entry(t, q, c)
    BY <1>5, SameSlots
  <1>7. at \in SlotsOf(v) /\ ~Valid(v.table[at])
    BY <1>5, <1>6 DEF Valid, Markers
  <1>8. PICK y \in SlotsOf(t), b \in SlotsOf(t) :
              /\ b = Slot(t, H(p), y) /\ ~Valid(v.table[b])
              /\ \A c \in 0..y - 1 : Valid(At(v, H(p), c))
              /\ \A c \in SlotsOf(t) : ~Valid(At(v, H(p), c)) => y <= c
              /\ Put(v, p) \in TableOf(t.bits) /\ SameBits(Put(v, p), v)
              /\ Put(v, p).shared = v.shared /\ Put(v, p).elems = v.elems
              /\ Put(v, p).deleted = v.deleted
              /\ Put(v, p).table = [v.table EXCEPT ![b] = Entry(t, p, y)]
    <2>1. v.bits = t.bits
      BY <1>5 DEF SameBits
    <2>2. PICK y \in SlotsOf(v), b \in SlotsOf(v) :
              /\ b = Slot(v, H(p), y) /\ ~Valid(v.table[b])
              /\ \A c \in 0..y - 1 : Valid(At(v, H(p), c))
              /\ \A c \in SlotsOf(v) : ~Valid(At(v, H(p), c)) => y <= c
              /\ Put(v, p) \in TableOf(v.bits) /\ SameBits(Put(v, p), v)
              /\ Put(v, p).shared = v.shared /\ Put(v, p).elems = v.elems
              /\ Put(v, p).deleted = v.deleted
              /\ Put(v, p).table = [v.table EXCEPT ![b] = Entry(v, p, y)]
      <3>1. v \in Table /\ Masks(v, S) /\ at \in SlotsOf(v) /\ ~Valid(v.table[at])
        BY <1>5, <1>6, <1>7
      <3> QED
        BY <3>1, PutIs
    <2>3. SlotsOf(v) = SlotsOf(t) /\ Slot(v, H(p), y) = Slot(t, H(p), y) /\ Entry(v, p, y) = Entry(t, p, y)
      BY <1>6
    <2> QED
      BY <2>1, <2>2, <2>3
  <1>9. PICK f \in 0..N - 1 : f = BucketTurn(t, p)
    BY <1>1, BucketTurnIs
  <1>10. PICK x \in 0..N - 1 : x = e[p]
    BY <1>1 DEF RehashInv
  <1>11. f + x = k
    BY <1>2, <1>9, <1>10
  <1>12. \A c \in 0..x : c \in 0..N - 1 /\ f + c \in 0..N - 1 /\ Slot(t, H(p), c) = TurnSlot(t, f + c)
    <2> SUFFICES ASSUME NEW c \in 0..x
                 PROVE  c \in 0..N - 1 /\ f + c \in 0..N - 1 /\ Slot(t, H(p), c) = TurnSlot(t, f + c)
      OBVIOUS
    <2>1. c \in 0..N - 1 /\ f + c \in 0..N - 1
      BY <1>11
    <2> QED
      BY <1>1, <1>9, <2>1, BucketTurnIs
  <1>13. y <= x
    <2>1. x \in 0..x
      OBVIOUS
    <2>2. At(v, H(p), x) = {}
      BY <1>3, <1>5, <1>6, <1>11, <1>12, <2>1 DEF At
    <2> QED
      BY <1>1, <1>8, <2>2 DEF Valid, Markers
  <1>14. y \in 0..N - 1 /\ y \in 0..x /\ f + y \in 0..N - 1 /\ f + y <= k /\ b = TurnSlot(t, f + y)
    <2>1. y \in 0..N - 1
      BY <1>1
    <2>2. y \in 0..x /\ f + y <= k
      BY <1>11, <1>13, <2>1
    <2> QED
      BY <1>8, <1>12, <2>1, <2>2
  <1>15. PICK m : m = Put(v, p)
    OBVIOUS
  <1>16. /\ m \in TableOf(t.bits) /\ SameBits(m, t)
         /\ m.shared = t.shared /\ m.elems = t.elems /\ m.deleted = t.deleted
         /\ m.table = [v.table EXCEPT ![b] = Entry(t, p, y)]
    BY <1>5, <1>8, <1>15 DEF SameBits
  <1>17. Valid(Entry(t, p, y))
    BY EntryIs
  \* What the slots are now, turn by turn.
  <1>18. \A o \in 0..N - 1 :
            /\ o = f + y => m.table[TurnSlot(t, o)] = Entry(t, p, y)
            /\ o # f + y /\ o = k => m.table[TurnSlot(t, o)] = {}
            /\ o # f + y /\ o # k => m.table[TurnSlot(t, o)] = n.table[TurnSlot(t, o)]
    <2> SUFFICES ASSUME NEW o \in 0..N - 1
                 PROVE  /\ o = f + y => m.table[TurnSlot(t, o)] = Entry(t, p, y)
                        /\ o # f + y /\ o = k => m.table[TurnSlot(t, o)] = {}
                        /\ o # f + y /\ o # k => m.table[TurnSlot(t, o)] = n.table[TurnSlot(t, o)]
      OBVIOUS
    <2>1. PICK j \in SlotsOf(t) : j = TurnSlot(t, o)
      BY <1>1, TurnIs
    <2>2. j = b => o = f + y
      BY <1>1, <1>14, <2>1, TurnIs
    <2>3. j = at => o = k
      BY <1>1, <1>3, <2>1, TurnIs
    <2>4. DOMAIN v.table = SlotsOf(t)
      <3>1. v.table \in [SlotsOf(v) -> SUBSET Word]
        BY <1>5, TableIs
      <3> QED
        BY <1>6, <3>1
    <2>5. m.table[j] = IF j = b THEN Entry(t, p, y) ELSE v.table[j]
      BY <1>16, <2>4
    <2>6. o = f + y => j = b
      BY <1>14, <2>1
    <2>7. o # f + y => m.table[j] = v.table[j]
      BY <2>2, <2>5
    <2> QED
      BY <1>3, <1>5, <2>1, <2>3, <2>5, <2>6, <2>7
  <1>19. ~Valid(n.table[TurnSlot(t, f + y)]) \/ f + y = k
    <2>1. ASSUME f + y # k PROVE v.table[b] = n.table[b]
      <3>1. b # at
        BY <1>1, <1>3, <1>14, <2>1, TurnIs
      <3> QED
        BY <1>5, <3>1
    <2> QED
      BY <1>8, <1>14, <2>1
  <1>20. PICK z : z = [e EXCEPT ![p] = y]
    OBVIOUS
  <1>21. z \in [S -> SlotsOf(t)] /\ z[p] = y /\ \A q \in S \ {p} : z[q] = e[q]
    <2>1. e \in [S -> SlotsOf(t)]
      BY DEF RehashInv
    <2> QED
      BY <1>20, <2>1
  \* No other element was in one of the two slots.
  <1>22. ASSUME NEW q \in S \ {p}
         PROVE  /\ BucketTurn(t, q) + e[q] \in 0..N - 1
                /\ n.table[TurnSlot(t, BucketTurn(t, q) + e[q])] = Entry(t, q, e[q])
                /\ IF BucketTurn(t, q) + e[q] >= k THEN e[q] = d[q]
                   ELSE \A c \in 0..e[q] - 1 : n.table[TurnSlot(t, BucketTurn(t, q) + c)] # {}
                /\ BucketTurn(t, q) + e[q] # k /\ BucketTurn(t, q) + e[q] # f + y
    <2>1. PICK g \in 0..N - 1 : g = BucketTurn(t, q)
      BY <1>1, BucketTurnIs
    <2>2. PICK w \in 0..N - 1 : w = e[q]
      BY <1>1 DEF RehashInv
    <2>3. /\ g + w \in 0..N - 1 /\ n.table[TurnSlot(t, g + w)] = Entry(t, q, w)
          /\ IF g + w >= k THEN w = d[q]
             ELSE \A c \in 0..w - 1 : n.table[TurnSlot(t, g + c)] # {}
      BY <1>1, <1>2, <2>1, <2>2 DEF RehashInv
    <2>4. n.table[TurnSlot(t, k)] = Entry(t, p, x)
      BY <1>9, <1>10, <1>11 DEF RehashInv
    <2>5. Entry(t, q, w) # Entry(t, p, x) /\ Valid(Entry(t, q, w))
      <3>1. RawPtr(t, Entry(t, q, w)) = q /\ RawPtr(t, Entry(t, p, x)) = p /\ Valid(Entry(t, q, w))
        BY EntryIs
      <3> QED
        BY <3>1
    <2>6. g + w # k
      BY <2>3, <2>4, <2>5
    <2>7. g + w # f + y
      BY <1>19, <2>3, <2>5, <2>6
    <2> QED
      BY <2>1, <2>2, <2>3, <2>6, <2>7
  <1>23. \A o \in 0..N - 1 : /\ o >= i => o # k /\ o # f + y /\ o >= k
                             /\ ~(o >= i) => o = k \/ ~(o >= k)
    BY <1>2, <1>14
  <1>24. \A o \in SlotsOf(t) : IF o >= i THEN m.table[TurnSlot(t, o)] = t.table[TurnSlot(t, o)]
                               ELSE m.table[TurnSlot(t, o)] # Deleted
    <2> SUFFICES ASSUME NEW o \in 0..N - 1
                 PROVE  IF o >= i THEN m.table[TurnSlot(t, o)] = t.table[TurnSlot(t, o)]
                        ELSE m.table[TurnSlot(t, o)] # Deleted
      BY <1>1
    <2>1. IF o >= k THEN n.table[TurnSlot(t, o)] = t.table[TurnSlot(t, o)]
          ELSE n.table[TurnSlot(t, o)] # Deleted
      BY <1>1, <1>2 DEF RehashInv
    <2>2. CASE o = f + y
      BY <1>17, <1>18, <1>23, <2>2 DEF Valid, Markers
    <2>3. CASE o # f + y /\ o = k
      BY <1>18, <1>23, <2>3 DEF Deleted
    <2>4. CASE o # f + y /\ o # k
      BY <1>18, <1>23, <2>1, <2>4
    <2> QED
      BY <2>2, <2>3, <2>4
  <1>25. ASSUME NEW q \in S
         PROVE  /\ BucketTurn(t, q) + z[q] \in SlotsOf(t)
                /\ m.table[TurnSlot(t, BucketTurn(t, q) + z[q])] = Entry(t, q, z[q])
                /\ IF BucketTurn(t, q) + z[q] >= i THEN z[q] = d[q]
                   ELSE \A c \in 0..z[q] - 1 : m.table[TurnSlot(t, BucketTurn(t, q) + c)] # {}
    <2>1. CASE q = p
      <3>1. ~(f + y >= i)
        BY <1>2, <1>14
      <3>2. ASSUME NEW c \in 0..y - 1 PROVE m.table[TurnSlot(t, f + c)] # {}
        <4>1. c \in 0..x /\ f + c \in 0..N - 1 /\ f + c # f + y /\ f + c # k
          BY <1>14
        <4>2. Slot(v, H(p), c) = TurnSlot(t, f + c)
          BY <1>6, <1>12, <4>1
        <4>3. v.table[TurnSlot(t, f + c)] # {}
          BY <1>8, <4>2 DEF At, Valid, Markers
        <4>4. TurnSlot(t, f + c) \in SlotsOf(t) /\ TurnSlot(t, f + c) # at
          BY <1>1, <1>3, <4>1, TurnIs
        <4> QED
          BY <1>5, <1>18, <4>1, <4>3, <4>4
      <3> QED
        BY <1>1, <1>9, <1>14, <1>18, <1>21, <2>1, <3>1, <3>2
    <2>2. CASE q # p
      <3>1. PICK g \in 0..N - 1 : g = BucketTurn(t, q)
        BY <1>1, BucketTurnIs
      <3>2. PICK w \in 0..N - 1 : w = e[q] /\ w = z[q]
        BY <1>1, <1>21, <2>2 DEF RehashInv
      <3>3. /\ g + w \in 0..N - 1 /\ n.table[TurnSlot(t, g + w)] = Entry(t, q, w)
            /\ IF g + w >= k THEN w = d[q]
               ELSE \A c \in 0..w - 1 : n.table[TurnSlot(t, g + c)] # {}
            /\ g + w # k /\ g + w # f + y
        BY <1>22, <2>2, <3>1, <3>2
      <3>4. m.table[TurnSlot(t, g + w)] = Entry(t, q, w)
        BY <1>18, <3>3
      <3>5. CASE g + w >= i
        <4>1. g + w >= k
          BY <1>2, <3>5
        <4>2. w = d[q]
          BY <3>3, <4>1
        <4> QED
          BY <1>1, <3>1, <3>2, <3>3, <3>4, <3>5, <4>2
      <3>6. CASE ~(g + w >= i)
        <4>1. ~(g + w >= k)
          BY <1>2, <3>3, <3>6
        <4>2. ASSUME NEW c \in 0..w - 1 PROVE m.table[TurnSlot(t, g + c)] # {}
          <5>1. g + c \in 0..N - 1 /\ g + c # k
            BY <3>3, <4>1
          <5>2. n.table[TurnSlot(t, g + c)] # {}
            BY <3>3, <4>1
          <5> QED
            BY <1>17, <1>18, <5>1, <5>2 DEF Valid, Markers
        <4> QED
          BY <1>1, <3>1, <3>2, <3>3, <3>4, <3>6, <4>2
      <3> QED
        BY <3>5, <3>6
    <2> QED
      BY <2>1, <2>2
  <1>26. ASSUME NEW o \in SlotsOf(t), Valid(m.table[TurnSlot(t, o)])
         PROVE  \E q \in S : o = BucketTurn(t, q) + z[q]
    <2>1. CASE o = f + y
      BY <1>9, <1>21, <2>1
    <2>2. CASE o # f + y
      <3>1. o # k /\ Valid(n.table[TurnSlot(t, o)])
        BY <1>1, <1>18, <1>26, <2>2 DEF Valid, Markers
      <3>2. PICK q \in S : o = BucketTurn(t, q) + e[q]
        BY <3>1 DEF RehashInv
      <3>3. q # p
        BY <1>9, <1>10, <1>11, <3>1, <3>2
      <3> QED
        BY <1>21, <3>2, <3>3
    <2> QED
      BY <2>1, <2>2
  <1>27. RehashInv(t, S, d, m, z, i)
    BY <1>16, <1>21, <1>24, <1>25, <1>26 DEF RehashInv
  <1> QED
    BY <1>2, <1>3, <1>4, <1>15, <1>27

\* A slot that is emptied.
LEMMA EmptiedIs ==
    ASSUME NEW b \in Nat, NEW n \in TableOf(b), NEW at \in SlotsOf(n)
    PROVE  /\ [n EXCEPT !.table[at] = {}] \in TableOf(b)
           /\ SameBits([n EXCEPT !.table[at] = {}], n)
           /\ [n EXCEPT !.table[at] = {}].shared = n.shared
           /\ [n EXCEPT !.table[at] = {}].elems = n.elems
           /\ [n EXCEPT !.table[at] = {}].deleted = n.deleted
           /\ [n EXCEPT !.table[at] = {}].table[at] = {}
           /\ \A j \in SlotsOf(n) \ {at} : [n EXCEPT !.table[at] = {}].table[j] = n.table[j]
  <1>1. PICK v : v = [n EXCEPT !.table[at] = {}]
    OBVIOUS
  <1>2. DOMAIN n.table = SlotsOf(n) /\ {} \in SUBSET Word
    BY DEF TableOf, SlotsOf, Size
  <1>3. v \in TableOf(b) /\ v.table[at] = {} /\ \A j \in SlotsOf(n) \ {at} : v.table[j] = n.table[j]
    BY <1>1, <1>2 DEF TableOf
  <1>4. SameBits(v, n) /\ v.shared = n.shared /\ v.elems = n.elems /\ v.deleted = n.deleted
    BY <1>1 DEF TableOf, SameBits
  <1> QED
    BY <1>1, <1>3, <1>4

LEMMA AgainType ==
    ASSUME NEW b \in Nat, NEW n \in TableOf(b), NEW at \in SlotsOf(n)
    PROVE  Again(n, at) \in TableOf(b)
  <1>1. n \in Table /\ n.bits = b
    BY DEF Table, TableOf
  <1>2. PICK v \in TableOf(b) : v = [n EXCEPT !.table[at] = {}]
    BY EmptiedIs
  <1>3. v \in Table /\ v.bits = b
    <2>1. v \in TableOf(b)
      OBVIOUS
    <2>2. v.bits = b
      BY <2>1 DEF TableOf
    <2> QED
      BY <2>1, <2>2 DEF Table
  <1>4. PICK p \in SUBSET Word : p = RawPtr(n, n.table[at])
    <2>1. n.table[at] \in SUBSET Word /\ n.common \in SUBSET Word
      BY <1>1, TableIs
    <2> QED
      BY <2>1 DEF RawPtr
  <1>5. Put(v, p) \in TableOf(b)
    BY <1>3, PutType
  <1> QED
    BY <1>2, <1>4, <1>5 DEF Again

LEMMA AgainTurn ==
    ASSUME NEW t \in Table, NEW free \in SlotsOf(t), t.table[free] = {},
           NEW S \in SUBSET Ptr, Masks(t, S), NEW d, NEW n, NEW e, NEW i \in 1..Size(t),
           RehashInv(t, S, d, n, e, i - 1)
    PROVE  \E x : RehashInv(t, S, d, Again(n, TurnSlot(t, i - 1)), x, i)
  <1>1. PICK N \in Nat \ {0} : N = Size(t) /\ SlotsOf(t) = 0..N - 1
    BY TableIs DEF SlotsOf
  <1>2. i - 1 \in SlotsOf(t)
    BY <1>1
  <1>3. PICK at \in SlotsOf(t) : at = TurnSlot(t, i - 1)
    BY <1>2, TurnIs
  <1>4. n \in TableOf(t.bits) /\ t.bits \in Nat /\ SameBits(n, t)
    BY TableIs DEF RehashInv
  <1>5. SlotsOf(n) = SlotsOf(t) /\ (\A q, c : Entry(n, q, c) = Entry(t, q, c))
        /\ (\A w : RawPtr(n, w) = RawPtr(t, w)) /\ n.perfect = t.perfect
    BY <1>4, SameSlots DEF SameBits
  <1>6. PICK w : w = n.table[at]
    OBVIOUS
  <1>7. PICK v : v = [n EXCEPT !.table[at] = {}]
    OBVIOUS
  <1>8. /\ v \in TableOf(t.bits) /\ SameBits(v, n)
        /\ v.shared = n.shared /\ v.elems = n.elems /\ v.deleted = n.deleted
        /\ v.table[at] = {} /\ \A j \in SlotsOf(t) \ {at} : v.table[j] = n.table[j]
    BY <1>4, <1>5, <1>7, EmptiedIs
  <1>9. \A o \in SlotsOf(t) : o # i - 1 => TurnSlot(t, o) \in SlotsOf(t) \ {at}
    BY <1>2, <1>3, TurnIs
  <1>10. CASE w = Deleted
    <2>1. Again(n, at) = v
      BY <1>6, <1>7, <1>10 DEF Again
    <2>2. ~Valid(n.table[at])
      BY <1>6, <1>10 DEF Valid, Markers
    <2> QED
      BY <1>3, <1>8, <1>9, <2>1, <2>2, RehashStays
  <1>11. CASE w = {}
    <2>1. Again(n, at) = n
      BY <1>6, <1>11 DEF Again, Deleted
    <2>2. ~Valid(n.table[at]) /\ n.table[at] = {} /\ SameBits(n, n)
      BY <1>6, <1>11 DEF Valid, Markers, SameBits
    <2> QED
      BY <1>3, <1>4, <2>1, <2>2, RehashStays
  <1>12. CASE w # {} /\ w # Deleted
    <2>1. Valid(n.table[at])
      BY <1>6, <1>12 DEF Valid, Markers
    <2>2. PICK p \in S : i - 1 = BucketTurn(t, p) + e[p]
      BY <1>2, <1>3, <2>1 DEF RehashInv
    <2>3. w = Entry(t, p, e[p])
      BY <1>3, <1>6, <2>2 DEF RehashInv
    <2>4. RawPtr(n, w) = p /\ w \cap n.perfect = Home(t, e[p])
      BY <1>5, <2>3, EntryIs
    <2>5. CASE w \cap n.perfect = {}
      <3>1. Again(n, at) = Put(v, p)
        BY <1>6, <1>7, <1>12, <2>4, <2>5 DEF Again
      <3> QED
        BY <1>3, <1>7, <2>2, <3>1, RehashMoves
    <2>6. CASE w \cap n.perfect # {}
      <3>1. Again(n, at) = n
        BY <1>6, <1>12, <2>6 DEF Again
      <3>2. e[p] = 0
        BY <2>4, <2>6 DEF Home
      <3>3. ASSUME NEW q \in S, BucketTurn(t, q) + e[q] = i - 1 PROVE e[q] = 0
        <4>1. w = Entry(t, q, e[q])
          BY <1>3, <1>6, <3>3 DEF RehashInv
        <4>2. RawPtr(t, w) = q /\ RawPtr(t, w) = p
          <5>1. RawPtr(t, Entry(t, q, e[q])) = q /\ RawPtr(t, Entry(t, p, e[p])) = p
            BY EntryIs
          <5> QED
            BY <2>3, <4>1, <5>1
        <4> QED
          BY <3>2, <4>2
      <3>4. SameBits(n, n)
        BY DEF SameBits
      <3> QED
        BY <1>3, <1>4, <2>1, <3>1, <3>3, <3>4, RehashStays
    <2> QED
      BY <2>5, <2>6
  <1> QED
    BY <1>3, <1>10, <1>11, <1>12

\* When the loop has ended the elements are placed again.
LEMMA RehashEnd ==
    ASSUME NEW t \in Table, NEW free \in SlotsOf(t), t.table[free] = {},
           NEW S \in SUBSET Ptr, Masks(t, S), NEW d, NEW n, NEW e,
           RehashInv(t, S, d, n, e, Size(t))
    PROVE  Placed(n, S, e) /\ \A j \in SlotsOf(t) : n.table[j] # Deleted
  <1>1. PICK N \in Nat \ {0} : N = Size(t) /\ SlotsOf(t) = 0..N - 1
    BY TableIs DEF SlotsOf
  <1>2. SameBits(n, t) /\ e \in [S -> SlotsOf(t)]
    BY DEF RehashInv
  <1>3. SlotsOf(n) = SlotsOf(t) /\ (\A h, c : Slot(n, h, c) = Slot(t, h, c))
        /\ (\A q, c : Entry(n, q, c) = Entry(t, q, c))
    BY <1>2, SameSlots
  <1>4. \A o \in 0..N - 1 : ~(o >= N)
    OBVIOUS
  <1>5. ASSUME NEW j \in SlotsOf(t) PROVE n.table[j] # Deleted
    <2>1. PICK o \in SlotsOf(t) : j = TurnSlot(t, o)
      BY TurnIs
    <2> QED
      BY <1>1, <1>4, <2>1 DEF RehashInv
  <1>6. ASSUME NEW p \in S
        PROVE  /\ At(n, H(p), e[p]) = Entry(n, p, e[p])
               /\ Slot(n, H(p), e[p]) = TurnSlot(t, BucketTurn(t, p) + e[p])
               /\ \A c \in 0..e[p] - 1 : At(n, H(p), c) # {}
    <2>1. PICK f \in 0..N - 1 : f = BucketTurn(t, p)
      BY <1>1, BucketTurnIs
    <2>2. PICK x \in 0..N - 1 : x = e[p]
      BY <1>1, <1>2
    <2>3. /\ f + x \in 0..N - 1 /\ n.table[TurnSlot(t, f + x)] = Entry(t, p, x)
          /\ \A c \in 0..x - 1 : n.table[TurnSlot(t, f + c)] # {}
      BY <1>1, <1>4, <2>1, <2>2 DEF RehashInv
    <2>4. \A c \in 0..x : c \in 0..N - 1 /\ f + c \in 0..N - 1
      BY <2>3
    <2>5. \A c \in 0..x : Slot(n, H(p), c) = TurnSlot(t, f + c)
      <3> SUFFICES ASSUME NEW c \in 0..x PROVE Slot(n, H(p), c) = TurnSlot(t, f + c)
        OBVIOUS
      <3>1. c \in SlotsOf(t) /\ BucketTurn(t, p) + c \in SlotsOf(t)
        BY <1>1, <2>1, <2>4
      <3>2. Slot(t, H(p), c) = TurnSlot(t, f + c)
        BY <2>1, <3>1, BucketTurnIs
      <3> QED
        BY <1>3, <3>2
    <2>6. x \in 0..x /\ \A c \in 0..x - 1 : c \in 0..x
      OBVIOUS
    <2> QED
      BY <1>3, <2>1, <2>2, <2>3, <2>5, <2>6 DEF At
  <1>7. ASSUME NEW j \in Used(n) PROVE \E p \in S : j = Slot(n, H(p), e[p])
    <2>1. PICK o \in SlotsOf(t) : j = TurnSlot(t, o)
      BY <1>3, TurnIs DEF Used
    <2>2. PICK p \in S : o = BucketTurn(t, p) + e[p]
      BY <2>1 DEF RehashInv, Used
    <2> QED
      BY <1>6, <2>1, <2>2
  <1> QED
    BY <1>2, <1>3, <1>5, <1>6, <1>7 DEF Placed

\* rehash_table keeps the elements and leaves no deleted marker.
LEMMA RehashedIs ==
    ASSUME NEW t \in Table, NEW free \in SlotsOf(t), t.table[free] = {},
           NEW S \in SUBSET Ptr, Masks(t, S), NEW d, Placed(t, S, d)
    PROVE  /\ Rehashed(t) \in Table /\ Rehashed(t).bits = t.bits
           /\ Rehashed(t).shared = t.shared /\ Rehashed(t).elems = t.elems
           /\ Rehashed(t).deleted = 0
           /\ Masks(Rehashed(t), S)
           /\ \A j \in SlotsOf(Rehashed(t)) : Rehashed(t).table[j] # Deleted
           /\ \E e : Placed(Rehashed(t), S, e)
  <1>1. PICK N \in Nat \ {0} : N = Size(t) /\ SlotsOf(t) = 0..N - 1
    BY TableIs DEF SlotsOf
  <1>2. PICK b \in Nat : b = t.bits /\ t \in TableOf(b)
    BY TableIs
  <1>3. PICK s : s = FirstEmpty(t)
    OBVIOUS
  <1>4. PICK g : g = [i \in 1..N |-> [n \in TableOf(b) |-> Again(n, (i - 1 + s) % N)]]
    OBVIOUS
  <1>5. \A i \in 1..N : (i - 1 + s) % N = TurnSlot(t, i - 1) /\ TurnSlot(t, i - 1) \in SlotsOf(t)
    <2> SUFFICES ASSUME NEW i \in 1..N
                 PROVE  (i - 1 + s) % N = TurnSlot(t, i - 1) /\ TurnSlot(t, i - 1) \in SlotsOf(t)
      OBVIOUS
    <2>1. i - 1 \in SlotsOf(t)
      BY <1>1
    <2> QED
      BY <1>1, <1>3, <2>1, TurnIs DEF TurnSlot
  <1>6. g \in [1..N -> [TableOf(b) -> TableOf(b)]]
    <2>1. ASSUME NEW i \in 1..N, NEW n \in TableOf(b) PROVE Again(n, (i - 1 + s) % N) \in TableOf(b)
      <3>1. SlotsOf(n) = SlotsOf(t)
        BY <1>2 DEF SlotsOf, Size, TableOf
      <3> QED
        BY <1>5, <3>1, AgainType
    <2> QED
      BY <1>4, <2>1
  <1>7. PICK v : /\ v \in [0..N -> TableOf(b)] /\ v[0] = t
                 /\ \A i \in 1..N : v[i] = g[i][v[i - 1]]
    <2>1. PICK v : IsLoop(v, TableOf(b), t, N, g)
      BY <1>2, <1>6, RecursiveFunction
    <2> QED
      BY <2>1 DEF IsLoop
  <1> DEFINE Code(u) == u = [i \in 0..N |-> IF i = 0 THEN t ELSE Again(u[i - 1], (i - 1 + s) % N)]
  <1>8. PICK loop : Code(loop) /\ Rehashed(t) = [loop[N] EXCEPT !.deleted = 0]
    <2>1. Rehashed(t) = [(CHOOSE u : Code(u))[N] EXCEPT !.deleted = 0]
      BY <1>1, <1>3 DEF Rehashed
    <2>2. Code(v)
      <3>1. \A i \in 0..N : i = 0 \/ i \in 1..N
        OBVIOUS
      <3>2. ASSUME NEW i \in 1..N PROVE v[i] = Again(v[i - 1], (i - 1 + s) % N)
        <4>1. v[i - 1] \in TableOf(b)
          BY <1>7
        <4> QED
          BY <1>4, <1>7, <4>1
      <3> QED
        BY <1>7, <3>1, <3>2
    <2> QED
      BY <2>1, <2>2
  <1>9. PICK X : X = {i \in 0..N : \E e : RehashInv(t, S, d, loop[i], e, i)}
    OBVIOUS
  <1>10. 0 \in X
    <2>1. loop[0] = t
      BY <1>8
    <2>2. \E e : RehashInv(t, S, d, t, e, 0)
      BY RehashStart
    <2> QED
      BY <1>9, <2>1, <2>2
  <1>11. ASSUME NEW i \in 1..N, i - 1 \in X PROVE i \in X
    <2>1. PICK n : n = loop[i - 1]
      OBVIOUS
    <2>2. PICK e : RehashInv(t, S, d, n, e, i - 1)
      BY <1>9, <1>11, <2>1
    <2>3. loop[i] = Again(n, TurnSlot(t, i - 1))
      <3>1. i \in 0..N /\ i # 0
        OBVIOUS
      <3> QED
        BY <1>5, <1>8, <2>1, <3>1
    <2>4. \E x : RehashInv(t, S, d, Again(n, TurnSlot(t, i - 1)), x, i)
      BY <1>1, <2>2, AgainTurn
    <2>5. i \in 0..N
      OBVIOUS
    <2> QED
      BY <1>9, <2>3, <2>4, <2>5
  <1>12. PICK n, e : n = loop[N] /\ RehashInv(t, S, d, n, e, N)
    <2>1. \A i \in 0..N : i \in X
      BY <1>10, <1>11, TurnByTurn
    <2> QED
      BY <1>9, <2>1
  <1>13. /\ n \in TableOf(b) /\ SameBits(n, t) /\ n.shared = t.shared /\ n.elems = t.elems
         /\ Placed(n, S, e) /\ \A j \in SlotsOf(t) : n.table[j] # Deleted
    <2>1. RehashInv(t, S, d, n, e, Size(t))
      BY <1>1, <1>12
    <2>2. Placed(n, S, e) /\ \A j \in SlotsOf(t) : n.table[j] # Deleted
      BY <2>1, RehashEnd
    <2> QED
      BY <1>2, <2>1, <2>2 DEF RehashInv
  <1>14. PICK r : r = [n EXCEPT !.deleted = 0]
    OBVIOUS
  <1>15. Rehashed(t) = r
    BY <1>8, <1>12, <1>14
  <1>16. /\ r \in TableOf(b) /\ r.shared = n.shared /\ r.elems = n.elems /\ r.deleted = 0
         /\ r.table = n.table /\ r.bits = n.bits /\ r.mask = n.mask /\ r.common = n.common
         /\ r.perfect = n.perfect
    BY <1>13, <1>14 DEF TableOf
  <1>17. SameBits(r, n) /\ SameBits(r, t) /\ r \in Table /\ r.bits = t.bits
    BY <1>2, <1>13, <1>16 DEF SameBits, Table
  <1>18. Masks(r, S) /\ SlotsOf(r) = SlotsOf(t)
    BY <1>17, SameSlots
  <1>19. Placed(r, S, e)
    <2>1. /\ SlotsOf(r) = SlotsOf(n) /\ (\A h, c : Slot(r, h, c) = Slot(n, h, c))
          /\ (\A q, c : Entry(r, q, c) = Entry(n, q, c))
      BY <1>17, SameSlots
    <2>2. Used(r) = Used(n) /\ \A h, c : At(r, h, c) = At(n, h, c)
      BY <1>16, <2>1 DEF Used, At
    <2> QED
      BY <1>13, <2>1, <2>2 DEF Placed
  <1> QED
    BY <1>13, <1>15, <1>16, <1>17, <1>18, <1>19

-----------------------------------------------------------------------------
(***************************************************************************)
(* The invariant.                                                          *)
(***************************************************************************)

\* A table never has so many elements, or so many with the deleted ones, that
\* none of its slots is empty.
Room(t, S) ==
    /\ t.elems = Cardinality(S)
    /\ Cardinality(DeletedSlots(t)) <= t.deleted
    /\ IF t.shared THEN S = {} /\ t.deleted = 0
       ELSE t.elems <= MaxElems(t) /\ t.elems + t.deleted <= MaxWithDeleted(t)

Sound(t, S) ==
    /\ t \in Table
    /\ Masks(t, S)
    /\ \E d : Placed(t, S, d)
    /\ Room(t, S)

IInv ==
    /\ stored \in SUBSET Ptr
    /\ Sound(ht, stored)

\* The limits of a table of s slots, and of the one that it is doubled to.
LEMMA Limits ==
    ASSUME NEW s \in Nat \ {0}
    PROVE  /\ (9 * s) \div 10 < s /\ (3 * s) \div 4 <= (9 * s) \div 10
           /\ (3 * s) \div 4 + 1 <= (3 * (2 * s)) \div 4 /\ 1 <= (3 * (2 * s)) \div 4
           /\ (9 * s) \div 10 \in Nat /\ (3 * s) \div 4 \in Nat
  OBVIOUS

LEMMA LimitsAre ==
    ASSUME NEW t \in Table
    PROVE  /\ MaxElems(t) \in Nat /\ MaxWithDeleted(t) \in Nat
           /\ MaxWithDeleted(t) < Size(t) /\ MaxElems(t) <= MaxWithDeleted(t)
  <1>1. PICK s \in Nat \ {0} : s = Size(t)
    BY TableIs
  <1>2. (9 * s) \div 10 < s /\ (3 * s) \div 4 <= (9 * s) \div 10
        /\ (9 * s) \div 10 \in Nat /\ (3 * s) \div 4 \in Nat
    BY Limits
  <1> QED
    BY <1>1, <1>2 DEF MaxElems, MaxWithDeleted

\* So every search ends.
LEMMA SoundEmpty ==
    ASSUME NEW t, NEW S \in SUBSET Ptr, Sound(t, S)
    PROVE  \E i \in SlotsOf(t) : t.table[i] = {}
  <1>1. t \in Table /\ Masks(t, S) /\ Room(t, S)
    BY DEF Sound
  <1>2. PICK d : Placed(t, S, d)
    BY DEF Sound
  <1>3. Cardinality(S) \in Nat /\ t.deleted \in Nat /\ Size(t) \in Nat \ {0}
    BY <1>1, <1>2, UsedCount, TableIs
  <1>4. Cardinality(DeletedSlots(t)) \in Nat
    BY <1>1, SlotsAreFinite DEF DeletedSlots
  <1>5. Cardinality(S) + Cardinality(DeletedSlots(t)) < Size(t)
    <2>1. CASE t.shared
      <3>1. Cardinality(S) = 0
        BY <1>1, <2>1, FS_EmptySet DEF Room
      <3> QED
        BY <1>1, <1>3, <1>4, <2>1, <3>1 DEF Room
    <2>2. CASE ~t.shared
      BY <1>1, <1>3, <1>4, <2>2, LimitsAre DEF Room
    <2> QED
      BY <2>1, <2>2
  <1> QED
    BY <1>1, <1>2, <1>5, SomeEmpty

-----------------------------------------------------------------------------
(***************************************************************************)
(* htable_init and htable_init_sized.                                      *)
(***************************************************************************)

LEMMA HtableInitIs ==
    ASSUME NEW n
    PROVE  Sound(HtableInit(n), {})
  <1>1. PICK b \in Nat : b = IF n = 0 THEN 0 ELSE SizedBits(n)
    <2>1. SizedBits(n) \in Nat
      <3>1. PICK T : T = {b \in 1..MostBits : b = MostBits \/ (3 * Pow2[b]) \div 4 >= n}
        OBVIOUS
      <3>2. T \in SUBSET Nat /\ MostBits \in T /\ MostBits = 30
        BY <3>1 DEF MostBits
      <3>3. PICK b \in T : \A c \in T : b <= c
        BY <3>2, LeastNatural
      <3>4. b \in T /\ \A c \in 1..b - 1 : c \notin T
        BY <3>2, <3>3
      <3>5. (CHOOSE x \in T : \A c \in 1..x - 1 : c \notin T) \in T
        BY <3>4
      <3> QED
        BY <3>1, <3>2, <3>5 DEF SizedBits
    <2> QED
      BY <2>1
  <1>2. PICK T : T = EmptyTable(b)
    OBVIOUS
  <1>3. T \in [0..Pow2[b] - 1 -> SUBSET Word] /\ \A i \in 0..Pow2[b] - 1 : T[i] = {}
    BY <1>2 DEF EmptyTable
  <1>4. PICK sh \in BOOLEAN : sh = (n = 0)
    OBVIOUS
  <1>5. PICK t : t = HtableInit(n)
    OBVIOUS
  <1>6. t = [bits |-> b, table |-> T, shared |-> sh, elems |-> 0, deleted |-> 0,
             mask |-> Word, common |-> {}, perfect |-> {}]
    BY <1>1, <1>2, <1>4, <1>5 DEF HtableInit
  <1>7. t \in TableOf(b)
    BY <1>3, <1>6 DEF TableOf
  <1>8. /\ t \in Table /\ t.bits = b /\ t.elems = 0 /\ t.deleted = 0 /\ t.table = T
        /\ t.mask = Word /\ t.common = {} /\ t.perfect = {}
    BY <1>6, <1>7 DEF Table
  <1>9. SlotsOf(t) = 0..Pow2[b] - 1
    BY <1>8 DEF SlotsOf, Size
  <1>10. \A i \in SlotsOf(t) : t.table[i] = {}
    BY <1>3, <1>8, <1>9
  <1>11. Masks(t, {})
    BY <1>8 DEF Masks
  <1>12. Placed(t, {}, [p \in {} |-> 0])
    BY <1>10 DEF Placed, Used, Valid, Markers
  <1>13. DeletedSlots(t) = {}
    BY <1>10 DEF DeletedSlots, Deleted
  <1>14. MaxElems(t) \in Nat /\ MaxWithDeleted(t) \in Nat
    BY <1>8, LimitsAre
  <1>15. Room(t, {})
    <2>1. Cardinality({}) = 0
      BY FS_EmptySet
    <2> QED
      BY <1>8, <1>13, <1>14, <2>1 DEF Room
  <1> QED
    BY <1>5, <1>8, <1>11, <1>12, <1>15 DEF Sound

-----------------------------------------------------------------------------
(***************************************************************************)
(* htable_add.                                                             *)
(***************************************************************************)

\* The table has room for one more element.
RoomForOne(t, S) ==
    /\ t \in Table
    /\ Masks(t, S)
    /\ \E d : Placed(t, S, d)
    /\ t.elems = Cardinality(S) /\ Cardinality(DeletedSlots(t)) <= t.deleted
    /\ t.shared = FALSE
    /\ t.elems + 1 <= MaxElems(t)

LEMMA Sized ==
    ASSUME NEW t, NEW S \in SUBSET Ptr, Sound(t, S)
    PROVE  LET n == IF t.elems + 1 > MaxElems(t) THEN Doubled(t) ELSE t IN
           RoomForOne(n, S) /\ n.elems + n.deleted <= MaxWithDeleted(n)
  <1>1. t \in Table /\ Masks(t, S) /\ Room(t, S)
    BY DEF Sound
  <1>2. PICK d : Placed(t, S, d)
    BY DEF Sound
  <1>3. t.elems \in Nat /\ t.deleted \in Nat /\ MaxElems(t) \in Nat /\ t.shared \in BOOLEAN
    BY <1>1, TableIs, LimitsAre
  <1>4. CASE t.elems + 1 > MaxElems(t)
    <2>1. PICK n : n = Doubled(t)
      OBVIOUS
    <2>2. /\ n \in Table /\ Size(n) = 2 * Size(t) /\ n.shared = FALSE
          /\ n.elems = t.elems /\ n.deleted = 0
          /\ Masks(n, S)
          /\ \A j \in SlotsOf(n) : n.table[j] # Deleted
          /\ \E e : Placed(n, S, e)
      BY <1>1, <1>2, <2>1, DoubledIs DEF Room
    <2>3. Cardinality(DeletedSlots(n)) = 0
      <3>1. DeletedSlots(n) = {}
        BY <2>2 DEF DeletedSlots
      <3> QED
        BY <3>1, FS_EmptySet
    <2>4. n.elems + 1 <= MaxElems(n)
      <3>1. PICK s \in Nat \ {0} : s = Size(t)
        BY <1>1, TableIs
      <3>2. MaxElems(n) = (3 * (2 * s)) \div 4
        BY <2>2, <3>1 DEF MaxElems
      <3>3. t.elems <= (3 * s) \div 4 \/ t.elems = 0
        <4>1. CASE t.shared
          BY <1>1, <4>1, FS_EmptySet DEF Room
        <4>2. CASE ~t.shared
          BY <1>1, <3>1, <4>2 DEF Room, MaxElems
        <4> QED
          BY <4>1, <4>2
      <3>4. (3 * s) \div 4 + 1 <= (3 * (2 * s)) \div 4 /\ 1 <= (3 * (2 * s)) \div 4
            /\ (3 * s) \div 4 \in Nat
        BY Limits
      <3>5. (3 * (2 * s)) \div 4 \in Nat
        OBVIOUS
      <3> QED
        BY <1>3, <2>2, <3>2, <3>3, <3>4, <3>5
    <2>5. n.elems + n.deleted <= MaxWithDeleted(n)
      BY <1>3, <2>2, <2>4, LimitsAre
    <2> QED
      BY <1>1, <1>4, <2>1, <2>2, <2>3, <2>4, <2>5 DEF RoomForOne, Room
  <1>5. CASE ~(t.elems + 1 > MaxElems(t))
    <2>1. t.shared = FALSE
      BY <1>1, <1>3, <1>5 DEF MaxElems
    <2> QED
      BY <1>1, <1>2, <1>3, <1>5, <2>1 DEF RoomForOne, Room
  <1> QED
    BY <1>4, <1>5

LEMMA Cleaned ==
    ASSUME NEW t, NEW S \in SUBSET Ptr, RoomForOne(t, S), t.elems + t.deleted <= MaxWithDeleted(t)
    PROVE  LET n == IF t.elems + 1 + t.deleted > MaxWithDeleted(t) THEN Rehashed(t) ELSE t IN
           RoomForOne(n, S) /\ n.elems + 1 + n.deleted <= MaxWithDeleted(n)
  <1>1. t \in Table /\ Masks(t, S) /\ t.elems = Cardinality(S) /\ t.shared = FALSE
    BY DEF RoomForOne
  <1>2. PICK d : Placed(t, S, d)
    BY DEF RoomForOne
  <1>3. t.elems \in Nat /\ t.deleted \in Nat /\ MaxElems(t) \in Nat /\ MaxWithDeleted(t) \in Nat
        /\ Size(t) \in Nat \ {0}
    BY <1>1, TableIs, LimitsAre
  <1>4. CASE t.elems + 1 + t.deleted > MaxWithDeleted(t)
    <2>1. PICK free \in SlotsOf(t) : t.table[free] = {}
      <3>1. Cardinality(DeletedSlots(t)) \in Nat
        BY <1>1, SlotsAreFinite DEF DeletedSlots
      <3>2. Cardinality(S) + Cardinality(DeletedSlots(t)) < Size(t)
        BY <1>1, <1>3, <3>1, LimitsAre DEF RoomForOne
      <3> QED
        BY <1>1, <1>2, <3>2, SomeEmpty
    <2>2. PICK n : n = Rehashed(t)
      OBVIOUS
    <2>3. /\ n \in Table /\ n.bits = t.bits /\ n.shared = t.shared /\ n.elems = t.elems
          /\ n.deleted = 0
          /\ Masks(n, S)
          /\ \A j \in SlotsOf(n) : n.table[j] # Deleted
          /\ \E e : Placed(n, S, e)
      BY <1>1, <1>2, <2>1, <2>2, RehashedIs
    <2>4. Cardinality(DeletedSlots(n)) = 0
      <3>1. DeletedSlots(n) = {}
        BY <2>3 DEF DeletedSlots
      <3> QED
        BY <3>1, FS_EmptySet
    <2>5. MaxElems(n) = MaxElems(t) /\ MaxWithDeleted(n) = MaxWithDeleted(t)
      BY <2>3 DEF MaxElems, MaxWithDeleted, Size
    <2>6. n.elems + 1 + n.deleted <= MaxWithDeleted(n)
      BY <1>1, <1>3, <2>3, <2>5, LimitsAre DEF RoomForOne
    <2>7. RoomForOne(n, S)
      BY <1>1, <2>3, <2>4, <2>5 DEF RoomForOne
    <2> QED
      BY <1>4, <2>2, <2>6, <2>7
  <1>5. CASE ~(t.elems + 1 + t.deleted > MaxWithDeleted(t))
    BY <1>3, <1>5
  <1> QED
    BY <1>4, <1>5

\* The bits that the new pointer does not share are put back into the entries.
LEMMA Shared ==
    ASSUME NEW t, NEW S \in SUBSET Ptr, RoomForOne(t, S), NEW q \in Ptr
    PROVE  LET n == IF q \cap t.mask # t.common THEN UpdateCommon(t, q) ELSE t IN
           /\ RoomForOne(n, S) /\ Masks(n, S \cup {q})
           /\ n.elems = t.elems /\ n.deleted = t.deleted /\ MaxElems(n) = MaxElems(t)
           /\ MaxWithDeleted(n) = MaxWithDeleted(t)
  <1>1. t \in Table /\ Masks(t, S) /\ t.elems = Cardinality(S) /\ t.shared = FALSE
    BY DEF RoomForOne
  <1>2. PICK d : Placed(t, S, d)
    BY DEF RoomForOne
  <1>3. CASE q \cap t.mask # t.common
    <2>1. PICK n : n = UpdateCommon(t, q)
      OBVIOUS
    <2>2. t.elems = 0 <=> S = {}
      <3>1. IsFiniteSet(S)
        BY <1>1, <1>2, UsedCount
      <3> QED
        BY <1>1, <3>1, FS_EmptySet
    <2>3. /\ n \in TableOf(t.bits) /\ n.bits = t.bits /\ n.shared = t.shared
          /\ n.elems = t.elems /\ n.deleted = t.deleted
          /\ Masks(n, S \cup {q}) /\ Placed(n, S, d)
          /\ \A i \in SlotsOf(t) : ~Valid(t.table[i]) => n.table[i] = t.table[i]
          /\ \A i \in SlotsOf(t) : Valid(t.table[i]) => Valid(n.table[i])
      BY <1>1, <1>2, <2>1, <2>2, UpdateIs
    <2>4. n \in Table /\ SlotsOf(n) = SlotsOf(t) /\ Size(n) = Size(t)
      BY <1>1, <2>3, TableIs DEF Table, SlotsOf, Size
    <2>5. DeletedSlots(n) = DeletedSlots(t)
      BY <2>3, <2>4 DEF DeletedSlots, Valid, Markers
    <2>6. MaxElems(n) = MaxElems(t) /\ MaxWithDeleted(n) = MaxWithDeleted(t)
      BY <2>3, <2>4 DEF MaxElems, MaxWithDeleted
    <2>7. Masks(n, S)
      BY <2>3 DEF Masks
    <2>8. RoomForOne(n, S)
      BY <1>1, <2>3, <2>4, <2>5, <2>6, <2>7 DEF RoomForOne
    <2> QED
      BY <1>3, <2>1, <2>3, <2>6, <2>8
  <1>4. CASE q \cap t.mask = t.common
    <2>1. q \in SUBSET Word /\ q # {}
      BY HighBitIs
    <2>2. ~(t.mask = Word /\ t.common = {})
      BY <1>4, <2>1
    <2>3. Masks(t, S \cup {q})
      BY <1>1, <1>4, <2>2 DEF Masks
    <2> QED
      BY <1>4, <2>3
  <1> QED
    BY <1>3, <1>4

LEMMA HtableAddIs ==
    ASSUME NEW t, NEW S \in SUBSET Ptr, Sound(t, S), NEW q \in Ptr, q \notin S
    PROVE  Sound(HtableAdd(t, q), S \cup {q})
  <1>1. PICK sized : sized = IF t.elems + 1 > MaxElems(t) THEN Doubled(t) ELSE t
    OBVIOUS
  <1>2. RoomForOne(sized, S) /\ sized.elems + sized.deleted <= MaxWithDeleted(sized)
    BY <1>1, Sized
  <1>3. PICK clean : clean = IF sized.elems + 1 + sized.deleted > MaxWithDeleted(sized)
                             THEN Rehashed(sized) ELSE sized
    OBVIOUS
  <1>4. RoomForOne(clean, S) /\ clean.elems + 1 + clean.deleted <= MaxWithDeleted(clean)
    BY <1>2, <1>3, Cleaned
  <1>5. PICK ready : ready = IF q \cap clean.mask # clean.common THEN UpdateCommon(clean, q) ELSE clean
    OBVIOUS
  <1>6. /\ RoomForOne(ready, S) /\ Masks(ready, S \cup {q})
        /\ ready.elems = clean.elems /\ ready.deleted = clean.deleted
        /\ MaxWithDeleted(ready) = MaxWithDeleted(clean)
    BY <1>4, <1>5, Shared
  <1>7. PICK n : n = Put(ready, q)
    OBVIOUS
  <1>8. HtableAdd(t, q) = [n EXCEPT !.elems = @ + 1]
    BY <1>1, <1>3, <1>5, <1>7 DEF HtableAdd
  <1>9. ready \in Table /\ ready.elems = Cardinality(S) /\ ready.shared = FALSE /\ ready.elems \in Nat
        /\ ready.deleted \in Nat /\ ready.bits \in Nat
    BY <1>6, TableIs DEF RoomForOne
  <1>10. PICK d : Placed(ready, S, d)
    BY <1>6 DEF RoomForOne
  <1>11. PICK free \in SlotsOf(ready) : ~Valid(ready.table[free])
    <2>1. Masks(ready, S) /\ Size(ready) \in Nat
      BY <1>6, <1>9, TableIs DEF Masks
    <2>2. Cardinality(S) < Size(ready)
      BY <1>6, <1>9, <2>1, LimitsAre DEF RoomForOne
    <2> QED
      BY <1>9, <1>10, <2>1, <2>2, SomeFree
  <1>12. /\ n \in TableOf(ready.bits) /\ SameBits(n, ready)
         /\ n.shared = ready.shared /\ n.elems = ready.elems /\ n.deleted = ready.deleted
         /\ \E e : Placed(n, S \cup {q}, e)
         /\ \E k \in SlotsOf(ready) :
               /\ ~Valid(ready.table[k]) /\ Valid(n.table[k])
               /\ \A j \in SlotsOf(ready) \ {k} : n.table[j] = ready.table[j]
    <2>1. Masks(ready, S \cup {q}) /\ ready \in Table
      BY <1>6, <1>9
    <2>2. /\ Put(ready, q) \in TableOf(ready.bits) /\ SameBits(Put(ready, q), ready)
          /\ Put(ready, q).shared = ready.shared /\ Put(ready, q).elems = ready.elems
          /\ Put(ready, q).deleted = ready.deleted
          /\ \E e : Placed(Put(ready, q), S \cup {q}, e)
          /\ \E k \in SlotsOf(ready) :
                /\ ~Valid(ready.table[k]) /\ Valid(Put(ready, q).table[k])
                /\ \A j \in SlotsOf(ready) \ {k} : Put(ready, q).table[j] = ready.table[j]
      <3>1. Placed(ready, S, d) /\ ~Valid(ready.table[free]) /\ free \in SlotsOf(ready)
            /\ S \in SUBSET Ptr /\ q \in Ptr /\ q \notin S
        BY <1>10, <1>11
      <3> QED
        BY ONLY <2>1, <3>1, PutPlaces, ZenonT(60)
    <2> QED
      BY <1>7, <2>2
  <1>13. PICK m : m = HtableAdd(t, q)
    OBVIOUS
  <1>14. PICK one \in Nat : one = ready.elems + 1
    BY <1>9
  <1>15. m = [n EXCEPT !.elems = one]
    BY <1>8, <1>12, <1>13, <1>14 DEF TableOf
  <1>16. /\ m \in TableOf(ready.bits) /\ m.bits = n.bits /\ m.mask = n.mask /\ m.common = n.common
         /\ m.perfect = n.perfect /\ m.table = n.table /\ m.shared = n.shared
         /\ m.deleted = n.deleted /\ m.elems = one
    BY <1>12, <1>14, <1>15 DEF TableOf
  <1>17. SameBits(m, n) /\ SameBits(m, ready) /\ m \in Table
    BY <1>9, <1>12, <1>16 DEF SameBits, Table
  <1>18. Masks(m, S \cup {q}) /\ Size(m) = Size(ready) /\ SlotsOf(m) = SlotsOf(ready)
    BY <1>6, <1>17, SameSlots
  <1>19. PICK e : Placed(n, S \cup {q}, e)
    BY <1>12
  <1>20. Placed(m, S \cup {q}, e)
    <2>1. /\ SlotsOf(m) = SlotsOf(n) /\ (\A h, c : Slot(m, h, c) = Slot(n, h, c))
          /\ (\A p, c : Entry(m, p, c) = Entry(n, p, c))
      BY <1>17, SameSlots
    <2>2. Used(m) = Used(n) /\ \A h, c : At(m, h, c) = At(n, h, c)
      BY <1>16, <2>1 DEF Used, At
    <2> QED
      BY <1>19, <2>1, <2>2 DEF Placed
  <1>21. Room(m, S \cup {q})
    <2>1. Cardinality(S \cup {q}) = one
      <3>1. IsFiniteSet(S)
        BY <1>6, <1>9, <1>10, UsedCount DEF RoomForOne
      <3> QED
        BY <1>9, <1>14, <3>1, FS_AddElement
    <2>2. Cardinality(DeletedSlots(m)) <= m.deleted
      <3>1. DeletedSlots(m) \subseteq DeletedSlots(ready)
        BY <1>12, <1>16, <1>18 DEF DeletedSlots, Valid, Markers
      <3>2. IsFiniteSet(DeletedSlots(ready))
        BY <1>9, SlotsAreFinite DEF DeletedSlots
      <3>3. Cardinality(DeletedSlots(m)) <= Cardinality(DeletedSlots(ready))
            /\ Cardinality(DeletedSlots(m)) \in Nat /\ Cardinality(DeletedSlots(ready)) \in Nat
        BY <3>1, <3>2, FS_Subset, FS_CardinalityType
      <3>4. Cardinality(DeletedSlots(ready)) <= ready.deleted
        BY <1>6 DEF RoomForOne
      <3> QED
        BY <1>9, <1>12, <1>16, <3>3, <3>4
    <2>3. MaxElems(m) = MaxElems(ready) /\ MaxWithDeleted(m) = MaxWithDeleted(ready)
      BY <1>12, <1>16, <1>18 DEF MaxElems, MaxWithDeleted
    <2>4. m.elems <= MaxElems(m) /\ m.elems + m.deleted <= MaxWithDeleted(m) /\ ~m.shared
      <3>1. ready.elems + 1 <= MaxElems(ready)
        BY <1>6 DEF RoomForOne
      <3> QED
        BY <1>4, <1>6, <1>9, <1>12, <1>14, <1>16, <2>3, <3>1
    <2> QED
      BY <1>16, <2>1, <2>2, <2>4 DEF Room
  <1> QED
    BY <1>13, <1>17, <1>18, <1>20, <1>21 DEF Sound

-----------------------------------------------------------------------------
(***************************************************************************)
(* htable_firstval and htable_nextval.                                     *)
(***************************************************************************)

\* A search for a hash comes to every element with that hash, and to nothing
\* that is not an element.
LEMMA MatchesAre ==
    ASSUME NEW t, NEW S \in SUBSET Ptr, Sound(t, S), NEW h, NEW P
    PROVE  /\ Matches(t, h, P) \subseteq SlotsOf(t)
           /\ \A d : Placed(t, S, d) => \A p \in S : H(p) = h /\ p \in P => d[p] \in Matches(t, h, P)
           /\ \A c \in Matches(t, h, P) :
                 /\ Slot(t, h, c) \in Used(t) /\ At(t, h, c) = t.table[Slot(t, h, c)]
                 /\ RawPtr(t, At(t, h, c)) \in P \cap S
  <1>1. t \in Table /\ Masks(t, S)
    BY DEF Sound
  <1>2. PICK end \in SlotsOf(t) :
          /\ end = First(t, h, {{}}) /\ \A c \in SlotsOf(t) : At(t, h, c) \in {{}} => end <= c
          /\ At(t, h, end) \in {{}}
    <2>1. PICK i \in SlotsOf(t) : t.table[i] \in {{}}
      BY SoundEmpty
    <2> QED
      BY <1>1, <2>1, FirstIs
  <1>3. PICK n \in Nat \ {0} : n = Size(t) /\ SlotsOf(t) = 0..n - 1
    BY <1>1, TableIs DEF SlotsOf
  <1>4. \A c \in 0..end - 1 : c \in SlotsOf(t)
    BY <1>3
  <1>5. Matches(t, h, P) \subseteq SlotsOf(t)
    BY <1>2, <1>4 DEF Matches
  <1>6. ASSUME NEW d, Placed(t, S, d), NEW p \in S, H(p) = h, p \in P PROVE d[p] \in Matches(t, h, P)
    <2>1. d[p] \in SlotsOf(t) /\ At(t, h, d[p]) = Entry(t, p, d[p])
      BY <1>6 DEF Placed
    <2>2. /\ Valid(Entry(t, p, d[p])) /\ RawPtr(t, Entry(t, p, d[p])) = p
          /\ Extra(t, Entry(t, p, d[p])) = HashBits(t, h) \cup Home(t, d[p])
      BY <1>1, <1>6, EntryIs
    <2>3. d[p] \in 0..end - 1
      <3>1. end # d[p]
        BY <1>2, <2>1, <2>2 DEF Valid, Markers
      <3>2. ~(end < d[p])
        <4>1. ASSUME end < d[p] PROVE end \in 0..d[p] - 1
          BY <1>3, <2>1, <4>1
        <4> QED
          BY <1>2, <1>6, <4>1 DEF Placed
      <3> QED
        BY <1>3, <2>1, <3>1, <3>2
    <2> QED
      BY <1>2, <1>6, <2>1, <2>2, <2>3 DEF Matches
  <1>7. ASSUME NEW c \in Matches(t, h, P)
        PROVE  /\ Slot(t, h, c) \in Used(t) /\ At(t, h, c) = t.table[Slot(t, h, c)]
               /\ RawPtr(t, At(t, h, c)) \in P \cap S
    <2>1. c \in SlotsOf(t) /\ Valid(At(t, h, c)) /\ RawPtr(t, At(t, h, c)) \in P
      BY <1>5 DEF Matches
    <2>2. Slot(t, h, c) \in Used(t)
      BY <1>1, <2>1, SlotIs DEF Used, At
    <2>3. PICK d : Placed(t, S, d)
      BY DEF Sound
    <2>4. RawPtr(t, t.table[Slot(t, h, c)]) \in S
      BY <1>1, <2>2, <2>3, UsedIs
    <2> QED
      BY <2>1, <2>2, <2>4 DEF At
  <1> QED
    BY <1>5, <1>6, <1>7

LEMMA FirstMatchIs ==
    ASSUME NEW t, NEW S \in SUBSET Ptr, Sound(t, S), NEW h, NEW P, Matches(t, h, P) # {}
    PROVE  FirstMatch(t, h, P) \in Matches(t, h, P)
  <1>1. PICK M : M = Matches(t, h, P)
    OBVIOUS
  <1>2. M \in SUBSET Nat /\ M # {}
    <2>1. SlotsOf(t) \subseteq Nat
      BY TableIs DEF SlotsOf, Sound
    <2>2. M \subseteq SlotsOf(t)
      BY <1>1, MatchesAre
    <2> QED
      BY <1>1, <2>1, <2>2
  <1>3. PICK m \in M : \A c \in M : m <= c
    BY <1>2, LeastNatural
  <1>4. FirstMatch(t, h, P) = CHOOSE d \in M : \A c \in M : d <= c
    BY <1>1 DEF FirstMatch
  <1> QED
    BY <1>1, <1>3, <1>4

-----------------------------------------------------------------------------
(***************************************************************************)
(* htable_del.                                                             *)
(***************************************************************************)

\* The marker that htable_delval leaves keeps the searches for others going.
LEMMA DelValIs ==
    ASSUME NEW t, NEW S \in SUBSET Ptr, Sound(t, S), NEW d, Placed(t, S, d), NEW p \in S
    PROVE  Sound(DelVal(t, Slot(t, H(p), d[p])), S \ {p})
  <1>1. t \in Table /\ Masks(t, S) /\ Room(t, S)
    BY DEF Sound
  <1>2. PICK k \in SlotsOf(t) : k = Slot(t, H(p), d[p])
    BY <1>1, ElementIsUsed DEF Used
  <1>3. k \in Used(t) /\ t.elems \in Nat /\ t.deleted \in Nat /\ t.bits \in Nat
    BY <1>1, <1>2, ElementIsUsed, TableIs
  <1>4. IsFiniteSet(S) /\ Cardinality(S) \in Nat /\ t.elems = Cardinality(S)
    BY <1>1, UsedCount DEF Room
  <1>5. Cardinality(S \ {p}) = t.elems - 1 /\ t.elems - 1 \in Nat
    <2>1. IsFiniteSet(S \ {p}) /\ Cardinality(S \ {p}) = Cardinality(S) - 1
      BY <1>4, FS_RemoveElement
    <2>2. Cardinality(S \ {p}) \in Nat
      BY <2>1, FS_CardinalityType
    <2> QED
      BY <1>4, <2>1, <2>2
  <1>6. PICK less, more \in Nat : less = t.elems - 1 /\ more = t.deleted + 1
    BY <1>3, <1>5
  <1>7. PICK n : n = DelVal(t, k)
    OBVIOUS
  <1>8. t \in TableOf(t.bits) /\ Deleted \in SUBSET Word
    <2>1. Deleted \in SUBSET Word
      BY HTableAssumption DEF Deleted, Word
    <2> QED
      BY <1>1, <2>1, TableIs
  <1>9. n = [t EXCEPT !.elems = less, !.table[k] = Deleted, !.deleted = more]
    BY <1>6, <1>7, <1>8 DEF DelVal, TableOf
  <1>10. /\ n \in TableOf(t.bits) /\ n.bits = t.bits /\ n.mask = t.mask /\ n.common = t.common
         /\ n.perfect = t.perfect /\ n.shared = t.shared /\ n.elems = less /\ n.deleted = more
         /\ n.table = [t.table EXCEPT ![k] = Deleted]
    BY <1>6, <1>8, <1>9 DEF TableOf
  <1>11. SameBits(n, t) /\ n \in Table
    BY <1>3, <1>10 DEF SameBits, Table
  <1>12. /\ SlotsOf(n) = SlotsOf(t) /\ (\A h, c : Slot(n, h, c) = Slot(t, h, c)) /\ Size(n) = Size(t)
         /\ (\A q, c : Entry(n, q, c) = Entry(t, q, c)) /\ Masks(n, S)
    BY <1>1, <1>11, SameSlots
  <1>13. n.table[k] = Deleted /\ \A j \in SlotsOf(t) \ {k} : n.table[j] = t.table[j]
    BY <1>1, <1>2, <1>10, TableIs
  <1>14. PICK R : R = S \ {p}
    OBVIOUS
  <1>15. PICK e : e = [q \in R |-> d[q]]
    OBVIOUS
  <1>16. \A q \in R : e[q] = d[q] /\ q \in S /\ q # p
    BY <1>14, <1>15
  <1>17. ASSUME NEW q \in R
         PROVE  d[q] \in SlotsOf(t) /\ Slot(t, H(q), d[q]) \in SlotsOf(t) \ {k}
    <2>1. d[q] \in SlotsOf(t) /\ Slot(t, H(q), d[q]) \in SlotsOf(t)
      BY <1>1, <1>16, ElementIsUsed DEF Used
    <2>2. Slot(t, H(q), d[q]) # k
      BY <1>1, <1>2, <1>16, OneElement
    <2> QED
      BY <2>1, <2>2
  <1>18. Placed(n, R, e)
    <2>1. e \in [R -> SlotsOf(n)]
      BY <1>12, <1>15, <1>17
    <2>2. ASSUME NEW q \in R PROVE At(n, H(q), e[q]) = Entry(n, q, e[q])
      <3>1. At(t, H(q), d[q]) = Entry(t, q, d[q])
        BY <1>16 DEF Placed
      <3> QED
        BY <1>12, <1>13, <1>16, <1>17, <3>1 DEF At
    <2>3. ASSUME NEW q \in R, NEW c \in 0..e[q] - 1 PROVE At(n, H(q), c) # {}
      <3>1. At(t, H(q), c) # {}
        BY <1>16 DEF Placed
      <3>2. c \in SlotsOf(t)
        BY <1>1, <1>16, <1>17, TableIs DEF SlotsOf
      <3>3. Slot(t, H(q), c) \in SlotsOf(t)
        BY <1>1, <3>2, SlotIs
      <3> QED
        BY <1>12, <1>13, <3>1, <3>3 DEF At, Deleted
    <2>4. ASSUME NEW j \in Used(n) PROVE \E q \in R : j = Slot(n, H(q), e[q])
      <3>1. j \in SlotsOf(t) /\ j # k /\ j \in Used(t)
        BY <1>12, <1>13 DEF Used, Valid, Markers
      <3>2. PICK q \in S : j = Slot(t, H(q), d[q])
        BY <3>1 DEF Placed
      <3>3. q # p
        BY <1>2, <3>1, <3>2
      <3> QED
        BY <1>12, <1>14, <1>16, <3>2, <3>3
    <2> QED
      BY <2>1, <2>2, <2>3, <2>4 DEF Placed
  <1>19. Masks(n, R)
    BY <1>12, <1>14 DEF Masks
  <1>20. Room(n, R)
    <2>1. Cardinality(DeletedSlots(n)) <= n.deleted
      <3>1. DeletedSlots(n) = DeletedSlots(t) \cup {k} /\ k \notin DeletedSlots(t)
        BY <1>3, <1>12, <1>13 DEF DeletedSlots, Used, Valid, Markers
      <3>2. IsFiniteSet(DeletedSlots(t)) /\ Cardinality(DeletedSlots(t)) \in Nat
        BY <1>1, SlotsAreFinite DEF DeletedSlots
      <3>3. Cardinality(DeletedSlots(n)) = Cardinality(DeletedSlots(t)) + 1
        BY <3>1, <3>2, FS_AddElement
      <3> QED
        BY <1>1, <1>3, <1>6, <1>10, <3>2, <3>3 DEF Room
    <2>2. ~t.shared
      BY <1>1 DEF Room
    <2>3. MaxElems(n) = MaxElems(t) /\ MaxWithDeleted(n) = MaxWithDeleted(t)
          /\ MaxElems(t) \in Nat /\ MaxWithDeleted(t) \in Nat
      BY <1>1, <1>10, <1>12, LimitsAre DEF MaxElems, MaxWithDeleted
    <2>4. t.elems <= MaxElems(t) /\ t.elems + t.deleted <= MaxWithDeleted(t)
      BY <1>1, <2>2 DEF Room
    <2>5. n.elems <= MaxElems(n) /\ n.elems + n.deleted <= MaxWithDeleted(n)
      BY <1>3, <1>6, <1>10, <2>3, <2>4
    <2> QED
      BY <1>5, <1>6, <1>10, <1>14, <2>1, <2>2, <2>5 DEF Room
  <1> QED
    BY <1>2, <1>7, <1>11, <1>14, <1>18, <1>19, <1>20 DEF Sound

LEMMA HtableDelIs ==
    ASSUME NEW t, NEW S \in SUBSET Ptr, Sound(t, S), NEW p \in S
    PROVE  Sound(HtableDel(t, p), S \ {p})
  <1>1. t \in Table /\ Masks(t, S)
    BY DEF Sound
  <1>2. PICK d : Placed(t, S, d)
    BY DEF Sound
  <1>3. Matches(t, H(p), {p}) # {}
    BY <1>2, MatchesAre
  <1>4. PICK c \in Matches(t, H(p), {p}) : c = FirstMatch(t, H(p), {p})
    BY <1>3, FirstMatchIs
  <1>5. Slot(t, H(p), c) = Slot(t, H(p), d[p])
    <2>1. /\ Slot(t, H(p), c) \in Used(t) /\ At(t, H(p), c) = t.table[Slot(t, H(p), c)]
          /\ RawPtr(t, At(t, H(p), c)) \in {p} \cap S
      BY MatchesAre
    <2> QED
      BY <1>1, <1>2, <2>1, UsedIs
  <1>6. HtableDel(t, p) = DelVal(t, Slot(t, H(p), d[p]))
    BY <1>3, <1>4, <1>5 DEF HtableDel, H
  <1> QED
    BY <1>2, <1>6, DelValIs

-----------------------------------------------------------------------------
(***************************************************************************)
(* The steps.                                                              *)
(***************************************************************************)

\* Where the elements are depends on the hash and the keys, which stay.
LEMMA SameHashes ==
    ASSUME hash' = hash, keyof' = keyof, NEW CONSTANT t, NEW CONSTANT S, Sound(t, S)
    PROVE  Sound(t, S)'
  <1>1. PICK d : Placed(t, S, d)
    BY DEF Sound
  <1>2. \A p : H(p)' = H(p)
    BY DEF H
  <1>3. \A p, c : Entry(t, p, c)' = Entry(t, p, c)
    BY DEF Entry
  <1>4. Placed(t, S, d)'
    BY <1>1, <1>2, <1>3 DEF Placed
  <1> QED
    BY <1>4 DEF Sound

\* The fields of the table and the set of the elements stay true to one another,
\* and htable_add keeps a slot empty.
THEOREM Invariance == Spec => []IInv
  <1>1. Init => IInv
    <2> SUFFICES ASSUME Init PROVE IInv
      OBVIOUS
    <2>1. PICK n \in Sizes : ht = HtableInit(n)
      BY DEF Init
    <2>2. stored = {}
      BY DEF Init
    <2> QED
      BY <2>1, <2>2, HtableInitIs DEF IInv
  <1>2. IInv /\ [Next]_vars => IInv'
    <2> SUFFICES ASSUME IInv, [Next]_vars PROVE IInv'
      OBVIOUS
    <2>1. PICK t, S : t = ht' /\ S = stored'
      OBVIOUS
    <2>2. stored \in SUBSET Ptr /\ Sound(ht, stored)
      BY DEF IInv
    <2>3. ASSUME NEW p \in Ptr, Add(p) PROVE S \in SUBSET Ptr /\ Sound(t, S) /\ UNCHANGED <<hash, keyof>>
      BY <2>1, <2>2, <2>3, HtableAddIs DEF Add
    <2>4. ASSUME NEW p \in Ptr, Del(p) PROVE S \in SUBSET Ptr /\ Sound(t, S) /\ UNCHANGED <<hash, keyof>>
      BY <2>1, <2>2, <2>4, HtableDelIs DEF Del
    <2>5. ASSUME NEW n \in Sizes, Clear(n) PROVE S \in SUBSET Ptr /\ Sound(t, S) /\ UNCHANGED <<hash, keyof>>
      BY <2>1, <2>5, HtableInitIs DEF Clear
    <2>6. ASSUME UNCHANGED vars PROVE S \in SUBSET Ptr /\ Sound(t, S)
      <3>1. t = ht /\ S = stored
        BY <2>1, <2>6 DEF vars
      <3> QED
        BY <2>2, <3>1
    <2>7. S \in SUBSET Ptr /\ Sound(t, S) /\ UNCHANGED <<hash, keyof>>
      <3>1. UNCHANGED vars => UNCHANGED <<hash, keyof>>
        BY DEF vars
      <3> QED
        BY <2>3, <2>4, <2>5, <2>6, <3>1 DEF Next
    <2>8. Sound(t, S)'
      BY <2>7, SameHashes
    <2> QED
      BY <2>1, <2>7, <2>8 DEF IInv
  <1> QED
    BY <1>1, <1>2, PTL DEF Spec

\* The run's LookupExact, for all keys and hashes: htable_get finds an element
\* with the key when there is one.
THEOREM Lookup == Spec => []LookupExact
  <1>1. IInv => LookupExact
    <2> SUFFICES ASSUME IInv, NEW key \in Key
                 PROVE  LET with == {p \in stored : keyof[p] = key} IN
                        IF with = {} THEN Get(ht, key) = NULL ELSE Get(ht, key) \in with
      BY DEF LookupExact
    <2>1. stored \in SUBSET Ptr /\ Sound(ht, stored)
      BY DEF IInv
    <2>2. PICK P : P = {p \in Ptr : keyof[p] = key}
      OBVIOUS
    <2>3. PICK h : h = hash[key]
      OBVIOUS
    <2>4. Get(ht, key) = IF Matches(ht, h, P) = {} THEN NULL ELSE RawPtr(ht, At(ht, h, FirstMatch(ht, h, P)))
      BY <2>2, <2>3 DEF Get
    <2>5. ASSUME NEW p \in stored, keyof[p] = key PROVE Matches(ht, h, P) # {}
      <3>1. H(p) = h /\ p \in P
        BY <2>1, <2>2, <2>3, <2>5 DEF H
      <3>2. PICK d : Placed(ht, stored, d)
        BY <2>1 DEF Sound
      <3> QED
        BY <2>1, <3>1, <3>2, MatchesAre
    <2>6. ASSUME Matches(ht, h, P) # {} PROVE Get(ht, key) \in {p \in stored : keyof[p] = key}
      <3>1. FirstMatch(ht, h, P) \in Matches(ht, h, P)
        BY <2>1, <2>6, FirstMatchIs
      <3>2. RawPtr(ht, At(ht, h, FirstMatch(ht, h, P))) \in P \cap stored
        BY <2>1, <3>1, MatchesAre
      <3> QED
        BY <2>2, <2>4, <2>6, <3>2
    <2> QED
      BY <2>4, <2>5, <2>6
  <1> QED
    BY <1>1, Invariance, PTL

\* The run's IterationExact: htable_first and htable_next meet each element once,
\* and elems is their number.
THEOREM EachOnce == Spec => []IterationExact
  <1>1. IInv => IterationExact
    <2> SUFFICES ASSUME IInv PROVE IterationExact
      OBVIOUS
    <2>1. stored \in SUBSET Ptr /\ ht \in Table /\ Masks(ht, stored) /\ Room(ht, stored)
      BY DEF IInv, Sound
    <2>2. PICK d : Placed(ht, stored, d)
      BY DEF IInv, Sound
    <2>3. \A i \in Used(ht) : RawPtr(ht, ht.table[i]) \in stored
      BY <2>1, <2>2, UsedIs
    <2>4. \A p \in stored : \E i \in Used(ht) : RawPtr(ht, ht.table[i]) = p
      BY <2>1, <2>2, ElementIsUsed
    <2>5. Elements(ht) = stored
      BY <2>3, <2>4 DEF Elements
    <2>6. Cardinality(Used(ht)) = Cardinality(stored)
      BY <2>1, <2>2, UsedCount
    <2> QED
      BY <2>1, <2>5, <2>6 DEF IterationExact, Room
  <1> QED
    BY <1>1, Invariance, PTL

\* The run's SearchesEnd: a slot is always empty, whatever was deleted.
THEOREM AlwaysAnEnd == Spec => []SearchesEnd
  <1>1. IInv => SearchesEnd
    <2> SUFFICES ASSUME IInv PROVE SearchesEnd
      OBVIOUS
    <2>1. stored \in SUBSET Ptr /\ Sound(ht, stored)
      BY DEF IInv
    <2>2. \E i \in SlotsOf(ht) : ht.table[i] = {}
      BY <2>1, SoundEmpty
    <2>3. Cardinality(DeletedSlots(ht)) <= ht.deleted
      BY <2>1 DEF Sound, Room
    <2> QED
      BY <2>2, <2>3 DEF SearchesEnd, DeletedSlots
  <1> QED
    BY <1>1, Invariance, PTL
=============================================================================
