------------------------------ MODULE TalProofs ------------------------------
(***************************************************************************)
(* Proofs about Tal, for any number of objects, any programs and any       *)
(* callbacks.                                                              *)
(*                                                                         *)
(* The memory is treated as three values: H for the headers, O for the     *)
(* owners of lists, L for the links. Tree(H, O, L) says that they are a    *)
(* tree, and each call of tal is one or two of a few changes that keep it  *)
(* one. No induction follows next through a list: Ring says that a set of  *)
(* nodes that has the head of a list and with each node the next has every *)
(* node of the list.                                                       *)
(***************************************************************************)
EXTENDS Tal, NaturalLemmas, FiniteSetTheorems, SequenceTheorems

-----------------------------------------------------------------------------
(***************************************************************************)
(* The properties of an object.                                            *)
(***************************************************************************)
Owned == {"NAME", "NOTIFIER"}
SameKind(p, q) ==
    \/ p.type = "NOTIFIER" /\ q.type = "NOTIFIER" /\ p.at = q.at
    \/ p.type = q.type /\ p.type # "NOTIFIER"
    \/ {p.type, q.type} \subseteq {"NAME", "LITERAL"}

\* There is one property of each kind, and none behind a literal name.
PropsOK(s) ==
    /\ s \in Seq(Property)
    /\ \A j, k \in DOMAIN s : SameKind(s[j], s[k]) => j = k
    /\ \A k \in DOMAIN s : s[k].type = "LITERAL" => k = Len(s)

\* The struct children among the properties, and the place of a notifier.
KidsIn(s) ==
    LET found == {k \in DOMAIN s : s[k].type = "CHILDREN"}
    IN IF found = {} THEN NULL ELSE s[CHOOSE k \in found : \A j \in found : k <= j].at
NoteAt(s, note) ==
    LET found == {k \in DOMAIN s : s[k].type = "NOTIFIER" /\ s[k].at = note}
    IN IF found = {} THEN 0 ELSE CHOOSE k \in found : \A j \in found : k <= j
OwnedIn(s) == {k \in DOMAIN s : s[k].type \in Owned}

LEMMA PropertyIs ==
    ASSUME NEW p \in Property
    PROVE  /\ p.type \in {"CHILDREN", "NOTIFIER", "NAME", "LITERAL", "LENGTH"}
           /\ p.type = "CHILDREN" => p.at \in Lists
           /\ p.type = "NOTIFIER" => p.at \in Notes
  BY DEF Property

LEMMA KidsIs ==
    ASSUME NEW s, PropsOK(s)
    PROVE  /\ \A k \in DOMAIN s : s[k].type = "CHILDREN" => KidsIn(s) = s[k].at
           /\ (\A k \in DOMAIN s : s[k].type # "CHILDREN") => KidsIn(s) = NULL
           /\ KidsIn(s) \in Lists \cup {NULL}
  <1>1. /\ s \in Seq(Property)
        /\ \A j, k \in DOMAIN s : s[j].type = "CHILDREN" /\ s[k].type = "CHILDREN" => j = k
    BY DEF PropsOK, SameKind
  <1>2. DOMAIN s = 1..Len(s) /\ Len(s) \in Nat /\ \A k \in DOMAIN s : s[k] \in Property
    BY <1>1
  <1>3. ASSUME NEW k \in DOMAIN s, s[k].type = "CHILDREN" PROVE KidsIn(s) = s[k].at /\ s[k].at \in Lists
    <2>1. {i \in DOMAIN s : s[i].type = "CHILDREN"} = {k}
      BY <1>1, <1>3
    <2>2. (CHOOSE i \in {k} : \A j \in {k} : i <= j) = k
      BY <1>2
    <2>3. KidsIn(s) = s[k].at
      BY <2>1, <2>2 DEF KidsIn
    <2> QED
      BY <1>2, <1>3, <2>3, PropertyIs
  <1>4. ASSUME \A k \in DOMAIN s : s[k].type # "CHILDREN" PROVE KidsIn(s) = NULL
    BY <1>4 DEF KidsIn
  <1> QED
    BY <1>3, <1>4

LEMMA NoteAtIs ==
    ASSUME NEW s, PropsOK(s), NEW note
    PROVE  /\ \A k \in DOMAIN s : s[k].type = "NOTIFIER" /\ s[k].at = note => NoteAt(s, note) = k
           /\ (\A k \in DOMAIN s : ~(s[k].type = "NOTIFIER" /\ s[k].at = note)) => NoteAt(s, note) = 0
           /\ NoteAt(s, note) # 0 => /\ NoteAt(s, note) \in DOMAIN s
                                     /\ s[NoteAt(s, note)].type = "NOTIFIER" /\ s[NoteAt(s, note)].at = note
  <1> DEFINE P(k) == s[k].type = "NOTIFIER" /\ s[k].at = note
  <1>1. s \in Seq(Property) /\ \A j, k \in DOMAIN s : P(j) /\ P(k) => j = k
    <2>1. s \in Seq(Property) /\ \A j, k \in DOMAIN s : SameKind(s[j], s[k]) => j = k
      BY DEF PropsOK
    <2>2. \A j, k \in DOMAIN s : P(j) /\ P(k) => SameKind(s[j], s[k])
      BY DEF SameKind
    <2> HIDE DEF P
    <2> QED
      BY <2>1, <2>2
  <1>2. DOMAIN s = 1..Len(s) /\ Len(s) \in Nat
    BY <1>1
  <1>3. ASSUME NEW k \in DOMAIN s, s[k].type = "NOTIFIER", s[k].at = note PROVE NoteAt(s, note) = k
    <2>1. {i \in DOMAIN s : s[i].type = "NOTIFIER" /\ s[i].at = note} = {k}
      BY <1>1, <1>3
    <2>2. (CHOOSE i \in {k} : \A j \in {k} : i <= j) = k
      BY <1>2
    <2> QED
      BY <2>1, <2>2 DEF NoteAt
  <1>4. ASSUME \A k \in DOMAIN s : ~(s[k].type = "NOTIFIER" /\ s[k].at = note) PROVE NoteAt(s, note) = 0
    BY <1>4 DEF NoteAt
  <1> QED
    BY <1>2, <1>3, <1>4

\* Adding a property in front.
LEMMA Prepended ==
    ASSUME NEW s, PropsOK(s), NEW p \in Property, p.type # "LITERAL" \/ s = <<>>,
           \A k \in DOMAIN s : ~SameKind(p, s[k]) /\ ~SameKind(s[k], p)
    PROVE  /\ PropsOK(<<p>> \o s)
           /\ KidsIn(<<p>> \o s) = IF p.type = "CHILDREN" THEN p.at ELSE KidsIn(s)
           /\ \A note : NoteAt(<<p>> \o s, note) =
                 IF p.type = "NOTIFIER" /\ p.at = note THEN 1
                 ELSE IF NoteAt(s, note) = 0 THEN 0 ELSE NoteAt(s, note) + 1
           /\ \A k \in DOMAIN s : k + 1 \in DOMAIN (<<p>> \o s) /\ (<<p>> \o s)[k + 1] = s[k]
           /\ 1 \in DOMAIN (<<p>> \o s) /\ (<<p>> \o s)[1] = p
           /\ \A k \in DOMAIN (<<p>> \o s) : k = 1 \/ k - 1 \in DOMAIN s
  <1>1. s \in Seq(Property) /\ DOMAIN s = 1..Len(s) /\ Len(s) \in Nat /\ <<p>> \in Seq(Property)
    BY DEF PropsOK
  <1>2. PICK n \in Nat : n = Len(s)
    BY <1>1
  <1>3. PICK u : u = <<p>> \o s
    OBVIOUS
  <1>4. /\ u \in Seq(Property) /\ Len(u) = n + 1 /\ DOMAIN u = 1..(n + 1)
        /\ u[1] = p /\ \A k \in 1..n : u[k + 1] = s[k]
    <2>1. Len(<<p>>) = 1 /\ <<p>>[1] = p
      OBVIOUS
    <2>2. u \in Seq(Property) /\ Len(u) = 1 + n
      BY <1>1, <1>2, <1>3, <2>1, ConcatProperties
    <2>3. \A i \in 1..(1 + n) : u[i] = IF i <= 1 THEN <<p>>[i] ELSE s[i - 1]
      BY <1>1, <1>2, <1>3, <2>1, ConcatProperties
    <2>4. u[1] = p
      BY <2>1, <2>3
    <2>5. ASSUME NEW k \in 1..n PROVE u[k + 1] = s[k]
      <3>1. k + 1 \in 1..(1 + n) /\ ~(k + 1 <= 1) /\ (k + 1) - 1 = k
        OBVIOUS
      <3> QED
        BY <2>3, <3>1
    <2> QED
      BY <2>2, <2>4, <2>5
  <1>5. \A k \in 1..(n + 1) : k = 1 \/ (k - 1 \in 1..n /\ (k - 1) + 1 = k /\ u[k] = s[k - 1])
    <2> SUFFICES ASSUME NEW k \in 1..(n + 1), k # 1 PROVE k - 1 \in 1..n /\ (k - 1) + 1 = k /\ u[k] = s[k - 1]
      OBVIOUS
    <2>1. k - 1 \in 1..n /\ (k - 1) + 1 = k
      OBVIOUS
    <2>2. u[(k - 1) + 1] = s[k - 1]
      BY <1>4, <2>1
    <2> QED
      BY <2>1, <2>2
  <1>6. PropsOK(u)
    <2>1. ASSUME NEW j \in 1..(n + 1), NEW k \in 1..(n + 1), SameKind(u[j], u[k]) PROVE j = k
      <3>1. \A i, m \in 1..n : SameKind(s[i], s[m]) => i = m
        BY <1>1, <1>2 DEF PropsOK
      <3>2. CASE j = 1 /\ k = 1
        BY <3>2
      <3>3. CASE j = 1 /\ k # 1
        BY <1>1, <1>2, <1>4, <1>5, <2>1, <3>3
      <3>4. CASE j # 1 /\ k = 1
        BY <1>1, <1>2, <1>4, <1>5, <2>1, <3>4
      <3>5. CASE j # 1 /\ k # 1
        <4>1. j - 1 = k - 1
          BY <1>5, <2>1, <3>1, <3>5
        <4> QED
          BY <4>1
      <3> QED
        BY <3>2, <3>3, <3>4, <3>5
    <2>2. ASSUME NEW k \in 1..(n + 1), u[k].type = "LITERAL" PROVE k = n + 1
      <3>1. CASE k = 1
        <4>1. s = <<>>
          BY <1>4, <2>2, <3>1
        <4>2. n = 0
          BY <1>2, <4>1
        <4> QED
          BY <3>1, <4>2
      <3>2. CASE k # 1
        <4>1. k - 1 = n
          BY <1>1, <1>2, <1>5, <2>2, <3>2 DEF PropsOK
        <4> QED
          BY <4>1
      <3> QED
        BY <3>1, <3>2
    <2> QED
      BY <1>4, <2>1, <2>2 DEF PropsOK
  <1>7. KidsIn(u) = IF p.type = "CHILDREN" THEN p.at ELSE KidsIn(s)
    <2>1. CASE p.type = "CHILDREN"
      BY <1>4, <1>6, <2>1, KidsIs
    <2>2. CASE p.type # "CHILDREN"
      <3>1. CASE \E k \in 1..n : s[k].type = "CHILDREN"
        <4>1. PICK k \in 1..n : s[k].type = "CHILDREN"
          BY <3>1
        <4>2. k + 1 \in DOMAIN u /\ u[k + 1] = s[k]
          BY <1>4
        <4>3. KidsIn(u) = s[k].at /\ KidsIn(s) = s[k].at
          BY <1>1, <1>2, <1>6, <4>1, <4>2, KidsIs
        <4> QED
          BY <2>2, <4>3
      <3>2. CASE \A k \in 1..n : s[k].type # "CHILDREN"
        <4>1. \A k \in DOMAIN u : u[k].type # "CHILDREN"
          BY <1>4, <1>5, <2>2, <3>2
        <4>2. KidsIn(u) = NULL /\ KidsIn(s) = NULL
          BY <1>1, <1>2, <1>6, <3>2, <4>1, KidsIs
        <4> QED
          BY <2>2, <4>2
      <3> QED
        BY <3>1, <3>2
    <2> QED
      BY <2>1, <2>2
  <1>8. ASSUME NEW note PROVE NoteAt(u, note) = IF p.type = "NOTIFIER" /\ p.at = note THEN 1
                                          ELSE IF NoteAt(s, note) = 0 THEN 0 ELSE NoteAt(s, note) + 1
    <2>1. CASE p.type = "NOTIFIER" /\ p.at = note
      BY <1>4, <1>6, <2>1, NoteAtIs
    <2>2. CASE ~(p.type = "NOTIFIER" /\ p.at = note)
      <3>1. CASE \E k \in 1..n : s[k].type = "NOTIFIER" /\ s[k].at = note
        <4>1. PICK k \in 1..n : s[k].type = "NOTIFIER" /\ s[k].at = note
          BY <3>1
        <4>2. k + 1 \in DOMAIN u /\ u[k + 1] = s[k]
          BY <1>4
        <4>3. NoteAt(u, note) = k + 1
          BY <1>6, <4>1, <4>2, NoteAtIs
        <4>4. NoteAt(s, note) = k
          BY <1>1, <1>2, <4>1, NoteAtIs
        <4> QED
          BY <2>2, <4>3, <4>4
      <3>2. CASE \A k \in 1..n : ~(s[k].type = "NOTIFIER" /\ s[k].at = note)
        <4>1. \A k \in DOMAIN u : ~(u[k].type = "NOTIFIER" /\ u[k].at = note)
          BY <1>4, <1>5, <2>2, <3>2
        <4>2. NoteAt(u, note) = 0 /\ NoteAt(s, note) = 0
          BY <1>1, <1>2, <1>6, <3>2, <4>1, NoteAtIs
        <4> QED
          BY <2>2, <4>2
      <3> QED
        BY <3>1, <3>2
    <2> QED
      BY <2>1, <2>2
  <1>9. \A k \in DOMAIN s : k + 1 \in DOMAIN u /\ u[k + 1] = s[k]
    BY <1>1, <1>2, <1>4
  <1> QED
    BY <1>1, <1>2, <1>3, <1>4, <1>5, <1>6, <1>7, <1>8, <1>9

\* Taking a property away.
LEMMA Removed ==
    ASSUME NEW s, PropsOK(s), NEW i \in DOMAIN s
    PROVE  /\ PropsOK(RemoveAt(s, i))
           /\ s[i].type # "CHILDREN" => KidsIn(RemoveAt(s, i)) = KidsIn(s)
           /\ \A note : IF s[i].type = "NOTIFIER" /\ s[i].at = note THEN NoteAt(RemoveAt(s, i), note) = 0
                      ELSE NoteAt(RemoveAt(s, i), note) = IF NoteAt(s, note) < i THEN NoteAt(s, note) ELSE NoteAt(s, note) - 1
           /\ \A k \in DOMAIN RemoveAt(s, i) :
                 \/ k < i /\ k \in DOMAIN s /\ RemoveAt(s, i)[k] = s[k]
                 \/ k >= i /\ k + 1 \in DOMAIN s /\ RemoveAt(s, i)[k] = s[k + 1]
           /\ \A k \in DOMAIN s : /\ k < i => k \in DOMAIN RemoveAt(s, i) /\ RemoveAt(s, i)[k] = s[k]
                                  /\ k > i => k - 1 \in DOMAIN RemoveAt(s, i) /\ RemoveAt(s, i)[k - 1] = s[k]
           /\ Len(RemoveAt(s, i)) = Len(s) - 1
  <1>1. s \in Seq(Property) /\ DOMAIN s = 1..Len(s) /\ Len(s) \in Nat
    BY DEF PropsOK
  <1>2. PICK n \in Nat : n = Len(s) /\ i \in 1..n
    BY <1>1
  <1>3. PICK a, b, u : a = SubSeq(s, 1, i - 1) /\ b = SubSeq(s, i + 1, n) /\ u = a \o b
    OBVIOUS
  <1>4. a \in Seq(Property) /\ Len(a) = i - 1 /\ \A k \in 1..(i - 1) : a[k] = s[k]
    <2>1. PICK p \in Nat : p = i - 1 /\ p <= n
      BY <1>2
    <2>2. a = SubSeq(s, 1, p) /\ \A k \in 1..p : s[k] \in Property
      BY <1>1, <1>2, <1>3, <2>1
    <2>3. /\ a \in Seq(Property) /\ Len(a) = (IF 1 <= p THEN p - 1 + 1 ELSE 0)
          /\ \A k \in 1..(p - 1 + 1) : a[k] = s[1 + k - 1]
      BY <2>2, SubSeqProperties
    <2>4. ASSUME NEW k \in 1..p PROVE a[k] = s[k]
      <3>1. k \in 1..(p - 1 + 1) /\ 1 + k - 1 = k
        OBVIOUS
      <3> QED
        BY <2>3, <3>1
    <2>5. Len(a) = p
      BY <2>1, <2>3
    <2> QED
      BY <2>1, <2>3, <2>4, <2>5
  <1>5. b \in Seq(Property) /\ Len(b) = n - i /\ \A k \in 1..(n - i) : b[k] = s[i + k]
    <2>1. PICK p \in Nat : p = i + 1 /\ p <= n + 1
      BY <1>2
    <2>2. b = SubSeq(s, p, n) /\ \A k \in p..n : s[k] \in Property
      BY <1>1, <1>2, <1>3, <2>1
    <2>3. /\ b \in Seq(Property) /\ Len(b) = (IF p <= n THEN n - p + 1 ELSE 0)
          /\ \A k \in 1..(n - p + 1) : b[k] = s[p + k - 1]
      BY <2>2, SubSeqProperties
    <2>4. ASSUME NEW k \in 1..(n - i) PROVE b[k] = s[i + k]
      <3>1. k \in 1..(n - p + 1) /\ p + k - 1 = i + k
        BY <1>2, <2>1
      <3> QED
        BY <2>3, <3>1
    <2>5. Len(b) = n - i
      <3>1. (IF p <= n THEN n - p + 1 ELSE 0) = n - i
        BY <1>2, <2>1
      <3> QED
        BY <2>3, <3>1
    <2> QED
      BY <2>3, <2>4, <2>5
  <1>6. /\ u \in Seq(Property) /\ Len(u) = n - 1 /\ DOMAIN u = 1..(n - 1)
        /\ \A k \in 1..(n - 1) : u[k] = IF k < i THEN s[k] ELSE s[k + 1]
    <2>1. u \in Seq(Property) /\ Len(u) = (i - 1) + (n - i)
      BY <1>3, <1>4, <1>5, ConcatProperties
    <2>2. \A k \in 1..((i - 1) + (n - i)) : u[k] = IF k <= i - 1 THEN a[k] ELSE b[k - (i - 1)]
      <3>1. a \in Seq(Property) /\ b \in Seq(Property)
        BY <1>4, <1>5
      <3>2. \A k \in 1..(Len(a) + Len(b)) : (a \o b)[k] = IF k <= Len(a) THEN a[k] ELSE b[k - Len(a)]
        BY <3>1, ConcatProperties
      <3>3. Len(a) = i - 1 /\ Len(b) = n - i
        BY <1>4, <1>5
      <3>4. \A k \in 1..((i - 1) + (n - i)) : (a \o b)[k] = IF k <= i - 1 THEN a[k] ELSE b[k - (i - 1)]
        BY <3>2, <3>3
      <3> QED
        BY <1>3, <3>4
    <2>3. Len(u) = n - 1 /\ DOMAIN u = 1..(n - 1)
      BY <1>2, <2>1
    <2>4. ASSUME NEW k \in 1..(n - 1) PROVE u[k] = IF k < i THEN s[k] ELSE s[k + 1]
      <3> k \in 1..((i - 1) + (n - i))
        BY <1>2
      <3>1. CASE k < i
        <4>1. k \in 1..(i - 1) /\ k <= i - 1
          BY <1>2, <3>1
        <4> QED
          BY <1>4, <2>2, <3>1, <4>1
      <3>2. CASE ~(k < i)
        <4>1. PICK m \in 1..(n - i) : m = k - (i - 1) /\ i + m = k + 1 /\ ~(k <= i - 1)
          BY <1>2, <3>2
        <4>2. u[k] = b[m]
          BY <2>2, <4>1
        <4>3. b[m] = s[i + m]
          BY <1>5
        <4> QED
          BY <3>2, <4>1, <4>2, <4>3
      <3> QED
        BY <3>1, <3>2
    <2> QED
      BY <2>1, <2>3, <2>4
  <1>7. ASSUME NEW k \in 1..(n - 1)
        PROVE  \E m \in 1..n : /\ u[k] = s[m] /\ m # i /\ k = IF m < i THEN m ELSE m - 1
    <2>1. CASE k < i
      BY <1>2, <1>6, <2>1
    <2>2. CASE ~(k < i)
      <3>1. k + 1 \in 1..n /\ k + 1 # i /\ ~(k + 1 < i) /\ (k + 1) - 1 = k
        BY <1>2, <2>2
      <3>2. u[k] = s[k + 1]
        BY <1>6, <2>2
      <3> QED
        BY <3>1, <3>2
    <2> QED
      BY <2>1, <2>2
  <1>8. ASSUME NEW m \in 1..n, m # i
        PROVE  \E k \in 1..(n - 1) : u[k] = s[m] /\ k = IF m < i THEN m ELSE m - 1
    <2>1. CASE m < i
      BY <1>2, <1>6, <2>1
    <2>2. CASE ~(m < i)
      <3>1. m - 1 \in 1..(n - 1) /\ ~(m - 1 < i) /\ (m - 1) + 1 = m
        BY <1>2, <1>8, <2>2
      <3>2. u[m - 1] = s[m]
        BY <1>6, <3>1
      <3> QED
        BY <2>2, <3>1, <3>2
    <2> QED
      BY <2>1, <2>2
  <1>9. PropsOK(u)
    <2>1. ASSUME NEW j \in 1..(n - 1), NEW k \in 1..(n - 1), SameKind(u[j], u[k]) PROVE j = k
      <3>1. PICK x \in 1..n : u[j] = s[x] /\ x # i /\ j = IF x < i THEN x ELSE x - 1
        BY <1>7
      <3>2. PICK y \in 1..n : u[k] = s[y] /\ y # i /\ k = IF y < i THEN y ELSE y - 1
        BY <1>7
      <3>3. x = y
        BY <1>1, <1>2, <2>1, <3>1, <3>2 DEF PropsOK
      <3> QED
        BY <3>1, <3>2, <3>3
    <2>2. ASSUME NEW k \in 1..(n - 1), u[k].type = "LITERAL" PROVE k = n - 1
      <3>1. PICK y \in 1..n : u[k] = s[y] /\ y # i /\ k = IF y < i THEN y ELSE y - 1
        BY <1>7
      <3>2. y = n
        BY <1>1, <1>2, <2>2, <3>1 DEF PropsOK
      <3> QED
        BY <1>2, <3>1, <3>2
    <2> QED
      BY <1>6, <2>1, <2>2 DEF PropsOK
  <1>10. ASSUME s[i].type # "CHILDREN" PROVE KidsIn(u) = KidsIn(s)
    <2>1. CASE \E m \in 1..n : s[m].type = "CHILDREN"
      <3>1. PICK m \in 1..n : s[m].type = "CHILDREN"
        BY <2>1
      <3>2. PICK k \in 1..(n - 1) : u[k] = s[m]
        BY <1>8, <1>10, <3>1
      <3>3. KidsIn(u) = s[m].at /\ KidsIn(s) = s[m].at
        BY <1>1, <1>2, <1>6, <1>9, <3>1, <3>2, KidsIs
      <3> QED
        BY <3>3
    <2>2. CASE \A m \in 1..n : s[m].type # "CHILDREN"
      <3>1. \A k \in 1..(n - 1) : u[k].type # "CHILDREN"
        BY <1>7, <2>2
      <3>2. KidsIn(u) = NULL /\ KidsIn(s) = NULL
        BY <1>1, <1>2, <1>6, <1>9, <2>2, <3>1, KidsIs
      <3> QED
        BY <3>2
    <2> QED
      BY <2>1, <2>2
  <1>11. ASSUME NEW note
         PROVE  IF s[i].type = "NOTIFIER" /\ s[i].at = note THEN NoteAt(u, note) = 0
                ELSE NoteAt(u, note) = IF NoteAt(s, note) < i THEN NoteAt(s, note) ELSE NoteAt(s, note) - 1
    <2>1. CASE s[i].type = "NOTIFIER" /\ s[i].at = note
      <3>1. ASSUME NEW k \in 1..(n - 1), u[k].type = "NOTIFIER" /\ u[k].at = note PROVE FALSE
        <4>1. PICK y \in 1..n : u[k] = s[y] /\ y # i
          BY <1>7
        <4>2. NoteAt(s, note) = i /\ NoteAt(s, note) = y
          BY <1>1, <1>2, <2>1, <3>1, <4>1, NoteAtIs
        <4> QED
          BY <4>1, <4>2
      <3>2. NoteAt(u, note) = 0
        BY <1>6, <1>9, <3>1, NoteAtIs
      <3> QED
        BY <2>1, <3>2
    <2>2. CASE ~(s[i].type = "NOTIFIER" /\ s[i].at = note)
      <3>1. CASE \E m \in 1..n : s[m].type = "NOTIFIER" /\ s[m].at = note
        <4>1. PICK m \in 1..n : s[m].type = "NOTIFIER" /\ s[m].at = note
          BY <3>1
        <4>2. m # i
          BY <2>2, <4>1
        <4>3. PICK k \in 1..(n - 1) : u[k] = s[m] /\ k = IF m < i THEN m ELSE m - 1
          BY <1>8, <4>2
        <4>4. NoteAt(u, note) = k
          BY <1>6, <1>9, <4>1, <4>3, NoteAtIs
        <4>5. NoteAt(s, note) = m
          BY <1>1, <1>2, <4>1, NoteAtIs
        <4> QED
          BY <2>2, <4>3, <4>4, <4>5
      <3>2. CASE \A m \in 1..n : ~(s[m].type = "NOTIFIER" /\ s[m].at = note)
        <4>1. \A k \in DOMAIN u : ~(u[k].type = "NOTIFIER" /\ u[k].at = note)
          BY <1>6, <1>7, <3>2
        <4>2. NoteAt(u, note) = 0
          BY <1>9, <4>1, NoteAtIs
        <4>3. NoteAt(s, note) = 0
          BY <1>1, <1>2, <3>2, NoteAtIs
        <4> QED
          BY <1>2, <2>2, <4>2, <4>3
      <3> QED
        BY <3>1, <3>2
    <2> QED
      BY <2>1, <2>2
  <1>12. ASSUME NEW k \in 1..(n - 1)
         PROVE  \/ k < i /\ k \in 1..n /\ u[k] = s[k]
                \/ k >= i /\ k + 1 \in 1..n /\ u[k] = s[k + 1]
    BY <1>2, <1>6
  <1>13. ASSUME NEW k \in 1..n
         PROVE  /\ k < i => k \in 1..(n - 1) /\ u[k] = s[k]
                /\ k > i => k - 1 \in 1..(n - 1) /\ u[k - 1] = s[k]
    BY <1>2, <1>8
  <1>14. u = RemoveAt(s, i)
    BY <1>2, <1>3 DEF RemoveAt
  <1> QED
    BY <1>1, <1>2, <1>6, <1>9, <1>10, <1>11, <1>12, <1>13, <1>14

\* Adding a literal name behind the others.
LEMMA Appended ==
    ASSUME NEW s, PropsOK(s), NEW p \in Property, p.type = "LITERAL",
           \A k \in DOMAIN s : s[k].type \notin {"NAME", "LITERAL"}
    PROVE  /\ PropsOK(Append(s, p))
           /\ KidsIn(Append(s, p)) = KidsIn(s)
           /\ \A note : NoteAt(Append(s, p), note) = NoteAt(s, note)
           /\ \A k \in DOMAIN s : k \in DOMAIN Append(s, p) /\ Append(s, p)[k] = s[k]
           /\ OwnedIn(Append(s, p)) = OwnedIn(s)
  <1>1. s \in Seq(Property) /\ DOMAIN s = 1..Len(s) /\ Len(s) \in Nat
    BY DEF PropsOK
  <1>2. PICK n \in Nat : n = Len(s)
    BY <1>1
  <1>3. PICK u : u = Append(s, p)
    OBVIOUS
  <1>4. /\ u \in Seq(Property) /\ DOMAIN u = 1..(n + 1) /\ Len(u) = n + 1
        /\ \A k \in 1..n : u[k] = s[k]
        /\ u[n + 1] = p
    BY <1>1, <1>2, <1>3, AppendProperties
  <1>5. \A k \in 1..(n + 1) : k \in 1..n \/ k = n + 1
    OBVIOUS
  <1>6. PropsOK(u)
    <2>1. ASSUME NEW j \in 1..(n + 1), NEW k \in 1..(n + 1), SameKind(u[j], u[k]) PROVE j = k
      <3>1. CASE j \in 1..n /\ k \in 1..n
        BY <1>1, <1>2, <1>4, <2>1, <3>1 DEF PropsOK
      <3>2. CASE j = n + 1 /\ k \in 1..n
        BY <1>1, <1>2, <1>4, <2>1, <3>2 DEF SameKind
      <3>3. CASE k = n + 1 /\ j \in 1..n
        BY <1>1, <1>2, <1>4, <2>1, <3>3 DEF SameKind
      <3> QED
        BY <1>5, <3>1, <3>2, <3>3
    <2>2. ASSUME NEW k \in 1..(n + 1), u[k].type = "LITERAL" PROVE k = n + 1
      BY <1>1, <1>2, <1>4, <1>5, <2>2
    <2> QED
      BY <1>4, <2>1, <2>2 DEF PropsOK
  <1>7. KidsIn(u) = KidsIn(s)
    <2>1. CASE \E m \in 1..n : s[m].type = "CHILDREN"
      <3>1. PICK m \in 1..n : s[m].type = "CHILDREN"
        BY <2>1
      <3>2. m \in DOMAIN u /\ u[m] = s[m]
        BY <1>4
      <3>3. KidsIn(u) = s[m].at /\ KidsIn(s) = s[m].at
        BY <1>1, <1>2, <1>6, <3>1, <3>2, KidsIs
      <3> QED
        BY <3>3
    <2>2. CASE \A m \in 1..n : s[m].type # "CHILDREN"
      <3>1. \A k \in DOMAIN u : u[k].type # "CHILDREN"
        BY <1>4, <1>5, <2>2
      <3>2. KidsIn(u) = NULL /\ KidsIn(s) = NULL
        BY <1>1, <1>2, <1>6, <2>2, <3>1, KidsIs
      <3> QED
        BY <3>2
    <2> QED
      BY <2>1, <2>2
  <1>8. ASSUME NEW note PROVE NoteAt(u, note) = NoteAt(s, note)
    <2>1. CASE \E m \in 1..n : s[m].type = "NOTIFIER" /\ s[m].at = note
      <3>1. PICK m \in 1..n : s[m].type = "NOTIFIER" /\ s[m].at = note
        BY <2>1
      <3>2. m \in DOMAIN u /\ u[m] = s[m]
        BY <1>4
      <3>3. NoteAt(u, note) = m
        BY <1>6, <3>1, <3>2, NoteAtIs
      <3>4. NoteAt(s, note) = m
        BY <1>1, <1>2, <3>1, NoteAtIs
      <3> QED
        BY <3>3, <3>4
    <2>2. CASE \A m \in 1..n : ~(s[m].type = "NOTIFIER" /\ s[m].at = note)
      <3>1. \A k \in DOMAIN u : ~(u[k].type = "NOTIFIER" /\ u[k].at = note)
        BY <1>4, <1>5, <2>2
      <3>2. NoteAt(u, note) = 0 /\ NoteAt(s, note) = 0
        BY <1>1, <1>2, <1>6, <2>2, <3>1, NoteAtIs
      <3> QED
        BY <3>2
    <2> QED
      BY <2>1, <2>2
  <1>9. OwnedIn(u) = OwnedIn(s)
    BY <1>1, <1>2, <1>4, <1>5 DEF OwnedIn, Owned
  <1> QED
    BY <1>1, <1>2, <1>3, <1>4, <1>6, <1>7, <1>8, <1>9

-----------------------------------------------------------------------------
(***************************************************************************)
(* Lists.                                                                  *)
(***************************************************************************)
Links == [next : [Node -> Node \cup {NULL}], prev : [Node -> Node \cup {NULL}]]

\* The list with the head k has the nodes S.
Ring(l, k, S) ==
    /\ k \in S /\ S \subseteq Node
    /\ \A n \in S : /\ l.next[n] \in S /\ l.prev[n] \in S
                    /\ l.prev[l.next[n]] = n /\ l.next[l.prev[n]] = n
    /\ \A T \in SUBSET S : k \in T /\ (\A n \in T : l.next[n] \in T) => T = S

\* The same along prev: what is left of T has with each node the next, so it would
\* have the head.
LEMMA Backwards ==
    ASSUME NEW l, NEW k, NEW S, Ring(l, k, S), NEW T \in SUBSET S,
           k \in T, \A n \in T : l.prev[n] \in T
    PROVE  T = S
  <1> DEFINE Closed(C) == \A n \in C : l.next[n] \in C
             Z == {x \in S : \A C \in SUBSET S : x \in C /\ Closed(C) => k \in C}
  <1>1. /\ k \in S
        /\ \A n \in S : /\ l.next[n] \in S /\ l.prev[n] \in S
                        /\ l.prev[l.next[n]] = n /\ l.next[l.prev[n]] = n
        /\ \A C \in SUBSET S : k \in C /\ Closed(C) => C = S
    BY DEF Ring
  <1>2. k \in Z
    BY <1>1
  <1>3. ASSUME NEW x \in Z PROVE l.next[x] \in Z
    <2> SUFFICES ASSUME NEW C \in SUBSET S, l.next[x] \in C, Closed(C), k \notin C PROVE FALSE
      BY <1>1
    <2>1. C \cup {x} \in SUBSET S /\ Closed(C \cup {x})
      OBVIOUS
    <2>2. k \in C \cup {x}
      BY <2>1
    <2>3. k = x
      BY <2>2
    <2>4. C \cup {x} = S
      BY <1>1, <2>1, <2>3
    <2>5. l.prev[k] \in C \/ l.prev[k] = k
      BY <1>1, <2>3, <2>4
    <2> QED
      BY <1>1, <2>3, <2>5
  <1>4. Z = S
    <2>1. Z \in SUBSET S /\ Closed(Z)
      BY <1>3
    <2> HIDE DEF Z
    <2> QED
      BY <1>1, <1>2, <2>1
  <1>5. ASSUME NEW x \in S, x \notin T PROVE FALSE
    <2>1. S \ T \in SUBSET S /\ Closed(S \ T) /\ x \in S \ T
      BY <1>1, <1>5
    <2>2. x \in Z
      BY <1>4
    <2> HIDE DEF Closed
    <2>3. k \in S \ T
      BY <2>1, <2>2
    <2> QED
      BY <2>3
  <1> QED
    BY <1>5

\* A list that another one's change leaves alone.
LEMMA RingKept ==
    ASSUME NEW l, NEW m, NEW k, NEW S, Ring(l, k, S),
           \A n \in S : m.next[n] = l.next[n] /\ m.prev[n] = l.prev[n]
    PROVE  Ring(m, k, S)
  <1>1. \A n \in S : m.next[n] \in S /\ m.prev[n] \in S /\ m.prev[m.next[n]] = n /\ m.next[m.prev[n]] = n
    BY DEF Ring
  <1>2. ASSUME NEW T \in SUBSET S, k \in T, \A n \in T : m.next[n] \in T PROVE T = S
    <2>1. \A n \in T : l.next[n] \in T
      BY <1>2
    <2> QED
      BY <1>2, <2>1 DEF Ring
  <1> QED
    BY <1>1, <1>2 DEF Ring

\* Nodes in a list are neither their own neighbours nor alone.
LEMMA RingTop ==
    ASSUME NEW l, NEW k, NEW S, Ring(l, k, S)
    PROVE  /\ l.next[k] \in S /\ (l.next[k] = k <=> S = {k})
           /\ \A n \in S \ {k} : l.next[n] # n /\ l.prev[n] # n
  <1>1. ASSUME l.next[k] = k PROVE S = {k}
    <2>1. {k} \in SUBSET S /\ k \in {k} /\ \A n \in {k} : l.next[n] \in {k}
      BY <1>1 DEF Ring
    <2> QED
      BY <2>1 DEF Ring
  <1>2. ASSUME NEW n \in S \ {k}, l.next[n] = n \/ l.prev[n] = n PROVE FALSE
    <2>1. l.next[n] = n /\ l.prev[n] = n
      BY <1>2 DEF Ring
    <2>2. S \ {n} \in SUBSET S /\ k \in S \ {n} /\ \A m \in S \ {n} : l.next[m] \in S \ {n}
      BY <2>1 DEF Ring
    <2>3. S \ {n} = S
      BY <2>2 DEF Ring
    <2> QED
      BY <2>3
  <1> QED
    BY <1>1, <1>2 DEF Ring

LEMMA RingInit ==
    ASSUME NEW l \in Links, NEW k \in Node
    PROVE  /\ ListHeadInit(l, k) \in Links
           /\ Ring(ListHeadInit(l, k), k, {k})
           /\ \A n \in Node \ {k} : /\ ListHeadInit(l, k).next[n] = l.next[n]
                                    /\ ListHeadInit(l, k).prev[n] = l.prev[n]
  <1>1. PICK m : m = ListHeadInit(l, k)
    OBVIOUS
  <1>2. m.next = [l.next EXCEPT ![k] = k] /\ m.prev = [l.prev EXCEPT ![k] = k] /\ m = [next |-> m.next, prev |-> m.prev]
    BY <1>1 DEF ListHeadInit, Link
  <1>3. l.next \in [Node -> Node \cup {NULL}] /\ l.prev \in [Node -> Node \cup {NULL}]
    BY DEF Links
  <1>4. m \in Links /\ m.next[k] = k /\ m.prev[k] = k
        /\ \A n \in Node \ {k} : m.next[n] = l.next[n] /\ m.prev[n] = l.prev[n]
    BY <1>2, <1>3 DEF Links
  <1>5. Ring(m, k, {k})
    BY <1>4 DEF Ring
  <1> QED
    BY <1>1, <1>4, <1>5

LEMMA RingAdd ==
    ASSUME NEW l \in Links, NEW k, NEW S, Ring(l, k, S), NEW n \in Node \ S
    PROVE  /\ ListAdd(l, k, n) \in Links
           /\ Ring(ListAdd(l, k, n), k, S \cup {n})
           /\ \A x \in Node \ (S \cup {n}) : /\ ListAdd(l, k, n).next[x] = l.next[x]
                                             /\ ListAdd(l, k, n).prev[x] = l.prev[x]
  <1>1. PICK m, a : m = ListAdd(l, k, n) /\ a = l.next[k]
    OBVIOUS
  <1>2. /\ m.next = [l.next EXCEPT ![n] = a, ![k] = n] /\ m.prev = [l.prev EXCEPT ![n] = k, ![a] = n]
        /\ m = [next |-> m.next, prev |-> m.prev]
    BY <1>1 DEF ListAdd, ListAddAfter
  <1>3. l.next \in [Node -> Node \cup {NULL}] /\ l.prev \in [Node -> Node \cup {NULL}]
    BY DEF Links
  <1>4. k \in S /\ k \in Node /\ a \in S /\ a \in Node /\ k # n /\ a # n
        /\ S \subseteq Node /\ l.prev[a] = k
    BY <1>1 DEF Ring
  <1>5. /\ m \in Links
        /\ m.next[n] = a /\ m.next[k] = n /\ \A x \in Node \ {n, k} : m.next[x] = l.next[x]
        /\ m.prev[n] = k /\ m.prev[a] = n /\ \A x \in Node \ {n, a} : m.prev[x] = l.prev[x]
    BY <1>2, <1>3, <1>4 DEF Links
  <1>6. ASSUME NEW x \in S \cup {n}
        PROVE  /\ m.next[x] \in S \cup {n} /\ m.prev[x] \in S \cup {n}
               /\ m.prev[m.next[x]] = x /\ m.next[m.prev[x]] = x
    <2>1. CASE x = n
      BY <1>4, <1>5, <2>1
    <2>2. CASE x \in S
      <3>1. /\ l.next[x] \in S /\ l.prev[x] \in S /\ l.prev[l.next[x]] = x /\ l.next[l.prev[x]] = x
            /\ l.next[k] = a
        BY <1>1, <2>2 DEF Ring
      <3>2. m.next[x] \in S \cup {n} /\ m.prev[m.next[x]] = x
        BY <1>4, <1>5, <2>2, <3>1
      <3>3. m.prev[x] \in S \cup {n} /\ m.next[m.prev[x]] = x
        BY <1>4, <1>5, <2>2, <3>1
      <3> QED
        BY <3>2, <3>3
    <2> QED
      BY <2>1, <2>2
  <1>7. ASSUME NEW T \in SUBSET (S \cup {n}), k \in T, \A x \in T : m.next[x] \in T PROVE T = S \cup {n}
    <2>1. n \in T /\ a \in T
      BY <1>5, <1>7
    <2>2. ASSUME NEW x \in T \ {n} PROVE l.next[x] \in T \ {n}
      <3>1. x \in S /\ l.next[x] \in S
        BY DEF Ring
      <3>2. CASE x = k
        BY <1>1, <1>4, <2>1, <3>2
      <3>3. CASE x # k
        BY <1>4, <1>5, <1>7, <3>1, <3>3
      <3> QED
        BY <3>2, <3>3
    <2>3. T \ {n} \in SUBSET S /\ k \in T \ {n}
      BY <1>4, <1>7
    <2>4. T \ {n} = S
      BY <2>2, <2>3 DEF Ring
    <2> QED
      BY <2>1, <2>4
  <1>8. Ring(m, k, S \cup {n})
    BY <1>4, <1>6, <1>7 DEF Ring
  <1> QED
    BY <1>1, <1>4, <1>5, <1>8

LEMMA RingDel ==
    ASSUME NEW l \in Links, NEW k, NEW S, Ring(l, k, S), NEW n \in S \ {k}
    PROVE  /\ ListDel(l, n) \in Links
           /\ Ring(ListDel(l, n), k, S \ {n})
           /\ \A x \in Node \ S : ListDel(l, n).next[x] = l.next[x] /\ ListDel(l, n).prev[x] = l.prev[x]
  <1>1. PICK m, p, q : m = ListDel(l, n) /\ p = l.prev[n] /\ q = l.next[n]
    OBVIOUS
  <1>2. m.next = [l.next EXCEPT ![p] = q] /\ m.prev = [l.prev EXCEPT ![q] = p] /\ m = [next |-> m.next, prev |-> m.prev]
    BY <1>1 DEF ListDel, Link
  <1>3. l.next \in [Node -> Node \cup {NULL}] /\ l.prev \in [Node -> Node \cup {NULL}]
    BY DEF Links
  <1>4. k \in S /\ S \subseteq Node /\ p \in S \ {n} /\ q \in S \ {n} /\ l.next[p] = n /\ l.prev[q] = n
    BY <1>1, RingTop DEF Ring
  <1>5. /\ m \in Links
        /\ m.next[p] = q /\ \A x \in Node \ {p} : m.next[x] = l.next[x]
        /\ m.prev[q] = p /\ \A x \in Node \ {q} : m.prev[x] = l.prev[x]
    BY <1>2, <1>3, <1>4 DEF Links
  <1>6. ASSUME NEW x \in S \ {n}
        PROVE  /\ m.next[x] \in S \ {n} /\ m.prev[x] \in S \ {n}
               /\ m.prev[m.next[x]] = x /\ m.next[m.prev[x]] = x
    <2>1. /\ l.next[x] \in S /\ l.prev[x] \in S /\ l.prev[l.next[x]] = x /\ l.next[l.prev[x]] = x
      BY DEF Ring
    <2>2. l.next[x] = n => x = p
      BY <1>1, <2>1
    <2>3. l.prev[x] = n => x = q
      BY <1>1, <2>1
    <2>4. l.next[x] = q => x = n
      BY <1>4, <2>1
    <2>5. l.prev[x] = p => x = n
      BY <1>4, <2>1
    <2>6. m.next[x] \in S \ {n} /\ m.prev[m.next[x]] = x
      BY <1>4, <1>5, <2>1, <2>2, <2>4
    <2>7. m.prev[x] \in S \ {n} /\ m.next[m.prev[x]] = x
      BY <1>4, <1>5, <2>1, <2>3, <2>5
    <2> QED
      BY <2>6, <2>7
  <1>7. ASSUME NEW T \in SUBSET (S \ {n}), k \in T, \A x \in T : m.next[x] \in T PROVE T = S \ {n}
    <2>1. CASE p \in T
      <3>1. \A x \in T \cup {n} : l.next[x] \in T \cup {n}
        BY <1>1, <1>4, <1>5, <1>7, <2>1
      <3>2. T \cup {n} \in SUBSET S
        OBVIOUS
      <3>3. T \cup {n} = S
        BY <1>7, <3>1, <3>2 DEF Ring
      <3> QED
        BY <3>3
    <2>2. CASE p \notin T
      <3>1. \A x \in T : l.next[x] \in T
        BY <1>4, <1>5, <1>7, <2>2
      <3>2. T = S
        BY <1>7, <3>1 DEF Ring
      <3> QED
        BY <3>2
    <2> QED
      BY <2>1, <2>2
  <1>8. Ring(m, k, S \ {n})
    BY <1>4, <1>6, <1>7 DEF Ring
  <1> QED
    BY <1>1, <1>4, <1>5, <1>8

\* A node that moves.
Moved(l, h, n) ==
    [next |-> [l.next EXCEPT ![n] = l.next[h], ![h] = NULL, ![l.prev[h]] = n],
     prev |-> [l.prev EXCEPT ![n] = l.prev[h], ![h] = NULL, ![l.next[h]] = n]]

LEMMA RingMoved ==
    ASSUME NEW l \in Links, NEW k, NEW S, Ring(l, k, S), NEW h \in S \ {k}, NEW n \in Node \ S
    PROVE  /\ Moved(l, h, n) \in Links
           /\ Ring(Moved(l, h, n), k, (S \ {h}) \cup {n})
           /\ \A x \in Node \ (S \cup {n}) : /\ Moved(l, h, n).next[x] = l.next[x]
                                             /\ Moved(l, h, n).prev[x] = l.prev[x]
  <1>1. PICK m, p, q : m = Moved(l, h, n) /\ p = l.prev[h] /\ q = l.next[h]
    OBVIOUS
  <1>2. /\ m.next = [l.next EXCEPT ![n] = q, ![h] = NULL, ![p] = n]
        /\ m.prev = [l.prev EXCEPT ![n] = p, ![h] = NULL, ![q] = n]
        /\ m = [next |-> m.next, prev |-> m.prev]
    BY <1>1 DEF Moved
  <1>3. l.next \in [Node -> Node \cup {NULL}] /\ l.prev \in [Node -> Node \cup {NULL}]
    BY DEF Links
  <1>4. k \in S /\ S \subseteq Node /\ p \in S \ {h} /\ q \in S \ {h} /\ l.next[p] = h /\ l.prev[q] = h
        /\ n # h /\ n # p /\ n # q
    BY <1>1, RingTop DEF Ring
  <1>5. /\ m \in Links
        /\ m.next[n] = q /\ m.next[p] = n /\ \A x \in Node \ {n, h, p} : m.next[x] = l.next[x]
        /\ m.prev[n] = p /\ m.prev[q] = n /\ \A x \in Node \ {n, h, q} : m.prev[x] = l.prev[x]
    BY <1>2, <1>3, <1>4 DEF Links
  <1> DEFINE U == (S \ {h}) \cup {n}
  <1>6. ASSUME NEW x \in U
        PROVE  m.next[x] \in U /\ m.prev[x] \in U /\ m.prev[m.next[x]] = x /\ m.next[m.prev[x]] = x
    <2>1. CASE x = n
      BY <1>4, <1>5, <2>1
    <2>2. CASE x # n
      <3>1. /\ l.next[x] \in S /\ l.prev[x] \in S /\ l.prev[l.next[x]] = x /\ l.next[l.prev[x]] = x
            /\ x \in S /\ x # h
        BY <2>2 DEF Ring
      <3>2. l.next[x] = h => x = p
        BY <1>1, <3>1
      <3>3. l.prev[x] = h => x = q
        BY <1>1, <3>1
      <3>4. l.next[x] = q => x = h
        BY <1>4, <3>1
      <3>5. l.prev[x] = p => x = h
        BY <1>4, <3>1
      <3>6. m.next[x] \in U /\ m.prev[m.next[x]] = x
        BY <1>4, <1>5, <2>2, <3>1, <3>2, <3>4
      <3>7. m.prev[x] \in U /\ m.next[m.prev[x]] = x
        BY <1>4, <1>5, <2>2, <3>1, <3>3, <3>5
      <3> QED
        BY <3>6, <3>7
    <2> QED
      BY <2>1, <2>2
  <1>7. ASSUME NEW T \in SUBSET U, k \in T, \A x \in T : m.next[x] \in T PROVE T = U
    <2>1. CASE n \in T
      <3>1. ASSUME NEW x \in (T \ {n}) \cup {h} PROVE l.next[x] \in (T \ {n}) \cup {h}
        <4>1. CASE x = h
          BY <1>1, <1>4, <1>5, <1>7, <2>1, <4>1
        <4>2. CASE x = p
          BY <1>4, <4>2
        <4>3. CASE x # h /\ x # p
          <5>1. x \in T /\ x \in S /\ m.next[x] = l.next[x]
            BY <1>4, <1>5, <4>3
          <5>2. l.next[x] \in S
            BY <5>1 DEF Ring
          <5> QED
            BY <1>7, <5>1, <5>2
        <4> QED
          BY <4>1, <4>2, <4>3
      <3>2. (T \ {n}) \cup {h} \in SUBSET S /\ k \in (T \ {n}) \cup {h}
        BY <1>4, <1>7
      <3>3. (T \ {n}) \cup {h} = S
        BY <3>1, <3>2 DEF Ring
      <3> QED
        BY <1>4, <2>1, <3>3
    <2>2. CASE n \notin T
      <3>1. \A x \in T : l.next[x] \in T
        BY <1>4, <1>5, <1>7, <2>2
      <3>2. T \in SUBSET S
        BY <2>2
      <3>3. T = S
        BY <1>7, <3>1, <3>2 DEF Ring
      <3> QED
        BY <3>3
    <2> QED
      BY <2>1, <2>2
  <1>8. Ring(m, k, U)
    BY <1>4, <1>6, <1>7 DEF Ring
  <1> QED
    BY <1>1, <1>4, <1>5, <1>8

\* f follows next from the head k.
Follows(f, l, k, n) == f[0] = k /\ \A i \in 1..n : f[i] = l.next[f[i - 1]]

LEMMA WalkIs ==
    ASSUME NEW l \in Links, NEW k, NEW S, Ring(l, k, S)
    PROVE  Walk(l, k) \in [0..Cardinality(Node) -> S] /\ Follows(Walk(l, k), l, k, Cardinality(Node))
  <1> DEFINE at == CHOOSE v : v = [i \in 0..Cardinality(Node) |-> IF i = 0 THEN k ELSE l.next[v[i - 1]]]
  <1>1. DOMAIN l.next = Node /\ Cardinality(Node) \in Nat
    <2>1. IsFiniteSet(Node)
      <3>1. IsFiniteSet(Hdr \cup {Root}) /\ IsFiniteSet(Kids \cup {RootKids})
        BY TalAssumption, FS_AddElement
      <3> QED
        BY <3>1, FS_Union DEF Node, Heads, Lists
    <2> QED
      BY <2>1, FS_CardinalityType DEF Links
  <1>2. PICK n \in Nat : n = Cardinality(Node)
    BY <1>1
  <1>3. PICK g : g = [i \in 1..n |-> [x \in S |-> l.next[x]]]
    OBVIOUS
  <1>4. g \in [1..n -> [S -> S]] /\ k \in S
    BY <1>3 DEF Ring
  <1>5. PICK v : IsLoop(v, S, k, n, g)
    BY <1>4, RecursiveFunction
  <1>6. v \in [0..n -> S] /\ v[0] = k /\ \A i \in 1..n : v[i] = l.next[v[i - 1]]
    <2>1. v \in [0..n -> S] /\ v[0] = k /\ \A i \in 1..n : v[i] = g[i][v[i - 1]]
      BY <1>5 DEF IsLoop
    <2>2. ASSUME NEW i \in 1..n PROVE v[i] = l.next[v[i - 1]]
      <3>1. i - 1 \in 0..n
        OBVIOUS
      <3>2. v[i - 1] \in S
        BY <2>1, <3>1
      <3> QED
        BY <1>3, <2>1, <3>2
    <2> QED
      BY <2>1, <2>2
  <1>7. v = [i \in 0..n |-> IF i = 0 THEN k ELSE l.next[v[i - 1]]]
    <2>1. \A i \in 0..n : i = 0 \/ i \in 1..n
      OBVIOUS
    <2> QED
      BY <1>6, <2>1
  <1>8. at = [i \in 0..n |-> IF i = 0 THEN k ELSE l.next[at[i - 1]]]
    BY <1>2, <1>7
  <1>9. Walk(l, k) = at
    BY <1>1 DEF Walk
  <1> HIDE DEF at
  <1>10. PICK f : f = at
    OBVIOUS
  <1>11. Follows(f, l, k, n) /\ DOMAIN f = 0..n
    <2>1. f = [i \in 0..n |-> IF i = 0 THEN k ELSE l.next[f[i - 1]]]
      BY <1>8, <1>10
    <2>2. f[0] = k
      BY <2>1
    <2>3. ASSUME NEW i \in 1..n PROVE f[i] = l.next[f[i - 1]]
      <3>1. i \in 0..n /\ i # 0
        OBVIOUS
      <3> QED
        BY <2>1, <3>1
    <2> QED
      BY <2>1, <2>2, <2>3 DEF Follows
  <1>12. \A i \in 0..n : f[i] \in S
    <2>1. PICK X : X = {i \in 0..n : f[i] \in S}
      OBVIOUS
    <2>2. 0 \in X
      BY <1>4, <1>11, <2>1 DEF Follows
    <2>3. ASSUME NEW i \in 1..n, i - 1 \in X PROVE i \in X
      <3>1. f[i - 1] \in S /\ f[i] = l.next[f[i - 1]] /\ i \in 0..n
        BY <1>11, <2>1, <2>3 DEF Follows
      <3> QED
        BY <2>1, <3>1 DEF Ring
    <2>4. \A i \in 0..n : i \in X
      BY <2>2, <2>3, TurnByTurn
    <2> QED
      BY <2>1, <2>4
  <1>13. f \in [0..n -> S]
    <2>1. f = [i \in 0..n |-> IF i = 0 THEN k ELSE l.next[f[i - 1]]]
      BY <1>8, <1>10
    <2> QED
      BY <1>12, <2>1
  <1> QED
    BY <1>2, <1>9, <1>10, <1>11, <1>13

\* A walk along next comes back to the head in time, past every node: list_check
\* finds nothing wrong.
LEMMA RingIsWalked ==
    ASSUME NEW l \in Links, NEW k, NEW S, Ring(l, k, S)
    PROVE  Members(l, k) = S \ {k} /\ ListCheck(l, k)
  <1>1. IsFiniteSet(Node) /\ Cardinality(Node) \in Nat
    <2>1. IsFiniteSet(Hdr \cup {Root}) /\ IsFiniteSet(Kids \cup {RootKids})
      BY TalAssumption, FS_AddElement
    <2> QED
      BY <2>1, FS_Union, FS_CardinalityType DEF Node, Heads, Lists
  <1> PICK n \in Nat : n = Cardinality(Node)
    BY <1>1
  <1>2. PICK f : n = Cardinality(Node) /\ f = Walk(l, k)
    OBVIOUS
  <1>3. f \in [0..n -> S] /\ f[0] = k /\ \A i \in 1..n : f[i] = l.next[f[i - 1]]
    BY <1>2, WalkIs DEF Follows
  <1>4. S \subseteq Node /\ IsFiniteSet(S) /\ Cardinality(S) \in Nat /\ Cardinality(S) <= n
    BY <1>1, <1>2, FS_Subset, FS_CardinalityType DEF Ring
  <1>5. PICK i \in 0..n, j \in 0..n : i < j /\ f[i] = f[j]
    <2>1. IsFiniteSet(0..n) /\ Cardinality(0..n) = n + 1
      <3>1. 0 \in Int /\ n \in Int /\ ~(0 > n) /\ n - 0 + 1 = n + 1
        OBVIOUS
      <3> QED
        BY <3>1, FS_Interval
    <2>2. PICK x \in 0..n, y \in 0..n : x # y /\ f[x] = f[y]
      BY <1>3, <1>4, <2>1, FS_PigeonHole
    <2> QED
      BY <2>2
  <1>6. PICK j0 \in 1..n : f[j0] = k
    <2> DEFINE T == {x \in Nat : x <= n /\ \E y \in 0..n : x < y /\ f[x] = f[y]}
    <2>1. T \in SUBSET Nat /\ i \in T
      BY <1>5
    <2> HIDE DEF T
    <2>2. PICK x \in T : \A y \in T : x <= y
      BY <2>1, LeastNatural
    <2>3. PICK y \in 0..n : x < y /\ f[x] = f[y] /\ x \in 0..n
      BY <2>1, <2>2 DEF T
    <2>4. CASE x = 0
      BY <1>3, <2>3, <2>4
    <2>5. CASE x # 0
      <3>1. x \in 1..n /\ y \in 1..n /\ x - 1 \in 0..n /\ y - 1 \in 0..n /\ x - 1 < y - 1
        BY <2>3, <2>5
      <3>2. f[x - 1] = l.prev[f[x]] /\ f[y - 1] = l.prev[f[y]]
        <4>1. f[x - 1] \in S /\ f[y - 1] \in S
          BY <1>3, <3>1
        <4>2. f[x] = l.next[f[x - 1]] /\ f[y] = l.next[f[y - 1]]
          BY <1>3, <3>1
        <4>3. \A m \in S : l.prev[l.next[m]] = m
          BY DEF Ring
        <4> QED
          BY <4>1, <4>2, <4>3
      <3>3. x - 1 \in T
        BY <2>3, <3>1, <3>2 DEF T
      <3> QED
        BY <2>1, <2>2, <3>1, <3>3
    <2> QED
      BY <2>4, <2>5
  <1>7. {f[x] : x \in 0..n} = S
    <2> DEFINE T == {f[x] : x \in 0..(j0 - 1)}
    <2>1. T \in SUBSET S /\ T \subseteq {f[x] : x \in 0..n} /\ {f[x] : x \in 0..n} \subseteq S
      BY <1>3
    <2>2. k \in T
      BY <1>3
    <2>3. ASSUME NEW a \in T PROVE l.next[a] \in T
      <3>1. PICK x \in 0..(j0 - 1) : a = f[x]
        OBVIOUS
      <3>2. x + 1 \in 1..n /\ (x + 1) - 1 = x
        OBVIOUS
      <3>3. l.next[a] = f[x + 1]
        BY <1>3, <3>1, <3>2
      <3>4. CASE x + 1 = j0
        BY <1>6, <2>2, <3>3, <3>4
      <3>5. CASE x + 1 # j0
        <4>1. x + 1 \in 0..(j0 - 1)
          BY <3>5
        <4> QED
          BY <3>3, <4>1
      <3> QED
        BY <3>4, <3>5
    <2> HIDE DEF T
    <2>4. T = S
      BY <2>1, <2>2, <2>3 DEF Ring
    <2> QED
      BY <2>1, <2>4
  <1>8. Members(l, k) = S \ {k}
    <2>1. Members(l, k) = {f[x] : x \in 0..n} \ {k}
      BY <1>2, <1>3 DEF Members
    <2> QED
      BY <1>7, <2>1
  <1>9. k \in S /\ \A x \in S : l.prev[l.next[x]] = x
    BY DEF Ring
  <1>10. j0 \in DOMAIN Walk(l, k) \ {0} /\ Walk(l, k)[j0] = k
    BY <1>2, <1>3, <1>6
  <1> QED
    BY <1>8, <1>9, <1>10 DEF ListCheck

-----------------------------------------------------------------------------
(***************************************************************************)
(* The tree.                                                               *)
(***************************************************************************)
StableIn(H) == {h \in Hdr : H[h] # NULL /\ ~H[h].destroying}
NodesIn(H, k) == {k} \cup {h \in StableIn(H) : H[h].parent_child = k}
ParentIn(H, O, h) == O[H[h].parent_child]

\* No set of objects holds the parent of each of them.
NoCycle(H, O) ==
    \A T \in SUBSET StableIn(H) : (\A x \in T : ParentIn(H, O, x) \in T) => T = {}

TreeType(H, O, L) ==
    /\ H \in [Heads -> Header \cup {NULL}]
    /\ O \in [Lists -> Heads \cup {NULL}]
    /\ L \in Links
    /\ H[Root] # NULL
    /\ \A h \in Heads : H[h] # NULL => PropsOK(H[h].prop)
Owners(H, O) ==
    /\ \A k \in Lists : O[k] # NULL => H[O[k]] # NULL /\ KidsIn(H[O[k]].prop) = k
    /\ \A h \in Heads : H[h] # NULL /\ KidsIn(H[h].prop) # NULL => O[KidsIn(H[h].prop)] = h
    /\ \A h \in StableIn(H) : H[h].parent_child \in Lists /\ O[H[h].parent_child] # NULL
Rings(H, O, L) == \A k \in Lists : O[k] # NULL => Ring(L, k, NodesIn(H, k))

Tree(H, O, L) == TreeType(H, O, L) /\ Owners(H, O) /\ Rings(H, O, L) /\ NoCycle(H, O)

LEMMA Sorts ==
    /\ Root \in Heads /\ RootKids \in Lists /\ Hdr \subseteq Heads /\ Kids \subseteq Lists
    /\ Heads \subseteq Node /\ Lists \subseteq Node /\ Heads \cap Lists = {}
    /\ Root \notin Hdr /\ NULL \notin Node /\ NULL \notin Header
    /\ \A h \in Heads : h = Root \/ h \in Hdr
  BY TalAssumption DEF Heads, Lists, Node

\* Objects that are where they were, whatever their properties.
LEMMA SameStable ==
    ASSUME NEW H, NEW G,
           \A h \in Hdr : /\ H[h] = NULL <=> G[h] = NULL
                          /\ H[h] # NULL => /\ G[h].destroying = H[h].destroying
                                            /\ G[h].parent_child = H[h].parent_child
    PROVE  /\ StableIn(G) = StableIn(H)
           /\ \A h \in StableIn(H) : G[h].parent_child = H[h].parent_child
           /\ \A k : NodesIn(G, k) = NodesIn(H, k)
  <1>1. StableIn(G) = StableIn(H)
    BY DEF StableIn
  <1>2. \A h \in StableIn(H) : G[h].parent_child = H[h].parent_child
    BY DEF StableIn
  <1> QED
    BY <1>1, <1>2 DEF NodesIn

\* Other properties, but the same children.
LEMMA TreeProps ==
    ASSUME NEW H, NEW O, NEW L, Tree(H, O, L),
           NEW h \in Heads, H[h] # NULL, NEW s, PropsOK(s), KidsIn(s) = KidsIn(H[h].prop)
    PROVE  Tree([H EXCEPT ![h].prop = s], O, L)
  <1>1. PICK G : G = [H EXCEPT ![h].prop = s]
    OBVIOUS
  <1>2. PICK r : r = [H[h] EXCEPT !.prop = s]
    OBVIOUS
  <1>3. H \in [Heads -> Header \cup {NULL}] /\ H[h] \in Header
    BY DEF Tree, TreeType
  <1>4. /\ r \in Header /\ r # NULL /\ r.prop = s
        /\ r.parent_child = H[h].parent_child /\ r.destroying = H[h].destroying
    <2>1. s \in Seq(Property)
      BY DEF PropsOK
    <2> QED
      BY <1>2, <1>3, <2>1, Sorts DEF Header
  <1>5. G \in [Heads -> Header \cup {NULL}] /\ G[h] = r /\ \A x \in Heads \ {h} : G[x] = H[x]
    BY <1>1, <1>2, <1>3, <1>4
  <1>6. TreeType(G, O, L)
    BY <1>4, <1>5, Sorts DEF Tree, TreeType
  <1>7. \A x \in Heads : /\ G[x] = NULL <=> H[x] = NULL
                         /\ H[x] # NULL => /\ KidsIn(G[x].prop) = KidsIn(H[x].prop)
                                           /\ G[x].destroying = H[x].destroying
                                           /\ G[x].parent_child = H[x].parent_child
    BY <1>4, <1>5
  <1>8. /\ StableIn(G) = StableIn(H)
        /\ \A x \in StableIn(H) : G[x].parent_child = H[x].parent_child
        /\ \A k : NodesIn(G, k) = NodesIn(H, k)
    BY <1>7, Sorts, SameStable
  <1>9. Owners(G, O)
    <2>1. \A k \in Lists : O[k] # NULL => O[k] \in Heads
      BY DEF Tree, TreeType
    <2> QED
      BY <1>7, <1>8, <2>1 DEF Tree, Owners
  <1>10. Rings(G, O, L)
    BY <1>8 DEF Tree, Rings
  <1>11. NoCycle(G, O)
    BY <1>8 DEF Tree, NoCycle, ParentIn
  <1> QED
    BY <1>1, <1>6, <1>9, <1>10, <1>11 DEF Tree

\* A list for the first child of p.
LEMMA TreeNewList ==
    ASSUME NEW H, NEW O, NEW L, Tree(H, O, L),
           NEW p \in Heads, H[p] # NULL, KidsIn(H[p].prop) = NULL,
           NEW k \in Kids, O[k] = NULL,
           NEW s, PropsOK(s), KidsIn(s) = k
    PROVE  Tree([H EXCEPT ![p].prop = s], [O EXCEPT ![k] = p], ListHeadInit(L, k))
  <1>1. PICK G, Q, M : G = [H EXCEPT ![p].prop = s] /\ Q = [O EXCEPT ![k] = p] /\ M = ListHeadInit(L, k)
    OBVIOUS
  <1>2. PICK r : r = [H[p] EXCEPT !.prop = s]
    OBVIOUS
  <1>3. /\ H \in [Heads -> Header \cup {NULL}] /\ H[p] \in Header /\ k \in Lists
        /\ O \in [Lists -> Heads \cup {NULL}] /\ L \in Links
    BY Sorts DEF Tree, TreeType
  <1>4. /\ r \in Header /\ r # NULL /\ r.prop = s
        /\ r.parent_child = H[p].parent_child /\ r.destroying = H[p].destroying
    <2>1. s \in Seq(Property)
      BY DEF PropsOK
    <2> QED
      BY <1>2, <1>3, <2>1, Sorts DEF Header
  <1>5. /\ G \in [Heads -> Header \cup {NULL}] /\ G[p] = r /\ \A x \in Heads \ {p} : G[x] = H[x]
        /\ Q \in [Lists -> Heads \cup {NULL}] /\ Q[k] = p /\ \A x \in Lists \ {k} : Q[x] = O[x]
    BY <1>1, <1>2, <1>3, <1>4
  <1>6. /\ M \in Links /\ Ring(M, k, {k})
        /\ \A x \in Node \ {k} : M.next[x] = L.next[x] /\ M.prev[x] = L.prev[x]
    BY <1>1, <1>3, RingInit, Sorts
  <1>7. TreeType(G, Q, M)
    BY <1>4, <1>5, <1>6, Sorts DEF Tree, TreeType
  <1>8. \A x \in Heads : /\ G[x] = NULL <=> H[x] = NULL
                         /\ H[x] # NULL => /\ G[x].destroying = H[x].destroying
                                           /\ G[x].parent_child = H[x].parent_child
    BY <1>4, <1>5
  <1>9. /\ StableIn(G) = StableIn(H)
        /\ \A x \in StableIn(H) : G[x].parent_child = H[x].parent_child
        /\ \A x : NodesIn(G, x) = NodesIn(H, x)
    BY <1>8, Sorts, SameStable
  <1>10. \A x \in StableIn(H) : /\ H[x].parent_child \in Lists /\ H[x].parent_child # k
                                /\ O[H[x].parent_child] # NULL
    BY DEF Tree, Owners
  <1>11. Owners(G, Q)
    <2>1. ASSUME NEW x \in Lists, Q[x] # NULL PROVE G[Q[x]] # NULL /\ KidsIn(G[Q[x]].prop) = x
      <3>1. CASE x = k
        BY <1>4, <1>5, <3>1
      <3>2. CASE x # k
        <4>1. O[x] # NULL /\ Q[x] = O[x] /\ O[x] \in Heads
          BY <1>3, <1>5, <2>1, <3>2
        <4>2. H[O[x]] # NULL /\ KidsIn(H[O[x]].prop) = x
          BY <4>1 DEF Tree, Owners
        <4>3. O[x] # p
          BY <4>2, <1>3, Sorts
        <4> QED
          BY <1>5, <4>1, <4>2, <4>3
      <3> QED
        BY <3>1, <3>2
    <2>2. ASSUME NEW x \in Heads, G[x] # NULL, KidsIn(G[x].prop) # NULL PROVE Q[KidsIn(G[x].prop)] = x
      <3>1. CASE x = p
        BY <1>4, <1>5, <3>1
      <3>2. CASE x # p
        <4>1. G[x] = H[x] /\ O[KidsIn(H[x].prop)] = x
          BY <1>5, <2>2, <3>2 DEF Tree, Owners
        <4>2. KidsIn(H[x].prop) \in Lists
          <5>1. PropsOK(H[x].prop)
            BY <2>2, <4>1 DEF Tree, TreeType
          <5> QED
            BY <2>2, <4>1, <5>1, KidsIs
        <4>3. KidsIn(H[x].prop) # k
          BY <4>1, Sorts
        <4> QED
          BY <1>5, <4>1, <4>2, <4>3
      <3> QED
        BY <3>1, <3>2
    <2>3. ASSUME NEW x \in StableIn(G) PROVE G[x].parent_child \in Lists /\ Q[G[x].parent_child] # NULL
      BY <1>5, <1>9, <1>10
    <2> QED
      BY <2>1, <2>2, <2>3 DEF Owners
  <1>12. Rings(G, Q, M)
    <2> SUFFICES ASSUME NEW x \in Lists, Q[x] # NULL PROVE Ring(M, x, NodesIn(H, x))
      BY <1>9 DEF Rings
    <2>1. CASE x = k
      <3>1. NodesIn(H, k) = {k}
        BY <1>10 DEF NodesIn
      <3> QED
        BY <1>6, <2>1, <3>1
    <2>2. CASE x # k
      <3>1. Ring(L, x, NodesIn(H, x))
        BY <1>5, <2>2 DEF Tree, Rings
      <3>2. k \notin NodesIn(H, x)
        BY <1>3, <2>2, Sorts DEF NodesIn, StableIn
      <3>3. NodesIn(H, x) \subseteq Node
        BY <3>1 DEF Ring
      <3> QED
        BY <1>6, <3>1, <3>2, <3>3, RingKept
    <2> QED
      BY <2>1, <2>2
  <1>13. NoCycle(G, Q)
    <2>1. \A x \in StableIn(H) : ParentIn(G, Q, x) = ParentIn(H, O, x)
      BY <1>5, <1>9, <1>10 DEF ParentIn
    <2> QED
      BY <1>9, <2>1 DEF Tree, NoCycle
  <1> QED
    BY <1>1, <1>7, <1>11, <1>12, <1>13 DEF Tree

\* An object that leaves its list to be destroyed.
LEMMA TreeDetach ==
    ASSUME NEW H, NEW O, NEW L, Tree(H, O, L), NEW h \in StableIn(H)
    PROVE  /\ Tree([H EXCEPT ![h].destroying = TRUE], O, ListDel(L, h))
           /\ StableIn([H EXCEPT ![h].destroying = TRUE]) = StableIn(H) \ {h}
  <1>1. PICK G, M, j : G = [H EXCEPT ![h].destroying = TRUE] /\ M = ListDel(L, h) /\ j = H[h].parent_child
    OBVIOUS
  <1>2. PICK r : r = [H[h] EXCEPT !.destroying = TRUE]
    OBVIOUS
  <1>3. /\ H \in [Heads -> Header \cup {NULL}] /\ H[h] \in Header /\ h \in Hdr /\ h \in Heads
        /\ O \in [Lists -> Heads \cup {NULL}] /\ L \in Links /\ H[h] # NULL
    BY Sorts DEF Tree, TreeType, StableIn
  <1>4. /\ r \in Header /\ r # NULL /\ r.prop = H[h].prop
        /\ r.parent_child = H[h].parent_child /\ r.destroying = TRUE
    BY <1>2, <1>3, Sorts DEF Header
  <1>5. G \in [Heads -> Header \cup {NULL}] /\ G[h] = r /\ \A x \in Heads \ {h} : G[x] = H[x]
    BY <1>1, <1>2, <1>3, <1>4
  <1>6. j \in Lists /\ O[j] # NULL /\ Ring(L, j, NodesIn(H, j)) /\ h \in NodesIn(H, j) \ {j}
    <2>1. j \in Lists /\ O[j] # NULL
      BY <1>1 DEF Tree, Owners
    <2> QED
      BY <1>1, <1>3, <2>1, Sorts DEF Tree, Rings, NodesIn
  <1>7. /\ M \in Links /\ Ring(M, j, NodesIn(H, j) \ {h})
        /\ \A x \in Node \ NodesIn(H, j) : M.next[x] = L.next[x] /\ M.prev[x] = L.prev[x]
    BY <1>1, <1>3, <1>6, RingDel
  <1>8. /\ StableIn(G) = StableIn(H) \ {h}
        /\ \A x \in StableIn(G) : G[x] = H[x]
    BY <1>3, <1>4, <1>5, Sorts DEF StableIn
  <1>9. TreeType(G, O, M)
    BY <1>3, <1>4, <1>5, <1>7, Sorts DEF Tree, TreeType
  <1>10. Owners(G, O)
    <2>1. \A x \in Heads : /\ G[x] = NULL <=> H[x] = NULL
                           /\ H[x] # NULL => G[x].prop = H[x].prop
      BY <1>3, <1>4, <1>5
    <2>2. \A k \in Lists : O[k] # NULL => O[k] \in Heads
      BY <1>3
    <2> QED
      BY <1>8, <2>1, <2>2 DEF Tree, Owners
  <1>11. Rings(G, O, M)
    <2> SUFFICES ASSUME NEW k \in Lists, O[k] # NULL PROVE Ring(M, k, NodesIn(G, k))
      BY DEF Rings
    <2>1. CASE k = j
      <3>1. NodesIn(G, j) = NodesIn(H, j) \ {h}
        BY <1>6, <1>8 DEF NodesIn
      <3> QED
        BY <1>7, <2>1, <3>1
    <2>2. CASE k # j
      <3>1. Ring(L, k, NodesIn(H, k))
        BY DEF Tree, Rings
      <3>2. NodesIn(G, k) = NodesIn(H, k)
        BY <1>1, <1>8, <2>2 DEF NodesIn
      <3>3. NodesIn(H, k) \cap NodesIn(H, j) = {} /\ NodesIn(H, k) \subseteq Node
        <4>1. \A x \in StableIn(H) : x \notin Lists
          BY Sorts DEF StableIn
        <4>2. NodesIn(H, k) \cap NodesIn(H, j) = {}
          BY <1>6, <2>2, <4>1 DEF NodesIn
        <4> QED
          BY <3>1, <4>2 DEF Ring
      <3> QED
        BY <1>7, <3>1, <3>2, <3>3, RingKept
    <2> QED
      BY <2>1, <2>2
  <1>12. NoCycle(G, O)
    <2>1. \A x \in StableIn(G) : ParentIn(G, O, x) = ParentIn(H, O, x)
      BY <1>8 DEF ParentIn
    <2> QED
      BY <1>8, <2>1 DEF Tree, NoCycle
  <1> QED
    BY <1>1, <1>8, <1>9, <1>10, <1>11, <1>12 DEF Tree

\* An object that comes into a list: a new one, or one that was in another list.
LEMMA TreeAttach ==
    ASSUME NEW H, NEW O, NEW L, Tree(H, O, L),
           NEW h \in Hdr, h \notin StableIn(H), NEW r \in Header, ~r.destroying,
           PropsOK(r.prop), NEW k \in Lists, r.parent_child = k, O[k] # NULL,
           H[h] = NULL => KidsIn(r.prop) = NULL,
           H[h] # NULL => KidsIn(r.prop) = KidsIn(H[h].prop),
           NoCycle([H EXCEPT ![h] = r], O)
    PROVE  /\ Tree([H EXCEPT ![h] = r], O, ListAdd(L, k, h))
           /\ StableIn([H EXCEPT ![h] = r]) = StableIn(H) \cup {h}
  <1>1. PICK G, M : G = [H EXCEPT ![h] = r] /\ M = ListAdd(L, k, h)
    OBVIOUS
  <1>2. /\ H \in [Heads -> Header \cup {NULL}] /\ h \in Heads /\ r # NULL
        /\ O \in [Lists -> Heads \cup {NULL}] /\ L \in Links
    BY Sorts DEF Tree, TreeType
  <1>3. G \in [Heads -> Header \cup {NULL}] /\ G[h] = r /\ \A x \in Heads \ {h} : G[x] = H[x]
    BY <1>1, <1>2
  <1>4. h \in Node \ NodesIn(H, k) /\ Ring(L, k, NodesIn(H, k))
    BY <1>2, Sorts DEF Tree, Rings, NodesIn
  <1>5. /\ M \in Links /\ Ring(M, k, NodesIn(H, k) \cup {h})
        /\ \A x \in Node \ (NodesIn(H, k) \cup {h}) : M.next[x] = L.next[x] /\ M.prev[x] = L.prev[x]
    BY <1>1, <1>2, <1>4, RingAdd
  <1>6. /\ StableIn(G) = StableIn(H) \cup {h}
        /\ \A x \in StableIn(H) : G[x] = H[x] /\ x # h
    BY <1>2, <1>3, Sorts DEF StableIn
  <1>7. TreeType(G, O, M)
    BY <1>2, <1>3, <1>5, Sorts DEF Tree, TreeType
  <1>8. Owners(G, O)
    <2>1. ASSUME NEW x \in Lists, O[x] # NULL PROVE G[O[x]] # NULL /\ KidsIn(G[O[x]].prop) = x
      <3>1. O[x] \in Heads /\ H[O[x]] # NULL /\ KidsIn(H[O[x]].prop) = x
        BY <1>2, <2>1 DEF Tree, Owners
      <3> QED
        BY <1>2, <1>3, <3>1
    <2>2. ASSUME NEW x \in Heads, G[x] # NULL, KidsIn(G[x].prop) # NULL PROVE O[KidsIn(G[x].prop)] = x
      <3>1. H[x] # NULL /\ KidsIn(H[x].prop) = KidsIn(G[x].prop)
        BY <1>3, <2>2
      <3> QED
        BY <2>2, <3>1 DEF Tree, Owners
    <2>3. ASSUME NEW x \in StableIn(G) PROVE G[x].parent_child \in Lists /\ O[G[x].parent_child] # NULL
      BY <1>3, <1>6 DEF Tree, Owners
    <2> QED
      BY <2>1, <2>2, <2>3 DEF Owners
  <1>9. Rings(G, O, M)
    <2> SUFFICES ASSUME NEW x \in Lists, O[x] # NULL PROVE Ring(M, x, NodesIn(G, x))
      BY DEF Rings
    <2>1. CASE x = k
      <3>1. NodesIn(G, k) = NodesIn(H, k) \cup {h}
        BY <1>3, <1>6 DEF NodesIn
      <3> QED
        BY <1>5, <2>1, <3>1
    <2>2. CASE x # k
      <3>1. Ring(L, x, NodesIn(H, x))
        BY DEF Tree, Rings
      <3>2. NodesIn(G, x) = NodesIn(H, x)
        BY <1>3, <1>6, <2>2 DEF NodesIn
      <3>3. NodesIn(H, x) \cap (NodesIn(H, k) \cup {h}) = {} /\ NodesIn(H, x) \subseteq Node
        <4>1. \A y \in StableIn(H) : y \notin Lists /\ y # h
          BY Sorts DEF StableIn
        <4>2. h \notin Lists
          BY Sorts
        <4>3. NodesIn(H, x) \cap (NodesIn(H, k) \cup {h}) = {}
          BY <2>2, <4>1, <4>2 DEF NodesIn
        <4> QED
          BY <3>1, <4>3 DEF Ring
      <3> QED
        BY <1>5, <3>1, <3>2, <3>3, RingKept
    <2> QED
      BY <2>1, <2>2
  <1>10. NoCycle(G, O)
    BY <1>1
  <1> QED
    BY <1>1, <1>6, <1>7, <1>8, <1>9, <1>10 DEF Tree

\* No cycle comes into being if the new parent is not below the object.
LEMMA NoNewCycle ==
    ASSUME NEW H, NEW O, NEW L, Tree(H, O, L),
           NEW h \in Hdr, NEW r \in Header, NEW k \in Lists, r.parent_child = k,
           NEW A, O[k] \in A, h \notin A,
           \A x \in StableIn(H) : x # h /\ x \in A => ParentIn(H, O, x) \in A
    PROVE  NoCycle([H EXCEPT ![h] = r], O)
  <1>1. PICK G : G = [H EXCEPT ![h] = r]
    OBVIOUS
  <1>2. H \in [Heads -> Header \cup {NULL}] /\ h \in Heads
    BY Sorts DEF Tree, TreeType
  <1>3. G[h] = r /\ \A x \in Hdr \ {h} : G[x] = H[x]
    BY <1>1, <1>2, Sorts
  <1>4. \A x \in StableIn(G) : x # h => x \in StableIn(H) /\ ParentIn(G, O, x) = ParentIn(H, O, x)
    BY <1>3 DEF StableIn, ParentIn
  <1>5. ASSUME NEW T \in SUBSET StableIn(G), \A x \in T : ParentIn(G, O, x) \in T PROVE T = {}
    <2>1. CASE h \in T
      <3>1. O[k] \in T \cap A
        BY <1>3, <1>5, <2>1 DEF ParentIn
      <3>2. T \cap A \in SUBSET StableIn(H) /\ \A x \in T \cap A : ParentIn(H, O, x) \in T \cap A
        BY <1>4, <1>5
      <3>3. T \cap A = {}
        BY <3>2 DEF Tree, NoCycle
      <3> QED
        BY <3>1, <3>3
    <2>2. CASE h \notin T
      <3>1. T \in SUBSET StableIn(H) /\ \A x \in T : ParentIn(H, O, x) \in T
        BY <1>4, <1>5, <2>2
      <3> QED
        BY <3>1 DEF Tree, NoCycle
    <2> QED
      BY <2>1, <2>2
  <1> QED
    BY <1>1, <1>5 DEF NoCycle

\* The addresses that are free again.
OwnersWithout(O, gone) == [k \in Lists |-> IF k \in gone THEN NULL ELSE O[k]]
LinksWithout(L, gone) ==
    [next |-> [n \in Node |-> IF n \in gone THEN NULL ELSE L.next[n]],
     prev |-> [n \in Node |-> IF n \in gone THEN NULL ELSE L.prev[n]]]

\* An object whose children are gone, and with it their list.
LEMMA TreeRelease ==
    ASSUME NEW H, NEW O, NEW L, Tree(H, O, L), NEW h \in Hdr, H[h] # NULL, H[h].destroying,
           KidsIn(H[h].prop) # NULL => L.next[KidsIn(H[h].prop)] = KidsIn(H[h].prop),
           NEW gone, gone = {h} \cup ({KidsIn(H[h].prop)} \ {NULL}),
           NEW Q, Q = OwnersWithout(O, gone),
           NEW M, M = LinksWithout(L, gone)
    PROVE  /\ Tree([H EXCEPT ![h] = NULL], Q, M)
           /\ StableIn([H EXCEPT ![h] = NULL]) = StableIn(H)
  <1>1. PICK G, j : G = [H EXCEPT ![h] = NULL] /\ j = KidsIn(H[h].prop)
    OBVIOUS
  <1>2. /\ H \in [Heads -> Header \cup {NULL}] /\ h \in Heads /\ h # Root /\ h \notin Lists
        /\ O \in [Lists -> Heads \cup {NULL}] /\ L \in Links
    BY Sorts DEF Tree, TreeType
  <1>3. G \in [Heads -> Header \cup {NULL}] /\ G[h] = NULL /\ \A x \in Heads \ {h} : G[x] = H[x]
    BY <1>1, <1>2
  <1>4. j \in Lists \cup {NULL} /\ (j # NULL => O[j] = h)
    <2>1. PropsOK(H[h].prop)
      BY <1>2 DEF Tree, TreeType
    <2>2. j \in Lists \cup {NULL}
      BY <1>1, <2>1, KidsIs
    <2> QED
      BY <1>1, <1>2, <2>2 DEF Tree, Owners
  <1>5. /\ Q \in [Lists -> Heads \cup {NULL}]
        /\ \A k \in Lists : Q[k] = IF k = j THEN NULL ELSE O[k]
    <2>1. \A k \in Lists : k \in gone <=> k = j
      BY <1>1, <1>2, Sorts
    <2> QED
      BY <1>2, <2>1 DEF OwnersWithout
  <1>6. M \in Links /\ \A x \in Node \ gone : M.next[x] = L.next[x] /\ M.prev[x] = L.prev[x]
    BY <1>2 DEF Links, LinksWithout
  <1>7. StableIn(G) = StableIn(H) /\ \A x \in StableIn(H) : x # h /\ G[x] = H[x]
    BY <1>2, <1>3, Sorts DEF StableIn
  <1>8. \A x \in StableIn(H) : H[x].parent_child # j
    <2>1. SUFFICES ASSUME NEW x \in StableIn(H), H[x].parent_child = j PROVE FALSE
      OBVIOUS
    <2>2. j \in Lists /\ O[j] # NULL /\ x \in NodesIn(H, j)
      BY <2>1 DEF Tree, Owners, NodesIn
    <2>3. Ring(L, j, NodesIn(H, j)) /\ j # NULL
      BY <2>2, Sorts DEF Tree, Rings
    <2>4. NodesIn(H, j) = {j}
      BY <1>1, <2>3, RingTop
    <2> QED
      BY <2>2, <2>4, Sorts DEF StableIn
  <1>9. TreeType(G, Q, M)
    <2>1. \A x \in Heads : H[x] # NULL => PropsOK(H[x].prop)
      BY DEF Tree, TreeType
    <2>2. \A x \in Heads : G[x] # NULL => PropsOK(G[x].prop)
      BY <1>3, <2>1
    <2>3. G[Root] # NULL
      BY <1>2, <1>3, Sorts DEF Tree, TreeType
    <2> QED
      BY <1>3, <1>5, <1>6, <2>2, <2>3 DEF TreeType
  <1>10. Owners(G, Q)
    <2>1. ASSUME NEW x \in Lists, Q[x] # NULL PROVE G[Q[x]] # NULL /\ KidsIn(G[Q[x]].prop) = x
      <3>1. Q[x] = O[x] /\ O[x] # NULL /\ x # j /\ O[x] \in Heads
        BY <1>2, <1>5, <2>1
      <3>2. H[O[x]] # NULL /\ KidsIn(H[O[x]].prop) = x
        BY <3>1 DEF Tree, Owners
      <3>3. O[x] # h
        BY <1>1, <3>1, <3>2
      <3> QED
        BY <1>3, <3>1, <3>2, <3>3
    <2>2. ASSUME NEW x \in Heads, G[x] # NULL, KidsIn(G[x].prop) # NULL PROVE Q[KidsIn(G[x].prop)] = x
      <3>1. x # h /\ G[x] = H[x] /\ H[x] # NULL
        BY <1>3, <2>2
      <3>2. O[KidsIn(H[x].prop)] = x /\ PropsOK(H[x].prop)
        BY <2>2, <3>1 DEF Tree, TreeType, Owners
      <3>3. KidsIn(H[x].prop) \in Lists
        BY <2>2, <3>1, <3>2, KidsIs
      <3>4. KidsIn(H[x].prop) # j
        BY <1>4, <2>2, <3>1, <3>2
      <3> QED
        BY <1>5, <3>1, <3>2, <3>3, <3>4
    <2>3. ASSUME NEW x \in StableIn(G) PROVE G[x].parent_child \in Lists /\ Q[G[x].parent_child] # NULL
      <3>1. x \in StableIn(H) /\ G[x] = H[x] /\ H[x].parent_child # j
        BY <1>7, <1>8, <2>3
      <3>2. H[x].parent_child \in Lists /\ O[H[x].parent_child] # NULL
        BY <3>1 DEF Tree, Owners
      <3> QED
        BY <1>5, <3>1, <3>2
    <2> QED
      BY <2>1, <2>2, <2>3 DEF Owners
  <1>11. Rings(G, Q, M)
    <2> SUFFICES ASSUME NEW k \in Lists, Q[k] # NULL PROVE Ring(M, k, NodesIn(G, k))
      BY DEF Rings
    <2>1. k # j /\ O[k] # NULL
      BY <1>5
    <2>2. Ring(L, k, NodesIn(H, k)) /\ NodesIn(H, k) \subseteq Node
      BY <2>1 DEF Tree, Rings, Ring
    <2>3. NodesIn(G, k) = NodesIn(H, k)
      BY <1>7 DEF NodesIn
    <2>4. NodesIn(H, k) \cap gone = {}
      BY <1>1, <1>2, <1>4, <1>7, <2>1, Sorts DEF NodesIn, StableIn
    <2> QED
      <3>1. \A x \in NodesIn(H, k) : M.next[x] = L.next[x] /\ M.prev[x] = L.prev[x]
        BY <1>6, <2>2, <2>4
      <3>2. Ring(M, k, NodesIn(H, k))
        BY <2>2, <3>1, RingKept
      <3> QED
        BY <2>3, <3>2
  <1>12. NoCycle(G, Q)
    <2>1. \A x \in StableIn(H) : ParentIn(G, Q, x) = ParentIn(H, O, x)
      BY <1>5, <1>7, <1>8 DEF Tree, Owners, ParentIn
    <2> QED
      BY <1>7, <2>1 DEF Tree, NoCycle
  <1> QED
    BY <1>1, <1>7, <1>9, <1>10, <1>11, <1>12 DEF Tree

\* An object that gets another address, and its list with it.
LEMMA TreeMove ==
    ASSUME NEW H, NEW O, NEW L, Tree(H, O, L), NEW h \in StableIn(H),
           NEW n \in Hdr, H[n] = NULL,
           NEW Q, Q = [k \in Lists |-> IF k = KidsIn(H[h].prop) THEN n ELSE O[k]]
    PROVE  /\ Tree([H EXCEPT ![n] = H[h], ![h] = NULL], Q, Moved(L, h, n))
           /\ StableIn([H EXCEPT ![n] = H[h], ![h] = NULL]) = (StableIn(H) \ {h}) \cup {n}
  <1>1. PICK G, M, j, c : /\ G = [H EXCEPT ![n] = H[h], ![h] = NULL] /\ M = Moved(L, h, n)
                          /\ j = H[h].parent_child /\ c = KidsIn(H[h].prop)
    OBVIOUS
  <1>2. /\ H \in [Heads -> Header \cup {NULL}] /\ H[h] \in Header /\ h \in Hdr /\ h \in Heads
        /\ O \in [Lists -> Heads \cup {NULL}] /\ L \in Links /\ H[h] # NULL /\ n \in Heads /\ n # h
        /\ n \notin StableIn(H) /\ h \notin Lists /\ n \notin Lists /\ n \in Node /\ n # Root /\ h # Root
    BY Sorts DEF Tree, TreeType, StableIn
  <1>3. /\ G \in [Heads -> Header \cup {NULL}] /\ G[h] = NULL /\ G[n] = H[h]
        /\ \A x \in Heads \ {h, n} : G[x] = H[x]
    BY <1>1, <1>2
  <1>4. j \in Lists /\ O[j] # NULL /\ Ring(L, j, NodesIn(H, j)) /\ h \in NodesIn(H, j) \ {j}
    <2>1. j \in Lists /\ O[j] # NULL
      BY <1>1 DEF Tree, Owners
    <2> QED
      BY <1>1, <1>2, <2>1 DEF Tree, Rings, NodesIn
  <1>5. n \in Node \ NodesIn(H, j)
    BY <1>2, <1>4 DEF NodesIn
  <1>6. /\ M \in Links /\ Ring(M, j, (NodesIn(H, j) \ {h}) \cup {n})
        /\ \A x \in Node \ (NodesIn(H, j) \cup {n}) : M.next[x] = L.next[x] /\ M.prev[x] = L.prev[x]
    BY <1>1, <1>2, <1>4, <1>5, RingMoved
  <1>7. /\ StableIn(G) = (StableIn(H) \ {h}) \cup {n}
        /\ \A x \in StableIn(H) \ {h} : G[x] = H[x]
    BY <1>2, <1>3, Sorts DEF StableIn
  <1>8. c \in Lists \cup {NULL} /\ (c # NULL => O[c] = h)
    <2>1. PropsOK(H[h].prop)
      BY <1>2 DEF Tree, TreeType
    <2>2. c \in Lists \cup {NULL}
      BY <1>1, <2>1, KidsIs
    <2> QED
      BY <1>1, <1>2, <2>2 DEF Tree, Owners
  <1>9. /\ Q \in [Lists -> Heads \cup {NULL}]
        /\ \A k \in Lists : /\ Q[k] = IF k = c THEN n ELSE O[k]
                            /\ Q[k] = NULL <=> O[k] = NULL
    BY <1>1, <1>2, <1>8, Sorts
  <1>10. \A k \in Lists : Q[k] = n <=> k = c
    <2>1. ASSUME NEW k \in Lists, O[k] = n PROVE FALSE
      BY <1>2, <2>1, Sorts DEF Tree, Owners
    <2> QED
      BY <1>9, <2>1
  <1>11. \A k \in Lists : k # c => O[k] # h
    BY <1>1, <1>2, Sorts DEF Tree, Owners
  <1>12. TreeType(G, Q, M)
    BY <1>2, <1>3, <1>6, <1>9, Sorts DEF Tree, TreeType
  <1>13. Owners(G, Q)
    <2>1. ASSUME NEW x \in Lists, Q[x] # NULL PROVE G[Q[x]] # NULL /\ KidsIn(G[Q[x]].prop) = x
      <3>1. CASE x = c
        BY <1>1, <1>2, <1>3, <1>9, <3>1
      <3>2. CASE x # c
        <4>1. Q[x] = O[x] /\ O[x] # NULL /\ O[x] # h /\ O[x] # n /\ O[x] \in Heads
          BY <1>2, <1>9, <1>10, <1>11, <2>1, <3>2
        <4>2. H[O[x]] # NULL /\ KidsIn(H[O[x]].prop) = x
          BY <4>1 DEF Tree, Owners
        <4> QED
          BY <1>3, <4>1, <4>2
      <3> QED
        BY <3>1, <3>2
    <2>2. ASSUME NEW x \in Heads, G[x] # NULL, KidsIn(G[x].prop) # NULL PROVE Q[KidsIn(G[x].prop)] = x
      <3>1. CASE x = n
        <4>1. KidsIn(G[x].prop) = c
          BY <1>1, <1>3, <3>1
        <4> QED
          BY <1>8, <1>9, <2>2, <3>1, <4>1
      <3>2. CASE x # n
        <4>1. x # h /\ G[x] = H[x]
          BY <1>3, <2>2, <3>2
        <4>2. O[KidsIn(H[x].prop)] = x /\ PropsOK(H[x].prop)
          BY <2>2, <4>1 DEF Tree, TreeType, Owners
        <4>3. KidsIn(H[x].prop) \in Lists
          BY <2>2, <4>1, <4>2, KidsIs
        <4>4. KidsIn(H[x].prop) # c
          BY <1>8, <4>1, <4>2, <4>3, Sorts
        <4> QED
          BY <1>9, <4>1, <4>2, <4>3, <4>4
      <3> QED
        BY <3>1, <3>2
    <2>3. ASSUME NEW x \in StableIn(G) PROVE G[x].parent_child \in Lists /\ Q[G[x].parent_child] # NULL
      <3>1. CASE x = n
        BY <1>1, <1>3, <1>4, <1>9, <3>1
      <3>2. CASE x # n
        <4>1. x \in StableIn(H) /\ G[x] = H[x]
          BY <1>7, <3>2
        <4> QED
          BY <1>9, <4>1 DEF Tree, Owners
      <3> QED
        BY <3>1, <3>2
    <2> QED
      BY <2>1, <2>2, <2>3 DEF Owners
  <1>14. Rings(G, Q, M)
    <2> SUFFICES ASSUME NEW k \in Lists, Q[k] # NULL PROVE Ring(M, k, NodesIn(G, k))
      BY DEF Rings
    <2>1. CASE k = j
      <3>1. NodesIn(G, j) = (NodesIn(H, j) \ {h}) \cup {n}
        BY <1>1, <1>3, <1>4, <1>7 DEF NodesIn
      <3> QED
        BY <1>6, <2>1, <3>1
    <2>2. CASE k # j
      <3>1. Ring(L, k, NodesIn(H, k))
        BY <1>9 DEF Tree, Rings
      <3>2. NodesIn(G, k) = NodesIn(H, k)
        BY <1>1, <1>3, <1>7, <2>2 DEF NodesIn
      <3>3. NodesIn(H, k) \cap (NodesIn(H, j) \cup {n}) = {} /\ NodesIn(H, k) \subseteq Node
        <4>1. \A x \in StableIn(H) : x \notin Lists /\ x # n
          BY <1>2, Sorts DEF StableIn
        <4>2. NodesIn(H, k) \cap (NodesIn(H, j) \cup {n}) = {}
          BY <1>2, <1>4, <2>2, <4>1 DEF NodesIn
        <4> QED
          BY <3>1, <4>2 DEF Ring
      <3> QED
        BY <1>6, <3>1, <3>2, <3>3, RingKept
    <2> QED
      BY <2>1, <2>2
  <1>15. NoCycle(G, Q)
    <2> SUFFICES ASSUME NEW T \in SUBSET StableIn(G), \A x \in T : ParentIn(G, Q, x) \in T PROVE T = {}
      BY DEF NoCycle
    <2>1. PICK U : U = (T \ {n}) \cup (IF n \in T THEN {h} ELSE {})
      OBVIOUS
    <2>2. U \in SUBSET StableIn(H)
      BY <1>7, <2>1
    <2>3. ASSUME NEW x \in U PROVE ParentIn(H, O, x) \in U
      <3>1. PICK y \in T : y = (IF x = h THEN n ELSE x) /\ G[y] = H[x]
        BY <1>3, <1>7, <2>1
      <3>2. PICK k \in Lists : k = H[x].parent_child /\ Q[k] \in T
        <4>1. H[x].parent_child \in Lists
          BY <2>2 DEF Tree, Owners
        <4> QED
          BY <3>1, <4>1 DEF ParentIn
      <3>3. CASE k = c
        <4>1. Q[k] = n /\ O[k] = h
          BY <1>8, <1>9, <3>3, Sorts
        <4> QED
          BY <2>1, <3>2, <4>1 DEF ParentIn
      <3>4. CASE k # c
        <4>1. Q[k] = O[k] /\ Q[k] # n
          BY <1>9, <1>10, <3>4
        <4> QED
          BY <2>1, <3>2, <4>1 DEF ParentIn
      <3> QED
        BY <3>3, <3>4
    <2>4. U = {}
      BY <2>2, <2>3 DEF Tree, NoCycle
    <2> QED
      BY <2>1, <2>4
  <1> QED
    BY <1>1, <1>7, <1>12, <1>13, <1>14, <1>15 DEF Tree

-----------------------------------------------------------------------------
(***************************************************************************)
(* The way up from an object.                                              *)
(***************************************************************************)
Present(H) == {x \in Heads : H[x] # NULL}

\* f goes from h to its parent and so on, as long as that is not being destroyed.
Climbs(f, H, O, h, n) ==
    /\ f \in [0..n -> Present(H)] /\ f[0] = h
    /\ \A i \in 1..n : f[i] = IF f[i - 1] \in StableIn(H) THEN ParentIn(H, O, f[i - 1]) ELSE f[i - 1]

\* The parent of an object is in use.
LEMMA ParentIsPresent ==
    ASSUME NEW H, NEW O, NEW L, Tree(H, O, L), NEW x \in StableIn(H)
    PROVE  ParentIn(H, O, x) \in Present(H) /\ H[x].parent_child \in Lists
  <1>1. H[x].parent_child \in Lists /\ O[H[x].parent_child] # NULL
    BY DEF Tree, Owners
  <1>2. O[H[x].parent_child] \in Heads
    BY <1>1 DEF Tree, TreeType
  <1> QED
    BY <1>1, <1>2 DEF Tree, Owners, Present, ParentIn

\* There are no cycles, so in as many steps as there are addresses the way ends at
\* an object that is being destroyed, or at null_parent.
LEMMA ClimbEnds ==
    ASSUME NEW H, NEW O, NEW L, Tree(H, O, L), NEW h,
           NEW f, Climbs(f, H, O, h, Cardinality(Hdr))
    PROVE  /\ f[Cardinality(Hdr)] \in Present(H) \ StableIn(H)
           /\ \A k \in 0..Cardinality(Hdr) : f[k] \in StableIn(H) =>
                 \E j \in 0..Cardinality(Hdr) : ParentIn(H, O, f[k]) = f[j]
  <1>1. IsFiniteSet(Hdr) /\ Cardinality(Hdr) \in Nat
    BY TalAssumption, FS_CardinalityType
  <1>2. PICK n \in Nat : n = Cardinality(Hdr)
    BY <1>1
  <1>3. PICK S : S = StableIn(H)
    OBVIOUS
  <1>4. /\ S \subseteq Hdr
        /\ f \in [0..n -> Present(H)] /\ f[0] = h
        /\ \A i \in 1..n : f[i] = IF f[i - 1] \in S THEN ParentIn(H, O, f[i - 1]) ELSE f[i - 1]
    BY <1>2, <1>3 DEF Climbs, StableIn
  <1>5. ASSUME f[n] \in S PROVE FALSE
    <2>1. \A i \in 0..n : f[n - i] \in S
      <3>1. PICK Y : Y = {i \in 0..n : f[n - i] \in S}
        OBVIOUS
      <3>2. 0 \in Y
        <4>1. n - 0 = n
          OBVIOUS
        <4> QED
          BY <1>5, <3>1, <4>1
      <3>3. ASSUME NEW i \in 1..n, i - 1 \in Y PROVE i \in Y
        <4>1. PICK m \in 1..n : m = n - (i - 1) /\ m - 1 = n - i
          OBVIOUS
        <4>2. f[m] \in S
          BY <3>1, <3>3, <4>1
        <4>3. f[m - 1] \in S
          BY <1>4, <4>2
        <4> QED
          BY <3>1, <4>1, <4>3
      <3>4. \A i \in 0..n : i \in Y
        BY <3>2, <3>3, TurnByTurn
      <3> QED
        BY <3>1, <3>4
    <2>2. ASSUME NEW k \in 0..n PROVE f[k] \in S
      <3>1. PICK i \in 0..n : i = n - k
        OBVIOUS
      <3>2. n - i = k
        BY <3>1
      <3> QED
        BY <2>1, <3>2
    <2>3. IsFiniteSet(0..n) /\ Cardinality(0..n) = n + 1
      <3>1. 0 \in Int /\ n \in Int /\ ~(0 > n) /\ n - 0 + 1 = n + 1
        OBVIOUS
      <3> QED
        BY <3>1, FS_Interval
    <2>4. f \in [0..n -> Hdr]
      BY <1>4, <2>2
    <2>5. Cardinality(Hdr) < Cardinality(0..n)
      BY <1>2, <2>3
    <2>6. PICK x \in 0..n, y \in 0..n : x # y /\ f[x] = f[y]
      BY <1>1, <2>3, <2>4, <2>5, FS_PigeonHole
    <2>7. PICK i \in 0..n, j \in 0..n : i < j /\ f[i] = f[j]
      BY <2>6
    <2>8. PICK T : T = {f[k] : k \in i..(j - 1)}
      OBVIOUS
    <2>9. T \in SUBSET S /\ f[i] \in T
      BY <2>2, <2>7, <2>8
    <2>10. ASSUME NEW a \in T PROVE ParentIn(H, O, a) \in T
      <3>1. PICK k \in i..(j - 1) : a = f[k]
        BY <2>8
      <3>2. k + 1 \in 1..n /\ (k + 1) - 1 = k
        OBVIOUS
      <3>3. ParentIn(H, O, a) = f[k + 1]
        BY <1>4, <2>9, <3>1, <3>2
      <3>4. CASE k + 1 = j
        BY <2>7, <2>9, <3>3, <3>4
      <3>5. CASE k + 1 # j
        <4>1. k + 1 \in i..(j - 1)
          BY <3>5
        <4> QED
          BY <2>8, <3>3, <4>1
      <3> QED
        BY <3>4, <3>5
    <2>11. T = {}
      BY <1>3, <2>9, <2>10 DEF Tree, NoCycle
    <2> QED
      BY <2>9, <2>11
  <1>6. ASSUME NEW k \in 0..n, f[k] \in S PROVE \E j \in 0..n : ParentIn(H, O, f[k]) = f[j]
    <2>1. k # n
      BY <1>5, <1>6
    <2>2. k + 1 \in 1..n /\ (k + 1) - 1 = k
      BY <2>1
    <2>3. f[k + 1] = ParentIn(H, O, f[k]) /\ k + 1 \in 0..n
      BY <1>4, <1>6, <2>2
    <2> QED
      BY <2>3
  <1>7. n \in 0..n /\ f[n] \in Present(H)
    BY <1>4
  <1> QED
    BY <1>2, <1>3, <1>5, <1>6, <1>7

\* Sub-expressions of Tal in these terms.
LEMMA InTheseTerms ==
    /\ Stable = StableIn(hdr) /\ Live \cup {Root} \subseteq Heads
    /\ \A h : PropsOK(hdr[h].prop) => ChildrenOf(h) = KidsIn(hdr[h].prop)
    /\ \A h, note : NotifierAt(h, note) = NoteAt(hdr[h].prop, note)
    /\ \A h : OwnPlaces(h) = OwnedIn(hdr[h].prop)
    /\ \A h : ParentOf(h) = ParentIn(hdr, owner, h)
    /\ \A h, n : MovedLinks(h, n) = Moved(links, h, n)
  <1>1. Stable = StableIn(hdr)
    BY DEF Stable, Live, StableIn
  <1>2. Live \cup {Root} \subseteq Heads
    BY DEF Live, Heads
  <1>3. ASSUME NEW h, PropsOK(hdr[h].prop) PROVE ChildrenOf(h) = KidsIn(hdr[h].prop)
    <2>1. PICK s : s = hdr[h].prop
      OBVIOUS
    <2>2. PICK X : X = {k \in DOMAIN s : s[k].type = "CHILDREN"}
      OBVIOUS
    <2>3. PICK m : m = CHOOSE k \in X : \A j \in X : k <= j
      OBVIOUS
    <2>4. DOMAIN s = 1..Len(s) /\ Len(s) \in Nat /\ \A j, k \in X : j = k
      BY <1>3, <2>1, <2>2 DEF PropsOK, SameKind
    <2>5. ASSUME X # {} PROVE m # 0
      <3>1. PICK k \in X : X = {k} /\ k # 0 /\ k \in Nat
        BY <2>2, <2>4, <2>5
      <3> QED
        BY <2>3, <3>1
    <2>6. X = {k \in DOMAIN hdr[h].prop : hdr[h].prop[k].type = "CHILDREN"
                                            \/ ("CHILDREN" = "NAME" /\ hdr[h].prop[k].type = "LITERAL")}
      BY <2>1, <2>2
    <2>7. FindProperty(h, "CHILDREN") = IF X = {} THEN 0 ELSE m
      BY <2>3, <2>6 DEF FindProperty, Places, Props
    <2>8. KidsIn(s) = IF X = {} THEN NULL ELSE s[m].at
      BY <2>2, <2>3 DEF KidsIn
    <2> QED
      BY <2>1, <2>5, <2>7, <2>8 DEF ChildrenOf, Props
  <1>4. ASSUME NEW h, NEW note PROVE NotifierAt(h, note) = NoteAt(hdr[h].prop, note)
    BY DEF NotifierAt, NoteAt, Places, Props
  <1>5. ASSUME NEW h PROVE OwnPlaces(h) = OwnedIn(hdr[h].prop)
    BY DEF OwnPlaces, OwnedIn, Places, Props, Owned
  <1>6. ASSUME NEW h PROVE ParentOf(h) = ParentIn(hdr, owner, h)
    BY DEF ParentOf, ParentIn
  <1>7. ASSUME NEW h, NEW n PROVE MovedLinks(h, n) = Moved(links, h, n)
    BY DEF MovedLinks, Moved
  <1> QED
    BY <1>1, <1>2, <1>3, <1>4, <1>5, <1>6, <1>7

LEMMA UpIs ==
    ASSUME Tree(hdr, owner, links), NEW h \in Present(hdr)
    PROVE  Climbs(Up(h), hdr, owner, h, Cardinality(Hdr)) /\ DOMAIN Up(h) = 0..Cardinality(Hdr)
  <1> DEFINE up == CHOOSE v : v = [i \in 0..Cardinality(Hdr) |-> IF i = 0 THEN h ELSE
                                     IF v[i - 1] \in Stable THEN ParentOf(v[i - 1]) ELSE v[i - 1]]
  <1>1. Cardinality(Hdr) \in Nat
    BY TalAssumption, FS_CardinalityType
  <1>2. PICK n \in Nat : n = Cardinality(Hdr)
    BY <1>1
  <1>3. PICK S, s : S = Present(hdr) /\ s = [x \in S |-> IF x \in Stable THEN ParentOf(x) ELSE x]
    OBVIOUS
  <1>4. s \in [S -> S] /\ h \in S
    <2>1. \A x \in Stable : ParentOf(x) \in S
      BY <1>3, InTheseTerms, ParentIsPresent
    <2> QED
      BY <1>3, <2>1
  <1>5. PICK g : g = [i \in 1..n |-> s]
    OBVIOUS
  <1>6. g \in [1..n -> [S -> S]]
    BY <1>4, <1>5
  <1>7. PICK v : IsLoop(v, S, h, n, g)
    BY <1>4, <1>6, RecursiveFunction
  <1>8. v \in [0..n -> S] /\ v[0] = h
        /\ \A i \in 1..n : v[i] = IF v[i - 1] \in Stable THEN ParentOf(v[i - 1]) ELSE v[i - 1]
    <2>1. v \in [0..n -> S] /\ v[0] = h /\ \A i \in 1..n : v[i] = g[i][v[i - 1]]
      BY <1>7 DEF IsLoop
    <2>2. ASSUME NEW i \in 1..n PROVE v[i] = IF v[i - 1] \in Stable THEN ParentOf(v[i - 1]) ELSE v[i - 1]
      <3>1. i - 1 \in 0..n
        OBVIOUS
      <3>2. v[i - 1] \in S
        BY <2>1, <3>1
      <3>3. v[i] = s[v[i - 1]]
        BY <1>5, <2>1
      <3> QED
        BY <1>3, <3>2, <3>3
    <2> QED
      BY <2>1, <2>2
  <1>9. v = [i \in 0..n |-> IF i = 0 THEN h ELSE
                            IF v[i - 1] \in Stable THEN ParentOf(v[i - 1]) ELSE v[i - 1]]
    <2>1. \A i \in 0..n : i = 0 \/ i \in 1..n
      OBVIOUS
    <2> QED
      BY <1>8, <2>1
  <1>10. up = [i \in 0..n |-> IF i = 0 THEN h ELSE
                              IF up[i - 1] \in Stable THEN ParentOf(up[i - 1]) ELSE up[i - 1]]
    BY <1>2, <1>9
  <1>11. Up(h) = up
    BY DEF Up
  <1> HIDE DEF up
  <1>12. PICK f : f = up
    OBVIOUS
  <1>13. /\ DOMAIN f = 0..n /\ f[0] = h
         /\ \A i \in 1..n : f[i] = IF f[i - 1] \in Stable THEN ParentOf(f[i - 1]) ELSE f[i - 1]
         /\ f = [i \in 0..n |-> f[i]]
    <2>1. f = [i \in 0..n |-> IF i = 0 THEN h ELSE
                              IF f[i - 1] \in Stable THEN ParentOf(f[i - 1]) ELSE f[i - 1]]
      BY <1>10, <1>12
    <2>2. DOMAIN f = 0..n /\ f[0] = h /\ f = [i \in 0..n |-> f[i]]
      BY <2>1
    <2>3. ASSUME NEW i \in 1..n PROVE f[i] = IF f[i - 1] \in Stable THEN ParentOf(f[i - 1]) ELSE f[i - 1]
      <3>1. i \in 0..n /\ i # 0
        OBVIOUS
      <3> QED
        BY <2>1, <3>1
    <2> QED
      BY <2>2, <2>3
  <1>14. \A i \in 0..n : f[i] = v[i]
    <2>1. PICK X : X = {i \in 0..n : f[i] = v[i]}
      OBVIOUS
    <2>2. 0 \in X
      BY <1>8, <1>13, <2>1
    <2>3. ASSUME NEW i \in 1..n, i - 1 \in X PROVE i \in X
      <3>1. f[i - 1] = v[i - 1] /\ i \in 0..n
        BY <2>1, <2>3
      <3>2. f[i] = v[i]
        BY <1>8, <1>13, <3>1
      <3> QED
        BY <2>1, <3>1, <3>2
    <2>4. \A i \in 0..n : i \in X
      BY <2>2, <2>3, TurnByTurn
    <2> QED
      BY <2>1, <2>4
  <1>15. f = v
    BY <1>8, <1>13, <1>14
  <1>16. Stable = StableIn(hdr) /\ \A x : ParentOf(x) = ParentIn(hdr, owner, x)
    BY InTheseTerms
  <1>17. Climbs(v, hdr, owner, h, n)
    BY <1>3, <1>8, <1>16 DEF Climbs
  <1> QED
    BY <1>2, <1>11, <1>12, <1>13, <1>15, <1>17

\* Path goes up to an object that is being destroyed or to null_parent, and misses no
\* parent on the way.
LEMMA PathIs ==
    ASSUME Tree(hdr, owner, links), NEW h \in Present(hdr)
    PROVE  /\ h \in Path(h) /\ Path(h) \subseteq Present(hdr)
           /\ \A x \in Path(h) \cap StableIn(hdr) : ParentIn(hdr, owner, x) \in Path(h)
           /\ \E x \in Path(h) : x \notin StableIn(hdr)
  <1>1. PICK n \in Nat : n = Cardinality(Hdr)
    BY TalAssumption, FS_CardinalityType
  <1>2. PICK f : f = Up(h)
    OBVIOUS
  <1>3. Climbs(f, hdr, owner, h, n) /\ Path(h) = {f[k] : k \in 0..n}
    BY <1>1, <1>2, UpIs DEF Path
  <1>4. /\ f[n] \in Present(hdr) \ StableIn(hdr)
        /\ \A k \in 0..n : f[k] \in StableIn(hdr) => \E j \in 0..n : ParentIn(hdr, owner, f[k]) = f[j]
    BY <1>1, <1>3, ClimbEnds
  <1>5. f \in [0..n -> Present(hdr)] /\ f[0] = h /\ 0 \in 0..n /\ n \in 0..n
    BY <1>3 DEF Climbs
  <1> QED
    BY <1>3, <1>4, <1>5

-----------------------------------------------------------------------------
(***************************************************************************)
(* The calls in progress.                                                  *)
(***************************************************************************)
Frame ==
    [at : {"notify"}, t : Hdr, n : Notes \cup {NULL}]
    \cup [at : {"callback"}, t : Hdr, n : Notes, left : {0, 1}]
    \cup [at : {"children"}, t : Hdr, kids : Lists \cup {NULL}]

\* A callback is called by the notify below it; only a callback or the loop over the
\* children of an object starts to destroy another one.
StackShape(st) ==
    /\ st \in Seq(Frame)
    /\ \A j \in DOMAIN st : st[j].at = "callback" =>
          j > 1 /\ st[j - 1].at = "notify" /\ st[j - 1].t = st[j].t /\ st[j - 1].n = st[j].n
    /\ \A j \in DOMAIN st : j < Len(st) /\ st[j].at = "notify" =>
          /\ st[j].n # NULL
          /\ st[j + 1].at = "callback" /\ st[j + 1].t = st[j].t /\ st[j + 1].n = st[j].n
    /\ \A j \in DOMAIN st : j < Len(st) /\ st[j].at = "children" => st[j].kids # NULL
    /\ \A i, j \in DOMAIN st :
          st[i].at # "callback" /\ st[j].at # "callback" /\ st[i].t = st[j].t => i = j

Dying(H) == {h \in Hdr : H[h] # NULL /\ H[h].destroying}

\* The calls are about the objects that are being destroyed, and what they have read
\* of them is still so.
StackData(H, st) ==
    /\ \A j \in DOMAIN st :
          /\ st[j].t \in Dying(H)
          /\ st[j].at = "notify" /\ st[j].n # NULL => NoteAt(H[st[j].t].prop, st[j].n) # 0
          /\ st[j].at = "children" => st[j].kids = KidsIn(H[st[j].t].prop)
    /\ \A h \in Dying(H) : \E j \in DOMAIN st : st[j].at # "callback" /\ st[j].t = h

\* A destructor that is still to be called is among the properties behind the one
\* that was called last.
DueData(H, st, D) ==
    /\ D \subseteq Hdr \X Notes
    /\ \A d \in D : /\ H[d[1]] # NULL /\ NoteAt(H[d[1]].prop, d[2]) # 0
                    /\ "FREE" \in H[d[1]].prop[NoteAt(H[d[1]].prop, d[2])].types
    /\ \A d \in D, j \in DOMAIN st : st[j].t = d[1] =>
          /\ st[j].at # "children"
          /\ st[j].at = "notify" /\ st[j].n # NULL =>
                NoteAt(H[d[1]].prop, st[j].n) < NoteAt(H[d[1]].prop, d[2])

\* Nothing else is still to be called: a notifier that is not due any more, or never
\* was, is of an object that is being destroyed, and notify has got past it.
FreeNote(s, note) == NoteAt(s, note) # 0 /\ "FREE" \in s[NoteAt(s, note)].types
OnlyDue(H, st, D) ==
    \A h \in Hdr, note \in Notes : H[h] # NULL /\ FreeNote(H[h].prop, note) /\ <<h, note>> \notin D =>
       /\ H[h].destroying
       /\ \A j \in DOMAIN st : st[j].at = "notify" /\ st[j].t = h =>
             st[j].n # NULL /\ NoteAt(H[h].prop, note) <= NoteAt(H[h].prop, st[j].n)

\* The blocks of memory for properties.
Blocks(H) == UNION {{h} \X OwnedIn(H[h].prop) : h \in {x \in Hdr : H[x] # NULL}}

LEMMA FrameIs ==
    /\ \A f \in Frame : /\ f.at \in {"notify", "callback", "children"} /\ f.t \in Hdr
                        /\ f.at = "callback" => f.n \in Notes /\ f.left \in {0, 1}
                        /\ f.at = "notify" => f.n \in Notes \cup {NULL}
                        /\ f.at = "children" => f.kids \in Lists \cup {NULL}
    /\ \A h \in Hdr, note \in Notes \cup {NULL} : [at |-> "notify", t |-> h, n |-> note] \in Frame
    /\ \A h \in Hdr, note \in Notes, m \in {0, 1} :
          [at |-> "callback", t |-> h, n |-> note, left |-> m] \in Frame
    /\ \A h \in Hdr, k \in Lists \cup {NULL} : [at |-> "children", t |-> h, kids |-> k] \in Frame
    /\ \A f \in Frame : f.at = "callback" => [f EXCEPT !.left = 0] \in Frame
    /\ \A f \in Frame, note \in Notes : f.at = "notify" => [f EXCEPT !.n = note] \in Frame
  <1>1. \A f \in Frame : /\ f.at \in {"notify", "callback", "children"} /\ f.t \in Hdr
                         /\ f.at = "callback" => f.n \in Notes /\ f.left \in {0, 1}
                         /\ f.at = "notify" => f.n \in Notes \cup {NULL}
                         /\ f.at = "children" => f.kids \in Lists \cup {NULL}
    BY DEF Frame
  <1>2. \A h \in Hdr, note \in Notes \cup {NULL} : [at |-> "notify", t |-> h, n |-> note] \in Frame
    BY DEF Frame
  <1>3. \A h \in Hdr, note \in Notes, m \in {0, 1} :
          [at |-> "callback", t |-> h, n |-> note, left |-> m] \in Frame
    BY DEF Frame
  <1>4. \A h \in Hdr, k \in Lists \cup {NULL} : [at |-> "children", t |-> h, kids |-> k] \in Frame
    BY DEF Frame
  <1>5. ASSUME NEW f \in Frame, f.at = "callback" PROVE [f EXCEPT !.left = 0] \in Frame
    <2>1. f \in [at : {"callback"}, t : Hdr, n : Notes, left : {0, 1}]
      BY <1>5 DEF Frame
    <2>2. [f EXCEPT !.left = 0] \in [at : {"callback"}, t : Hdr, n : Notes, left : {0, 1}]
      BY <2>1
    <2> QED
      BY <2>2 DEF Frame
  <1>6. ASSUME NEW f \in Frame, NEW note \in Notes, f.at = "notify"
        PROVE  [f EXCEPT !.n = note] \in Frame
    <2>1. f \in [at : {"notify"}, t : Hdr, n : Notes \cup {NULL}]
      BY <1>6 DEF Frame
    <2>2. [f EXCEPT !.n = note] \in [at : {"notify"}, t : Hdr, n : Notes \cup {NULL}]
      BY <2>1
    <2> QED
      BY <2>2 DEF Frame
  <1> QED
    BY <1>1, <1>2, <1>3, <1>4, <1>5, <1>6

\* The same calls, whatever they may still do.
SameCalls(st, sv) ==
    /\ sv \in Seq(Frame) /\ Len(sv) = Len(st)
    /\ \A j \in DOMAIN st : /\ sv[j].at = st[j].at /\ sv[j].t = st[j].t
                            /\ st[j].at = "children" => sv[j].kids = st[j].kids
                            /\ st[j].at # "children" => sv[j].n = st[j].n

\* What the calls have read is still so, and what is due comes in the same order.
ReadAlike(H, G, st) ==
    \A j \in DOMAIN st :
       /\ st[j].at = "children" => KidsIn(G[st[j].t].prop) = KidsIn(H[st[j].t].prop)
       /\ st[j].at = "notify" /\ st[j].n # NULL => NoteAt(G[st[j].t].prop, st[j].n) # 0
DueIn(G, E) ==
    /\ E \subseteq Hdr \X Notes
    /\ \A d \in E : /\ G[d[1]] # NULL /\ NoteAt(G[d[1]].prop, d[2]) # 0
                    /\ "FREE" \in G[d[1]].prop[NoteAt(G[d[1]].prop, d[2])].types
DueAlike(H, G, D, E) ==
    \A d \in E : d[1] \in Dying(H) =>
       /\ d \in D
       /\ \A note : NoteAt(H[d[1]].prop, note) < NoteAt(H[d[1]].prop, d[2])
                  /\ NoteAt(H[d[1]].prop, note) # 0 /\ NoteAt(G[d[1]].prop, note) # 0
                  => NoteAt(G[d[1]].prop, note) < NoteAt(G[d[1]].prop, d[2])

\* The calls go on after a change of the objects which they do not notice.
LEMMA StackKept ==
    ASSUME NEW H, NEW G, NEW st, NEW sv, NEW D, NEW E,
           StackShape(st), StackData(H, st), DueData(H, st, D), SameCalls(st, sv), Dying(G) = Dying(H),
           ReadAlike(H, G, st), DueIn(G, E), DueAlike(H, G, D, E)
    PROVE  StackShape(sv) /\ StackData(G, sv) /\ DueData(G, sv, E)
  <1>1. /\ st \in Seq(Frame) /\ sv \in Seq(Frame) /\ DOMAIN sv = DOMAIN st /\ Len(sv) = Len(st)
        /\ DOMAIN st = 1..Len(st) /\ Len(st) \in Nat
        /\ \A j \in DOMAIN st : st[j].at \in {"notify", "callback", "children"} /\ st[j].t \in Hdr
    BY FrameIs DEF StackShape, SameCalls
  <1>2. PICK n \in Nat : n = Len(st)
    BY <1>1
  <1>3. \A j \in 1..n : /\ sv[j].at = st[j].at /\ sv[j].t = st[j].t
                        /\ st[j].at = "children" => sv[j].kids = st[j].kids
                        /\ st[j].at # "children" => sv[j].n = st[j].n
    BY <1>1, <1>2 DEF SameCalls
  <1>4. StackShape(sv)
    <2>1. \A j \in 1..n : st[j].at = "callback" =>
             /\ j > 1 /\ j - 1 \in 1..n
             /\ st[j - 1].at = "notify" /\ st[j - 1].t = st[j].t /\ st[j - 1].n = st[j].n
      BY <1>1, <1>2 DEF StackShape
    <2>2. \A j \in 1..n : st[j].at = "callback" =>
             j > 1 /\ sv[j - 1].at = "notify" /\ sv[j - 1].t = sv[j].t /\ sv[j - 1].n = sv[j].n
      BY <1>3, <2>1
    <2>3. \A j \in 1..n : j < n /\ st[j].at = "notify" =>
             /\ j + 1 \in 1..n /\ st[j].n # NULL
             /\ st[j + 1].at = "callback" /\ st[j + 1].t = st[j].t /\ st[j + 1].n = st[j].n
      BY <1>1, <1>2 DEF StackShape
    <2>4. \A j \in 1..n : j < n /\ st[j].at = "notify" =>
             /\ sv[j].n # NULL
             /\ sv[j + 1].at = "callback" /\ sv[j + 1].t = sv[j].t /\ sv[j + 1].n = sv[j].n
      BY <1>3, <2>3
    <2>5. \A j \in 1..n : j < n /\ sv[j].at = "children" => sv[j].kids # NULL
      BY <1>1, <1>2, <1>3 DEF StackShape
    <2>6. \A i, j \in 1..n : sv[i].at # "callback" /\ sv[j].at # "callback" /\ sv[i].t = sv[j].t => i = j
      BY <1>1, <1>2, <1>3 DEF StackShape
    <2>7. sv \in Seq(Frame) /\ DOMAIN sv = 1..n /\ Len(sv) = n
      BY <1>1, <1>2
    <2>8. \A j \in 1..n : sv[j].at = "callback" =>
             j > 1 /\ sv[j - 1].at = "notify" /\ sv[j - 1].t = sv[j].t /\ sv[j - 1].n = sv[j].n
      BY <1>3, <2>2
    <2>9. \A j \in 1..n : j < n /\ sv[j].at = "notify" =>
             /\ sv[j].n # NULL
             /\ sv[j + 1].at = "callback" /\ sv[j + 1].t = sv[j].t /\ sv[j + 1].n = sv[j].n
      BY <1>3, <2>4
    <2> QED
      BY <2>5, <2>6, <2>7, <2>8, <2>9 DEF StackShape
  <1>5. StackData(G, sv)
    <2>1. ASSUME NEW j \in DOMAIN sv
          PROVE  /\ sv[j].t \in Dying(G)
                 /\ sv[j].at = "notify" /\ sv[j].n # NULL => NoteAt(G[sv[j].t].prop, sv[j].n) # 0
                 /\ sv[j].at = "children" => sv[j].kids = KidsIn(G[sv[j].t].prop)
      <3>1. /\ j \in DOMAIN st /\ sv[j].t = st[j].t /\ sv[j].at = st[j].at
            /\ st[j].at = "children" => sv[j].kids = st[j].kids
            /\ st[j].at = "notify" => sv[j].n = st[j].n
        BY <1>1, <1>2, <1>3
      <3> QED
        BY <3>1 DEF StackData, ReadAlike
    <2>2. ASSUME NEW h \in Dying(G) PROVE \E j \in DOMAIN sv : sv[j].at # "callback" /\ sv[j].t = h
      <3>1. PICK j \in DOMAIN st : st[j].at # "callback" /\ st[j].t = h
        BY DEF StackData
      <3> QED
        BY <1>1, <1>2, <1>3, <3>1
    <2> QED
      BY <2>1, <2>2 DEF StackData
  <1>6. DueData(G, sv, E)
    <2> SUFFICES ASSUME NEW d \in E, NEW j \in DOMAIN sv, sv[j].t = d[1]
                 PROVE  /\ sv[j].at # "children"
                        /\ sv[j].at = "notify" /\ sv[j].n # NULL =>
                              NoteAt(G[d[1]].prop, sv[j].n) < NoteAt(G[d[1]].prop, d[2])
      BY DEF DueData, DueIn
    <2>1. /\ j \in DOMAIN st /\ st[j].t = d[1] /\ d[1] \in Dying(H) /\ d \in D
          /\ sv[j].at = st[j].at
          /\ st[j].at # "children" => sv[j].n = st[j].n
      BY <1>1, <1>2, <1>3 DEF StackData, DueAlike
    <2>2. /\ st[j].at # "children"
          /\ st[j].at = "notify" /\ st[j].n # NULL =>
                /\ NoteAt(H[d[1]].prop, st[j].n) < NoteAt(H[d[1]].prop, d[2])
                /\ NoteAt(H[d[1]].prop, st[j].n) # 0 /\ NoteAt(G[d[1]].prop, st[j].n) # 0
      BY <2>1 DEF DueData, StackData, ReadAlike
    <2>3. /\ NoteAt(H[d[1]].prop, st[j].n) < NoteAt(H[d[1]].prop, d[2])
          /\ NoteAt(H[d[1]].prop, st[j].n) # 0 /\ NoteAt(G[d[1]].prop, st[j].n) # 0
          => NoteAt(G[d[1]].prop, st[j].n) < NoteAt(G[d[1]].prop, d[2])
      BY <2>1 DEF DueAlike
    <2>4. sv[j].at # "children"
      BY <2>1, <2>2
    <2>5. ASSUME sv[j].at = "notify", sv[j].n # NULL
          PROVE  NoteAt(G[d[1]].prop, sv[j].n) < NoteAt(G[d[1]].prop, d[2])
      <3>1. st[j].at = "notify" /\ st[j].n # NULL /\ sv[j].n = st[j].n
        BY <2>1, <2>5
      <3>2. NoteAt(G[d[1]].prop, st[j].n) < NoteAt(G[d[1]].prop, d[2])
        BY <2>2, <2>3, <3>1
      <3> QED
        BY <3>1, <3>2
    <2> QED
      BY <2>4, <2>5
  <1> QED
    BY <1>4, <1>5, <1>6

LEMMA StackIs ==
    ASSUME NEW st, StackShape(st)
    PROVE  /\ st \in Seq(Frame) /\ DOMAIN st = 1..Len(st) /\ Len(st) \in Nat
           /\ \A j \in 1..Len(st) : /\ st[j] \in Frame
                                    /\ st[j].at \in {"notify", "callback", "children"} /\ st[j].t \in Hdr
           /\ st # <<>> => Len(st) \in 1..Len(st) /\ Last(st) = st[Len(st)]
           /\ \A j \in 1..Len(st) : st[j].at = "callback" =>
                 /\ j > 1 /\ j - 1 \in 1..Len(st)
                 /\ st[j - 1].at = "notify" /\ st[j - 1].t = st[j].t /\ st[j - 1].n = st[j].n
           /\ \A j \in 1..Len(st) : j < Len(st) /\ st[j].at = "notify" =>
                 /\ st[j].n # NULL /\ j + 1 \in 1..Len(st)
                 /\ st[j + 1].at = "callback" /\ st[j + 1].t = st[j].t /\ st[j + 1].n = st[j].n
           /\ \A j \in 1..Len(st) : j < Len(st) /\ st[j].at = "children" => st[j].kids # NULL
           /\ \A i, j \in 1..Len(st) :
                 st[i].at # "callback" /\ st[j].at # "callback" /\ st[i].t = st[j].t => i = j
  <1>1. /\ st \in Seq(Frame) /\ DOMAIN st = 1..Len(st) /\ Len(st) \in Nat
        /\ \A j \in 1..Len(st) : st[j] \in Frame
    BY DEF StackShape
  <1>2. st # <<>> => Len(st) \in 1..Len(st)
    BY <1>1
  <1>3. PICK n \in Nat : n = Len(st)
    BY <1>1
  <1>4. ASSUME NEW j \in 1..n, st[j].at = "callback"
        PROVE  /\ j > 1 /\ j - 1 \in 1..n
               /\ st[j - 1].at = "notify" /\ st[j - 1].t = st[j].t /\ st[j - 1].n = st[j].n
    <2>1. /\ j > 1
          /\ st[j - 1].at = "notify" /\ st[j - 1].t = st[j].t /\ st[j - 1].n = st[j].n
      BY <1>1, <1>3, <1>4 DEF StackShape
    <2> QED
      BY <2>1
  <1>5. ASSUME NEW j \in 1..n, j < n, st[j].at = "notify"
        PROVE  /\ st[j].n # NULL /\ j + 1 \in 1..n
               /\ st[j + 1].at = "callback" /\ st[j + 1].t = st[j].t /\ st[j + 1].n = st[j].n
    <2>1. /\ st[j].n # NULL
          /\ st[j + 1].at = "callback" /\ st[j + 1].t = st[j].t /\ st[j + 1].n = st[j].n
      BY <1>1, <1>3, <1>5 DEF StackShape
    <2>2. j + 1 \in 1..n
      BY <1>5
    <2> QED
      BY <2>1, <2>2
  <1>6. \A j \in 1..n : j < n /\ st[j].at = "children" => st[j].kids # NULL
    BY <1>1, <1>3 DEF StackShape
  <1>7. \A i, j \in 1..n : st[i].at # "callback" /\ st[j].at # "callback" /\ st[i].t = st[j].t => i = j
    BY <1>1, <1>3 DEF StackShape
  <1> QED
    BY <1>1, <1>2, <1>3, <1>4, <1>5, <1>6, <1>7, FrameIs DEF Last

\* del_tree of an object that was in its list.
LEMMA Pushed ==
    ASSUME NEW H, NEW G, NEW st, NEW D, StackShape(st), StackData(H, st), DueData(H, st, D),
           st # <<>> => \/ st[Len(st)].at = "callback"
                        \/ st[Len(st)].at = "children" /\ st[Len(st)].kids # NULL,
           NEW h \in Hdr, h \notin Dying(H), Dying(G) = Dying(H) \cup {h},
           \A x \in Hdr : /\ H[x] = NULL <=> G[x] = NULL
                          /\ H[x] # NULL => G[x].prop = H[x].prop,
           NEW sv, sv = Append(st, [at |-> "notify", t |-> h, n |-> NULL])
    PROVE  StackShape(sv) /\ StackData(G, sv) /\ DueData(G, sv, D)
  <1> PICK n \in Nat : n = Len(st)
    BY StackIs
  <1>1. PICK f : n = Len(st) /\ f = [at |-> "notify", t |-> h, n |-> NULL]
    OBVIOUS
  <1>2. f \in Frame /\ f.at = "notify" /\ f.t = h /\ f.n = NULL
    BY <1>1, FrameIs
  <1>3. /\ sv \in Seq(Frame) /\ Len(sv) = n + 1 /\ DOMAIN sv = 1..(n + 1) /\ DOMAIN st = 1..n
        /\ sv[n + 1] = f /\ \A j \in 1..n : sv[j] = st[j]
    BY <1>1, <1>2, StackIs, AppendProperties
  <1>4. \A j \in 1..(n + 1) : j \in 1..n \/ j = n + 1
    OBVIOUS
  <1>5. \A j \in 1..n : st[j].t # h /\ st[j].t \in Hdr
    <2>1. \A j \in 1..n : st[j].t \in Dying(H)
      BY <1>3 DEF StackData
    <2> QED
      BY <2>1 DEF Dying
  <1>6. StackShape(sv)
    <2>1. ASSUME NEW j \in 1..(n + 1), sv[j].at = "callback"
          PROVE  j > 1 /\ sv[j - 1].at = "notify" /\ sv[j - 1].t = sv[j].t /\ sv[j - 1].n = sv[j].n
      <3>1. j \in 1..n /\ sv[j] = st[j]
        BY <1>2, <1>3, <1>4, <2>1
      <3>2. /\ j > 1 /\ j - 1 \in 1..n
            /\ st[j - 1].at = "notify" /\ st[j - 1].t = st[j].t /\ st[j - 1].n = st[j].n
        BY <1>1, <2>1, <3>1, StackIs
      <3> QED
        BY <1>3, <3>1, <3>2
    <2>2. ASSUME NEW j \in 1..n, sv[j].at = "notify"
          PROVE  /\ sv[j].n # NULL
                 /\ sv[j + 1].at = "callback" /\ sv[j + 1].t = sv[j].t /\ sv[j + 1].n = sv[j].n
      <3>1. j < n /\ st[j].at = "notify"
        BY <1>1, <1>3, <2>2
      <3>2. /\ st[j].n # NULL /\ j + 1 \in 1..n
            /\ st[j + 1].at = "callback" /\ st[j + 1].t = st[j].t /\ st[j + 1].n = st[j].n
        BY <1>1, <3>1, StackIs
      <3> QED
        BY <1>3, <3>2
    <2>3. ASSUME NEW j \in 1..n, sv[j].at = "children" PROVE sv[j].kids # NULL
      <3>1. CASE j < n
        BY <1>1, <1>3, <2>3, <3>1, StackIs
      <3>2. CASE j = n
        BY <1>1, <1>3, <2>3, <3>2
      <3> QED
        BY <3>1, <3>2
    <2>4. ASSUME NEW i \in 1..(n + 1), NEW j \in 1..(n + 1),
                 sv[i].at # "callback", sv[j].at # "callback", sv[i].t = sv[j].t
          PROVE  i = j
      <3>1. CASE i \in 1..n /\ j \in 1..n
        BY <1>1, <1>3, <2>4, <3>1, StackIs
      <3>2. CASE ~(i \in 1..n /\ j \in 1..n)
        BY <1>2, <1>3, <1>4, <1>5, <2>4, <3>2
      <3> QED
        BY <3>1, <3>2
    <2>5. \A j \in 1..(n + 1) : j < n + 1 => j \in 1..n
      OBVIOUS
    <2> QED
      BY <1>3, <2>1, <2>2, <2>3, <2>4, <2>5 DEF StackShape
  <1>7. \A x \in Dying(H) : x \in Hdr /\ H[x] # NULL /\ G[x].prop = H[x].prop
    BY DEF Dying
  <1>8. StackData(G, sv)
    <2>1. ASSUME NEW j \in 1..(n + 1)
          PROVE  /\ sv[j].t \in Dying(G)
                 /\ sv[j].at = "notify" /\ sv[j].n # NULL => NoteAt(G[sv[j].t].prop, sv[j].n) # 0
                 /\ sv[j].at = "children" => sv[j].kids = KidsIn(G[sv[j].t].prop)
      <3>1. CASE j \in 1..n
        <4>1. /\ st[j].t \in Dying(H)
              /\ st[j].at = "notify" /\ st[j].n # NULL => NoteAt(H[st[j].t].prop, st[j].n) # 0
              /\ st[j].at = "children" => st[j].kids = KidsIn(H[st[j].t].prop)
          BY <1>3, <3>1 DEF StackData
        <4>2. G[st[j].t].prop = H[st[j].t].prop /\ sv[j] = st[j]
          BY <1>3, <1>7, <3>1, <4>1
        <4> QED
          BY <4>1, <4>2
      <3>2. CASE j = n + 1
        BY <1>2, <1>3, <3>2
      <3> QED
        BY <1>4, <3>1, <3>2
    <2>2. ASSUME NEW x \in Dying(G) PROVE \E j \in 1..(n + 1) : sv[j].at # "callback" /\ sv[j].t = x
      <3>1. CASE x \in Dying(H)
        <4>1. PICK j \in 1..n : st[j].at # "callback" /\ st[j].t = x
          BY <1>3, <3>1 DEF StackData
        <4> QED
          BY <1>3, <4>1
      <3>2. CASE x = h
        BY <1>2, <1>3, <3>2
      <3> QED
        BY <3>1, <3>2
    <2> QED
      BY <1>3, <2>1, <2>2 DEF StackData
  <1>9. DueData(G, sv, D)
    <2>1. \A d \in D : d[1] \in Hdr /\ H[d[1]] # NULL /\ G[d[1]] # NULL /\ G[d[1]].prop = H[d[1]].prop
      BY DEF DueData
    <2>2. \A d \in D, j \in 1..(n + 1) : sv[j].t = d[1] =>
             /\ sv[j].at # "children"
             /\ sv[j].at = "notify" /\ sv[j].n # NULL =>
                   NoteAt(H[d[1]].prop, sv[j].n) < NoteAt(H[d[1]].prop, d[2])
      BY <1>2, <1>3, <1>4 DEF DueData
    <2> QED
      BY <1>3, <2>1, <2>2 DEF DueData
  <1> QED
    BY <1>6, <1>8, <1>9

\* notify calls the notifier note, the first of those that are left.
LEMMA NextCalled ==
    ASSUME NEW H, NEW st, NEW D, StackShape(st), StackData(H, st), DueData(H, st, D),
           st # <<>>, st[Len(st)].at = "notify", NEW h, st[Len(st)].t = h,
           NEW note \in Notes, NoteAt(H[h].prop, note) # 0,
           \A d \in D : d[1] = h /\ d[2] # note => NoteAt(H[h].prop, note) < NoteAt(H[h].prop, d[2]),
           NEW sv, sv = Append([st EXCEPT ![Len(st)].n = note],
                               [at |-> "callback", t |-> h, n |-> note, left |-> 1])
    PROVE  StackShape(sv) /\ StackData(H, sv) /\ DueData(H, sv, D \ {<<h, note>>})
  <1> PICK n \in Nat : n = Len(st)
    BY StackIs
  <1>1. PICK f, g, E, su : /\ f = [at |-> "callback", t |-> h, n |-> note, left |-> 1]
                           /\ g = [st[n] EXCEPT !.n = note] /\ E = D \ {<<h, note>>}
                           /\ su = [st EXCEPT ![n] = g]
    OBVIOUS
  <1>2. /\ n \in 1..n /\ st \in Seq(Frame) /\ DOMAIN st = 1..n /\ Len(st) = n
        /\ st[n] \in Frame /\ st[n].at = "notify" /\ st[n].t = h /\ h \in Hdr
    BY StackIs
  <1>3. /\ f \in Frame /\ f.at = "callback" /\ f.t = h /\ f.n = note
        /\ g \in Frame /\ g.at = "notify" /\ g.t = h /\ g.n = note /\ note # NULL
    <2>1. f \in Frame /\ f.at = "callback" /\ f.t = h /\ f.n = note
      BY <1>1, <1>2, FrameIs
    <2>2. g \in Frame
      BY <1>1, <1>2, FrameIs
    <2>3. st[n] \in [at : {"notify"}, t : Hdr, n : Notes \cup {NULL}]
      BY <1>2 DEF Frame
    <2>4. g.at = "notify" /\ g.t = h /\ g.n = note
      BY <1>1, <1>2, <2>3
    <2> QED
      BY <2>1, <2>2, <2>4, TalAssumption
  <1>4. su \in Seq(Frame) /\ Len(su) = n /\ su[n] = g /\ \A j \in 1..n : j # n => su[j] = st[j]
    <2>1. n \in 1..Len(st) /\ st \in Seq(Frame) /\ g \in Frame
      BY <1>2, <1>3
    <2>2. /\ [st EXCEPT ![n] = g] \in Seq(Frame)
          /\ Len([st EXCEPT ![n] = g]) = Len(st)
          /\ \A j \in 1..Len(st) : [st EXCEPT ![n] = g][j] = IF j = n THEN g ELSE st[j]
      BY <2>1, ExceptSeq
    <2> QED
      BY <1>1, <1>2, <2>2
  <1>5. /\ sv \in Seq(Frame) /\ Len(sv) = n + 1 /\ DOMAIN sv = 1..(n + 1)
        /\ sv[n + 1] = f /\ sv[n] = g /\ \A j \in 1..n : j # n => sv[j] = st[j]
    BY <1>1, <1>2, <1>3, <1>4, AppendProperties
  <1>6. \A j \in 1..(n + 1) : \/ j \in 1..n /\ j # n /\ j < n
                              \/ j = n
                              \/ j = n + 1
    OBVIOUS
  <1>7. /\ \A j \in 1..n : j # n /\ st[j].at # "callback" => st[j].t # h
        /\ \A j \in 1..n : j # n => st[j].t # h
    <2>1. \A j \in 1..n : j # n /\ st[j].at # "callback" => st[j].t # h
      BY <1>2, StackIs
    <2>2. ASSUME NEW j \in 1..n, j # n, st[j].at = "callback", st[j].t = h PROVE FALSE
      <3>1. j > 1 /\ j - 1 \in 1..n /\ st[j - 1].at = "notify" /\ st[j - 1].t = h
        BY <2>2, <1>2, StackIs
      <3>2. j - 1 # n
        BY <2>2
      <3> QED
        BY <2>1, <3>1, <3>2
    <2> QED
      BY <2>1, <2>2
  <1>8. StackShape(sv)
    <2>1. ASSUME NEW j \in 1..(n + 1), sv[j].at = "callback"
          PROVE  j > 1 /\ sv[j - 1].at = "notify" /\ sv[j - 1].t = sv[j].t /\ sv[j - 1].n = sv[j].n
      <3>1. CASE j = n + 1
        <4>1. (n + 1) - 1 = n /\ n + 1 > 1
          BY <1>2
        <4> QED
          BY <1>3, <1>5, <3>1, <4>1
      <3>2. CASE j \in 1..n /\ j # n /\ j < n
        <4>1. /\ j > 1 /\ j - 1 \in 1..n
              /\ st[j - 1].at = "notify" /\ st[j - 1].t = st[j].t /\ st[j - 1].n = st[j].n
          BY <1>5, <2>1, <3>2, StackIs
        <4>2. j - 1 # n
          BY <3>2
        <4> QED
          BY <1>5, <3>2, <4>1, <4>2
      <3> QED
        BY <1>3, <1>5, <1>6, <2>1, <3>1, <3>2
    <2>2. ASSUME NEW j \in 1..n, sv[j].at = "notify"
          PROVE  /\ sv[j].n # NULL
                 /\ sv[j + 1].at = "callback" /\ sv[j + 1].t = sv[j].t /\ sv[j + 1].n = sv[j].n
      <3>1. CASE j = n
        BY <1>3, <1>5, <3>1
      <3>2. CASE j # n
        <4>1. /\ st[j].n # NULL /\ j + 1 \in 1..n
              /\ st[j + 1].at = "callback" /\ st[j + 1].t = st[j].t /\ st[j + 1].n = st[j].n
          BY <1>5, <2>2, <3>2, StackIs
        <4>2. j + 1 # n
          BY <1>2, <4>1
        <4> QED
          BY <1>5, <3>2, <4>1, <4>2
      <3> QED
        BY <3>1, <3>2
    <2>3. ASSUME NEW j \in 1..n, sv[j].at = "children" PROVE sv[j].kids # NULL
      <3>1. j # n /\ j < n
        BY <1>3, <1>5, <2>3
      <3> QED
        BY <1>5, <2>3, <3>1, StackIs
    <2>4. ASSUME NEW i \in 1..(n + 1), NEW j \in 1..(n + 1),
                 sv[i].at # "callback", sv[j].at # "callback", sv[i].t = sv[j].t
          PROVE  i = j
      <3>1. i \in 1..n /\ j \in 1..n
        BY <1>3, <1>5, <1>6, <2>4
      <3>2. CASE i # n /\ j # n
        BY <1>5, <2>4, <3>1, <3>2, StackIs
      <3>3. CASE i = n \/ j = n
        BY <1>3, <1>5, <1>7, <2>4, <3>1, <3>3
      <3> QED
        BY <3>2, <3>3
    <2>5. \A j \in 1..(n + 1) : j < n + 1 => j \in 1..n
      OBVIOUS
    <2> QED
      BY <1>5, <2>1, <2>2, <2>3, <2>4, <2>5 DEF StackShape
  <1>9. StackData(H, sv)
    <2>1. ASSUME NEW j \in 1..(n + 1)
          PROVE  /\ sv[j].t \in Dying(H)
                 /\ sv[j].at = "notify" /\ sv[j].n # NULL => NoteAt(H[sv[j].t].prop, sv[j].n) # 0
                 /\ sv[j].at = "children" => sv[j].kids = KidsIn(H[sv[j].t].prop)
      <3>1. CASE j \in 1..n /\ j # n
        <4>1. /\ st[j].t \in Dying(H)
              /\ st[j].at = "notify" /\ st[j].n # NULL => NoteAt(H[st[j].t].prop, st[j].n) # 0
              /\ st[j].at = "children" => st[j].kids = KidsIn(H[st[j].t].prop)
          BY <1>2, <3>1 DEF StackData
        <4>2. sv[j] = st[j]
          BY <1>5, <3>1
        <4> QED
          BY <4>1, <4>2
      <3>2. CASE j = n \/ j = n + 1
        <4>1. h \in Dying(H)
          BY <1>2 DEF StackData
        <4> QED
          BY <1>3, <1>5, <3>2, <4>1
      <3> QED
        BY <1>6, <3>1, <3>2
    <2>2. ASSUME NEW x \in Dying(H) PROVE \E j \in 1..(n + 1) : sv[j].at # "callback" /\ sv[j].t = x
      <3>1. PICK j \in 1..n : st[j].at # "callback" /\ st[j].t = x
        BY <1>2 DEF StackData
      <3>2. j \in 1..(n + 1)
        OBVIOUS
      <3>3. CASE j = n
        BY <1>2, <1>3, <1>5, <3>1, <3>2, <3>3
      <3>4. CASE j # n
        BY <1>5, <3>1, <3>2, <3>4
      <3> QED
        BY <3>3, <3>4
    <2> QED
      BY <1>5, <2>1, <2>2 DEF StackData
  <1>10. DueData(H, sv, E)
    <2>1. /\ D \subseteq Hdr \X Notes
          /\ \A d \in D : /\ H[d[1]] # NULL /\ NoteAt(H[d[1]].prop, d[2]) # 0
                          /\ "FREE" \in H[d[1]].prop[NoteAt(H[d[1]].prop, d[2])].types
      BY DEF DueData
    <2>2. ASSUME NEW d \in E, NEW j \in 1..(n + 1), sv[j].t = d[1]
          PROVE  /\ sv[j].at # "children"
                 /\ sv[j].at = "notify" /\ sv[j].n # NULL =>
                       NoteAt(H[d[1]].prop, sv[j].n) < NoteAt(H[d[1]].prop, d[2])
      <3>1. d \in D /\ d # <<h, note>> /\ d = <<d[1], d[2]>>
        BY <1>1, <2>1
      <3>2. CASE j \in 1..n /\ j # n
        <4>1. sv[j] = st[j] /\ st[j].t = d[1]
          BY <1>5, <2>2, <3>2
        <4>2. /\ st[j].at # "children"
              /\ st[j].at = "notify" /\ st[j].n # NULL =>
                    NoteAt(H[d[1]].prop, st[j].n) < NoteAt(H[d[1]].prop, d[2])
          BY <1>2, <3>1, <3>2, <4>1 DEF DueData
        <4> QED
          BY <4>1, <4>2
      <3>3. CASE j = n
        <4>1. d[1] = h /\ d[2] # note
          BY <1>3, <1>5, <2>2, <3>1, <3>3
        <4> QED
          BY <1>3, <1>5, <3>1, <3>3, <4>1
      <3>4. CASE j = n + 1
        BY <1>3, <1>5, <3>4
      <3> QED
        BY <1>6, <3>2, <3>3, <3>4
    <2>3. E \subseteq D
      BY <1>1
    <2> QED
      BY <1>5, <2>1, <2>2, <2>3 DEF DueData
  <1> QED
    BY <1>1, <1>8, <1>9, <1>10

\* A last call that has been replaced by another of the same object.
LEMMA Replaced ==
    ASSUME NEW st, StackShape(st), st # <<>>, NEW g \in Frame
    PROVE  /\ [st EXCEPT ![Len(st)] = g] \in Seq(Frame)
           /\ Len([st EXCEPT ![Len(st)] = g]) = Len(st)
           /\ DOMAIN [st EXCEPT ![Len(st)] = g] = 1..Len(st)
           /\ [st EXCEPT ![Len(st)] = g][Len(st)] = g
           /\ \A j \in 1..Len(st) : j # Len(st) => [st EXCEPT ![Len(st)] = g][j] = st[j]
  <1> PICK n \in Nat : n = Len(st)
    BY StackIs
  <1>1. n \in 1..Len(st) /\ st \in Seq(Frame) /\ g \in Frame
    BY StackIs
  <1>2. PICK sv : sv = [st EXCEPT ![n] = g]
    OBVIOUS
  <1>3. sv \in Seq(Frame) /\ Len(sv) = Len(st) /\ \A j \in 1..Len(st) : sv[j] = IF j = n THEN g ELSE st[j]
    BY <1>1, <1>2, ExceptSeq
  <1>4. DOMAIN sv = 1..Len(sv)
    BY <1>3
  <1> QED
    BY <1>1, <1>2, <1>3, <1>4

\* Nothing is left to be called: notify returns, and the loop over the children
\* starts.
LEMMA Notified ==
    ASSUME NEW H, NEW st, NEW D, StackShape(st), StackData(H, st), DueData(H, st, D),
           st # <<>>, st[Len(st)].at = "notify", NEW h, st[Len(st)].t = h,
           KidsIn(H[h].prop) \in Lists \cup {NULL},
           \A d \in D : d[1] # h,
           NEW sv, sv = [st EXCEPT ![Len(st)] = [at |-> "children", t |-> h, kids |-> KidsIn(H[h].prop)]]
    PROVE  StackShape(sv) /\ StackData(H, sv) /\ DueData(H, sv, D)
  <1> PICK n \in Nat : n = Len(st)
    BY StackIs
  <1>1. PICK g : g = [at |-> "children", t |-> h, kids |-> KidsIn(H[h].prop)]
    OBVIOUS
  <1>2. /\ n \in 1..n /\ st \in Seq(Frame) /\ DOMAIN st = 1..n
        /\ st[n].at = "notify" /\ st[n].t = h /\ h \in Hdr
    BY StackIs
  <1>3. g \in Frame /\ g.at = "children" /\ g.t = h /\ g.kids = KidsIn(H[h].prop)
    BY <1>1, <1>2, FrameIs
  <1>4. /\ sv \in Seq(Frame) /\ Len(sv) = n /\ DOMAIN sv = 1..n /\ sv[n] = g
        /\ \A j \in 1..n : j # n => sv[j] = st[j]
    BY <1>1, <1>3, Replaced
  <1>5. StackShape(sv)
    <2>1. ASSUME NEW j \in 1..n, sv[j].at = "callback"
          PROVE  j > 1 /\ sv[j - 1].at = "notify" /\ sv[j - 1].t = sv[j].t /\ sv[j - 1].n = sv[j].n
      <3>1. j # n /\ sv[j] = st[j]
        BY <1>3, <1>4, <2>1
      <3>2. /\ j > 1 /\ j - 1 \in 1..n
            /\ st[j - 1].at = "notify" /\ st[j - 1].t = st[j].t /\ st[j - 1].n = st[j].n
        BY <2>1, <3>1, StackIs
      <3>3. j - 1 # n
        BY <3>2
      <3> QED
        BY <1>4, <3>1, <3>2, <3>3
    <2>2. ASSUME NEW j \in 1..n, j < n, sv[j].at = "notify"
          PROVE  /\ sv[j].n # NULL
                 /\ sv[j + 1].at = "callback" /\ sv[j + 1].t = sv[j].t /\ sv[j + 1].n = sv[j].n
      <3>1. sv[j] = st[j]
        BY <1>4, <2>2
      <3>2. /\ st[j].n # NULL /\ j + 1 \in 1..n
            /\ st[j + 1].at = "callback" /\ st[j + 1].t = st[j].t /\ st[j + 1].n = st[j].n
        BY <2>2, <3>1, StackIs
      <3>3. j + 1 # n
        BY <1>2, <3>2
      <3> QED
        BY <1>4, <3>1, <3>2, <3>3
    <2>3. ASSUME NEW j \in 1..n, j < n, sv[j].at = "children" PROVE sv[j].kids # NULL
      <3>1. sv[j] = st[j]
        BY <1>4, <2>3
      <3> QED
        BY <2>3, <3>1, StackIs
    <2>4. ASSUME NEW i \in 1..n, NEW j \in 1..n,
                 sv[i].at # "callback", sv[j].at # "callback", sv[i].t = sv[j].t
          PROVE  i = j
      <3>1. \A k \in 1..n : sv[k].t = st[k].t /\ (sv[k].at # "callback" => st[k].at # "callback")
        BY <1>2, <1>3, <1>4
      <3> QED
        BY <2>4, <3>1, StackIs
    <2> QED
      BY <1>4, <2>1, <2>2, <2>3, <2>4 DEF StackShape
  <1>6. StackData(H, sv)
    <2>1. ASSUME NEW j \in 1..n
          PROVE  /\ sv[j].t \in Dying(H)
                 /\ sv[j].at = "notify" /\ sv[j].n # NULL => NoteAt(H[sv[j].t].prop, sv[j].n) # 0
                 /\ sv[j].at = "children" => sv[j].kids = KidsIn(H[sv[j].t].prop)
      <3>1. CASE j # n
        BY <1>2, <1>4, <3>1 DEF StackData
      <3>2. CASE j = n
        <4>1. h \in Dying(H)
          BY <1>2 DEF StackData
        <4> QED
          BY <1>3, <1>4, <3>2, <4>1
      <3> QED
        BY <3>1, <3>2
    <2>2. ASSUME NEW x \in Dying(H) PROVE \E j \in 1..n : sv[j].at # "callback" /\ sv[j].t = x
      <3>1. PICK j \in 1..n : st[j].at # "callback" /\ st[j].t = x
        BY <1>2 DEF StackData
      <3> QED
        BY <1>2, <1>3, <1>4, <3>1
    <2> QED
      BY <1>4, <2>1, <2>2 DEF StackData
  <1>7. DueData(H, sv, D)
    <2>1. ASSUME NEW d \in D, NEW j \in 1..n, sv[j].t = d[1]
          PROVE  /\ sv[j].at # "children"
                 /\ sv[j].at = "notify" /\ sv[j].n # NULL =>
                       NoteAt(H[d[1]].prop, sv[j].n) < NoteAt(H[d[1]].prop, d[2])
      <3>1. j # n /\ sv[j] = st[j]
        BY <1>3, <1>4, <2>1
      <3> QED
        BY <1>2, <2>1, <3>1 DEF DueData
    <2> QED
      BY <1>4, <2>1 DEF DueData
  <1> QED
    BY <1>5, <1>6, <1>7

\* The last call has returned.
LEMMA Popped ==
    ASSUME NEW st, StackShape(st), st # <<>>
    PROVE  /\ StackShape(Front(st)) /\ Len(Front(st)) \in Nat /\ Len(Front(st)) + 1 = Len(st)
           /\ \A j \in 1..Len(Front(st)) : j \in 1..Len(st) /\ j # Len(st) /\ Front(st)[j] = st[j]
           /\ \A j \in 1..Len(st) : j \in 1..Len(Front(st)) \/ j = Len(st)
  <1> PICK n \in Nat : n = Len(st)
    BY StackIs
  <1>1. n \in 1..n /\ st \in Seq(Frame) /\ DOMAIN st = 1..n /\ \A j \in 1..n : st[j] \in Frame
    BY StackIs
  <1>2. PICK m \in Nat : m = n - 1 /\ m + 1 = n
    BY <1>1
  <1>3. PICK sv : sv = SubSeq(st, 1, m)
    OBVIOUS
  <1>4. \A j \in 1..m : j \in 1..n /\ j # n /\ j < n
    BY <1>2
  <1>5. sv \in Seq(Frame) /\ Len(sv) = m /\ DOMAIN sv = 1..m /\ \A j \in 1..m : sv[j] = st[j]
    <2>1. \A j \in 1..m : st[j] \in Frame
      BY <1>1, <1>4
    <2>2. /\ sv \in Seq(Frame) /\ Len(sv) = (IF 1 <= m THEN m - 1 + 1 ELSE 0)
          /\ \A j \in 1..(m - 1 + 1) : sv[j] = st[1 + j - 1]
      BY <1>3, <2>1, SubSeqProperties
    <2>3. Len(sv) = m
      BY <2>2
    <2>4. ASSUME NEW j \in 1..m PROVE sv[j] = st[j]
      <3>1. j \in 1..(m - 1 + 1) /\ 1 + j - 1 = j
        OBVIOUS
      <3> QED
        BY <2>2, <3>1
    <2>5. DOMAIN sv = 1..Len(sv)
      BY <2>2
    <2> QED
      BY <2>2, <2>3, <2>4, <2>5
  <1>6. StackShape(sv)
    <2>1. ASSUME NEW j \in 1..m, sv[j].at = "callback"
          PROVE  j > 1 /\ sv[j - 1].at = "notify" /\ sv[j - 1].t = sv[j].t /\ sv[j - 1].n = sv[j].n
      <3>1. /\ j > 1 /\ j - 1 \in 1..n
            /\ st[j - 1].at = "notify" /\ st[j - 1].t = st[j].t /\ st[j - 1].n = st[j].n
        <4>1. j \in 1..Len(st) /\ st[j].at = "callback"
          BY <1>4, <1>5, <2>1
        <4> QED
          BY <4>1, StackIs
      <3>2. j - 1 \in 1..m
        BY <3>1
      <3> QED
        BY <1>5, <3>1, <3>2
    <2>2. ASSUME NEW j \in 1..m, j < m, sv[j].at = "notify"
          PROVE  /\ sv[j].n # NULL
                 /\ sv[j + 1].at = "callback" /\ sv[j + 1].t = sv[j].t /\ sv[j + 1].n = sv[j].n
      <3>1. /\ st[j].n # NULL /\ j + 1 \in 1..n
            /\ st[j + 1].at = "callback" /\ st[j + 1].t = st[j].t /\ st[j + 1].n = st[j].n
        BY <1>4, <1>5, <2>2, StackIs
      <3>2. j + 1 \in 1..m
        BY <2>2
      <3> QED
        BY <1>5, <3>1, <3>2
    <2>3. ASSUME NEW j \in 1..m, j < m, sv[j].at = "children" PROVE sv[j].kids # NULL
      BY <1>4, <1>5, <2>3, StackIs
    <2>4. ASSUME NEW i \in 1..m, NEW j \in 1..m,
                 sv[i].at # "callback", sv[j].at # "callback", sv[i].t = sv[j].t
          PROVE  i = j
      BY <1>4, <1>5, <2>4, StackIs
    <2> QED
      BY <1>5, <2>1, <2>2, <2>3, <2>4 DEF StackShape
  <1>7. Front(st) = sv
    BY <1>2, <1>3 DEF Front
  <1>8. \A j \in 1..n : j \in 1..m \/ j = n
    BY <1>2
  <1> QED
    BY <1>2, <1>4, <1>5, <1>6, <1>7, <1>8

\* A callback returns.
LEMMA Returned ==
    ASSUME NEW H, NEW st, NEW D, StackShape(st), StackData(H, st), DueData(H, st, D),
           st # <<>>, st[Len(st)].at = "callback"
    PROVE  StackShape(Front(st)) /\ StackData(H, Front(st)) /\ DueData(H, Front(st), D)
  <1> PICK n \in Nat : n = Len(st)
    BY StackIs
  <1>1. PICK sv : sv = Front(st)
    OBVIOUS
  <1>2. PICK m \in Nat : m = Len(sv)
    BY <1>1, Popped
  <1>3. /\ StackShape(sv) /\ DOMAIN st = 1..n /\ DOMAIN sv = 1..m
        /\ \A j \in 1..m : j \in 1..n /\ sv[j] = st[j]
        /\ \A j \in 1..n : j \in 1..m \/ j = n
    BY <1>1, <1>2, Popped, StackIs
  <1>4. StackData(H, sv)
    <2>1. ASSUME NEW j \in 1..m
          PROVE  /\ sv[j].t \in Dying(H)
                 /\ sv[j].at = "notify" /\ sv[j].n # NULL => NoteAt(H[sv[j].t].prop, sv[j].n) # 0
                 /\ sv[j].at = "children" => sv[j].kids = KidsIn(H[sv[j].t].prop)
      BY <1>3 DEF StackData
    <2>2. ASSUME NEW x \in Dying(H) PROVE \E j \in 1..m : sv[j].at # "callback" /\ sv[j].t = x
      <3>1. PICK j \in 1..n : st[j].at # "callback" /\ st[j].t = x
        BY <1>3 DEF StackData
      <3> QED
        BY <1>3, <3>1
    <2> QED
      BY <1>3, <2>1, <2>2 DEF StackData
  <1>5. DueData(H, sv, D)
    BY <1>3 DEF DueData
  <1> QED
    BY <1>1, <1>3, <1>4, <1>5

\* An object has been freed.
LEMMA Freed ==
    ASSUME NEW H, NEW G, NEW st, NEW D, StackShape(st), StackData(H, st), DueData(H, st, D),
           st # <<>>, st[Len(st)].at = "children", NEW h, st[Len(st)].t = h,
           Dying(G) = Dying(H) \ {h}, \A x \in Hdr : x # h => G[x] = H[x]
    PROVE  StackShape(Front(st)) /\ StackData(G, Front(st)) /\ DueData(G, Front(st), D)
  <1> PICK n \in Nat : n = Len(st)
    BY StackIs
  <1>1. PICK sv : sv = Front(st)
    OBVIOUS
  <1>2. PICK m \in Nat : m = Len(sv)
    BY <1>1, Popped
  <1>3. /\ StackShape(sv) /\ DOMAIN st = 1..n /\ DOMAIN sv = 1..m /\ n \in 1..n
        /\ \A j \in 1..m : j \in 1..n /\ j # n /\ sv[j] = st[j]
        /\ \A j \in 1..n : j \in 1..m \/ j = n
    BY <1>1, <1>2, Popped, StackIs
  <1>4. \A j \in 1..m : st[j].t # h
    <2>1. \A j \in 1..m : st[j].at # "callback" => st[j].t # h
      BY <1>3, StackIs
    <2>2. ASSUME NEW j \in 1..m, st[j].at = "callback", st[j].t = h PROVE FALSE
      <3>1. j \in 1..n
        BY <1>3
      <3>2. j > 1 /\ j - 1 \in 1..n /\ st[j - 1].at = "notify" /\ st[j - 1].t = h
        BY <2>2, <3>1, StackIs
      <3>3. j - 1 \in 1..m
        BY <3>2
      <3> QED
        BY <2>1, <3>2, <3>3
    <2> QED
      BY <2>1, <2>2
  <1>5. StackData(G, sv)
    <2>1. ASSUME NEW j \in 1..m
          PROVE  /\ sv[j].t \in Dying(G)
                 /\ sv[j].at = "notify" /\ sv[j].n # NULL => NoteAt(G[sv[j].t].prop, sv[j].n) # 0
                 /\ sv[j].at = "children" => sv[j].kids = KidsIn(G[sv[j].t].prop)
      <3>1. /\ st[j].t \in Dying(H)
            /\ st[j].at = "notify" /\ st[j].n # NULL => NoteAt(H[st[j].t].prop, st[j].n) # 0
            /\ st[j].at = "children" => st[j].kids = KidsIn(H[st[j].t].prop)
        BY <1>3 DEF StackData
      <3>2. sv[j] = st[j] /\ st[j].t # h /\ G[st[j].t] = H[st[j].t]
        BY <1>3, <1>4, <3>1 DEF Dying
      <3> QED
        BY <3>1, <3>2
    <2>2. ASSUME NEW x \in Dying(G) PROVE \E j \in 1..m : sv[j].at # "callback" /\ sv[j].t = x
      <3>1. x \in Dying(H) /\ x # h
        OBVIOUS
      <3>2. PICK j \in 1..n : st[j].at # "callback" /\ st[j].t = x
        BY <1>3, <3>1 DEF StackData
      <3> QED
        BY <1>3, <3>1, <3>2
    <2> QED
      BY <1>3, <2>1, <2>2 DEF StackData
  <1>6. DueData(G, sv, D)
    <2>1. \A d \in D : d[1] \in Hdr /\ d[1] # h
      BY <1>3 DEF DueData
    <2>2. \A d \in D : G[d[1]] = H[d[1]]
      BY <2>1
    <2> QED
      BY <1>3, <2>2 DEF DueData
  <1> QED
    BY <1>1, <1>3, <1>5, <1>6

-----------------------------------------------------------------------------
(***************************************************************************)
(* Blocks of memory that belong to properties.                             *)
(***************************************************************************)
LEMMA BlocksAre ==
    ASSUME NEW H, NEW b
    PROVE  b \in Blocks(H) <=> \E h \in Hdr : H[h] # NULL /\ \E k \in OwnedIn(H[h].prop) : b = <<h, k>>
  BY DEF Blocks

LEMMA OwnedFinite ==
    ASSUME NEW s, PropsOK(s)
    PROVE  IsFiniteSet(OwnedIn(s)) /\ Cardinality(OwnedIn(s)) \in Nat
  <1>1. DOMAIN s = 1..Len(s) /\ Len(s) \in Nat
    BY DEF PropsOK
  <1>2. 1 \in Int /\ Len(s) \in Int
    BY <1>1
  <1>3. IsFiniteSet(1..Len(s))
    BY <1>2, FS_Interval
  <1>4. OwnedIn(s) \in SUBSET (1..Len(s))
    BY <1>1 DEF OwnedIn
  <1> QED
    BY <1>3, <1>4, FS_Subset, FS_CardinalityType

\* What belongs to one object.
OwnedBy(H, h) == IF H[h] = NULL THEN {} ELSE OwnedIn(H[h].prop)

\* One object has changed.
LEMMA BlocksChange ==
    ASSUME NEW H, NEW G, NEW h \in Hdr, IsFiniteSet(Blocks(H)),
           IsFiniteSet(OwnedBy(H, h)), IsFiniteSet(OwnedBy(G, h)),
           \A x \in Hdr \ {h} : OwnedBy(G, x) = OwnedBy(H, x)
    PROVE  /\ IsFiniteSet(Blocks(G))
           /\ Cardinality(Blocks(G)) = Cardinality(Blocks(H)) - Cardinality(OwnedBy(H, h))
                                                              + Cardinality(OwnedBy(G, h))
  <1>1. PICK R : R = {b \in Blocks(H) : b[1] # h}
    OBVIOUS
  <1>2. PICK A : A = {h} \X OwnedBy(H, h)
    OBVIOUS
  <1>3. PICK B : B = {h} \X OwnedBy(G, h)
    OBVIOUS
  <1>4. \A b : b \in Blocks(H) <=> \E x \in Hdr : \E k \in OwnedBy(H, x) : b = <<x, k>>
    BY BlocksAre DEF OwnedBy
  <1>5. \A b : b \in Blocks(G) <=> \E x \in Hdr : \E k \in OwnedBy(G, x) : b = <<x, k>>
    BY BlocksAre DEF OwnedBy
  <1>6. Blocks(H) = R \cup A
    BY <1>1, <1>2, <1>4
  <1>7. Blocks(G) = R \cup B
    <2>1. ASSUME NEW b \in Blocks(G) PROVE b \in R \cup B
      <3>1. PICK x \in Hdr : \E k \in OwnedBy(G, x) : b = <<x, k>>
        BY <1>5
      <3>2. CASE x = h
        BY <1>3, <3>1, <3>2
      <3>3. CASE x # h
        <4>1. b \in Blocks(H) /\ b[1] # h
          BY <1>4, <3>1, <3>3
        <4> QED
          BY <1>1, <4>1
      <3> QED
        BY <3>2, <3>3
    <2>2. ASSUME NEW b \in R PROVE b \in Blocks(G)
      <3>1. PICK x \in Hdr : \E k \in OwnedBy(H, x) : b = <<x, k>>
        BY <1>1, <1>4
      <3>2. x # h
        BY <1>1, <3>1
      <3> QED
        BY <1>5, <3>1, <3>2
    <2>3. ASSUME NEW b \in B PROVE b \in Blocks(G)
      BY <1>3, <1>5
    <2> QED
      BY <2>1, <2>2, <2>3
  <1>8. R \cap A = {} /\ R \cap B = {}
    BY <1>1, <1>2, <1>3
  <1>9. IsFiniteSet(R) /\ Cardinality(R) \in Nat
    <2>1. R \in SUBSET Blocks(H)
      BY <1>1
    <2> QED
      BY <2>1, FS_Subset, FS_CardinalityType
  <1>10. ASSUME NEW S, IsFiniteSet(S)
         PROVE  IsFiniteSet({h} \X S) /\ Cardinality({h} \X S) = Cardinality(S) /\ Cardinality(S) \in Nat
    <2>1. IsFiniteSet({h}) /\ Cardinality({h}) = 1
      BY FS_Singleton
    <2>2. Cardinality(S) \in Nat
      BY <1>10, FS_CardinalityType
    <2>3. IsFiniteSet({h} \X S) /\ Cardinality({h} \X S) = Cardinality({h}) * Cardinality(S)
      BY <1>10, <2>1, FS_Product
    <2>4. PICK c \in Nat : c = Cardinality(S)
      BY <2>2
    <2>5. 1 * c = c
      OBVIOUS
    <2> QED
      BY <2>1, <2>3, <2>4, <2>5
  <1>11. /\ IsFiniteSet(A) /\ Cardinality(A) = Cardinality(OwnedBy(H, h)) /\ Cardinality(A) \in Nat
         /\ IsFiniteSet(B) /\ Cardinality(B) = Cardinality(OwnedBy(G, h)) /\ Cardinality(B) \in Nat
    BY <1>2, <1>3, <1>10
  <1>12. /\ IsFiniteSet(R \cup B)
         /\ Cardinality(R \cup A) = Cardinality(R) + Cardinality(A) - Cardinality(R \cap A)
         /\ Cardinality(R \cup B) = Cardinality(R) + Cardinality(B) - Cardinality(R \cap B)
    BY <1>9, <1>11, FS_Union
  <1>13. Cardinality({}) = 0
    BY FS_EmptySet
  <1>14. /\ Cardinality(Blocks(H)) = Cardinality(R) + Cardinality(A)
         /\ Cardinality(Blocks(G)) = Cardinality(R) + Cardinality(B)
    <2>1. PICK r \in Nat, a \in Nat, b \in Nat : r = Cardinality(R) /\ a = Cardinality(A) /\ b = Cardinality(B)
      BY <1>9, <1>11
    <2>2. Cardinality(R \cup A) = r + a - 0
      BY <1>8, <1>12, <1>13, <2>1
    <2>3. Cardinality(R \cup B) = r + b - 0
      BY <1>8, <1>12, <1>13, <2>1
    <2> QED
      BY <1>6, <1>7, <2>1, <2>2, <2>3
  <1> QED
    BY <1>7, <1>9, <1>11, <1>12, <1>14

\* One object has changed, and has as many blocks as before.
LEMMA SameBlocks ==
    ASSUME NEW H, NEW G, NEW h \in Heads, IsFiniteSet(Blocks(H)),
           IsFiniteSet(OwnedBy(H, h)), IsFiniteSet(OwnedBy(G, h)),
           Cardinality(OwnedBy(G, h)) = Cardinality(OwnedBy(H, h)),
           \A x \in Heads \ {h} : OwnedBy(G, x) = OwnedBy(H, x)
    PROVE  IsFiniteSet(Blocks(G)) /\ Cardinality(Blocks(G)) = Cardinality(Blocks(H))
  <1>1. CASE h \in Hdr
    <2>1. /\ IsFiniteSet(Blocks(G))
          /\ Cardinality(Blocks(G)) = Cardinality(Blocks(H)) - Cardinality(OwnedBy(H, h))
                                                              + Cardinality(OwnedBy(G, h))
      BY <1>1, Sorts, BlocksChange
    <2>2. PICK a \in Nat, b \in Nat : a = Cardinality(Blocks(H)) /\ b = Cardinality(OwnedBy(H, h))
      BY FS_CardinalityType
    <2> QED
      BY <2>1, <2>2
  <1>2. CASE h \notin Hdr
    <2>1. \A x \in Hdr : OwnedBy(G, x) = OwnedBy(H, x)
      BY <1>2, Sorts
    <2>2. \A b : b \in Blocks(G) <=> b \in Blocks(H)
      <3>1. \A b : b \in Blocks(H) <=> \E x \in Hdr : \E k \in OwnedBy(H, x) : b = <<x, k>>
        BY BlocksAre DEF OwnedBy
      <3>2. \A b : b \in Blocks(G) <=> \E x \in Hdr : \E k \in OwnedBy(G, x) : b = <<x, k>>
        BY BlocksAre DEF OwnedBy
      <3> QED
        BY <2>1, <3>1, <3>2
    <2>3. Blocks(G) = Blocks(H)
      BY <2>2
    <2> QED
      BY <2>3
  <1> QED
    BY <1>1, <1>2

\* Numbers put in other places are as many as they were.
LEMMA SameCount ==
    ASSUME NEW S, NEW T, IsFiniteSet(S), NEW f \in [S -> T],
           \A x, y \in S : f[x] = f[y] => x = y, \A z \in T : \E x \in S : f[x] = z
    PROVE  IsFiniteSet(T) /\ Cardinality(T) = Cardinality(S)
  <1>1. f \in Bijection(S, T)
    BY DEF Bijection, Injection, Surjection, IsInjective
  <1> QED
    BY <1>1, FS_Bijection DEF ExistsBijection

LEMMA OwnedPrepended ==
    ASSUME NEW s, PropsOK(s), NEW p \in Property, p.type # "LITERAL" \/ s = <<>>,
           \A k \in DOMAIN s : ~SameKind(p, s[k]) /\ ~SameKind(s[k], p)
    PROVE  Cardinality(OwnedIn(<<p>> \o s)) = Cardinality(OwnedIn(s)) + (IF p.type \in Owned THEN 1 ELSE 0)
  <1>1. PICK u : u = <<p>> \o s
    OBVIOUS
  <1>2. /\ \A k \in DOMAIN s : k + 1 \in DOMAIN u /\ u[k + 1] = s[k]
        /\ 1 \in DOMAIN u /\ u[1] = p
        /\ \A k \in DOMAIN u : k = 1 \/ k - 1 \in DOMAIN s
    BY <1>1, Prepended
  <1>3. PropsOK(u)
    BY <1>1, Prepended
  <1>4. /\ DOMAIN s \subseteq Nat \ {0} /\ DOMAIN u \subseteq Nat \ {0}
        /\ IsFiniteSet(OwnedIn(s)) /\ IsFiniteSet(OwnedIn(u)) /\ Cardinality(OwnedIn(s)) \in Nat
    BY <1>3, OwnedFinite DEF PropsOK
  <1>5. PICK T : T = OwnedIn(u) \ {1}
    OBVIOUS
  <1>6. PICK f : f = [k \in OwnedIn(s) |-> k + 1]
    OBVIOUS
  <1>7. \A k \in OwnedIn(s) : f[k] = k + 1 /\ k \in Nat \ {0} /\ k + 1 \in T
    <2> SUFFICES ASSUME NEW k \in OwnedIn(s) PROVE f[k] = k + 1 /\ k \in Nat \ {0} /\ k + 1 \in T
      OBVIOUS
    <2>1. k \in DOMAIN s /\ s[k].type \in Owned /\ k \in Nat \ {0}
      BY <1>4 DEF OwnedIn
    <2>2. k + 1 \in DOMAIN u /\ u[k + 1] = s[k] /\ k + 1 # 1
      BY <1>2, <2>1
    <2> QED
      BY <1>5, <1>6, <2>1, <2>2 DEF OwnedIn
  <1>8. f \in [OwnedIn(s) -> T]
    BY <1>6, <1>7
  <1>9. \A x, y \in OwnedIn(s) : f[x] = f[y] => x = y
    BY <1>7
  <1>10. \A z \in T : \E x \in OwnedIn(s) : f[x] = z
    <2> SUFFICES ASSUME NEW z \in T PROVE \E x \in OwnedIn(s) : f[x] = z
      OBVIOUS
    <2>1. z \in DOMAIN u /\ u[z].type \in Owned /\ z # 1 /\ z \in Nat
      BY <1>4, <1>5 DEF OwnedIn
    <2>2. PICK x \in DOMAIN s : x = z - 1 /\ x + 1 = z
      BY <1>2, <2>1
    <2>3. u[z] = s[x]
      BY <1>2, <2>2
    <2>4. x \in OwnedIn(s)
      BY <2>1, <2>3 DEF OwnedIn
    <2> QED
      BY <1>7, <2>2, <2>4
  <1>11. IsFiniteSet(T) /\ Cardinality(T) = Cardinality(OwnedIn(s))
    BY <1>4, <1>8, <1>9, <1>10, SameCount
  <1>12. CASE p.type \in Owned
    <2>1. OwnedIn(u) = T \cup {1} /\ 1 \notin T
      BY <1>2, <1>5, <1>12 DEF OwnedIn
    <2>2. Cardinality(T \cup {1}) = Cardinality(T) + 1
      BY <1>11, <2>1, FS_AddElement
    <2> QED
      BY <1>1, <1>11, <1>12, <2>1, <2>2
  <1>13. CASE p.type \notin Owned
    <2>1. OwnedIn(u) = T
      BY <1>2, <1>5, <1>13 DEF OwnedIn
    <2> QED
      BY <1>1, <1>4, <1>11, <1>13, <2>1
  <1> QED
    BY <1>12, <1>13

LEMMA OwnedRemoved ==
    ASSUME NEW s, PropsOK(s), NEW i \in DOMAIN s
    PROVE  Cardinality(OwnedIn(RemoveAt(s, i))) =
              Cardinality(OwnedIn(s)) - (IF s[i].type \in Owned THEN 1 ELSE 0)
  <1>1. PICK u : u = RemoveAt(s, i)
    OBVIOUS
  <1>2. /\ \A k \in DOMAIN u : \/ k < i /\ k \in DOMAIN s /\ u[k] = s[k]
                               \/ k >= i /\ k + 1 \in DOMAIN s /\ u[k] = s[k + 1]
        /\ \A k \in DOMAIN s : /\ k < i => k \in DOMAIN u /\ u[k] = s[k]
                               /\ k > i => k - 1 \in DOMAIN u /\ u[k - 1] = s[k]
        /\ PropsOK(u)
    BY <1>1, Removed
  <1>3. /\ DOMAIN s \subseteq Nat \ {0} /\ DOMAIN u \subseteq Nat \ {0} /\ i \in Nat \ {0}
        /\ IsFiniteSet(OwnedIn(s)) /\ IsFiniteSet(OwnedIn(u)) /\ Cardinality(OwnedIn(s)) \in Nat
    BY <1>2, OwnedFinite DEF PropsOK
  <1>4. PICK S, T : S = OwnedIn(s) \ {i} /\ T = OwnedIn(u)
    OBVIOUS
  <1>5. PICK f : f = [k \in S |-> IF k < i THEN k ELSE k - 1]
    OBVIOUS
  <1>6. ASSUME NEW k \in S
        PROVE  /\ f[k] = IF k < i THEN k ELSE k - 1
               /\ k \in Nat \ {0} /\ k # i /\ f[k] \in T
    <2>1. k \in DOMAIN s /\ s[k].type \in Owned /\ k \in Nat \ {0} /\ k # i
      BY <1>3, <1>4 DEF OwnedIn
    <2>2. f[k] = IF k < i THEN k ELSE k - 1
      BY <1>5
    <2>3. CASE k < i
      BY <1>2, <1>4, <2>1, <2>2, <2>3 DEF OwnedIn
    <2>4. CASE ~(k < i)
      <3>1. k > i
        BY <1>3, <2>1, <2>4
      <3> QED
        BY <1>2, <1>4, <2>1, <2>2, <2>4, <3>1 DEF OwnedIn
    <2> QED
      BY <2>1, <2>2, <2>3, <2>4
  <1>7. f \in [S -> T]
    BY <1>5, <1>6
  <1>8. \A x, y \in S : f[x] = f[y] => x = y
    BY <1>3, <1>6
  <1>9. \A z \in T : \E x \in S : f[x] = z
    <2> SUFFICES ASSUME NEW z \in T PROVE \E x \in S : f[x] = z
      OBVIOUS
    <2>1. z \in DOMAIN u /\ u[z].type \in Owned /\ z \in Nat \ {0}
      BY <1>3, <1>4 DEF OwnedIn
    <2>2. CASE z < i
      <3>1. z \in S
        BY <1>2, <1>3, <1>4, <2>1, <2>2 DEF OwnedIn
      <3> QED
        BY <1>6, <2>2, <3>1
    <2>3. CASE z >= i
      <3>1. PICK x \in DOMAIN s : x = z + 1 /\ u[z] = s[x]
        BY <1>2, <1>3, <2>1, <2>3
      <3>2. x # i /\ ~(x < i) /\ x - 1 = z
        BY <1>3, <2>1, <2>3, <3>1
      <3>3. x \in S
        BY <1>4, <2>1, <3>1, <3>2 DEF OwnedIn
      <3> QED
        BY <1>6, <3>2, <3>3
    <2> QED
      BY <1>3, <2>1, <2>2, <2>3
  <1>10. IsFiniteSet(S)
    BY <1>3, <1>4, FS_RemoveElement
  <1>11. Cardinality(T) = Cardinality(S)
    BY <1>7, <1>8, <1>9, <1>10, SameCount
  <1>12. Cardinality(S) = IF i \in OwnedIn(s) THEN Cardinality(OwnedIn(s)) - 1 ELSE Cardinality(OwnedIn(s))
    BY <1>3, <1>4, FS_RemoveElement
  <1>13. i \in OwnedIn(s) <=> s[i].type \in Owned
    BY DEF OwnedIn
  <1> QED
    BY <1>1, <1>3, <1>4, <1>11, <1>12, <1>13

-----------------------------------------------------------------------------
(***************************************************************************)
(* What each call does.                                                    *)
(***************************************************************************)
Good(H, O, L, st, D, n) ==
    /\ Tree(H, O, L)
    /\ StackShape(st) /\ StackData(H, st) /\ DueData(H, st, D) /\ OnlyDue(H, st, D)
    /\ IsFiniteSet(Blocks(H)) /\ n = Cardinality(Blocks(H))

\* What a call that came from a callback finds.
NoneEmpty(st) == \A j \in DOMAIN st : st[j].at = "children" => st[j].kids # NULL

\* The parent that add_child gives a list, if it has none.
WithList(H, p, k) ==
    IF KidsIn(H[p].prop) = NULL THEN [H EXCEPT ![p].prop = <<[type |-> "CHILDREN", at |-> k]>> \o @] ELSE H
ListOf(H, L, p, k) == IF KidsIn(H[p].prop) = NULL THEN ListHeadInit(L, k) ELSE L

CandidateIn(H, O, p, k) ==
    \/ KidsIn(H[p].prop) = NULL /\ k \in Kids /\ O[k] = NULL
    \/ KidsIn(H[p].prop) # NULL /\ k = KidsIn(H[p].prop)

\* Notifiers stay in their order.
SameOrder(s, u) ==
    \A note : /\ NoteAt(u, note) = 0 <=> NoteAt(s, note) = 0
              /\ NoteAt(s, note) # 0 => u[NoteAt(u, note)] = s[NoteAt(s, note)]
              /\ \A g : NoteAt(s, note) # 0 /\ NoteAt(s, note) < NoteAt(s, g) => NoteAt(u, note) < NoteAt(u, g)

LEMMA PropsAre ==
    ASSUME NEW H, NEW O, NEW L, Tree(H, O, L), NEW h \in Heads, H[h] # NULL
    PROVE  /\ PropsOK(H[h].prop) /\ H[h] \in Header /\ KidsIn(H[h].prop) \in Lists \cup {NULL}
           /\ IsFiniteSet(OwnedIn(H[h].prop)) /\ Cardinality(OwnedIn(H[h].prop)) \in Nat
           /\ \A note : NoteAt(H[h].prop, note) \in Nat
  <1>1. PropsOK(H[h].prop) /\ H[h] \in Header
    BY DEF Tree, TreeType
  <1>2. ASSUME NEW note PROVE NoteAt(H[h].prop, note) \in Nat
    <2>1. NoteAt(H[h].prop, note) # 0 => NoteAt(H[h].prop, note) \in DOMAIN H[h].prop
      BY <1>1, NoteAtIs
    <2>2. DOMAIN H[h].prop \subseteq Nat
      BY <1>1 DEF PropsOK
    <2> QED
      BY <2>1, <2>2
  <1> QED
    BY <1>1, <1>2, KidsIs, OwnedFinite

\* What has become of the rest when p has the list k.
HasList(H, O, G, Q, M, p, k) ==
    /\ Tree(G, Q, M) /\ k \in Lists /\ Q[k] = p
    /\ \A x \in Heads : /\ G[x] = NULL <=> H[x] = NULL
                        /\ H[x] # NULL => /\ G[x].destroying = H[x].destroying
                                          /\ G[x].parent_child = H[x].parent_child
                                          /\ SameOrder(H[x].prop, G[x].prop)
                                          /\ Cardinality(OwnedIn(G[x].prop)) =
                                             Cardinality(OwnedIn(H[x].prop))
                        /\ x # p => G[x] = H[x]
    /\ KidsIn(H[p].prop) # NULL => G = H
    /\ M.next[k] = k \/ M.next[k] \in StableIn(H)
    /\ \A x \in StableIn(H) : ParentIn(G, Q, x) = ParentIn(H, O, x)

\* A property in front that is no notifier.
LEMMA ShiftedOrder ==
    ASSUME NEW s, PropsOK(s), NEW u, \A k \in DOMAIN s : u[k + 1] = s[k],
           \A note : NoteAt(u, note) = IF NoteAt(s, note) = 0 THEN 0 ELSE NoteAt(s, note) + 1
    PROVE  SameOrder(s, u)
  <1>1. \A g : /\ NoteAt(s, g) \in Nat
               /\ NoteAt(s, g) # 0 => NoteAt(s, g) \in DOMAIN s
    <2>1. DOMAIN s \subseteq Nat
      BY DEF PropsOK
    <2>2. \A g : NoteAt(s, g) # 0 => NoteAt(s, g) \in DOMAIN s
      BY NoteAtIs
    <2> QED
      BY <2>1, <2>2
  <1> SUFFICES ASSUME NEW note
               PROVE  /\ NoteAt(u, note) = 0 <=> NoteAt(s, note) = 0
                      /\ NoteAt(s, note) # 0 => u[NoteAt(u, note)] = s[NoteAt(s, note)]
                      /\ \A g : NoteAt(s, note) # 0 /\ NoteAt(s, note) < NoteAt(s, g) => NoteAt(u, note) < NoteAt(u, g)
    BY DEF SameOrder
  <1>2. NoteAt(u, note) = 0 <=> NoteAt(s, note) = 0
    BY <1>1
  <1>3. NoteAt(s, note) # 0 => u[NoteAt(u, note)] = s[NoteAt(s, note)]
    BY <1>1
  <1>4. ASSUME NEW g, NoteAt(s, note) # 0, NoteAt(s, note) < NoteAt(s, g) PROVE NoteAt(u, note) < NoteAt(u, g)
    <2>1. PICK a \in Nat, b \in Nat : a = NoteAt(s, note) /\ b = NoteAt(s, g)
      BY <1>1
    <2>2. a # 0 /\ b # 0 /\ NoteAt(u, note) = a + 1 /\ NoteAt(u, g) = b + 1
      BY <1>4, <2>1
    <2> QED
      BY <1>4, <2>1, <2>2
  <1> QED
    BY <1>2, <1>3, <1>4

LEMMA ListFor ==
    ASSUME NEW H, NEW O, NEW L, Tree(H, O, L), NEW p \in Heads, H[p] # NULL,
           NEW k, CandidateIn(H, O, p, k)
    PROVE  HasList(H, O, WithList(H, p, k), [O EXCEPT ![k] = p], ListOf(H, L, p, k), p, k)
  <1> PICK G, Q, M : G = WithList(H, p, k) /\ Q = [O EXCEPT ![k] = p] /\ M = ListOf(H, L, p, k)
    OBVIOUS
  <1>1. /\ H \in [Heads -> Header \cup {NULL}] /\ O \in [Lists -> Heads \cup {NULL}] /\ L \in Links
        /\ H[p] \in Header /\ PropsOK(H[p].prop)
    BY PropsAre DEF Tree, TreeType
  <1>2. CASE KidsIn(H[p].prop) = NULL
    <2>1. k \in Kids /\ O[k] = NULL /\ k \in Lists /\ k \in Node
      BY <1>2, Sorts DEF CandidateIn
    <2>2. PICK c : c = [type |-> "CHILDREN", at |-> k]
      OBVIOUS
    <2>3. PICK s : s = H[p].prop
      OBVIOUS
    <2>4. PICK u : u = <<c>> \o s
      OBVIOUS
    <2>5. c \in Property /\ c.type = "CHILDREN" /\ c.at = k
      BY <2>1, <2>2 DEF Property
    <2>6. \A j \in DOMAIN s : s[j].type # "CHILDREN"
      <3>1. SUFFICES ASSUME NEW j \in DOMAIN s, s[j].type = "CHILDREN" PROVE FALSE
        OBVIOUS
      <3>2. s[j] \in Property
        BY <1>1, <2>3 DEF PropsOK
      <3>3. s[j].at \in Lists
        BY <3>1, <3>2, PropertyIs
      <3>4. KidsIn(s) = s[j].at
        BY <1>1, <2>3, <3>1, KidsIs
      <3> QED
        BY <1>2, <2>3, <3>3, <3>4, Sorts
    <2>7. \A j \in DOMAIN s : ~SameKind(c, s[j]) /\ ~SameKind(s[j], c)
      BY <2>5, <2>6 DEF SameKind
    <2>8. /\ PropsOK(u) /\ KidsIn(u) = k
          /\ \A note : NoteAt(u, note) = IF NoteAt(s, note) = 0 THEN 0 ELSE NoteAt(s, note) + 1
          /\ \A j \in DOMAIN s : u[j + 1] = s[j]
      BY <1>1, <2>3, <2>4, <2>5, <2>7, Prepended
    <2>9. Cardinality(OwnedIn(u)) = Cardinality(OwnedIn(s))
      <3>1. Cardinality(OwnedIn(u)) = Cardinality(OwnedIn(s)) + (IF c.type \in Owned THEN 1 ELSE 0)
        BY <1>1, <2>3, <2>4, <2>5, <2>7, OwnedPrepended
      <3>2. c.type \notin Owned
        BY <2>5 DEF Owned
      <3>3. Cardinality(OwnedIn(s)) \in Nat
        BY <1>1, <2>3, OwnedFinite
      <3> QED
        BY <3>1, <3>2, <3>3
    <2>10. SameOrder(s, u)
      <3>1. PropsOK(s)
        BY <1>1, <2>3
      <3> QED
        BY <2>3, <2>8, <3>1, ShiftedOrder
    <2>11. G = [H EXCEPT ![p].prop = u]
      BY <1>2, <2>2, <2>3, <2>4 DEF WithList
    <2>12. M = ListHeadInit(L, k)
      BY <1>2 DEF ListOf
    <2>13. Tree(G, Q, M)
      <3>1. Tree([H EXCEPT ![p].prop = u], [O EXCEPT ![k] = p], ListHeadInit(L, k))
        BY <1>2, <2>1, <2>8, TreeNewList
      <3> QED
        BY <2>11, <2>12, <3>1
    <2>14. PICK r : r = [H[p] EXCEPT !.prop = u]
      OBVIOUS
    <2>15. /\ r \in Header /\ r # NULL /\ r.prop = u
           /\ r.parent_child = H[p].parent_child /\ r.destroying = H[p].destroying
      <3>1. u \in Seq(Property)
        BY <2>8 DEF PropsOK
      <3> QED
        BY <1>1, <2>14, <3>1, Sorts DEF Header
    <2>16. G[p] = r /\ \A x \in Heads \ {p} : G[x] = H[x]
      BY <1>1, <2>11, <2>14
    <2>17. \A x \in Heads : H[x] # NULL => SameOrder(H[x].prop, H[x].prop)
      BY DEF SameOrder
    <2>18. M.next[k] = k
      <3>1. Ring(ListHeadInit(L, k), k, {k})
        BY <1>1, <2>1, RingInit
      <3> QED
        BY <2>12, <3>1 DEF Ring
    <2>19. k \in Lists /\ Q[k] = p /\ \A j \in Lists \ {k} : Q[j] = O[j]
      BY <1>1, <2>1
    <2>20. ASSUME NEW x \in StableIn(H) PROVE ParentIn(G, Q, x) = ParentIn(H, O, x)
      <3>1. H[x].parent_child \in Lists /\ O[H[x].parent_child] # NULL /\ x \in Heads /\ H[x] # NULL
        BY Sorts DEF Tree, Owners, StableIn
      <3>2. G[x].parent_child = H[x].parent_child
        BY <2>15, <2>16, <3>1
      <3>3. H[x].parent_child # k
        BY <2>1, <3>1
      <3> QED
        BY <2>19, <3>1, <3>2, <3>3 DEF ParentIn
    <2>21. ASSUME NEW x \in Heads
           PROVE  /\ G[x] = NULL <=> H[x] = NULL
                  /\ H[x] # NULL => /\ G[x].destroying = H[x].destroying
                                    /\ G[x].parent_child = H[x].parent_child
                                    /\ SameOrder(H[x].prop, G[x].prop)
                                    /\ Cardinality(OwnedIn(G[x].prop)) = Cardinality(OwnedIn(H[x].prop))
                  /\ x # p => G[x] = H[x]
      <3>1. CASE x = p
        BY <2>3, <2>9, <2>10, <2>15, <2>16, <3>1
      <3>2. CASE x # p
        BY <2>16, <2>17, <3>2
      <3> QED
        BY <3>1, <3>2
    <2> QED
      BY <1>2, <2>13, <2>18, <2>19, <2>20, <2>21 DEF HasList
  <1>3. CASE KidsIn(H[p].prop) # NULL
    <2>1. k = KidsIn(H[p].prop) /\ k \in Lists /\ G = H /\ M = L
      BY <1>1, <1>3, KidsIs DEF CandidateIn, WithList, ListOf
    <2>2. O[k] = p /\ p # NULL
      BY <1>3, <2>1, Sorts DEF Tree, Owners
    <2>3. Q = O
      BY <1>1, <2>1, <2>2
    <2>4. \A x \in Heads : H[x] # NULL => SameOrder(H[x].prop, H[x].prop)
      BY DEF SameOrder
    <2>5. M.next[k] = k \/ M.next[k] \in StableIn(H)
      <3>1. Ring(L, k, NodesIn(H, k))
        BY <2>1, <2>2 DEF Tree, Rings
      <3>2. L.next[k] \in NodesIn(H, k)
        BY <3>1 DEF Ring
      <3> QED
        BY <2>1, <3>2 DEF NodesIn
    <2> QED
      BY <2>1, <2>2, <2>3, <2>4, <2>5 DEF HasList
  <1> QED
    BY <1>2, <1>3

\* A change that leaves alone what the calls in progress have read.
LEMMA Unnoticed ==
    ASSUME NEW H, NEW G, NEW st, NEW sv, NEW D,
           StackShape(st), StackData(H, st), DueData(H, st, D), SameCalls(st, sv), Dying(G) = Dying(H),
           \A x \in Hdr : H[x] # NULL => G[x] # NULL /\ SameOrder(H[x].prop, G[x].prop),
           \A j \in DOMAIN st : st[j].at = "children" => KidsIn(G[st[j].t].prop) = KidsIn(H[st[j].t].prop)
    PROVE  StackShape(sv) /\ StackData(G, sv) /\ DueData(G, sv, D)
  <1>1. \A j \in DOMAIN st : st[j].t \in Hdr /\ H[st[j].t] # NULL
    BY DEF StackData, Dying
  <1>2. ReadAlike(H, G, st)
    BY <1>1 DEF StackData, SameOrder, ReadAlike
  <1>3. DueIn(G, D)
    <2> SUFFICES ASSUME NEW d \in D
                 PROVE  /\ G[d[1]] # NULL /\ NoteAt(G[d[1]].prop, d[2]) # 0
                        /\ "FREE" \in G[d[1]].prop[NoteAt(G[d[1]].prop, d[2])].types
      BY DEF DueIn, DueData
    <2>1. /\ d[1] \in Hdr /\ H[d[1]] # NULL /\ NoteAt(H[d[1]].prop, d[2]) # 0
          /\ "FREE" \in H[d[1]].prop[NoteAt(H[d[1]].prop, d[2])].types
      BY DEF DueData
    <2>2. G[d[1]] # NULL /\ SameOrder(H[d[1]].prop, G[d[1]].prop)
      BY <2>1
    <2>3. /\ NoteAt(G[d[1]].prop, d[2]) # 0
          /\ G[d[1]].prop[NoteAt(G[d[1]].prop, d[2])] = H[d[1]].prop[NoteAt(H[d[1]].prop, d[2])]
      BY <2>1, <2>2 DEF SameOrder
    <2> QED
      BY <2>1, <2>2, <2>3
  <1>4. DueAlike(H, G, D, D)
    <2> SUFFICES ASSUME NEW d \in D, d[1] \in Dying(H),
                        NEW note, NoteAt(H[d[1]].prop, note) < NoteAt(H[d[1]].prop, d[2]),
                        NoteAt(H[d[1]].prop, note) # 0
                 PROVE  NoteAt(G[d[1]].prop, note) < NoteAt(G[d[1]].prop, d[2])
      BY DEF DueAlike
    <2>1. SameOrder(H[d[1]].prop, G[d[1]].prop)
      BY DEF Dying
    <2> QED
      BY <2>1 DEF SameOrder
  <1> QED
    BY <1>2, <1>3, <1>4, StackKept

\* Nothing becomes due, and nothing that was called comes behind the one that was
\* called last.
LEMMA OnceKept ==
    ASSUME NEW H, NEW G, NEW st, NEW sv, NEW D, NEW E,
           StackShape(st), OnlyDue(H, st, D), SameCalls(st, sv),
           \A h \in Hdr, note \in Notes : G[h] # NULL /\ FreeNote(G[h].prop, note) /\ <<h, note>> \notin E =>
              /\ H[h] # NULL /\ FreeNote(H[h].prop, note) /\ <<h, note>> \notin D
              /\ H[h].destroying =>
                    /\ G[h].destroying
                    /\ \A j \in DOMAIN st : /\ st[j].at = "notify" /\ st[j].t = h /\ st[j].n # NULL
                                            /\ NoteAt(H[h].prop, note) <= NoteAt(H[h].prop, st[j].n)
                                            => NoteAt(G[h].prop, note) <= NoteAt(G[h].prop, st[j].n)
    PROVE  OnlyDue(G, sv, E)
  <1>1. DOMAIN sv = DOMAIN st
    BY DEF StackShape, SameCalls
  <1>2. \A j \in DOMAIN st : sv[j].at = st[j].at /\ sv[j].t = st[j].t /\ (st[j].at = "notify" => sv[j].n = st[j].n)
    BY DEF SameCalls
  <1> SUFFICES ASSUME NEW h \in Hdr, NEW note \in Notes,
                      G[h] # NULL, FreeNote(G[h].prop, note), <<h, note>> \notin E
               PROVE  /\ G[h].destroying
                      /\ \A j \in DOMAIN st : st[j].at = "notify" /\ st[j].t = h =>
                            st[j].n # NULL /\ NoteAt(G[h].prop, note) <= NoteAt(G[h].prop, st[j].n)
    BY <1>1, <1>2 DEF OnlyDue
  <1>3. /\ H[h].destroying
        /\ \A j \in DOMAIN st : st[j].at = "notify" /\ st[j].t = h =>
              st[j].n # NULL /\ NoteAt(H[h].prop, note) <= NoteAt(H[h].prop, st[j].n)
    BY DEF OnlyDue
  <1> QED
    BY <1>3

LEMMA SameOrderOf ==
    ASSUME NEW s, PropsOK(s), NEW u, PropsOK(u), SameOrder(s, u), NEW a, NoteAt(u, a) # 0
    PROVE  /\ NoteAt(s, a) # 0 /\ u[NoteAt(u, a)] = s[NoteAt(s, a)]
           /\ \A b : NoteAt(s, b) # 0 /\ NoteAt(s, a) <= NoteAt(s, b) => NoteAt(u, a) <= NoteAt(u, b)
  <1>1. NoteAt(s, a) # 0 /\ u[NoteAt(u, a)] = s[NoteAt(s, a)]
    BY DEF SameOrder
  <1>2. \A b : NoteAt(s, b) # 0 => NoteAt(s, b) \in DOMAIN s /\ s[NoteAt(s, b)].at = b
    BY NoteAtIs
  <1>3. \A b : NoteAt(u, b) # 0 => NoteAt(u, b) \in DOMAIN u
    BY NoteAtIs
  <1>4. DOMAIN s \subseteq Nat /\ DOMAIN u \subseteq Nat
    BY DEF PropsOK
  <1>5. ASSUME NEW b, NoteAt(s, b) # 0, NoteAt(s, a) <= NoteAt(s, b) PROVE NoteAt(u, a) <= NoteAt(u, b)
    <2>1. PICK i \in Nat, j \in Nat : i = NoteAt(s, a) /\ j = NoteAt(s, b)
      BY <1>1, <1>2, <1>4, <1>5
    <2>2. NoteAt(u, b) # 0
      BY <1>5 DEF SameOrder
    <2>3. PICK k \in Nat, m \in Nat : k = NoteAt(u, a) /\ m = NoteAt(u, b)
      BY <1>3, <1>4, <2>2
    <2>4. CASE i = j
      <3>1. s[i].at = a /\ s[j].at = b
        BY <1>1, <1>2, <1>5, <2>1
      <3>2. a = b
        BY <2>4, <3>1
      <3> QED
        BY <2>3, <3>2
    <2>5. CASE i < j
      <3>1. NoteAt(u, a) < NoteAt(u, b)
        BY <1>1, <2>1, <2>5 DEF SameOrder
      <3> QED
        BY <2>3, <3>1
    <2> QED
      BY <1>5, <2>1, <2>4, <2>5
  <1> QED
    BY <1>1, <1>5

\* The same for objects that are new, or have kept their notifiers.
LEMMA SameOnce ==
    ASSUME NEW H, NEW G, NEW st, NEW sv, NEW D,
           StackShape(st), StackData(H, st), OnlyDue(H, st, D), SameCalls(st, sv),
           \A x \in Hdr : G[x] # NULL =>
              \/ \A note : NoteAt(G[x].prop, note) = 0
              \/ /\ H[x] # NULL /\ PropsOK(H[x].prop) /\ PropsOK(G[x].prop)
                 /\ SameOrder(H[x].prop, G[x].prop) /\ (H[x].destroying => G[x].destroying)
    PROVE  OnlyDue(G, sv, D)
  <1>1. ASSUME NEW h \in Hdr, NEW note \in Notes,
               G[h] # NULL, FreeNote(G[h].prop, note), <<h, note>> \notin D
        PROVE  /\ H[h] # NULL /\ FreeNote(H[h].prop, note) /\ <<h, note>> \notin D
               /\ H[h].destroying =>
                     /\ G[h].destroying
                     /\ \A j \in DOMAIN st : /\ st[j].at = "notify" /\ st[j].t = h /\ st[j].n # NULL
                                             /\ NoteAt(H[h].prop, note) <= NoteAt(H[h].prop, st[j].n)
                                             => NoteAt(G[h].prop, note) <= NoteAt(G[h].prop, st[j].n)
    <2>1. NoteAt(G[h].prop, note) # 0 /\ "FREE" \in G[h].prop[NoteAt(G[h].prop, note)].types
      BY <1>1 DEF FreeNote
    <2>2. /\ H[h] # NULL /\ PropsOK(H[h].prop) /\ PropsOK(G[h].prop)
          /\ SameOrder(H[h].prop, G[h].prop) /\ (H[h].destroying => G[h].destroying)
      BY <1>1, <2>1
    <2>3. PICK s, u : s = H[h].prop /\ u = G[h].prop
      OBVIOUS
    <2>4. /\ NoteAt(s, note) # 0 /\ u[NoteAt(u, note)] = s[NoteAt(s, note)]
          /\ \A b : NoteAt(s, b) # 0 /\ NoteAt(s, note) <= NoteAt(s, b) => NoteAt(u, note) <= NoteAt(u, b)
      BY <2>1, <2>2, <2>3, SameOrderOf
    <2>5. FreeNote(s, note)
      BY <2>1, <2>3, <2>4 DEF FreeNote
    <2>6. \A j \in DOMAIN st : st[j].at = "notify" /\ st[j].t = h /\ st[j].n # NULL => NoteAt(s, st[j].n) # 0
      BY <2>3 DEF StackData
    <2> QED
      BY <1>1, <2>2, <2>3, <2>4, <2>5, <2>6
  <1> QED
    BY <1>1, OnceKept

\* tal: an object that is new.
LEMMA GoodAdded ==
    ASSUME NEW H, NEW O, NEW L, NEW st, NEW sv, NEW D, NEW n, Good(H, O, L, st, D, n),
           SameCalls(st, sv), NoneEmpty(st),
           NEW p \in Heads, H[p] # NULL, NEW k, CandidateIn(H, O, p, k),
           NEW h \in Hdr, H[h] = NULL, NEW r \in Header, ~r.destroying, r.parent_child = k,
           PropsOK(r.prop), KidsIn(r.prop) = NULL, OwnedIn(r.prop) = {}
    PROVE  Good([WithList(H, p, k) EXCEPT ![h] = r], [O EXCEPT ![k] = p],
                ListAdd(ListOf(H, L, p, k), k, h), sv, D, n)
  <1>1. PICK G : G = WithList(H, p, k)
    OBVIOUS
  <1>2. PICK Q, M : Q = [O EXCEPT ![k] = p] /\ M = ListOf(H, L, p, k)
    OBVIOUS
  <1>3. PICK F : F = [G EXCEPT ![h] = r]
    OBVIOUS
  <1>4. Tree(H, O, L) /\ StackShape(st) /\ StackData(H, st) /\ DueData(H, st, D) /\ OnlyDue(H, st, D)
        /\ IsFiniteSet(Blocks(H)) /\ n = Cardinality(Blocks(H))
    BY DEF Good
  <1>5. /\ Tree(G, Q, M) /\ k \in Lists /\ Q[k] = p
        /\ \A x \in Heads : /\ G[x] = NULL <=> H[x] = NULL
                            /\ H[x] # NULL => /\ G[x].destroying = H[x].destroying
                                              /\ G[x].parent_child = H[x].parent_child
                                              /\ SameOrder(H[x].prop, G[x].prop)
                                              /\ Cardinality(OwnedIn(G[x].prop)) =
                                                 Cardinality(OwnedIn(H[x].prop))
                            /\ x # p => G[x] = H[x]
        /\ KidsIn(H[p].prop) # NULL => G = H
    <2>1. HasList(H, O, G, Q, M, p, k)
      BY <1>1, <1>2, <1>4, ListFor
    <2> QED
      BY <2>1 DEF HasList
  <1>6. G \in [Heads -> Header \cup {NULL}] /\ h \in Heads /\ h # p /\ r # NULL /\ G[h] = NULL
    BY <1>5, Sorts DEF Tree, TreeType
  <1>7. F[h] = r /\ \A x \in Heads \ {h} : F[x] = G[x]
    BY <1>3, <1>6
  <1>8. NoCycle(F, Q)
    <2>1. PICK A : A = Heads \ {h}
      OBVIOUS
    <2>2. \A x \in StableIn(G) : ParentIn(G, Q, x) \in A
      BY <1>5, <1>6, <2>1, ParentIsPresent DEF Present
    <2>3. Q[k] \in A /\ h \notin A
      BY <1>5, <1>6, <2>1
    <2> QED
      BY <1>3, <1>5, <2>2, <2>3, NoNewCycle
  <1>9. Tree(F, Q, ListAdd(M, k, h))
    <2>1. h \notin StableIn(G) /\ Q[k] # NULL
      BY <1>5, <1>6, Sorts DEF StableIn
    <2> QED
      BY <1>3, <1>5, <1>6, <1>8, <2>1, TreeAttach
  <1>10. Dying(F) = Dying(H)
    BY <1>5, <1>6, <1>7, Sorts DEF Dying
  <1>11. \A x \in Hdr : H[x] # NULL => F[x] # NULL /\ SameOrder(H[x].prop, F[x].prop)
    BY <1>5, <1>6, <1>7, Sorts
  <1>12. ASSUME NEW j \in DOMAIN st, st[j].at = "children"
         PROVE  KidsIn(F[st[j].t].prop) = KidsIn(H[st[j].t].prop)
    <2>1. /\ st[j].kids # NULL /\ st[j].kids = KidsIn(H[st[j].t].prop)
          /\ st[j].t \in Hdr /\ H[st[j].t] # NULL
      BY <1>4, <1>12 DEF NoneEmpty, StackData, Dying
    <2>2. F[st[j].t] = H[st[j].t]
      BY <1>5, <1>6, <1>7, <2>1, Sorts
    <2> QED
      BY <2>2
  <1>13. StackShape(sv) /\ StackData(F, sv) /\ DueData(F, sv, D)
    BY <1>4, <1>10, <1>11, <1>12, Unnoticed
  <1>14. IsFiniteSet(Blocks(G)) /\ Cardinality(Blocks(G)) = n
    <2>1. /\ IsFiniteSet(OwnedBy(H, p)) /\ IsFiniteSet(OwnedBy(G, p))
          /\ Cardinality(OwnedBy(G, p)) = Cardinality(OwnedBy(H, p))
      BY <1>4, <1>5, PropsAre DEF OwnedBy
    <2>2. \A x \in Heads \ {p} : OwnedBy(G, x) = OwnedBy(H, x)
      BY <1>5 DEF OwnedBy
    <2> QED
      BY <1>4, <2>1, <2>2, SameBlocks
  <1>15. IsFiniteSet(Blocks(F)) /\ Cardinality(Blocks(F)) = n
    <2>1. OwnedBy(G, h) = {} /\ OwnedBy(F, h) = {}
      BY <1>6, <1>7 DEF OwnedBy
    <2>2. \A x \in Heads \ {h} : OwnedBy(F, x) = OwnedBy(G, x)
      BY <1>7 DEF OwnedBy
    <2>3. IsFiniteSet({})
      BY FS_EmptySet
    <2> QED
      BY <1>6, <1>14, <2>1, <2>2, <2>3, SameBlocks
  <1>16. OnlyDue(F, sv, D)
    <2> SUFFICES ASSUME NEW x \in Hdr, F[x] # NULL
                 PROVE  \/ \A note : NoteAt(F[x].prop, note) = 0
                        \/ /\ H[x] # NULL /\ PropsOK(H[x].prop) /\ PropsOK(F[x].prop)
                           /\ SameOrder(H[x].prop, F[x].prop) /\ (H[x].destroying => F[x].destroying)
      BY <1>4, SameOnce
    <2>1. CASE x = h
      <3>1. \A j \in DOMAIN r.prop : r.prop[j].type # "NOTIFIER"
        BY DEF OwnedIn, Owned
      <3> QED
        BY <1>7, <2>1, <3>1, NoteAtIs
    <2>2. CASE x # h
      <3>1. x \in Heads /\ F[x] = G[x] /\ H[x] # NULL
        BY <1>5, <1>7, <2>2, Sorts
      <3>2. PropsOK(H[x].prop) /\ PropsOK(G[x].prop)
        BY <1>4, <1>5, <3>1, PropsAre
      <3> QED
        BY <1>5, <3>1, <3>2
    <2> QED
      BY <2>1, <2>2
  <1> QED
    BY <1>1, <1>2, <1>3, <1>9, <1>13, <1>15, <1>16 DEF Good

\* tal_steal: an object that goes from its list to that of p, which is not below it.
LEMMA GoodStolen ==
    ASSUME NEW H, NEW O, NEW L, NEW st, NEW sv, NEW D, NEW n, Good(H, O, L, st, D, n),
           SameCalls(st, sv), NoneEmpty(st),
           NEW p \in Heads, H[p] # NULL, NEW k, CandidateIn(H, O, p, k),
           NEW h \in StableIn(H), NEW A, p \in A, h \notin A,
           \A x \in StableIn(H) : x \in A => ParentIn(H, O, x) \in A
    PROVE  /\ Good([WithList(H, p, k) EXCEPT ![h] = [H[h] EXCEPT !.parent_child = k]], [O EXCEPT ![k] = p],
                   ListAdd(ListOf(H, ListDel(L, h), p, k), k, h), sv, D, n)
           /\ \/ ListOf(H, ListDel(L, h), p, k).next[k] = k
              \/ ListOf(H, ListDel(L, h), p, k).next[k] \in StableIn(H)
  <1>1. PICK I, N : I = [H EXCEPT ![h].destroying = TRUE] /\ N = ListDel(L, h)
    OBVIOUS
  <1>2. PICK Q, M : Q = [O EXCEPT ![k] = p] /\ M = ListOf(H, N, p, k)
    OBVIOUS
  <1>3. PICK G, J, r : G = WithList(H, p, k) /\ J = WithList(I, p, k) /\ r = [H[h] EXCEPT !.parent_child = k]
    OBVIOUS
  <1>4. PICK F : F = [G EXCEPT ![h] = r]
    OBVIOUS
  <1>5. Tree(H, O, L) /\ StackShape(st) /\ StackData(H, st) /\ DueData(H, st, D) /\ OnlyDue(H, st, D)
        /\ IsFiniteSet(Blocks(H)) /\ n = Cardinality(Blocks(H))
    BY DEF Good
  <1>6. /\ H \in [Heads -> Header \cup {NULL}] /\ H[h] \in Header /\ h \in Hdr /\ h \in Heads /\ h # p
        /\ H[h] # NULL /\ ~H[h].destroying /\ PropsOK(H[h].prop) /\ PropsOK(H[p].prop) /\ p # NULL
    BY <1>5, Sorts, PropsAre DEF Tree, TreeType, StableIn
  <1>7. Tree(I, O, N) /\ StableIn(I) = StableIn(H) \ {h}
    BY <1>1, <1>5, TreeDetach
  <1>8. /\ I[h] # NULL /\ I[h].prop = H[h].prop /\ I[h].destroying = TRUE
        /\ \A x \in Heads \ {h} : I[x] = H[x]
    <2>1. PICK d : d = [H[h] EXCEPT !.destroying = TRUE]
      OBVIOUS
    <2>2. d \in Header /\ d.prop = H[h].prop /\ d.destroying = TRUE
      BY <1>6, <2>1 DEF Header
    <2> QED
      BY <1>1, <1>6, <2>1, <2>2, Sorts
  <1>9. CandidateIn(I, O, p, k) /\ M = ListOf(I, N, p, k)
    BY <1>2, <1>6, <1>8 DEF CandidateIn, ListOf
  <1>10. HasList(I, O, J, Q, M, p, k)
    <2>1. I[p] # NULL /\ p \in Heads
      BY <1>6, <1>8
    <2>2. HasList(I, O, WithList(I, p, k), [O EXCEPT ![k] = p], ListOf(I, N, p, k), p, k)
      BY <1>7, <1>9, <2>1, ListFor
    <2> QED
      BY <1>2, <1>3, <1>9, <2>2
  <1>11. /\ Tree(J, Q, M) /\ k \in Lists /\ Q[k] = p
         /\ \A x \in Heads : /\ J[x] = NULL <=> I[x] = NULL
                             /\ I[x] # NULL => /\ J[x].destroying = I[x].destroying
                                               /\ J[x].parent_child = I[x].parent_child
                                               /\ SameOrder(I[x].prop, J[x].prop)
                                               /\ Cardinality(OwnedIn(J[x].prop)) =
                                                  Cardinality(OwnedIn(I[x].prop))
                             /\ x # p => J[x] = I[x]
         /\ KidsIn(I[p].prop) # NULL => J = I
         /\ M.next[k] = k \/ M.next[k] \in StableIn(I)
         /\ \A x \in StableIn(I) : ParentIn(J, Q, x) = ParentIn(I, O, x)
    BY <1>10 DEF HasList
  <1>12. /\ r \in Header /\ r # NULL /\ ~r.destroying /\ r.destroying = H[h].destroying
         /\ r.prop = H[h].prop /\ r.parent_child = k
    BY <1>3, <1>6, <1>11, Sorts DEF Header
  <1>13. /\ J \in [Heads -> Header \cup {NULL}] /\ J[h] = I[h]
         /\ StableIn(J) = StableIn(I)
    <2>1. J \in [Heads -> Header \cup {NULL}]
      BY <1>11 DEF Tree, TreeType
    <2>2. StableIn(J) = StableIn(I)
      BY <1>11, Sorts DEF StableIn
    <2> QED
      BY <1>6, <1>11, <2>1, <2>2
  <1>14. F = [J EXCEPT ![h] = r]
    <2>1. CASE KidsIn(H[p].prop) # NULL
      <3>1. G = H /\ J = I
        BY <1>3, <1>6, <1>8, <2>1 DEF WithList
      <3> QED
        BY <1>1, <1>4, <1>6, <3>1
    <2>2. CASE KidsIn(H[p].prop) = NULL
      <3>1. PICK c : c = <<[type |-> "CHILDREN", at |-> k]>>
        OBVIOUS
      <3>2. G = [H EXCEPT ![p].prop = c \o @] /\ J = [I EXCEPT ![p].prop = c \o @]
        BY <1>3, <1>6, <1>8, <2>2, <3>1 DEF WithList
      <3> QED
        BY <1>1, <1>4, <1>6, <3>2
    <2> QED
      BY <2>1, <2>2
  <1>15. F[h] = r /\ \A x \in Heads \ {h} : F[x] = J[x]
    BY <1>6, <1>13, <1>14
  <1>16. NoCycle(F, Q)
    <2>1. ASSUME NEW x \in StableIn(J), x # h, x \in A PROVE ParentIn(J, Q, x) \in A
      <3>1. x \in StableIn(H) /\ I[x] = H[x]
        BY <1>7, <1>8, <1>13, <2>1, Sorts DEF StableIn
      <3>2. ParentIn(J, Q, x) = ParentIn(H, O, x)
        BY <1>11, <1>13, <3>1 DEF ParentIn
      <3> QED
        BY <2>1, <3>1, <3>2
    <2> QED
      BY <1>6, <1>11, <1>12, <1>14, <2>1, NoNewCycle
  <1>17. Tree(F, Q, ListAdd(M, k, h))
    <2>1. h \notin StableIn(J) /\ Q[k] # NULL /\ J[h] # NULL /\ KidsIn(r.prop) = KidsIn(J[h].prop)
      BY <1>6, <1>7, <1>8, <1>11, <1>12, <1>13
    <2>2. PropsOK(r.prop)
      BY <1>6, <1>12
    <2>3. Tree([J EXCEPT ![h] = r], Q, ListAdd(M, k, h))
      BY <1>6, <1>11, <1>12, <1>14, <1>16, <2>1, <2>2, TreeAttach
    <2> QED
      BY <1>14, <2>3
  <1>18. ASSUME NEW x \in Hdr
         PROVE  /\ F[x] = NULL <=> H[x] = NULL
                /\ H[x] # NULL => /\ F[x].destroying = H[x].destroying
                                  /\ SameOrder(H[x].prop, F[x].prop)
                                  /\ Cardinality(OwnedIn(F[x].prop)) = Cardinality(OwnedIn(H[x].prop))
                /\ x # p => F[x] = NULL \/ F[x].prop = H[x].prop
    <2>1. CASE x = h
      <3>1. SameOrder(H[h].prop, H[h].prop)
        BY DEF SameOrder
      <3> QED
        BY <1>6, <1>12, <1>15, <2>1, <3>1
    <2>2. CASE x # h
      <3>1. F[x] = J[x] /\ I[x] = H[x] /\ x \in Heads
        BY <1>8, <1>15, <2>2, Sorts
      <3> QED
        BY <1>11, <3>1
    <2> QED
      BY <2>1, <2>2
  <1>19. Dying(F) = Dying(H)
    BY <1>18 DEF Dying
  <1>20. ASSUME NEW j \in DOMAIN st, st[j].at = "children"
         PROVE  KidsIn(F[st[j].t].prop) = KidsIn(H[st[j].t].prop)
    <2>1. /\ st[j].kids # NULL /\ st[j].kids = KidsIn(H[st[j].t].prop)
          /\ st[j].t \in Hdr /\ H[st[j].t] # NULL
      BY <1>5, <1>20 DEF NoneEmpty, StackData, Dying
    <2>2. CASE st[j].t # p
      BY <1>18, <2>1, <2>2
    <2>3. CASE st[j].t = p
      <3>1. J = I
        BY <1>6, <1>8, <1>11, <2>1, <2>3
      <3> QED
        BY <1>6, <1>8, <1>15, <2>3, <3>1
    <2> QED
      BY <2>2, <2>3
  <1>21. StackShape(sv) /\ StackData(F, sv) /\ DueData(F, sv, D)
    BY <1>5, <1>18, <1>19, <1>20, Unnoticed
  <1>22. IsFiniteSet(Blocks(F)) /\ Cardinality(Blocks(F)) = n
    <2>1. F[p] = J[p] /\ J[p] # NULL /\ I[p] = H[p]
      BY <1>6, <1>8, <1>11, <1>15
    <2>2. Cardinality(OwnedBy(F, p)) = Cardinality(OwnedBy(H, p))
      BY <1>11, <2>1 DEF OwnedBy
    <2>3. IsFiniteSet(OwnedBy(F, p)) /\ IsFiniteSet(OwnedBy(H, p))
      BY <1>5, <1>11, <2>1, PropsAre DEF OwnedBy
    <2>4. ASSUME NEW x \in Heads \ {p} PROVE OwnedBy(F, x) = OwnedBy(H, x)
      <3>1. CASE x = h
        BY <1>6, <1>12, <1>15, <3>1 DEF OwnedBy
      <3>2. CASE x # h
        BY <1>8, <1>11, <1>15, <3>2 DEF OwnedBy
      <3> QED
        BY <3>1, <3>2
    <2> QED
      BY <1>5, <2>2, <2>3, <2>4, SameBlocks
  <1>23. OnlyDue(F, sv, D)
    <2> SUFFICES ASSUME NEW x \in Hdr, F[x] # NULL
                 PROVE  /\ H[x] # NULL /\ PropsOK(H[x].prop) /\ PropsOK(F[x].prop)
                        /\ SameOrder(H[x].prop, F[x].prop) /\ (H[x].destroying => F[x].destroying)
      BY <1>5, SameOnce
    <2>1. x \in Heads /\ H[x] # NULL
      BY <1>18, Sorts
    <2> QED
      BY <1>5, <1>17, <1>18, <2>1, PropsAre
  <1> QED
    BY <1>1, <1>2, <1>3, <1>4, <1>7, <1>11, <1>17, <1>21, <1>22, <1>23 DEF Good

\* tal_steal without memory for a list: the object is put back.
LEMMA GoodPutBack ==
    ASSUME NEW H, NEW O, NEW L, NEW st, NEW sv, NEW D, NEW n, Good(H, O, L, st, D, n),
           SameCalls(st, sv), NEW h \in StableIn(H)
    PROVE  Good(H, O, ListAdd(ListDel(L, h), H[h].parent_child, h), sv, D, n)
  <1>1. PICK I, N, k : I = [H EXCEPT ![h].destroying = TRUE] /\ N = ListDel(L, h) /\ k = H[h].parent_child
    OBVIOUS
  <1>2. Tree(H, O, L) /\ StackShape(st) /\ StackData(H, st) /\ DueData(H, st, D) /\ OnlyDue(H, st, D)
    BY DEF Good
  <1>3. /\ H \in [Heads -> Header \cup {NULL}] /\ H[h] \in Header /\ h \in Hdr /\ h \in Heads
        /\ H[h] # NULL /\ ~H[h].destroying /\ PropsOK(H[h].prop) /\ k \in Lists /\ O[k] # NULL
    BY <1>1, <1>2, Sorts, PropsAre DEF Tree, TreeType, StableIn, Owners
  <1>4. Tree(I, O, N) /\ h \notin StableIn(I)
    BY <1>1, <1>2, TreeDetach
  <1>5. I[h] # NULL /\ I[h].prop = H[h].prop
    <2>1. PICK d : d = [H[h] EXCEPT !.destroying = TRUE]
      OBVIOUS
    <2>2. d \in Header /\ d.prop = H[h].prop
      BY <1>3, <2>1 DEF Header
    <2> QED
      BY <1>1, <1>3, <2>1, <2>2, Sorts
  <1>6. H = [I EXCEPT ![h] = H[h]]
    BY <1>1, <1>3
  <1>7. NoCycle([I EXCEPT ![h] = H[h]], O)
    BY <1>2, <1>6 DEF Tree
  <1>8. KidsIn(H[h].prop) = KidsIn(I[h].prop)
    BY <1>5
  <1>9. PICK r : r = H[h]
    OBVIOUS
  <1>10. Tree([I EXCEPT ![h] = r], O, ListAdd(N, k, h))
    BY <1>1, <1>3, <1>4, <1>5, <1>7, <1>8, <1>9, TreeAttach
  <1>11. StackShape(sv) /\ StackData(H, sv) /\ DueData(H, sv, D)
    <2>1. \A x \in Hdr : H[x] # NULL => H[x] # NULL /\ SameOrder(H[x].prop, H[x].prop)
      BY DEF SameOrder
    <2> QED
      BY <1>2, <2>1, Unnoticed
  <1>12. OnlyDue(H, sv, D)
    BY <1>2, OnceKept
  <1> QED
    BY <1>1, <1>6, <1>9, <1>10, <1>11, <1>12 DEF Good

\* A call that has failed, or has found nothing to do.
LEMMA GoodCalled ==
    ASSUME NEW H, NEW O, NEW L, NEW st, NEW sv, NEW D, NEW n, Good(H, O, L, st, D, n), SameCalls(st, sv)
    PROVE  Good(H, O, L, sv, D, n)
  <1>1. \A x \in Hdr : H[x] # NULL => H[x] # NULL /\ SameOrder(H[x].prop, H[x].prop)
    BY DEF SameOrder
  <1>2. StackShape(sv) /\ StackData(H, sv) /\ DueData(H, sv, D)
    BY <1>1, Unnoticed DEF Good
  <1>3. OnlyDue(H, sv, D)
    BY OnceKept DEF Good
  <1> QED
    BY <1>2, <1>3 DEF Good

\* One object gets other properties.
LEMMA GoodProps ==
    ASSUME NEW H, NEW O, NEW L, NEW st, NEW sv, NEW D, NEW n, Good(H, O, L, st, D, n),
           SameCalls(st, sv), NEW h \in Hdr, H[h] # NULL,
           NEW s, PropsOK(s), KidsIn(s) = KidsIn(H[h].prop),
           NEW G, G = [H EXCEPT ![h].prop = s],
           \A j \in DOMAIN st : st[j].t = h /\ st[j].at = "notify" /\ st[j].n # NULL => NoteAt(s, st[j].n) # 0,
           NEW E, DueIn(G, E), DueAlike(H, G, D, E), OnlyDue(G, st, E),
           NEW m, m = n - Cardinality(OwnedIn(H[h].prop)) + Cardinality(OwnedIn(s))
    PROVE  Good(G, O, L, sv, E, m)
  <1>1. Tree(H, O, L) /\ StackShape(st) /\ StackData(H, st) /\ DueData(H, st, D) /\ OnlyDue(H, st, D)
        /\ IsFiniteSet(Blocks(H)) /\ n = Cardinality(Blocks(H))
    BY DEF Good
  <1>2. h \in Heads /\ H \in [Heads -> Header \cup {NULL}] /\ H[h] \in Header /\ s \in Seq(Property)
    BY <1>1, Sorts DEF Tree, TreeType, PropsOK
  <1>3. PICK r : r = [H[h] EXCEPT !.prop = s]
    OBVIOUS
  <1>4. r # NULL /\ r.prop = s /\ r.destroying = H[h].destroying
    BY <1>2, <1>3, Sorts DEF Header
  <1>5. G[h] = r /\ \A x \in Heads \ {h} : G[x] = H[x]
    BY <1>2, <1>3
  <1>6. Tree(G, O, L)
    <2>1. Tree([H EXCEPT ![h].prop = s], O, L)
      BY <1>1, <1>2, TreeProps
    <2> QED
      BY <2>1
  <1>7. Dying(G) = Dying(H)
    BY <1>4, <1>5, Sorts DEF Dying
  <1>8. ReadAlike(H, G, st)
    <2> SUFFICES ASSUME NEW j \in DOMAIN st
                 PROVE  /\ st[j].at = "children" => KidsIn(G[st[j].t].prop) = KidsIn(H[st[j].t].prop)
                        /\ st[j].at = "notify" /\ st[j].n # NULL => NoteAt(G[st[j].t].prop, st[j].n) # 0
      BY DEF ReadAlike
    <2>1. /\ st[j].t \in Heads
          /\ st[j].at = "notify" /\ st[j].n # NULL => NoteAt(H[st[j].t].prop, st[j].n) # 0
      BY <1>1, Sorts DEF StackData, Dying
    <2>2. CASE st[j].t = h
      BY <1>4, <1>5, <2>2
    <2>3. CASE st[j].t # h
      BY <1>5, <2>1, <2>3
    <2> QED
      BY <2>2, <2>3
  <1>9. StackShape(sv) /\ StackData(G, sv) /\ DueData(G, sv, E)
    BY <1>1, <1>7, <1>8, StackKept
  <1>10. IsFiniteSet(Blocks(G)) /\ m = Cardinality(Blocks(G))
    <2>1. OwnedBy(H, h) = OwnedIn(H[h].prop) /\ OwnedBy(G, h) = OwnedIn(s)
      BY <1>4, <1>5 DEF OwnedBy
    <2>2. \A x \in Hdr \ {h} : OwnedBy(G, x) = OwnedBy(H, x)
      BY <1>5, Sorts DEF OwnedBy
    <2>3. IsFiniteSet(OwnedIn(H[h].prop)) /\ IsFiniteSet(OwnedIn(s))
      BY <1>1, <1>2, PropsAre, OwnedFinite
    <2>4. IsFiniteSet(OwnedBy(H, h)) /\ IsFiniteSet(OwnedBy(G, h)) /\ IsFiniteSet(Blocks(H))
      BY <1>1, <2>1, <2>3
    <2>5. /\ IsFiniteSet(Blocks(G))
          /\ Cardinality(Blocks(G)) = Cardinality(Blocks(H)) - Cardinality(OwnedBy(H, h))
                                                              + Cardinality(OwnedBy(G, h))
      BY <2>2, <2>4, BlocksChange
    <2> QED
      BY <1>1, <2>1, <2>5
  <1>11. OnlyDue(G, sv, E)
    BY <1>1, OnceKept
  <1> QED
    BY <1>6, <1>9, <1>10, <1>11 DEF Good

\* Its notifiers stay as they are.
LEMMA GoodOrdered ==
    ASSUME NEW H, NEW O, NEW L, NEW st, NEW sv, NEW D, NEW n, Good(H, O, L, st, D, n),
           SameCalls(st, sv), NEW h \in Hdr, H[h] # NULL,
           NEW s, PropsOK(s), KidsIn(s) = KidsIn(H[h].prop), SameOrder(H[h].prop, s),
           NEW G, G = [H EXCEPT ![h].prop = s],
           NEW m, m = n - Cardinality(OwnedIn(H[h].prop)) + Cardinality(OwnedIn(s))
    PROVE  Good(G, O, L, sv, D, m)
  <1>1. /\ Tree(H, O, L) /\ StackShape(st) /\ StackData(H, st) /\ DueData(H, st, D) /\ OnlyDue(H, st, D)
        /\ st \in Seq(Frame) /\ SameCalls(st, st)
    BY StackIs DEF Good, SameCalls
  <1>2. /\ h \in Heads /\ H \in [Heads -> Header \cup {NULL}] /\ H[h] \in Header /\ PropsOK(H[h].prop)
        /\ s \in Seq(Property)
    BY <1>1, Sorts, PropsAre DEF Tree, TreeType, PropsOK
  <1>3. PICK r : r = [H[h] EXCEPT !.prop = s]
    OBVIOUS
  <1>4. r # NULL /\ r.prop = s /\ r.destroying = H[h].destroying
    BY <1>2, <1>3, Sorts DEF Header
  <1>5. G[h] = r /\ \A x \in Heads \ {h} : G[x] = H[x]
    BY <1>2, <1>3
  <1>6. ASSUME NEW x \in Hdr
        PROVE  /\ G[x] = NULL <=> H[x] = NULL
               /\ H[x] # NULL => /\ SameOrder(H[x].prop, G[x].prop) /\ (H[x].destroying => G[x].destroying)
                                 /\ PropsOK(H[x].prop) /\ PropsOK(G[x].prop)
    <2>1. x \in Heads /\ SameOrder(H[x].prop, H[x].prop) /\ (H[x] # NULL => PropsOK(H[x].prop))
      BY <1>1, Sorts, PropsAre DEF SameOrder
    <2>2. CASE x = h
      BY <1>2, <1>4, <1>5, <2>2
    <2>3. CASE x # h
      BY <1>5, <2>1, <2>3
    <2> QED
      BY <2>2, <2>3
  <1>7. OnlyDue(G, st, D)
    BY <1>1, <1>6, SameOnce
  <1>8. DueIn(G, D)
    <2> SUFFICES ASSUME NEW d \in D
                 PROVE  /\ G[d[1]] # NULL /\ NoteAt(G[d[1]].prop, d[2]) # 0
                        /\ "FREE" \in G[d[1]].prop[NoteAt(G[d[1]].prop, d[2])].types
      BY <1>1 DEF DueIn, DueData
    <2>1. /\ d[1] \in Hdr /\ H[d[1]] # NULL /\ NoteAt(H[d[1]].prop, d[2]) # 0
          /\ "FREE" \in H[d[1]].prop[NoteAt(H[d[1]].prop, d[2])].types
      BY <1>1 DEF DueData
    <2>2. G[d[1]] # NULL /\ SameOrder(H[d[1]].prop, G[d[1]].prop)
      BY <1>6, <2>1
    <2>3. /\ NoteAt(G[d[1]].prop, d[2]) # 0
          /\ G[d[1]].prop[NoteAt(G[d[1]].prop, d[2])] = H[d[1]].prop[NoteAt(H[d[1]].prop, d[2])]
      BY <2>1, <2>2 DEF SameOrder
    <2> QED
      BY <2>1, <2>2, <2>3
  <1>9. DueAlike(H, G, D, D)
    <2> SUFFICES ASSUME NEW d \in D, d[1] \in Dying(H),
                        NEW note, NoteAt(H[d[1]].prop, note) < NoteAt(H[d[1]].prop, d[2]),
                        NoteAt(H[d[1]].prop, note) # 0
                 PROVE  NoteAt(G[d[1]].prop, note) < NoteAt(G[d[1]].prop, d[2])
      BY DEF DueAlike
    <2>1. SameOrder(H[d[1]].prop, G[d[1]].prop)
      BY <1>6 DEF Dying
    <2> QED
      BY <2>1 DEF SameOrder
  <1>10. \A j \in DOMAIN st : st[j].t = h /\ st[j].at = "notify" /\ st[j].n # NULL => NoteAt(s, st[j].n) # 0
    BY <1>1 DEF StackData, SameOrder
  <1> QED
    BY <1>7, <1>8, <1>9, <1>10, GoodProps

\* tal_resize: an object that has got another address.
LEMMA GoodMoved ==
    ASSUME NEW H, NEW O, NEW L, NEW st, NEW sv, NEW D, NEW n, Good(H, O, L, st, D, n),
           SameCalls(st, sv), NEW h \in StableIn(H), NEW b \in Hdr, H[b] = NULL,
           NEW Q, Q = [k \in Lists |-> IF k = KidsIn(H[h].prop) THEN b ELSE O[k]],
           NEW E, E = {IF d[1] = h THEN <<b, d[2]>> ELSE d : d \in D}
    PROVE  Good([H EXCEPT ![b] = H[h], ![h] = NULL], Q, Moved(L, h, b), sv, E, n)
  <1>1. Tree(H, O, L) /\ StackShape(st) /\ StackData(H, st) /\ DueData(H, st, D) /\ OnlyDue(H, st, D)
        /\ IsFiniteSet(Blocks(H)) /\ n = Cardinality(Blocks(H))
    BY DEF Good
  <1>2. PICK G, I : G = [H EXCEPT ![b] = H[h], ![h] = NULL] /\ I = [H EXCEPT ![b] = H[h]]
    OBVIOUS
  <1>3. /\ h \in Hdr /\ h \in Heads /\ b \in Heads /\ h # b /\ H[h] # NULL /\ ~H[h].destroying
        /\ H \in [Heads -> Header \cup {NULL}] /\ H[h] \in Header
    BY <1>1, Sorts DEF Tree, TreeType, StableIn
  <1>4. /\ G[h] = NULL /\ G[b] = H[h] /\ \A x \in Heads \ {h, b} : G[x] = H[x]
        /\ I[h] = H[h] /\ I[b] = H[h] /\ \A x \in Heads \ {h, b} : I[x] = H[x]
    BY <1>2, <1>3
  <1>5. Tree(G, Q, Moved(L, h, b))
    <2>1. Tree(H, O, L)
      BY <1>1
    <2>2. Tree([H EXCEPT ![b] = H[h], ![h] = NULL], Q, Moved(L, h, b))
      BY <2>1, TreeMove
    <2> QED
      BY <1>2, <2>2
  <1>6. Dying(G) = Dying(H)
    BY <1>3, <1>4, Sorts DEF Dying
  <1>7. \A x \in Dying(H) : x # h /\ x # b /\ G[x] = H[x]
    BY <1>3, <1>4, Sorts DEF Dying
  <1>8. ReadAlike(H, G, st)
    BY <1>1, <1>7 DEF ReadAlike, StackData
  <1>9. D \subseteq Hdr \X Notes /\ \A d \in D : H[d[1]] # NULL /\ d[1] # b
    BY <1>1, <1>3 DEF DueData
  <1>10. DueIn(G, E)
    <2>1. ASSUME NEW e \in E
          PROVE  /\ e \in Hdr \X Notes
                 /\ G[e[1]] # NULL /\ NoteAt(G[e[1]].prop, e[2]) # 0
                 /\ "FREE" \in G[e[1]].prop[NoteAt(G[e[1]].prop, e[2])].types
      <3>1. PICK d \in D : e = IF d[1] = h THEN <<b, d[2]>> ELSE d
        OBVIOUS
      <3>2. /\ d \in Hdr \X Notes /\ d[1] \in Hdr /\ d[1] # b /\ d[2] \in Notes
            /\ H[d[1]] # NULL /\ NoteAt(H[d[1]].prop, d[2]) # 0
            /\ "FREE" \in H[d[1]].prop[NoteAt(H[d[1]].prop, d[2])].types
        BY <1>1, <1>9 DEF DueData
      <3>3. e \in Hdr \X Notes /\ e[2] = d[2] /\ G[e[1]] = H[d[1]]
        <4>1. CASE d[1] = h
          BY <1>4, <3>1, <3>2, <4>1
        <4>2. CASE d[1] # h
          BY <1>4, <3>1, <3>2, <4>2, Sorts
        <4> QED
          BY <4>1, <4>2
      <3> QED
        BY <3>2, <3>3
    <2> QED
      BY <2>1 DEF DueIn
  <1>11. DueAlike(H, G, D, E)
    <2> SUFFICES ASSUME NEW e \in E, e[1] \in Dying(H)
                 PROVE  e \in D /\ G[e[1]] = H[e[1]]
      BY DEF DueAlike
    <2>1. PICK d \in D : e = IF d[1] = h THEN <<b, d[2]>> ELSE d
      OBVIOUS
    <2>2. e[1] # b /\ G[e[1]] = H[e[1]]
      BY <1>7
    <2>3. d[1] # h
      BY <2>1, <2>2
    <2> QED
      BY <2>1, <2>2, <2>3
  <1>12. StackShape(sv) /\ StackData(G, sv) /\ DueData(G, sv, E)
    BY <1>1, <1>6, <1>8, <1>10, <1>11, StackKept
  <1>13. IsFiniteSet(Blocks(G)) /\ n = Cardinality(Blocks(G))
    <2>1. PICK c \in Nat, a \in Nat : c = Cardinality(OwnedIn(H[h].prop)) /\ a = Cardinality(Blocks(H))
      BY <1>1, <1>3, PropsAre, FS_CardinalityType
    <2>2. IsFiniteSet(OwnedIn(H[h].prop)) /\ IsFiniteSet({}) /\ Cardinality({}) = 0
      BY <1>1, <1>3, PropsAre, FS_EmptySet
    <2>3. /\ OwnedBy(H, b) = {} /\ OwnedBy(I, b) = OwnedIn(H[h].prop)
          /\ OwnedBy(I, h) = OwnedIn(H[h].prop) /\ OwnedBy(G, h) = {}
      BY <1>3, <1>4 DEF OwnedBy
    <2>4. /\ \A x \in Hdr \ {b} : OwnedBy(I, x) = OwnedBy(H, x)
          /\ \A x \in Hdr \ {h} : OwnedBy(G, x) = OwnedBy(I, x)
      BY <1>3, <1>4, Sorts DEF OwnedBy
    <2>5. /\ IsFiniteSet(Blocks(I))
          /\ Cardinality(Blocks(I)) = Cardinality(Blocks(H)) - Cardinality(OwnedBy(H, b))
                                                              + Cardinality(OwnedBy(I, b))
      <3>1. IsFiniteSet(OwnedBy(H, b)) /\ IsFiniteSet(OwnedBy(I, b)) /\ IsFiniteSet(Blocks(H))
        BY <1>1, <2>2, <2>3
      <3>2. \A x \in Hdr \ {b} : OwnedBy(I, x) = OwnedBy(H, x)
        BY <2>4
      <3> QED
        BY <3>1, <3>2, BlocksChange
    <2>6. /\ IsFiniteSet(Blocks(G))
          /\ Cardinality(Blocks(G)) = Cardinality(Blocks(I)) - Cardinality(OwnedBy(I, h))
                                                              + Cardinality(OwnedBy(G, h))
      <3>1. IsFiniteSet(OwnedBy(I, h)) /\ IsFiniteSet(OwnedBy(G, h)) /\ IsFiniteSet(Blocks(I)) /\ h \in Hdr
        BY <1>3, <2>2, <2>3, <2>5
      <3>2. \A x \in Hdr \ {h} : OwnedBy(G, x) = OwnedBy(I, x)
        BY <2>4
      <3> QED
        BY <3>1, <3>2, BlocksChange
    <2>7. Cardinality(Blocks(I)) = a - 0 + c
      BY <2>1, <2>2, <2>3, <2>5
    <2>8. Cardinality(Blocks(G)) = a - 0 + c - c + 0
      BY <2>1, <2>2, <2>3, <2>6, <2>7
    <2> QED
      BY <1>1, <2>1, <2>6, <2>8
  <1>14. OnlyDue(G, sv, E)
    <2>1. ASSUME NEW x \in Hdr, NEW note \in Notes, G[x] # NULL, FreeNote(G[x].prop, note), <<x, note>> \notin E
          PROVE  x # b /\ H[x] = G[x] /\ <<x, note>> \notin D
      <3>1. CASE x = b
        <4>1. <<h, note>> \in D
          BY <1>1, <1>3, <1>4, <2>1, <3>1 DEF OnlyDue
        <4>2. <<h, note>>[1] = h /\ <<h, note>>[2] = note
          OBVIOUS
        <4>3. <<b, note>> \in E
          BY <4>1, <4>2
        <4> QED
          BY <2>1, <3>1, <4>3
      <3>2. CASE x # b
        <4>1. x # h /\ H[x] = G[x]
          BY <1>4, <2>1, <3>2, Sorts
        <4>2. <<x, note>>[1] # h
          BY <4>1
        <4>3. <<x, note>> \notin D
          BY <2>1, <4>2
        <4> QED
          BY <3>2, <4>1, <4>3
      <3> QED
        BY <3>1, <3>2
    <2>2. ASSUME NEW x \in Hdr, NEW note \in Notes, G[x] # NULL, FreeNote(G[x].prop, note), <<x, note>> \notin E
          PROVE  /\ G[x].destroying
                 /\ \A j \in DOMAIN st : st[j].at = "notify" /\ st[j].t = x =>
                       st[j].n # NULL /\ NoteAt(G[x].prop, note) <= NoteAt(G[x].prop, st[j].n)
      <3>1. H[x] = G[x] /\ H[x] # NULL /\ FreeNote(H[x].prop, note) /\ <<x, note>> \notin D
        BY <2>1, <2>2
      <3>2. OnlyDue(H, st, D)
        BY <1>1
      <3> QED
        BY <3>1, <3>2 DEF OnlyDue
    <2>3. /\ DOMAIN sv = DOMAIN st
          /\ \A j \in DOMAIN st : /\ sv[j].at = st[j].at /\ sv[j].t = st[j].t
                                  /\ st[j].at = "notify" => sv[j].n = st[j].n
      BY <1>1 DEF StackShape, SameCalls
    <2> SUFFICES ASSUME NEW x \in Hdr, NEW note \in Notes, G[x] # NULL,
                        FreeNote(G[x].prop, note), <<x, note>> \notin E
                 PROVE  /\ G[x].destroying
                        /\ \A j \in DOMAIN sv : sv[j].at = "notify" /\ sv[j].t = x =>
                              sv[j].n # NULL /\ NoteAt(G[x].prop, note) <= NoteAt(G[x].prop, sv[j].n)
      BY DEF OnlyDue
    <2>4. /\ G[x].destroying
          /\ \A j \in DOMAIN st : st[j].at = "notify" /\ st[j].t = x =>
                st[j].n # NULL /\ NoteAt(G[x].prop, note) <= NoteAt(G[x].prop, st[j].n)
      BY <2>2
    <2>5. ASSUME NEW j \in DOMAIN sv, sv[j].at = "notify", sv[j].t = x
          PROVE  sv[j].n # NULL /\ NoteAt(G[x].prop, note) <= NoteAt(G[x].prop, sv[j].n)
      <3>1. j \in DOMAIN st /\ st[j].at = "notify" /\ st[j].t = x /\ sv[j].n = st[j].n
        BY <2>3, <2>5
      <3> QED
        BY <2>4, <3>1
    <2> QED
      BY <2>4, <2>5
  <1> QED
    BY <1>2, <1>5, <1>12, <1>13, <1>14 DEF Good

\* del_tree, up to its call of notify.
LEMMA GoodPushed ==
    ASSUME NEW H, NEW O, NEW L, NEW st, NEW D, NEW n, Good(H, O, L, st, D, n), NEW h \in StableIn(H),
           st # <<>> => \/ st[Len(st)].at = "callback"
                        \/ st[Len(st)].at = "children" /\ st[Len(st)].kids # NULL,
           NEW sv, sv = Append(st, [at |-> "notify", t |-> h, n |-> NULL])
    PROVE  Good([H EXCEPT ![h].destroying = TRUE], O, ListDel(L, h), sv, D, n)
  <1>1. Tree(H, O, L) /\ StackShape(st) /\ StackData(H, st) /\ DueData(H, st, D) /\ OnlyDue(H, st, D)
        /\ IsFiniteSet(Blocks(H)) /\ n = Cardinality(Blocks(H))
    BY DEF Good
  <1>2. PICK G : G = [H EXCEPT ![h].destroying = TRUE]
    OBVIOUS
  <1>3. /\ h \in Hdr /\ h \in Heads /\ H[h] # NULL /\ ~H[h].destroying
        /\ H \in [Heads -> Header \cup {NULL}] /\ H[h] \in Header
    BY <1>1, Sorts DEF Tree, TreeType, StableIn
  <1>4. /\ G[h] # NULL /\ G[h].prop = H[h].prop /\ G[h].destroying = TRUE
        /\ \A x \in Heads \ {h} : G[x] = H[x]
    <2>1. PICK d : d = [H[h] EXCEPT !.destroying = TRUE]
      OBVIOUS
    <2>2. d \in Header /\ d.prop = H[h].prop /\ d.destroying = TRUE
      BY <1>3, <2>1 DEF Header
    <2> QED
      BY <1>2, <1>3, <2>1, <2>2, Sorts
  <1>5. Tree(G, O, ListDel(L, h))
    BY <1>1, <1>2, TreeDetach
  <1>6. h \notin Dying(H) /\ Dying(G) = Dying(H) \cup {h}
    BY <1>3, <1>4, Sorts DEF Dying
  <1>7. \A x \in Hdr : /\ H[x] = NULL <=> G[x] = NULL
                       /\ H[x] # NULL => G[x].prop = H[x].prop
    BY <1>3, <1>4, Sorts
  <1>8. StackShape(sv) /\ StackData(G, sv) /\ DueData(G, sv, D)
    <2>1. StackShape(st) /\ StackData(H, st) /\ DueData(H, st, D)
      BY <1>1
    <2>2. h \in Hdr /\ h \notin Dying(H) /\ Dying(G) = Dying(H) \cup {h}
      BY <1>3, <1>6
    <2> QED
      BY <1>7, <2>1, <2>2, Pushed
  <1>9. IsFiniteSet(Blocks(G)) /\ n = Cardinality(Blocks(G))
    <2>1. \A x \in Heads : OwnedBy(G, x) = OwnedBy(H, x)
      BY <1>3, <1>4 DEF OwnedBy
    <2>2. IsFiniteSet(OwnedBy(H, h))
      BY <1>1, <1>3, PropsAre DEF OwnedBy
    <2> QED
      BY <1>1, <1>3, <2>1, <2>2, SameBlocks
  <1>10. OnlyDue(G, sv, D)
    <2> SUFFICES ASSUME NEW x \in Hdr, NEW note \in Notes,
                        G[x] # NULL, FreeNote(G[x].prop, note), <<x, note>> \notin D
                 PROVE  /\ G[x].destroying
                        /\ \A j \in DOMAIN sv : sv[j].at = "notify" /\ sv[j].t = x =>
                              sv[j].n # NULL /\ NoteAt(G[x].prop, note) <= NoteAt(G[x].prop, sv[j].n)
      BY DEF OnlyDue
    <2>1. /\ H[x] # NULL /\ G[x].prop = H[x].prop /\ H[x].destroying
          /\ \A j \in DOMAIN st : st[j].at = "notify" /\ st[j].t = x =>
                st[j].n # NULL /\ NoteAt(H[x].prop, note) <= NoteAt(H[x].prop, st[j].n)
      BY <1>1, <1>7 DEF OnlyDue
    <2>2. x # h /\ G[x].destroying
      BY <1>3, <1>4, <2>1, Sorts
    <2>3. PICK k \in Nat : k = Len(st)
      BY <1>1, StackIs
    <2>4. PICK f : f = [at |-> "notify", t |-> h, n |-> NULL]
      OBVIOUS
    <2>5. /\ DOMAIN st = 1..k /\ DOMAIN sv = 1..(k + 1) /\ sv[k + 1] = f
          /\ \A j \in 1..k : sv[j] = st[j]
      <3>1. st \in Seq(Frame) /\ f \in Frame
        BY <1>1, <1>3, <2>4, FrameIs, StackIs
      <3> QED
        BY <2>3, <2>4, <3>1, AppendProperties
    <2>6. \A j \in 1..(k + 1) : j \in 1..k \/ j = k + 1
      OBVIOUS
    <2> QED
      BY <2>1, <2>2, <2>4, <2>5, <2>6
  <1> QED
    BY <1>2, <1>5, <1>8, <1>9, <1>10 DEF Good

\* del_tree, at its end.
LEMMA GoodFreed ==
    ASSUME NEW H, NEW O, NEW L, NEW st, NEW D, NEW n, Good(H, O, L, st, D, n),
           st # <<>>, st[Len(st)].at = "children", NEW h, st[Len(st)].t = h,
           KidsIn(H[h].prop) # NULL => L.next[KidsIn(H[h].prop)] = KidsIn(H[h].prop),
           NEW gone, gone = {h} \cup ({KidsIn(H[h].prop)} \ {NULL}),
           NEW Q, Q = OwnersWithout(O, gone),
           NEW M, M = LinksWithout(L, gone)
    PROVE  Good([H EXCEPT ![h] = NULL], Q, M, Front(st), D, n - Cardinality(OwnedIn(H[h].prop)))
  <1>1. Tree(H, O, L) /\ StackShape(st) /\ StackData(H, st) /\ DueData(H, st, D) /\ OnlyDue(H, st, D)
        /\ IsFiniteSet(Blocks(H)) /\ n = Cardinality(Blocks(H))
    BY DEF Good
  <1>2. PICK G : G = [H EXCEPT ![h] = NULL]
    OBVIOUS
  <1>3. h \in Hdr /\ H[h] # NULL /\ H[h].destroying
    <2>1. Len(st) \in DOMAIN st
      BY <1>1, StackIs
    <2> QED
      BY <1>1, <2>1 DEF StackData, Dying
  <1>4. /\ h \in Heads /\ H \in [Heads -> Header \cup {NULL}]
        /\ G[h] = NULL /\ \A x \in Heads \ {h} : G[x] = H[x]
    BY <1>1, <1>2, <1>3, Sorts DEF Tree, TreeType
  <1>5. Tree(G, Q, M)
    <2>1. Tree(H, O, L) /\ h \in Hdr /\ H[h] # NULL /\ H[h].destroying
      BY <1>1, <1>3
    <2>2. Tree([H EXCEPT ![h] = NULL], Q, M)
      BY <2>1, TreeRelease
    <2> QED
      BY <1>2, <2>2
  <1>6. Dying(G) = Dying(H) \ {h} /\ \A x \in Hdr : x # h => G[x] = H[x]
    BY <1>4, Sorts DEF Dying
  <1>7. StackShape(Front(st)) /\ StackData(G, Front(st)) /\ DueData(G, Front(st), D)
    <2>1. StackShape(st) /\ StackData(H, st) /\ DueData(H, st, D)
      BY <1>1
    <2>2. Dying(G) = Dying(H) \ {h} /\ \A x \in Hdr : x # h => G[x] = H[x]
      BY <1>6
    <2> QED
      BY <2>1, <2>2, Freed
  <1>8. IsFiniteSet(Blocks(G)) /\ Cardinality(Blocks(G)) = n - Cardinality(OwnedIn(H[h].prop))
    <2>1. IsFiniteSet(OwnedIn(H[h].prop)) /\ IsFiniteSet({}) /\ Cardinality({}) = 0
      BY <1>1, <1>3, <1>4, PropsAre, FS_EmptySet
    <2>2. OwnedBy(H, h) = OwnedIn(H[h].prop) /\ OwnedBy(G, h) = {}
      BY <1>3, <1>4 DEF OwnedBy
    <2>3. \A x \in Hdr \ {h} : OwnedBy(G, x) = OwnedBy(H, x)
      BY <1>4, Sorts DEF OwnedBy
    <2>4. /\ IsFiniteSet(Blocks(G))
          /\ Cardinality(Blocks(G)) = Cardinality(Blocks(H)) - Cardinality(OwnedBy(H, h))
                                                              + Cardinality(OwnedBy(G, h))
      <3>1. IsFiniteSet(OwnedBy(H, h)) /\ IsFiniteSet(OwnedBy(G, h)) /\ IsFiniteSet(Blocks(H)) /\ h \in Hdr
        BY <1>1, <1>3, <2>1, <2>2
      <3> QED
        BY <2>3, <3>1, BlocksChange
    <2>5. PICK a \in Nat, c \in Nat : a = Cardinality(Blocks(H)) /\ c = Cardinality(OwnedIn(H[h].prop))
      BY <1>1, <2>1, FS_CardinalityType
    <2>6. a - c + 0 = a - c
      OBVIOUS
    <2> QED
      BY <1>1, <2>1, <2>2, <2>4, <2>5, <2>6
  <1>9. OnlyDue(G, Front(st), D)
    <2>1. \A j \in DOMAIN Front(st) : j \in DOMAIN st /\ Front(st)[j] = st[j]
      <3>1. StackShape(Front(st))
        BY <1>7
      <3> QED
        BY <1>1, <3>1, Popped, StackIs
    <2>2. ASSUME NEW x \in Hdr, NEW note \in Notes, G[x] # NULL, FreeNote(G[x].prop, note), <<x, note>> \notin D
          PROVE  /\ G[x].destroying
                 /\ \A j \in DOMAIN st : st[j].at = "notify" /\ st[j].t = x =>
                       st[j].n # NULL /\ NoteAt(G[x].prop, note) <= NoteAt(G[x].prop, st[j].n)
      <3>1. G[x] = H[x]
        BY <1>4, <2>2, Sorts
      <3> QED
        BY <1>1, <2>2, <3>1 DEF OnlyDue
    <2> QED
      BY <2>1, <2>2 DEF OnlyDue
  <1> QED
    BY <1>2, <1>5, <1>7, <1>8, <1>9 DEF Good


-----------------------------------------------------------------------------
(***************************************************************************)
(* The actions.                                                            *)
(***************************************************************************)
IInv == Good(hdr, owner, links, stack, due, own) /\ wild = FALSE

LEMMA MemoryInUse ==
    ASSUME Tree(hdr, owner, links)
    PROVE  /\ \A h \in Present(hdr) : InUse(h)
           /\ \A k \in Lists : owner[k] # NULL => InUse(k) /\ InUse(links.next[k])
           /\ \A h \in Stable : \A a \in DelTouches(links, h) \cup {hdr[h].parent_child} : InUse(a)
  <1>1. \A h \in Present(hdr) : InUse(h)
    BY DEF InUse, Present
  <1>2. \A k \in Lists : owner[k] # NULL => InUse(k)
    BY Sorts DEF InUse
  <1>3. ASSUME NEW k \in Lists, owner[k] # NULL, NEW n \in NodesIn(hdr, k)
        PROVE  InUse(links.next[n]) /\ InUse(links.prev[n])
    <2>1. Ring(links, k, NodesIn(hdr, k))
      BY <1>3 DEF Tree, Rings
    <2>2. links.next[n] \in NodesIn(hdr, k) /\ links.prev[n] \in NodesIn(hdr, k)
      BY <1>3, <2>1 DEF Ring
    <2>3. \A m \in NodesIn(hdr, k) : InUse(m)
      BY <1>1, <1>2, <1>3, Sorts DEF NodesIn, StableIn, Present
    <2> QED
      BY <2>2, <2>3
  <1>4. ASSUME NEW k \in Lists, owner[k] # NULL PROVE InUse(k) /\ InUse(links.next[k])
    <2>1. k \in NodesIn(hdr, k)
      BY DEF NodesIn
    <2> QED
      BY <1>2, <1>3, <1>4, <2>1
  <1>5. ASSUME NEW h \in Stable, NEW a \in DelTouches(links, h) \cup {hdr[h].parent_child} PROVE InUse(a)
    <2>1. PICK k : k = hdr[h].parent_child
      OBVIOUS
    <2>2. h \in StableIn(hdr)
      BY InTheseTerms
    <2>3. k \in Lists /\ owner[k] # NULL
      BY <2>1, <2>2 DEF Tree, Owners
    <2>4. h \in NodesIn(hdr, k)
      BY <2>1, <2>2 DEF NodesIn
    <2> QED
      BY <1>2, <1>3, <1>5, <2>1, <2>3, <2>4 DEF DelTouches
  <1> QED
    BY <1>1, <1>4, <1>5

\* A call comes from the program, when none is in progress, or from a callback.
LEMMA CallsOf ==
    ASSUME StackShape(stack), NEW call, MayCall(call)
    PROVE  /\ SameCalls(stack, Called) /\ StackShape(Called) /\ NoneEmpty(stack)
           /\ Called # <<>> => Called[Len(Called)].at = "callback"
  <1>1. CASE stack = <<>>
    <2>1. Called = <<>> /\ DOMAIN stack = {}
      BY <1>1 DEF Called
    <2>2. SameCalls(stack, Called) /\ NoneEmpty(stack)
      BY <1>1, <2>1 DEF SameCalls, NoneEmpty
    <2> QED
      BY <1>1, <2>1, <2>2
  <1>2. CASE stack # <<>>
    <2>1. PICK n \in Nat : n = Len(stack)
      BY StackIs
    <2>2. /\ n \in 1..n /\ DOMAIN stack = 1..n /\ stack[n] \in Frame /\ stack[n].at = "callback"
          /\ \A j \in 1..n : stack[j] \in Frame /\ (j < n /\ stack[j].at = "children" => stack[j].kids # NULL)
      BY <1>2, <2>1, StackIs DEF MayCall, Running, Top
    <2>3. PICK g, sv : g = [stack[n] EXCEPT !.left = 0] /\ sv = [stack EXCEPT ![n] = g]
      OBVIOUS
    <2>4. g \in Frame
      BY <2>2, <2>3, FrameIs
    <2>5. g.at = "callback" /\ g.t = stack[n].t /\ g.n = stack[n].n
      <3>1. stack[n] \in [at : {"callback"}, t : Hdr, n : Notes, left : {0, 1}]
        BY <2>2 DEF Frame
      <3> QED
        BY <2>3, <3>1
    <2>6. /\ sv \in Seq(Frame) /\ Len(sv) = n /\ DOMAIN sv = 1..n /\ sv[n] = g
          /\ \A j \in 1..n : j # n => sv[j] = stack[j]
      BY <1>2, <2>1, <2>3, <2>4, Replaced
    <2>7. Called = sv
      BY <1>2, <2>1, <2>3 DEF Called
    <2>8. SameCalls(stack, sv)
      BY <2>1, <2>2, <2>5, <2>6 DEF SameCalls
    <2>9. NoneEmpty(stack)
      <3> SUFFICES ASSUME NEW j \in 1..n, stack[j].at = "children" PROVE stack[j].kids # NULL
        BY <2>2 DEF NoneEmpty
      <3>1. j # n
        BY <2>2
      <3>2. j < n
        BY <3>1
      <3> QED
        BY <2>2, <3>2
    <2>10. StackShape(sv)
      <3>1. \A j \in 1..n : /\ sv[j].at = stack[j].at /\ sv[j].t = stack[j].t
                            /\ stack[j].at = "children" => sv[j].kids = stack[j].kids
                            /\ stack[j].at # "children" => sv[j].n = stack[j].n
        BY <2>2, <2>5, <2>6
      <3>2. ASSUME NEW j \in 1..n, sv[j].at = "callback"
            PROVE  j > 1 /\ sv[j - 1].at = "notify" /\ sv[j - 1].t = sv[j].t /\ sv[j - 1].n = sv[j].n
        <4>1. /\ j > 1 /\ j - 1 \in 1..n
              /\ stack[j - 1].at = "notify" /\ stack[j - 1].t = stack[j].t /\ stack[j - 1].n = stack[j].n
          BY <2>1, <3>1, <3>2, StackIs
        <4> QED
          BY <3>1, <3>2, <4>1
      <3>3. ASSUME NEW j \in 1..n, j < n, sv[j].at = "notify"
            PROVE  /\ sv[j].n # NULL
                   /\ sv[j + 1].at = "callback" /\ sv[j + 1].t = sv[j].t /\ sv[j + 1].n = sv[j].n
        <4>1. /\ stack[j].n # NULL /\ j + 1 \in 1..n /\ stack[j].at = "notify"
              /\ stack[j + 1].at = "callback" /\ stack[j + 1].t = stack[j].t /\ stack[j + 1].n = stack[j].n
          BY <2>1, <3>1, <3>3, StackIs
        <4> QED
          BY <3>1, <4>1
      <3>4. \A j \in 1..n : j < n /\ sv[j].at = "children" => sv[j].kids # NULL
        BY <2>1, <3>1, StackIs
      <3>5. \A i, j \in 1..n : sv[i].at # "callback" /\ sv[j].at # "callback" /\ sv[i].t = sv[j].t => i = j
        BY <2>1, <3>1, StackIs
      <3> QED
        BY <2>6, <3>2, <3>3, <3>4, <3>5 DEF StackShape
    <2> QED
      BY <2>5, <2>6, <2>7, <2>8, <2>9, <2>10
  <1> QED
    BY <1>1, <1>2

\* add_child
LEMMA ChildAdded ==
    ASSUME Tree(hdr, owner, links), NEW p \in Heads, hdr[p] # NULL, NEW k \in Candidates(p),
           NEW l, ListOf(hdr, l, p, k).next[k] \in {k} \cup StableIn(hdr),
           NEW h, NEW child, AddChild(p, k, l, h, child)
    PROVE  /\ hdr' = [WithList(hdr, p, k) EXCEPT ![h] = [child EXCEPT !.parent_child = k]]
           /\ owner' = [owner EXCEPT ![k] = p]
           /\ links' = ListAdd(ListOf(hdr, l, p, k), k, h)
           /\ stack' = Called /\ own' = own /\ due' = due /\ wild' = wild
  <1>1. ChildrenOf(p) = KidsIn(hdr[p].prop)
    BY InTheseTerms, PropsAre
  <1>2. PICK m : m = ListOf(hdr, l, p, k)
    OBVIOUS
  <1>3. m = IF ChildrenOf(p) = NULL THEN ListHeadInit(l, k) ELSE l
    BY <1>1, <1>2 DEF ListOf
  <1>4. \A a \in {p} \cup (AddTouches(m, k) \ {k}) : InUse(a)
    BY <1>2, MemoryInUse, Sorts DEF AddTouches, Present, StableIn
  <1>5. PICK G : G = WithList(hdr, p, k)
    OBVIOUS
  <1>6. G = IF ChildrenOf(p) = NULL THEN InitProperty(p, [type |-> "CHILDREN", at |-> k]) ELSE hdr
    BY <1>1, <1>5 DEF WithList, InitProperty
  <1>7. Using({p} \cup (AddTouches(m, k) \ {k}),
              /\ hdr' = [G EXCEPT ![h] = [child EXCEPT !.parent_child = k]]
              /\ owner' = [owner EXCEPT ![k] = p]
              /\ links' = ListAdd(m, k, h)
              /\ stack' = Called
              /\ UNCHANGED <<notifiers, own, due, failures>>)
    BY <1>3, <1>6 DEF AddChild
  <1> QED
    BY <1>2, <1>4, <1>5, <1>7 DEF Using

LEMMA CandidatesAre ==
    ASSUME Tree(hdr, owner, links), NEW p \in Heads, hdr[p] # NULL, NEW k \in Candidates(p)
    PROVE  CandidateIn(hdr, owner, p, k)
  <1>1. ChildrenOf(p) = KidsIn(hdr[p].prop)
    BY InTheseTerms, PropsAre
  <1> QED
    BY <1>1 DEF Candidates, CandidateIn

LEMMA TailsAre ==
    ASSUME NEW tail \in Tails
    PROVE  PropsOK(tail) /\ KidsIn(tail) = NULL /\ OwnedIn(tail) = {}
  <1>1. PICK a, b : a = [type |-> "LITERAL"] /\ b = [type |-> "LENGTH"]
    OBVIOUS
  <1>2. a \in Property /\ b \in Property /\ a.type = "LITERAL" /\ b.type = "LENGTH"
    BY <1>1 DEF Property
  <1>3. tail = <<a>> \/ tail = <<b, a>>
    BY <1>1 DEF Tails
  <1>4. /\ tail \in Seq(Property)
        /\ \/ Len(tail) = 1 /\ DOMAIN tail = 1..1 /\ tail[1] = a
           \/ Len(tail) = 2 /\ DOMAIN tail = 1..2 /\ tail[1] = b /\ tail[2] = a
    <2>1. CASE tail = <<a>>
      BY <1>2, <2>1
    <2>2. CASE tail = <<b, a>>
      BY <1>2, <2>2
    <2> QED
      BY <1>3, <2>1, <2>2
  <1>5. \A k \in DOMAIN tail : /\ tail[k].type \in {"LITERAL", "LENGTH"}
                               /\ tail[k].type = "LITERAL" => k = Len(tail)
    <2>1. CASE Len(tail) = 1 /\ DOMAIN tail = 1..1 /\ tail[1] = a
      BY <1>2, <2>1
    <2>2. CASE Len(tail) = 2 /\ DOMAIN tail = 1..2 /\ tail[1] = b /\ tail[2] = a
      BY <1>2, <2>2
    <2> QED
      BY <1>4, <2>1, <2>2
  <1>6. \A j, k \in DOMAIN tail : SameKind(tail[j], tail[k]) => j = k
    BY <1>2, <1>4 DEF SameKind
  <1>7. PropsOK(tail)
    BY <1>4, <1>5, <1>6 DEF PropsOK
  <1>8. KidsIn(tail) = NULL
    BY <1>5, <1>7, KidsIs
  <1> QED
    BY <1>5, <1>7, <1>8 DEF OwnedIn, Owned

LEMMA Failed ==
    ASSUME IInv, SameCalls(stack, Called), FailedCall
    PROVE  IInv'
  <1>1. Good(hdr, owner, links, Called, due, own)
    BY GoodCalled DEF IInv
  <1> QED
    BY <1>1 DEF IInv, FailedCall

LEMMA AllocKeeps ==
    ASSUME IInv, Alloc
    PROVE  IInv'
  <1>1. Tree(hdr, owner, links) /\ StackShape(stack) /\ Good(hdr, owner, links, stack, due, own) /\ wild = FALSE
    BY DEF IInv, Good
  <1>2. SameCalls(stack, Called) /\ NoneEmpty(stack)
    BY <1>1, CallsOf DEF Alloc
  <1>3. PICK p \in Live \cup {Root} :
           \/ \E h \in Hdr \ Live, tail \in Tails, k \in Candidates(p) :
                 AddChild(p, k, links, h, NewHeader(tail))
           \/ FailedCall
    BY DEF Alloc
  <1>4. p \in Heads /\ hdr[p] # NULL
    BY <1>1, <1>3, Sorts DEF Live, Tree, TreeType
  <1>5. ASSUME NEW h \in Hdr \ Live, NEW tail \in Tails, NEW k \in Candidates(p),
               AddChild(p, k, links, h, NewHeader(tail))
        PROVE  IInv'
    <2>1. CandidateIn(hdr, owner, p, k)
      BY <1>1, <1>4, CandidatesAre
    <2>2. h \in Hdr /\ hdr[h] = NULL
      BY DEF Live
    <2>3. PICK r : r = [NewHeader(tail) EXCEPT !.parent_child = k]
      OBVIOUS
    <2>4. PICK G, Q, M : /\ G = WithList(hdr, p, k) /\ Q = [owner EXCEPT ![k] = p]
                         /\ M = ListOf(hdr, links, p, k)
      OBVIOUS
    <2>5. HasList(hdr, owner, G, Q, M, p, k)
      BY <1>1, <1>4, <2>1, <2>4, ListFor
    <2>6. M.next[k] \in {k} \cup StableIn(hdr) /\ k \in Lists
      BY <2>5 DEF HasList
    <2>7. /\ hdr' = [WithList(hdr, p, k) EXCEPT ![h] = [NewHeader(tail) EXCEPT !.parent_child = k]]
          /\ owner' = [owner EXCEPT ![k] = p]
          /\ links' = ListAdd(ListOf(hdr, links, p, k), k, h)
          /\ stack' = Called /\ own' = own /\ due' = due /\ wild' = wild
      BY <1>1, <1>4, <1>5, <2>4, <2>6, ChildAdded
    <2>8. r \in Header /\ ~r.destroying /\ r.parent_child = k /\ r.prop = tail
      <3>1. tail \in Seq(Property)
        BY TailsAre DEF PropsOK
      <3> QED
        BY <2>3, <2>6, <3>1 DEF NewHeader, Header
    <2>9. PropsOK(r.prop) /\ KidsIn(r.prop) = NULL /\ OwnedIn(r.prop) = {}
      BY <2>8, TailsAre
    <2>10. Good([WithList(hdr, p, k) EXCEPT ![h] = r], [owner EXCEPT ![k] = p],
                ListAdd(ListOf(hdr, links, p, k), k, h), Called, due, own)
      BY <1>1, <1>2, <1>4, <2>1, <2>2, <2>8, <2>9, GoodAdded
    <2>11. hdr' = [WithList(hdr, p, k) EXCEPT ![h] = r]
      BY <2>3, <2>7
    <2> QED
      BY <1>1, <2>7, <2>10, <2>11 DEF IInv
  <1> QED
    BY <1>2, <1>3, <1>5, Failed

LEMMA StealKeeps ==
    ASSUME IInv, Steal
    PROVE  IInv'
  <1>1. Tree(hdr, owner, links) /\ StackShape(stack) /\ Good(hdr, owner, links, stack, due, own) /\ wild = FALSE
    BY DEF IInv, Good
  <1>2. SameCalls(stack, Called) /\ NoneEmpty(stack)
    BY <1>1, CallsOf DEF Steal
  <1>3. PICK h \in Stable, p \in Live \cup {Root} :
           /\ h \notin Path(p)
           /\ \/ \E k \in Candidates(p) :
                    IF \A a \in DelTouches(links, h) \cup {hdr[h].parent_child} : InUse(a)
                    THEN AddChild(p, k, ListDel(links, h), h, hdr[h]) ELSE Wild
              \/ /\ links' = ListAdd(ListDel(links, h), hdr[h].parent_child, h)
                 /\ stack' = Called
                 /\ UNCHANGED <<hdr, owner, notifiers, own, due, wild>>
    BY DEF Steal
  <1>4. p \in Heads /\ hdr[p] # NULL /\ p \in Present(hdr) /\ h \in StableIn(hdr)
    BY <1>1, <1>3, Sorts, InTheseTerms DEF Live, Tree, TreeType, Present
  <1>5. PICK A : A = Path(p)
    OBVIOUS
  <1>6. p \in A /\ h \notin A /\ \A x \in StableIn(hdr) : x \in A => ParentIn(hdr, owner, x) \in A
    <2>1. p \in Path(p) /\ \A x \in Path(p) \cap StableIn(hdr) : ParentIn(hdr, owner, x) \in Path(p)
      BY <1>1, <1>4, PathIs
    <2> QED
      BY <1>3, <1>5, <2>1
  <1>7. ASSUME NEW k \in Candidates(p), AddChild(p, k, ListDel(links, h), h, hdr[h])
        PROVE  IInv'
    <2>1. CandidateIn(hdr, owner, p, k)
      BY <1>1, <1>4, CandidatesAre
    <2>2. /\ Good([WithList(hdr, p, k) EXCEPT ![h] = [hdr[h] EXCEPT !.parent_child = k]],
                  [owner EXCEPT ![k] = p],
                  ListAdd(ListOf(hdr, ListDel(links, h), p, k), k, h), Called, due, own)
          /\ \/ ListOf(hdr, ListDel(links, h), p, k).next[k] = k
             \/ ListOf(hdr, ListDel(links, h), p, k).next[k] \in StableIn(hdr)
      BY <1>1, <1>2, <1>4, <1>6, <2>1, GoodStolen
    <2>3. ListOf(hdr, ListDel(links, h), p, k).next[k] \in {k} \cup StableIn(hdr)
      BY <2>2
    <2>4. /\ hdr' = [WithList(hdr, p, k) EXCEPT ![h] = [hdr[h] EXCEPT !.parent_child = k]]
          /\ owner' = [owner EXCEPT ![k] = p]
          /\ links' = ListAdd(ListOf(hdr, ListDel(links, h), p, k), k, h)
          /\ stack' = Called /\ own' = own /\ due' = due /\ wild' = wild
      BY <1>1, <1>4, <1>7, <2>3, ChildAdded
    <2> QED
      BY <1>1, <2>2, <2>4 DEF IInv
  <1>8. \A a \in DelTouches(links, h) \cup {hdr[h].parent_child} : InUse(a)
    BY <1>1, <1>3, MemoryInUse
  <1>9. CASE /\ links' = ListAdd(ListDel(links, h), hdr[h].parent_child, h)
             /\ stack' = Called
             /\ UNCHANGED <<hdr, owner, notifiers, own, due, wild>>
    <2>1. Good(hdr, owner, ListAdd(ListDel(links, h), hdr[h].parent_child, h), Called, due, own)
      BY <1>1, <1>2, <1>4, GoodPutBack
    <2> QED
      BY <1>1, <1>9, <2>1 DEF IInv
  <1> QED
    BY <1>3, <1>7, <1>8, <1>9

LEMMA FreeKeeps ==
    ASSUME IInv, Free
    PROVE  IInv'
  <1>1. Tree(hdr, owner, links) /\ StackShape(stack) /\ Good(hdr, owner, links, stack, due, own) /\ wild = FALSE
    BY DEF IInv, Good
  <1>2. /\ SameCalls(stack, Called)
        /\ Called # <<>> => Called[Len(Called)].at = "callback"
    BY <1>1, CallsOf DEF Free
  <1>3. PICK h \in Live :
           /\ h \in Stable \/ Harmless(h)
           /\ Using({h} \cup DelTouches(links, h)
                    \cup (IF notifiers > 0 THEN {hdr[h].parent_child} ELSE {}),
                    /\ DelTree(h, links)
                    /\ UNCHANGED <<owner, notifiers, own, due, failures>>)
    BY DEF Free
  <1>4. h \in Heads /\ hdr[h] # NULL /\ InUse(h)
    BY <1>1, Sorts, MemoryInUse DEF Live, Present
  <1>5. \A a \in DelTouches(links, h) \cup {hdr[h].parent_child} : InUse(a)
    BY <1>1, <1>3, MemoryInUse DEF Harmless
  <1>6. /\ links' = ListDel(links, h)
        /\ hdr' = [hdr EXCEPT ![h].destroying = TRUE]
        /\ stack' = IF hdr[h].destroying THEN Called
                    ELSE Append(Called, [at |-> "notify", t |-> h, n |-> NULL])
        /\ owner' = owner /\ own' = own /\ due' = due /\ wild' = wild
    <2>1. \A a \in {h} \cup DelTouches(links, h)
                   \cup (IF notifiers > 0 THEN {hdr[h].parent_child} ELSE {}) : InUse(a)
      BY <1>4, <1>5
    <2> QED
      BY <1>3, <2>1 DEF Using, DelTree
  <1>7. Good(hdr, owner, links, Called, due, own)
    BY <1>1, <1>2, GoodCalled
  <1>8. CASE h \in Stable
    <2>1. h \in StableIn(hdr) /\ ~hdr[h].destroying
      BY <1>8, InTheseTerms DEF StableIn
    <2>2. stack' = Append(Called, [at |-> "notify", t |-> h, n |-> NULL])
      BY <1>6, <2>1
    <2>3. PICK sv : sv = Append(Called, [at |-> "notify", t |-> h, n |-> NULL])
      OBVIOUS
    <2>4. Good([hdr EXCEPT ![h].destroying = TRUE], owner, ListDel(links, h), sv, due, own)
      BY <1>2, <1>7, <2>1, <2>3, GoodPushed
    <2> QED
      BY <1>1, <1>6, <2>2, <2>3, <2>4 DEF IInv
  <1>9. CASE h \notin Stable
    <2>1. hdr[h].destroying = TRUE /\ ListDel(links, h) = links
      <3>1. hdr[h] \in Header
        BY <1>1, <1>4, PropsAre
      <3> QED
        BY <1>3, <1>9, <3>1 DEF Stable, Live, Harmless, Header
    <2>2. hdr' = hdr
      <3>1. hdr \in [Heads -> Header \cup {NULL}] /\ hdr[h] \in Header
        BY <1>1, <1>4, PropsAre DEF Tree, TreeType
      <3>2. [hdr[h] EXCEPT !.destroying = TRUE] = hdr[h]
        BY <2>1, <3>1 DEF Header
      <3>3. [hdr EXCEPT ![h].destroying = TRUE] = hdr
        BY <1>4, <3>1, <3>2
      <3> QED
        BY <1>6, <3>3
    <2> QED
      BY <1>1, <1>6, <1>7, <2>1, <2>2 DEF IInv
  <1> QED
    BY <1>8, <1>9

LEMMA AddNotifierKeeps ==
    ASSUME IInv, AddNotifier
    PROVE  IInv'
  <1>1. /\ Tree(hdr, owner, links) /\ StackShape(stack) /\ Good(hdr, owner, links, stack, due, own)
        /\ StackData(hdr, stack) /\ DueData(hdr, stack, due) /\ OnlyDue(hdr, stack, due) /\ wild = FALSE
    BY DEF IInv, Good
  <1>2. /\ SameCalls(stack, Called)
        /\ \A j \in DOMAIN stack : stack[j].at = "notify" => stack[j].n # NULL
    <2>1. MayCall("tal_add_notifier")
      BY DEF AddNotifier
    <2>2. SameCalls(stack, Called) /\ (stack = <<>> \/ stack[Len(stack)].at = "callback")
      BY <1>1, <2>1, CallsOf, StackIs DEF MayCall, Running, Top
    <2>3. PICK n \in Nat : n = Len(stack)
      BY <1>1, StackIs
    <2>4. ASSUME NEW j \in 1..n, stack[j].at = "notify" PROVE stack[j].n # NULL
      <3>1. j # n
        BY <2>2, <2>3, <2>4
      <3>2. j < n
        BY <3>1
      <3> QED
        BY <1>1, <2>3, <2>4, <3>2, StackIs
    <2> QED
      BY <1>1, <2>2, <2>3, <2>4, StackIs
  <1>3. ASSUME NEW h \in Live, NEW fn \in Fn \cup {Observer}, NEW types \in EventSets \cup {{"FREE"}},
               NEW note \in Notes, \A g \in Live : NotifierAt(g, note) = 0,
               hdr' = InitProperty(h, [type |-> "NOTIFIER", at |-> note, fn |-> fn, types |-> types]),
               own' = own + 1,
               due' = IF "FREE" \in types /\ h \in Stable THEN due \cup {<<h, note>>} ELSE due,
               stack' = Called, UNCHANGED <<owner, links, failures, wild>>
        PROVE  IInv'
    <2>1. h \in Hdr /\ h \in Heads /\ hdr[h] # NULL
      BY Sorts DEF Live
    <2>2. PICK s, p, u : /\ s = hdr[h].prop /\ u = <<p>> \o s
                         /\ p = [type |-> "NOTIFIER", at |-> note, fn |-> fn, types |-> types]
      OBVIOUS
    <2>3. p \in Property /\ p.type = "NOTIFIER" /\ p.at = note /\ p.types = types
      BY <2>2 DEF Property
    <2>4. PropsOK(s) /\ Cardinality(OwnedIn(s)) \in Nat
      BY <1>1, <2>1, <2>2, PropsAre
    <2>5. NoteAt(s, note) = 0
      BY <1>3, <2>2, InTheseTerms
    <2>6. \A k \in DOMAIN s : ~SameKind(p, s[k]) /\ ~SameKind(s[k], p)
      <3> SUFFICES ASSUME NEW k \in DOMAIN s PROVE ~(s[k].type = "NOTIFIER" /\ s[k].at = note)
        BY <2>3 DEF SameKind
      <3>1. k # 0
        BY <2>4 DEF PropsOK
      <3> QED
        BY <2>4, <2>5, <3>1, NoteAtIs
    <2>7. /\ PropsOK(u) /\ KidsIn(u) = KidsIn(s) /\ u[1] = p
          /\ NoteAt(u, note) = 1
          /\ \A f : f # note => NoteAt(u, f) = IF NoteAt(s, f) = 0 THEN 0 ELSE NoteAt(s, f) + 1
          /\ \A k \in DOMAIN s : u[k + 1] = s[k]
      BY <2>2, <2>3, <2>4, <2>6, Prepended
    <2>8. Cardinality(OwnedIn(u)) = Cardinality(OwnedIn(s)) + 1
      <3>1. Cardinality(OwnedIn(<<p>> \o s)) = Cardinality(OwnedIn(s)) + (IF p.type \in Owned THEN 1 ELSE 0)
        BY <2>3, <2>4, <2>6, OwnedPrepended
      <3> QED
        BY <2>2, <2>3, <3>1 DEF Owned
    <2>9. PICK G : G = [hdr EXCEPT ![h].prop = u]
      OBVIOUS
    <2>10. hdr' = G
      BY <1>3, <2>2, <2>9 DEF InitProperty
    <2>11. hdr \in [Heads -> Header \cup {NULL}] /\ hdr[h] \in Header
      BY <1>1, <2>1, PropsAre DEF Tree, TreeType
    <2>12. /\ G[h] # NULL /\ G[h].prop = u /\ G[h].destroying = hdr[h].destroying
           /\ \A x \in Heads \ {h} : G[x] = hdr[x]
      <3>1. PICK r : r = [hdr[h] EXCEPT !.prop = u]
        OBVIOUS
      <3>2. u \in Seq(Property)
        BY <2>7 DEF PropsOK
      <3>3. r \in Header /\ r.prop = u /\ r.destroying = hdr[h].destroying
        BY <2>11, <3>1, <3>2 DEF Header
      <3> QED
        BY <2>1, <2>9, <2>11, <3>1, <3>3, Sorts
    <2>13. PICK E : E = IF "FREE" \in types /\ h \in Stable THEN due \cup {<<h, note>>} ELSE due
      OBVIOUS
    <2>14. ASSUME NEW f, NoteAt(s, f) # 0
           PROVE  \E a \in Nat : /\ a = NoteAt(s, f) /\ NoteAt(u, f) = a + 1 /\ u[NoteAt(u, f)] = s[a]
                                 /\ NoteAt(u, f) # 0 /\ f # note
      <3>1. PICK a : a = NoteAt(s, f)
        OBVIOUS
      <3>2. a \in DOMAIN s /\ a \in Nat /\ f # note
        BY <2>4, <2>5, <2>14, <3>1, NoteAtIs DEF PropsOK
      <3>3. NoteAt(u, f) = a + 1 /\ u[a + 1] = s[a] /\ a + 1 # 0
        BY <2>7, <2>14, <3>1, <3>2
      <3> QED
        BY <3>1, <3>2, <3>3
    <2>15. ASSUME NEW d \in E
           PROVE  /\ d \in Hdr \X Notes
                  /\ G[d[1]] # NULL /\ NoteAt(G[d[1]].prop, d[2]) # 0
                  /\ "FREE" \in G[d[1]].prop[NoteAt(G[d[1]].prop, d[2])].types
      <3>1. CASE d \in due
        <4>1. /\ d \in Hdr \X Notes /\ d[1] \in Hdr /\ d[1] \in Heads
              /\ hdr[d[1]] # NULL /\ NoteAt(hdr[d[1]].prop, d[2]) # 0
              /\ "FREE" \in hdr[d[1]].prop[NoteAt(hdr[d[1]].prop, d[2])].types
          BY <1>1, <3>1, Sorts DEF DueData
        <4>2. CASE d[1] # h
          BY <2>12, <4>1, <4>2
        <4>3. CASE d[1] = h
          <5>1. PICK f, a : f = d[2] /\ a = NoteAt(s, f)
            OBVIOUS
          <5>2. a # 0 /\ "FREE" \in s[a].types
            BY <2>2, <4>1, <4>3, <5>1
          <5>3. u[NoteAt(u, f)] = s[a] /\ NoteAt(u, f) # 0
            BY <2>14, <5>1, <5>2
          <5> QED
            BY <2>12, <4>1, <4>3, <5>1, <5>2, <5>3
        <4> QED
          BY <4>2, <4>3
      <3>2. CASE d = <<h, note>> /\ "FREE" \in types
        BY <2>1, <2>3, <2>7, <2>12, <3>2
      <3> QED
        BY <2>13, <3>1, <3>2
    <2>16. DueIn(G, E)
      BY <2>15 DEF DueIn
    <2>17. DueAlike(hdr, G, due, E)
      <3> SUFFICES ASSUME NEW d \in E, d[1] \in Dying(hdr)
                   PROVE  /\ d \in due
                          /\ \A f : /\ NoteAt(hdr[d[1]].prop, f) < NoteAt(hdr[d[1]].prop, d[2])
                                    /\ NoteAt(hdr[d[1]].prop, f) # 0 /\ NoteAt(G[d[1]].prop, f) # 0
                                    => NoteAt(G[d[1]].prop, f) < NoteAt(G[d[1]].prop, d[2])
        BY DEF DueAlike
      <3>1. d \in due
        <4>1. d # <<h, note>> \/ h \notin Stable
          BY DEF Dying, Stable
        <4> QED
          BY <2>13, <4>1
      <3>2. CASE d[1] # h
        <4>1. G[d[1]] = hdr[d[1]]
          BY <2>12, <3>2, Sorts DEF Dying
        <4> QED
          BY <3>1, <4>1
      <3>3. CASE d[1] = h
        <4>1. PICK g : g = d[2] /\ NoteAt(s, g) # 0
          BY <1>1, <2>2, <3>1, <3>3 DEF DueData
        <4>2. PICK a \in Nat : a = NoteAt(s, g) /\ NoteAt(u, g) = a + 1
          BY <2>14, <4>1
        <4>3. ASSUME NEW f, NoteAt(s, f) < a, NoteAt(s, f) # 0 PROVE NoteAt(u, f) < a + 1
          <5>1. PICK b \in Nat : b = NoteAt(s, f) /\ NoteAt(u, f) = b + 1
            BY <2>14, <4>3
          <5> QED
            BY <4>3, <5>1
        <4> QED
          BY <2>2, <2>12, <3>1, <3>3, <4>1, <4>2, <4>3
      <3> QED
        BY <3>2, <3>3
    <2>18. OnlyDue(G, stack, E)
      <3> SUFFICES ASSUME NEW x \in Hdr, NEW f \in Notes,
                          G[x] # NULL, FreeNote(G[x].prop, f), <<x, f>> \notin E
                   PROVE  /\ G[x].destroying
                          /\ \A j \in DOMAIN stack : stack[j].at = "notify" /\ stack[j].t = x =>
                                stack[j].n # NULL /\ NoteAt(G[x].prop, f) <= NoteAt(G[x].prop, stack[j].n)
        BY DEF OnlyDue
      <3>1. <<x, f>> \notin due
        BY <2>13
      <3>2. CASE x # h
        <4>1. G[x] = hdr[x]
          BY <2>12, <3>2, Sorts
        <4> QED
          BY <1>1, <3>1, <4>1 DEF OnlyDue
      <3>3. CASE x = h
        <4>1. ASSUME NEW j \in DOMAIN stack, stack[j].at = "notify", stack[j].t = h
              PROVE  \E b \in Nat : /\ b = NoteAt(s, stack[j].n) /\ NoteAt(u, stack[j].n) = b + 1
                                    /\ stack[j].n # NULL
          <5>1. stack[j].n # NULL /\ NoteAt(s, stack[j].n) # 0
            BY <1>1, <1>2, <2>2, <4>1 DEF StackData
          <5> QED
            BY <2>14, <5>1
        <4>2. CASE f = note
          <5>1. "FREE" \in types
            BY <2>3, <2>7, <2>12, <3>3, <4>2 DEF FreeNote
          <5>2. hdr[h].destroying
            BY <2>13, <3>3, <4>2, <5>1 DEF Stable
          <5>3. NoteAt(u, f) = 1
            BY <2>7, <4>2
          <5>4. ASSUME NEW j \in DOMAIN stack, stack[j].at = "notify", stack[j].t = h
                PROVE  stack[j].n # NULL /\ NoteAt(u, f) <= NoteAt(u, stack[j].n)
            BY <4>1, <5>3, <5>4
          <5> QED
            BY <2>12, <3>3, <5>2, <5>4
        <4>3. CASE f # note
          <5>1. NoteAt(u, f) # 0 /\ "FREE" \in u[NoteAt(u, f)].types
            BY <2>12, <3>3 DEF FreeNote
          <5>2. NoteAt(s, f) # 0
            BY <2>7, <4>3, <5>1
          <5>3. PICK a \in Nat : a = NoteAt(s, f) /\ NoteAt(u, f) = a + 1 /\ u[NoteAt(u, f)] = s[a]
            BY <2>14, <5>2
          <5>4. FreeNote(hdr[h].prop, f)
            BY <2>2, <5>1, <5>2, <5>3 DEF FreeNote
          <5>5. /\ hdr[h].destroying
                /\ \A j \in DOMAIN stack : stack[j].at = "notify" /\ stack[j].t = h =>
                      NoteAt(hdr[h].prop, f) <= NoteAt(hdr[h].prop, stack[j].n)
            BY <1>1, <2>1, <3>1, <3>3, <5>4 DEF OnlyDue
          <5>6. ASSUME NEW j \in DOMAIN stack, stack[j].at = "notify", stack[j].t = h
                PROVE  stack[j].n # NULL /\ NoteAt(u, f) <= NoteAt(u, stack[j].n)
            <6>1. PICK b \in Nat : b = NoteAt(s, stack[j].n) /\ NoteAt(u, stack[j].n) = b + 1 /\ stack[j].n # NULL
              BY <4>1, <5>6
            <6>2. a <= b
              BY <2>2, <5>3, <5>5, <5>6, <6>1
            <6> QED
              BY <5>3, <6>1, <6>2
          <5> QED
            BY <2>12, <3>3, <5>5, <5>6
        <4> QED
          BY <4>2, <4>3
      <3> QED
        BY <3>2, <3>3
    <2>19. own + 1 = own - Cardinality(OwnedIn(s)) + Cardinality(OwnedIn(u))
      <3>1. PICK c \in Nat : c = Cardinality(OwnedIn(s))
        BY <2>4
      <3>2. own \in Nat
        BY <1>1, FS_CardinalityType DEF Good
      <3> QED
        BY <2>8, <3>1, <3>2
    <2>20. PICK m : m = own + 1
      OBVIOUS
    <2>21. Good(G, owner, links, Called, E, m)
      <3>1. /\ PropsOK(u) /\ KidsIn(u) = KidsIn(hdr[h].prop)
            /\ m = own - Cardinality(OwnedIn(hdr[h].prop)) + Cardinality(OwnedIn(u))
        BY <2>2, <2>7, <2>19, <2>20
      <3>2. \A j \in DOMAIN stack : stack[j].t = h /\ stack[j].at = "notify" /\ stack[j].n # NULL =>
               NoteAt(u, stack[j].n) # 0
        <4>1. \A j \in DOMAIN stack : stack[j].t = h /\ stack[j].at = "notify" /\ stack[j].n # NULL =>
                 NoteAt(s, stack[j].n) # 0
          BY <1>1, <2>2 DEF StackData
        <4> QED
          BY <2>14, <4>1
      <3>3. Good(hdr, owner, links, stack, due, own)
        BY <1>1
      <3> QED
        BY <1>2, <2>1, <2>9, <2>16, <2>17, <2>18, <3>1, <3>2, <3>3, GoodProps
    <2> QED
      BY <1>1, <1>3, <2>10, <2>13, <2>20, <2>21 DEF IInv
  <1>4. CASE FailedCall
    BY <1>2, <1>4, Failed
  <1> QED
    BY <1>3, <1>4 DEF AddNotifier

LEMMA NoteAtNat ==
    ASSUME NEW v, PropsOK(v)
    PROVE  \A b : NoteAt(v, b) \in Nat /\ (NoteAt(v, b) # 0 => v[NoteAt(v, b)].at = b)
  <1>1. DOMAIN v \subseteq Nat
    BY DEF PropsOK
  <1> QED
    BY <1>1, NoteAtIs

\* The other notifiers keep their order when a property is taken out.
LEMMA RemovedOrder ==
    ASSUME NEW s, PropsOK(s), NEW i \in DOMAIN s, NEW u, u = RemoveAt(s, i),
           NEW g, ~(s[i].type = "NOTIFIER" /\ s[i].at = g)
    PROVE  /\ NoteAt(u, g) = 0 <=> NoteAt(s, g) = 0
           /\ NoteAt(s, g) # 0 => u[NoteAt(u, g)] = s[NoteAt(s, g)]
           /\ \A f : ~(s[i].type = "NOTIFIER" /\ s[i].at = f) /\ NoteAt(s, g) # 0 /\ NoteAt(s, g) < NoteAt(s, f)
                     => NoteAt(u, g) < NoteAt(u, f)
  <1>1. DOMAIN s \subseteq Nat \ {0} /\ i \in Nat \ {0}
    BY DEF PropsOK
  <1>2. ASSUME NEW f, ~(s[i].type = "NOTIFIER" /\ s[i].at = f)
        PROVE  \E a, b \in Nat : /\ a = NoteAt(s, f) /\ b = NoteAt(u, f) /\ a # i
                                 /\ b = (IF a < i THEN a ELSE a - 1)
                                 /\ a # 0 => a \in DOMAIN s /\ u[b] = s[a]
    <2>1. PICK a, b : a = NoteAt(s, f) /\ b = NoteAt(u, f)
      OBVIOUS
    <2>2. a # 0 => a \in DOMAIN s /\ s[a].type = "NOTIFIER" /\ s[a].at = f
      BY <2>1, NoteAtIs
    <2>3. a \in Nat /\ a # i
      BY <1>1, <1>2, <2>2
    <2>4. b = IF a < i THEN a ELSE a - 1
      BY <1>2, <2>1, Removed
    <2>5. b \in Nat
      BY <1>1, <2>3, <2>4
    <2>6. ASSUME a # 0 PROVE u[b] = s[a]
      <3>1. \A k \in DOMAIN s : /\ k < i => u[k] = s[k]
                                /\ k > i => u[k - 1] = s[k]
        BY Removed
      <3>2. CASE a < i
        BY <2>2, <2>4, <2>6, <3>1, <3>2
      <3>3. CASE a > i
        <4>1. ~(a < i)
          BY <1>1, <2>3, <3>3
        <4> QED
          BY <2>2, <2>4, <2>6, <3>1, <3>3, <4>1
      <3> QED
        BY <1>1, <2>3, <3>2, <3>3
    <2> QED
      BY <2>1, <2>2, <2>3, <2>4, <2>5, <2>6
  <1>3. PICK a \in Nat, b \in Nat : /\ a = NoteAt(s, g) /\ b = NoteAt(u, g) /\ a # i
                                    /\ b = (IF a < i THEN a ELSE a - 1)
                                    /\ a # 0 => a \in DOMAIN s /\ u[b] = s[a]
    BY <1>2
  <1>4. b = 0 <=> a = 0
    BY <1>1, <1>3
  <1>5. ASSUME NEW f, ~(s[i].type = "NOTIFIER" /\ s[i].at = f), a # 0, a < NoteAt(s, f)
        PROVE  b < NoteAt(u, f)
    <2>1. PICK c \in Nat, d \in Nat : /\ c = NoteAt(s, f) /\ d = NoteAt(u, f) /\ c # i
                                      /\ d = (IF c < i THEN c ELSE c - 1)
      BY <1>2, <1>5
    <2>2. b < d
      BY <1>1, <1>3, <1>5, <2>1
    <2> QED
      BY <2>1, <2>2
  <1> QED
    BY <1>3, <1>4, <1>5

LEMMA DelNotifierKeeps ==
    ASSUME IInv, DelNotifier
    PROVE  IInv'
  <1>1. /\ Tree(hdr, owner, links) /\ StackShape(stack) /\ Good(hdr, owner, links, stack, due, own)
        /\ StackData(hdr, stack) /\ DueData(hdr, stack, due) /\ OnlyDue(hdr, stack, due)
        /\ wild = FALSE /\ own \in Nat
    BY FS_CardinalityType DEF IInv, Good
  <1>2. SameCalls(stack, Called) /\ (stack = <<>> \/ stack[Len(stack)].at = "callback")
    BY <1>1, CallsOf, StackIs DEF DelNotifier, MayCall, Running, Top
  <1>3. PICK h \in Live, fn \in Fn \cup {Observer} :
           /\ WithFunction(h, fn) # 0
           /\ \A k \in DOMAIN stack : stack[k].t = h /\ stack[k].at = "callback" =>
                 stack[k].n # Props(h)[WithFunction(h, fn)].at
           /\ hdr' = [hdr EXCEPT ![h].prop = RemoveAt(@, WithFunction(h, fn))]
           /\ due' = due \ {<<h, Props(h)[WithFunction(h, fn)].at>>}
    BY DEF DelNotifier
  <1>4. own' = own - 1 /\ stack' = Called /\ owner' = owner /\ links' = links /\ wild' = wild
    BY DEF DelNotifier
  <1>5. h \in Hdr /\ h \in Heads /\ hdr[h] # NULL
    BY Sorts DEF Live
  <1>6. PICK s, i, note, u : /\ s = hdr[h].prop /\ i = WithFunction(h, fn) /\ note = s[i].at
                             /\ u = RemoveAt(s, i)
    OBVIOUS
  <1>7. /\ PropsOK(s) /\ hdr[h] \in Header /\ hdr \in [Heads -> Header \cup {NULL}]
        /\ Cardinality(OwnedIn(s)) \in Nat
    BY <1>1, <1>5, <1>6, PropsAre DEF Tree, TreeType
  <1>8. i \in DOMAIN s /\ s[i].type = "NOTIFIER" /\ s[i].at = note /\ note \in Notes /\ NoteAt(s, note) = i
    <2>1. PICK X : X = {k \in DOMAIN s : s[k].type = "NOTIFIER" /\ s[k].fn = fn}
      OBVIOUS
    <2>2. i = (IF X = {} THEN 0 ELSE CHOOSE k \in X : \A j \in X : k <= j)
      BY <1>6, <2>1 DEF WithFunction, Places, Props
    <2>3. X \subseteq Nat
      BY <1>7, <2>1 DEF PropsOK
    <2>4. i \in X
      BY <1>3, <1>6, <2>2, <2>3, LeastNatural
    <2>5. i \in DOMAIN s /\ s[i].type = "NOTIFIER" /\ s[i] \in Property
      BY <1>7, <2>1, <2>4 DEF PropsOK
    <2> QED
      BY <1>6, <1>7, <2>5, PropertyIs, NoteAtIs
  <1>25. /\ \A k \in DOMAIN stack : stack[k].t = h /\ stack[k].at = "callback" => stack[k].n # note
         /\ hdr' = [hdr EXCEPT ![h].prop = RemoveAt(@, i)] /\ due' = due \ {<<h, note>>}
    <2>1. Props(h)[WithFunction(h, fn)].at = note
      BY <1>6 DEF Props
    <2> QED
      BY <1>3, <1>6, <2>1
  <1>9. /\ PropsOK(u) /\ KidsIn(u) = KidsIn(s) /\ NoteAt(u, note) = 0
        /\ Cardinality(OwnedIn(u)) = Cardinality(OwnedIn(s)) - 1
    <2>1. PropsOK(u) /\ KidsIn(u) = KidsIn(s) /\ NoteAt(u, note) = 0
      BY <1>6, <1>7, <1>8, Removed
    <2>2. Cardinality(OwnedIn(u)) = Cardinality(OwnedIn(s)) - (IF s[i].type \in Owned THEN 1 ELSE 0)
      BY <1>6, <1>7, <1>8, OwnedRemoved
    <2> QED
      BY <1>8, <2>1, <2>2 DEF Owned
  <1>10. ASSUME NEW g, g # note
         PROVE  /\ NoteAt(u, g) = 0 <=> NoteAt(s, g) = 0
                /\ NoteAt(s, g) # 0 => u[NoteAt(u, g)] = s[NoteAt(s, g)]
                /\ \A f : f # note /\ NoteAt(s, g) # 0 /\ NoteAt(s, g) < NoteAt(s, f) => NoteAt(u, g) < NoteAt(u, f)
    BY <1>6, <1>7, <1>8, <1>10, RemovedOrder
  <1>11. PICK G : G = [hdr EXCEPT ![h].prop = u]
    OBVIOUS
  <1>12. hdr' = G
    BY <1>5, <1>6, <1>7, <1>8, <1>11, <1>25
  <1>13. G[h] # NULL /\ G[h].prop = u /\ G[h].destroying = hdr[h].destroying /\ \A x \in Heads \ {h} : G[x] = hdr[x]
    <2>1. PICK r : r = [hdr[h] EXCEPT !.prop = u]
      OBVIOUS
    <2>2. u \in Seq(Property)
      BY <1>9 DEF PropsOK
    <2>3. r \in Header /\ r.prop = u /\ r.destroying = hdr[h].destroying
      BY <1>7, <2>1, <2>2 DEF Header
    <2> QED
      BY <1>5, <1>7, <1>11, <2>1, <2>3, Sorts
  <1>14. PICK E : E = due \ {<<h, note>>}
    OBVIOUS
  <1>15. ASSUME NEW d \in E
         PROVE  /\ d \in Hdr \X Notes /\ d \in due /\ d[1] \in Heads
                /\ hdr[d[1]] # NULL /\ NoteAt(hdr[d[1]].prop, d[2]) # 0
                /\ "FREE" \in hdr[d[1]].prop[NoteAt(hdr[d[1]].prop, d[2])].types
                /\ d[1] = h => d[2] # note
    <2>1. d \in due /\ d # <<h, note>>
      BY <1>14
    <2>2. /\ d \in Hdr \X Notes
          /\ hdr[d[1]] # NULL /\ NoteAt(hdr[d[1]].prop, d[2]) # 0
          /\ "FREE" \in hdr[d[1]].prop[NoteAt(hdr[d[1]].prop, d[2])].types
      BY <1>1, <2>1 DEF DueData
    <2>3. d = <<d[1], d[2]>> /\ d[1] \in Heads
      BY <2>2, Sorts
    <2> QED
      BY <2>1, <2>2, <2>3
  <1>16. DueIn(G, E)
    <2> SUFFICES ASSUME NEW d \in E
                 PROVE  /\ G[d[1]] # NULL /\ NoteAt(G[d[1]].prop, d[2]) # 0
                        /\ "FREE" \in G[d[1]].prop[NoteAt(G[d[1]].prop, d[2])].types
      BY <1>15 DEF DueIn
    <2>1. CASE d[1] # h
      BY <1>13, <1>15, <2>1
    <2>2. CASE d[1] = h
      <3>1. PICK f : f = d[2] /\ f # note
        BY <1>15, <2>2
      <3>2. NoteAt(s, f) # 0 /\ "FREE" \in s[NoteAt(s, f)].types
        BY <1>6, <1>15, <2>2, <3>1
      <3>3. NoteAt(u, f) # 0 /\ u[NoteAt(u, f)] = s[NoteAt(s, f)]
        BY <1>10, <3>1, <3>2
      <3> QED
        BY <1>13, <2>2, <3>1, <3>2, <3>3
    <2> QED
      BY <2>1, <2>2
  <1>17. DueAlike(hdr, G, due, E)
    <2> SUFFICES ASSUME NEW d \in E, NEW g, NoteAt(hdr[d[1]].prop, g) < NoteAt(hdr[d[1]].prop, d[2]),
                        NoteAt(hdr[d[1]].prop, g) # 0, NoteAt(G[d[1]].prop, g) # 0
                 PROVE  NoteAt(G[d[1]].prop, g) < NoteAt(G[d[1]].prop, d[2])
      BY <1>15 DEF DueAlike
    <2>1. CASE d[1] # h
      BY <1>13, <1>15, <2>1
    <2>2. CASE d[1] = h
      <3>1. PICK f : f = d[2] /\ f # note
        BY <1>15, <2>2
      <3>2. NoteAt(s, g) < NoteAt(s, f) /\ NoteAt(s, g) # 0 /\ NoteAt(u, g) # 0
        BY <1>6, <1>13, <2>2, <3>1
      <3>3. g # note
        BY <1>9, <3>2
      <3>4. NoteAt(u, g) < NoteAt(u, f)
        BY <1>10, <3>1, <3>2, <3>3
      <3> QED
        BY <1>13, <2>2, <3>1, <3>4
    <2> QED
      BY <2>1, <2>2
  <1>18. ASSUME NEW j \in DOMAIN stack, stack[j].t = h, stack[j].at = "notify", stack[j].n # NULL
         PROVE  NoteAt(u, stack[j].n) # 0
    <2>1. PICK n \in Nat : n = Len(stack)
      BY <1>1, StackIs
    <2>2. DOMAIN stack = 1..n /\ j \in 1..n /\ stack # <<>>
      BY <1>1, <2>1, StackIs
    <2>3. j # n
      BY <1>2, <1>18, <2>1, <2>2
    <2>4. j < n
      BY <2>2, <2>3
    <2>5. /\ j + 1 \in 1..n /\ stack[j + 1].at = "callback"
          /\ stack[j + 1].t = stack[j].t /\ stack[j + 1].n = stack[j].n
      BY <1>1, <1>18, <2>1, <2>2, <2>4, StackIs
    <2>6. PICK f : f = stack[j].n /\ f # note
      BY <1>18, <1>25, <2>2, <2>5
    <2>7. NoteAt(s, f) # 0
      BY <1>1, <1>6, <1>18, <2>6 DEF StackData
    <2> QED
      BY <1>10, <2>6, <2>7
  <1>24. OnlyDue(G, stack, E)
    <2> SUFFICES ASSUME NEW x \in Hdr, NEW f \in Notes,
                        G[x] # NULL, FreeNote(G[x].prop, f), <<x, f>> \notin E
                 PROVE  /\ G[x].destroying
                        /\ \A j \in DOMAIN stack : stack[j].at = "notify" /\ stack[j].t = x =>
                              stack[j].n # NULL /\ NoteAt(G[x].prop, f) <= NoteAt(G[x].prop, stack[j].n)
      BY DEF OnlyDue
    <2>1. CASE x # h
      <3>1. G[x] = hdr[x] /\ <<x, f>> \notin due
        BY <1>13, <1>14, <2>1, Sorts
      <3> QED
        BY <1>1, <3>1 DEF OnlyDue
    <2>2. CASE x = h
      <3>1. NoteAt(u, f) # 0 /\ "FREE" \in u[NoteAt(u, f)].types
        BY <1>13, <2>2 DEF FreeNote
      <3>2. f # note
        BY <1>9, <3>1
      <3>3. NoteAt(s, f) # 0 /\ u[NoteAt(u, f)] = s[NoteAt(s, f)]
        BY <1>10, <3>1, <3>2
      <3>4. FreeNote(hdr[h].prop, f) /\ <<h, f>> \notin due
        BY <1>6, <1>14, <2>2, <3>1, <3>2, <3>3 DEF FreeNote
      <3>5. /\ hdr[h].destroying
            /\ \A j \in DOMAIN stack : stack[j].at = "notify" /\ stack[j].t = h =>
                  stack[j].n # NULL /\ NoteAt(s, f) <= NoteAt(s, stack[j].n)
        BY <1>1, <1>5, <1>6, <3>4 DEF OnlyDue
      <3>6. ASSUME NEW j \in DOMAIN stack, stack[j].at = "notify", stack[j].t = h
            PROVE  NoteAt(u, f) <= NoteAt(u, stack[j].n)
        <4>1. PICK g : g = stack[j].n /\ g # NULL /\ NoteAt(s, f) <= NoteAt(s, g)
          BY <3>5, <3>6
        <4>2. NoteAt(u, g) # 0
          BY <1>18, <3>6, <4>1
        <4>3. g # note
          BY <1>9, <4>2
        <4>4. NoteAt(s, g) # 0 /\ u[NoteAt(u, g)] = s[NoteAt(s, g)]
          BY <1>10, <4>2, <4>3
        <4>5. /\ \A b : NoteAt(s, b) \in Nat /\ (NoteAt(s, b) # 0 => s[NoteAt(s, b)].at = b)
              /\ \A b : NoteAt(u, b) \in Nat
          BY <1>7, <1>9, NoteAtNat
        <4>6. PICK a \in Nat, b \in Nat, c \in Nat, d \in Nat :
                 a = NoteAt(s, f) /\ b = NoteAt(s, g) /\ c = NoteAt(u, f) /\ d = NoteAt(u, g)
          BY <4>5
        <4>7. CASE a = b
          <5>1. s[a].at = f /\ s[b].at = g
            BY <3>3, <4>4, <4>5, <4>6
          <5>2. f = g
            BY <4>7, <5>1
          <5> QED
            BY <4>1, <4>6, <5>2
        <4>8. CASE a < b
          <5>1. NoteAt(u, f) < NoteAt(u, g)
            BY <1>10, <3>2, <3>3, <4>3, <4>6, <4>8
          <5> QED
            BY <4>1, <4>6, <5>1
        <4> QED
          BY <4>1, <4>6, <4>7, <4>8
      <3> QED
        BY <1>13, <2>2, <3>5, <3>6
    <2> QED
      BY <2>1, <2>2
  <1>19. own - 1 = own - Cardinality(OwnedIn(s)) + Cardinality(OwnedIn(u))
    <2>1. PICK c \in Nat : c = Cardinality(OwnedIn(s))
      BY <1>7
    <2> QED
      BY <1>1, <1>9, <2>1
  <1>20. PICK m : m = own - 1
    OBVIOUS
  <1>21. /\ PropsOK(u) /\ KidsIn(u) = KidsIn(hdr[h].prop)
         /\ m = own - Cardinality(OwnedIn(hdr[h].prop)) + Cardinality(OwnedIn(u))
    BY <1>6, <1>9, <1>19, <1>20
  <1>22. Good(hdr, owner, links, stack, due, own)
    BY <1>1
  <1>23. Good(G, owner, links, Called, E, m)
    BY <1>2, <1>5, <1>11, <1>16, <1>17, <1>18, <1>21, <1>22, <1>24, GoodProps
  <1> QED
    BY <1>1, <1>4, <1>12, <1>14, <1>20, <1>23, <1>25 DEF IInv

\* The properties without the name.
LEMMA UnnamedIs ==
    ASSUME NEW h, PropsOK(hdr[h].prop), NEW u, u = Unnamed(h)
    PROVE  /\ PropsOK(u) /\ KidsIn(u) = KidsIn(hdr[h].prop)
           /\ \A k \in DOMAIN u : u[k].type \notin {"NAME", "LITERAL"}
           /\ SameOrder(hdr[h].prop, u)
           /\ OwnName(h) \in Nat
           /\ Cardinality(OwnedIn(u)) = Cardinality(OwnedIn(hdr[h].prop)) - OwnName(h)
  <1>1. PICK s : s = hdr[h].prop
    OBVIOUS
  <1>2. PICK X, k : /\ X = {j \in DOMAIN s : s[j].type = "NAME" \/ s[j].type = "LITERAL"}
                    /\ k = CHOOSE i \in X : \A j \in X : i <= j
    OBVIOUS
  <1>3. PICK m : m = FindProperty(h, "NAME")
    OBVIOUS
  <1>4. m = IF X = {} THEN 0 ELSE k
    BY <1>1, <1>2, <1>3 DEF FindProperty, Places, Props
  <1>5. u = IF m = 0 THEN s ELSE RemoveAt(s, m)
    BY <1>1, <1>3 DEF Unnamed, Props
  <1>6. PropsOK(s) /\ DOMAIN s \subseteq Nat \ {0} /\ Cardinality(OwnedIn(s)) \in Nat
    BY <1>1, OwnedFinite DEF PropsOK
  <1>7. PICK N : N = {j \in DOMAIN s : s[j].type = "NAME"}
    OBVIOUS
  <1>8. OwnName(h) = Cardinality(N)
    BY <1>1, <1>7 DEF OwnName, Places, Props
  <1>9. CASE X = {}
    <2>1. u = s /\ N = {}
      BY <1>2, <1>4, <1>5, <1>7, <1>9
    <2>2. OwnName(h) = 0
      BY <1>8, <2>1, FS_EmptySet
    <2>3. Cardinality(OwnedIn(s)) = Cardinality(OwnedIn(s)) - OwnName(h)
      BY <1>6, <2>2
    <2>4. \A j \in DOMAIN u : u[j].type \notin {"NAME", "LITERAL"}
      BY <1>2, <1>9, <2>1
    <2>5. SameOrder(s, u)
      BY <2>1 DEF SameOrder
    <2> QED
      BY <1>1, <1>6, <2>1, <2>2, <2>3, <2>4, <2>5
  <1>10. ASSUME NEW i \in X PROVE X = {i} /\ k = i /\ k # 0
    <2>1. \A j \in X : j = i
      <3> SUFFICES ASSUME NEW j \in X PROVE j = i
        OBVIOUS
      <3>1. {s[j].type, s[i].type} \subseteq {"NAME", "LITERAL"} /\ i \in DOMAIN s /\ j \in DOMAIN s
        BY <1>2
      <3> QED
        BY <1>6, <3>1 DEF PropsOK, SameKind
    <2>2. X = {i} /\ i \in Nat \ {0}
      BY <1>2, <1>6, <2>1
    <2>3. (CHOOSE a \in {i} : \A j \in {i} : a <= j) = i
      BY <2>2
    <2> QED
      BY <1>2, <2>2, <2>3
  <1>11. ASSUME NEW i \in X PROVE
            /\ PropsOK(u) /\ KidsIn(u) = KidsIn(s)
            /\ \A j \in DOMAIN u : u[j].type \notin {"NAME", "LITERAL"}
            /\ SameOrder(s, u)
            /\ OwnName(h) \in Nat
            /\ Cardinality(OwnedIn(u)) = Cardinality(OwnedIn(s)) - OwnName(h)
    <2>1. X = {i} /\ m = i /\ u = RemoveAt(s, i) /\ i \in DOMAIN s /\ s[i].type \in {"NAME", "LITERAL"}
      BY <1>2, <1>4, <1>5, <1>10, <1>11
    <2>2. PropsOK(u) /\ KidsIn(u) = KidsIn(s)
      BY <1>6, <2>1, Removed
    <2>3. SameOrder(s, u)
      <3>1. \A note : ~(s[i].type = "NOTIFIER" /\ s[i].at = note)
        BY <2>1
      <3> QED
        BY <1>6, <2>1, <3>1, RemovedOrder DEF SameOrder
    <2>4. \A j \in DOMAIN u : u[j].type \notin {"NAME", "LITERAL"}
      <3> SUFFICES ASSUME NEW j \in DOMAIN u, u[j].type \in {"NAME", "LITERAL"} PROVE FALSE
        OBVIOUS
      <3>1. \/ j < i /\ j \in DOMAIN s /\ u[j] = s[j]
            \/ j >= i /\ j + 1 \in DOMAIN s /\ u[j] = s[j + 1]
        BY <1>6, <2>1, Removed
      <3>2. j \in Nat /\ i \in Nat
        BY <1>6, <2>1, <2>2 DEF PropsOK
      <3>3. CASE j < i /\ j \in DOMAIN s /\ u[j] = s[j]
        <4>1. j \in X
          BY <1>2, <3>3
        <4> QED
          BY <2>1, <3>2, <3>3, <4>1
      <3>4. CASE j >= i /\ j + 1 \in DOMAIN s /\ u[j] = s[j + 1]
        <4>1. j + 1 \in X
          BY <1>2, <3>4
        <4>2. j + 1 # i
          BY <3>2, <3>4
        <4> QED
          BY <2>1, <4>1, <4>2
      <3> QED
        BY <3>1, <3>3, <3>4
    <2>5. Cardinality(OwnedIn(u)) = Cardinality(OwnedIn(s)) - (IF s[i].type \in Owned THEN 1 ELSE 0)
      BY <1>6, <2>1, OwnedRemoved
    <2>6. OwnName(h) = IF s[i].type \in Owned THEN 1 ELSE 0
      <3>1. CASE s[i].type = "NAME"
        <4>1. N = {i}
          BY <1>2, <1>7, <2>1, <3>1
        <4> QED
          BY <1>8, <3>1, <4>1, FS_Singleton DEF Owned
      <3>2. CASE s[i].type = "LITERAL"
        <4>1. N = {}
          BY <1>2, <1>7, <2>1, <3>2
        <4> QED
          BY <1>8, <3>2, <4>1, FS_EmptySet DEF Owned
      <3> QED
        BY <2>1, <3>1, <3>2
    <2> QED
      BY <2>2, <2>3, <2>4, <2>5, <2>6
  <1> QED
    BY <1>1, <1>9, <1>11

LEMMA SetNameKeeps ==
    ASSUME IInv, SetName
    PROVE  IInv'
  <1>1. /\ Tree(hdr, owner, links) /\ StackShape(stack) /\ Good(hdr, owner, links, stack, due, own)
        /\ StackData(hdr, stack) /\ DueData(hdr, stack, due) /\ wild = FALSE /\ own \in Nat
    BY FS_CardinalityType DEF IInv, Good
  <1>2. SameCalls(stack, Called)
    BY <1>1, CallsOf DEF SetName
  <1>3. stack' = Called /\ owner' = owner /\ links' = links /\ due' = due /\ wild' = wild
    BY DEF SetName
  <1>4. PICK h \in Live :
           \/ /\ hdr' = [hdr EXCEPT ![h].prop = Append(Unnamed(h), [type |-> "LITERAL"])]
              /\ own' = own - OwnName(h)
           \/ /\ hdr' = [hdr EXCEPT ![h].prop = <<[type |-> "NAME"]>> \o Unnamed(h)]
              /\ own' = own - OwnName(h) + 1
           \/ /\ hdr' = [hdr EXCEPT ![h].prop = Unnamed(h)]
              /\ own' = own - OwnName(h)
    BY DEF SetName
  <1>5. h \in Hdr /\ h \in Heads /\ hdr[h] # NULL
    BY Sorts DEF Live
  <1>6. PICK s, u : s = hdr[h].prop /\ u = Unnamed(h)
    OBVIOUS
  <1>7. /\ PropsOK(s) /\ hdr[h] \in Header /\ hdr \in [Heads -> Header \cup {NULL}]
        /\ Cardinality(OwnedIn(s)) \in Nat
    BY <1>1, <1>5, <1>6, PropsAre DEF Tree, TreeType
  <1>8. /\ PropsOK(u) /\ KidsIn(u) = KidsIn(s)
        /\ \A k \in DOMAIN u : u[k].type \notin {"NAME", "LITERAL"}
        /\ SameOrder(s, u)
        /\ OwnName(h) \in Nat
        /\ Cardinality(OwnedIn(u)) = Cardinality(OwnedIn(s)) - OwnName(h)
    BY <1>6, <1>7, UnnamedIs
  <1>9. PICK a \in Nat, b \in Nat, c \in Nat :
           a = Cardinality(OwnedIn(s)) /\ b = Cardinality(OwnedIn(u)) /\ c = OwnName(h) /\ b = a - c
    BY <1>7, <1>8, OwnedFinite
  <1>10. ASSUME NEW v, PropsOK(v), KidsIn(v) = KidsIn(u), hdr' = [hdr EXCEPT ![h].prop = v], SameOrder(u, v),
                NEW e \in {0, 1}, Cardinality(OwnedIn(v)) = b + e, own' = own - c + e
         PROVE  IInv'
    <2>1. PICK G, m : G = [hdr EXCEPT ![h].prop = v] /\ m = own - c + e
      OBVIOUS
    <2>2. m = own - Cardinality(OwnedIn(hdr[h].prop)) + Cardinality(OwnedIn(v))
      BY <1>1, <1>6, <1>9, <1>10, <2>1
    <2>3. SameOrder(s, v)
      BY <1>8, <1>10 DEF SameOrder
    <2>4. KidsIn(v) = KidsIn(hdr[h].prop) /\ PropsOK(v) /\ SameOrder(hdr[h].prop, v)
      BY <1>6, <1>8, <1>10, <2>3
    <2>5. Good(hdr, owner, links, stack, due, own)
      BY <1>1
    <2>6. Good(G, owner, links, Called, due, m)
      BY <1>2, <1>5, <2>1, <2>2, <2>4, <2>5, GoodOrdered
    <2> QED
      BY <1>1, <1>3, <1>10, <2>1, <2>6 DEF IInv
  <1>11. CASE /\ hdr' = [hdr EXCEPT ![h].prop = Append(Unnamed(h), [type |-> "LITERAL"])]
              /\ own' = own - OwnName(h)
    <2>1. PICK p, v : p = [type |-> "LITERAL"] /\ v = Append(u, p)
      OBVIOUS
    <2>2. p \in Property /\ p.type = "LITERAL"
      BY <2>1 DEF Property
    <2>3. /\ PropsOK(v) /\ KidsIn(v) = KidsIn(u)
          /\ \A note : NoteAt(v, note) = NoteAt(u, note)
          /\ \A k \in DOMAIN u : v[k] = u[k]
          /\ OwnedIn(v) = OwnedIn(u)
      BY <1>8, <2>1, <2>2, Appended
    <2>4. SameOrder(u, v)
      <3>1. \A note : NoteAt(u, note) # 0 => NoteAt(u, note) \in DOMAIN u
        BY <1>8, NoteAtIs
      <3> QED
        BY <2>3, <3>1 DEF SameOrder
    <2>5. 0 \in {0, 1} /\ Cardinality(OwnedIn(v)) = b + 0 /\ own' = own - c + 0
      <3>1. Cardinality(OwnedIn(v)) = b /\ own' = own - c
        BY <1>9, <1>11, <2>3
      <3>2. b + 0 = b /\ own - c + 0 = own - c
        BY <1>1
      <3> QED
        BY <3>1, <3>2
    <2>6. hdr' = [hdr EXCEPT ![h].prop = v]
      BY <1>6, <1>11, <2>1
    <2> QED
      BY <1>10, <2>3, <2>4, <2>5, <2>6
  <1>12. CASE /\ hdr' = [hdr EXCEPT ![h].prop = <<[type |-> "NAME"]>> \o Unnamed(h)]
              /\ own' = own - OwnName(h) + 1
    <2>1. PICK p, v : p = [type |-> "NAME"] /\ v = <<p>> \o u
      OBVIOUS
    <2>2. p \in Property /\ p.type = "NAME"
      BY <2>1 DEF Property
    <2>3. \A k \in DOMAIN u : ~SameKind(p, u[k]) /\ ~SameKind(u[k], p)
      BY <1>8, <2>2 DEF SameKind
    <2>4. /\ PropsOK(v) /\ KidsIn(v) = KidsIn(u)
          /\ \A note : NoteAt(v, note) = IF NoteAt(u, note) = 0 THEN 0 ELSE NoteAt(u, note) + 1
          /\ \A k \in DOMAIN u : v[k + 1] = u[k]
      BY <1>8, <2>1, <2>2, <2>3, Prepended
    <2>5. SameOrder(u, v)
      BY <1>8, <2>4, ShiftedOrder
    <2>6. 1 \in {0, 1} /\ Cardinality(OwnedIn(v)) = b + 1 /\ own' = own - c + 1
      <3>1. Cardinality(OwnedIn(<<p>> \o u)) = Cardinality(OwnedIn(u)) + (IF p.type \in Owned THEN 1 ELSE 0)
        BY <1>8, <2>2, <2>3, OwnedPrepended
      <3>2. p.type \in Owned
        BY <2>2 DEF Owned
      <3> QED
        BY <1>9, <1>12, <2>1, <3>1, <3>2
    <2>7. hdr' = [hdr EXCEPT ![h].prop = v]
      BY <1>6, <1>12, <2>1
    <2> QED
      BY <1>10, <2>4, <2>5, <2>6, <2>7
  <1>13. CASE /\ hdr' = [hdr EXCEPT ![h].prop = Unnamed(h)]
              /\ own' = own - OwnName(h)
    <2>1. 0 \in {0, 1} /\ Cardinality(OwnedIn(u)) = b + 0 /\ own' = own - c + 0
      BY <1>1, <1>9, <1>13
    <2>2. hdr' = [hdr EXCEPT ![h].prop = u]
      BY <1>6, <1>13
    <2>3. SameOrder(u, u)
      BY DEF SameOrder
    <2> QED
      BY <1>8, <1>10, <2>1, <2>2, <2>3
  <1> QED
    BY <1>4, <1>11, <1>12, <1>13

LEMMA ResizeKeeps ==
    ASSUME IInv, Resize
    PROVE  IInv'
  <1>1. Tree(hdr, owner, links) /\ StackShape(stack) /\ Good(hdr, owner, links, stack, due, own) /\ wild = FALSE
    BY DEF IInv, Good
  <1>2. SameCalls(stack, Called)
    BY <1>1, CallsOf DEF Resize
  <1>3. ASSUME NEW h \in Stable, NEW b \in Hdr \ Live,
               Using(DelTouches(links, h),
                     /\ hdr' = [hdr EXCEPT ![b] = hdr[h], ![h] = NULL]
                     /\ links' = MovedLinks(h, b)
                     /\ owner' = MovedOwner(h, b)
                     /\ due' = {IF d[1] = h THEN <<b, d[2]>> ELSE d : d \in due}
                     /\ stack' = Called
                     /\ UNCHANGED <<notifiers, own, failures>>)
        PROVE  IInv'
    <2>1. h \in StableIn(hdr) /\ h \in Heads /\ hdr[h] # NULL /\ b \in Hdr /\ hdr[b] = NULL
      BY InTheseTerms, Sorts DEF StableIn, Live
    <2>2. \A a \in DelTouches(links, h) : InUse(a)
      BY <1>1, MemoryInUse
    <2>3. /\ hdr' = [hdr EXCEPT ![b] = hdr[h], ![h] = NULL]
          /\ links' = MovedLinks(h, b) /\ owner' = MovedOwner(h, b)
          /\ due' = {IF d[1] = h THEN <<b, d[2]>> ELSE d : d \in due}
          /\ stack' = Called /\ own' = own /\ wild' = wild
      BY <1>3, <2>2 DEF Using
    <2>4. PICK Q, E : /\ Q = [k \in Lists |-> IF k = KidsIn(hdr[h].prop) THEN b ELSE owner[k]]
                      /\ E = {IF d[1] = h THEN <<b, d[2]>> ELSE d : d \in due}
      OBVIOUS
    <2>5. Good([hdr EXCEPT ![b] = hdr[h], ![h] = NULL], Q, Moved(links, h, b), Called, E, own)
      BY <1>1, <1>2, <2>1, <2>4, GoodMoved
    <2>6. ChildrenOf(h) = KidsIn(hdr[h].prop) /\ MovedLinks(h, b) = Moved(links, h, b)
      BY <1>1, <2>1, InTheseTerms, PropsAre
    <2>7. owner' = Q
      BY <2>3, <2>4, <2>6 DEF MovedOwner
    <2> QED
      BY <1>1, <2>3, <2>4, <2>5, <2>6, <2>7 DEF IInv
  <1> QED
    BY <1>2, <1>3, Failed DEF Resize

\* What notify has called last is not due any more, and nothing else has been passed.
LEMMA OnceCalled ==
    ASSUME NEW H, NEW st, NEW D, StackShape(st), OnlyDue(H, st, D),
           st # <<>>, st[Len(st)].at = "notify", NEW h, st[Len(st)].t = h, H[h].destroying,
           NEW note \in Notes, PropsOK(H[h].prop),
           st[Len(st)].n # NULL => NoteAt(H[h].prop, st[Len(st)].n) <= NoteAt(H[h].prop, note),
           NEW sv, sv = Append([st EXCEPT ![Len(st)].n = note],
                               [at |-> "callback", t |-> h, n |-> note, left |-> 1])
    PROVE  OnlyDue(H, sv, D \ {<<h, note>>})
  <1> PICK n \in Nat : n = Len(st)
    BY StackIs
  <1>1. PICK f, g, E, su : /\ f = [at |-> "callback", t |-> h, n |-> note, left |-> 1]
                           /\ g = [st[n] EXCEPT !.n = note] /\ E = D \ {<<h, note>>}
                           /\ su = [st EXCEPT ![n] = g]
    OBVIOUS
  <1>2. /\ n \in 1..n /\ st \in Seq(Frame) /\ DOMAIN st = 1..n
        /\ st[n] \in Frame /\ st[n].at = "notify" /\ st[n].t = h /\ h \in Hdr
    BY StackIs
  <1>3. f \in Frame /\ f.at = "callback" /\ g \in Frame /\ g.at = "notify" /\ g.t = h /\ g.n = note
    <2>1. f \in Frame /\ f.at = "callback" /\ g \in Frame
      BY <1>1, <1>2, FrameIs
    <2>2. st[n] \in [at : {"notify"}, t : Hdr, n : Notes \cup {NULL}]
      BY <1>2 DEF Frame
    <2> QED
      BY <1>1, <1>2, <2>1, <2>2
  <1>4. su \in Seq(Frame) /\ Len(su) = n /\ su[n] = g /\ \A j \in 1..n : j # n => su[j] = st[j]
    BY <1>1, <1>2, <1>3, Replaced
  <1>5. /\ DOMAIN sv = 1..(n + 1) /\ sv[n + 1] = f /\ sv[n] = g
        /\ \A j \in 1..n : j # n => sv[j] = st[j]
    BY <1>1, <1>2, <1>3, <1>4, AppendProperties
  <1> SUFFICES ASSUME NEW x \in Hdr, NEW b \in Notes,
                      H[x] # NULL, FreeNote(H[x].prop, b), <<x, b>> \notin E
               PROVE  /\ H[x].destroying
                      /\ \A j \in DOMAIN sv : sv[j].at = "notify" /\ sv[j].t = x =>
                            sv[j].n # NULL /\ NoteAt(H[x].prop, b) <= NoteAt(H[x].prop, sv[j].n)
    BY <1>1 DEF OnlyDue
  <1>6. \A j \in DOMAIN sv : sv[j].at = "notify" => (j \in 1..n /\ j # n) \/ j = n
    BY <1>3, <1>5
  <1>7. note # NULL
    BY TalAssumption
  <1>8. CASE <<x, b>> \notin D
    <2>1. /\ H[x].destroying
          /\ \A j \in DOMAIN st : st[j].at = "notify" /\ st[j].t = x =>
                st[j].n # NULL /\ NoteAt(H[x].prop, b) <= NoteAt(H[x].prop, st[j].n)
      BY <1>8 DEF OnlyDue
    <2>2. ASSUME x = h PROVE NoteAt(H[x].prop, b) <= NoteAt(H[x].prop, note)
      <3>1. PICK a \in Nat, c \in Nat, d \in Nat : /\ a = NoteAt(H[h].prop, b)
                                                   /\ c = NoteAt(H[h].prop, st[n].n)
                                                   /\ d = NoteAt(H[h].prop, note)
        BY NoteAtNat
      <3>2. a <= c /\ c <= d
        BY <1>2, <2>1, <2>2, <3>1
      <3> QED
        BY <2>2, <3>1, <3>2
    <2> QED
      BY <1>2, <1>3, <1>5, <1>6, <1>7, <2>1, <2>2
  <1>9. CASE <<x, b>> \in D
    <2>1. x = h /\ b = note
      BY <1>1, <1>9
    <2>2. ASSUME NEW j \in 1..n, j # n PROVE ~(sv[j].at = "notify" /\ sv[j].t = x)
      <3>1. \A i, l \in DOMAIN st :
               st[i].at # "callback" /\ st[l].at # "callback" /\ st[i].t = st[l].t => i = l
        BY DEF StackShape
      <3>2. st[j].at = "notify" /\ st[j].t = h => j = n
        BY <1>2, <3>1
      <3> QED
        BY <1>5, <2>1, <2>2, <3>2
    <2>3. NoteAt(H[h].prop, note) \in Nat
      BY NoteAtNat
    <2> QED
      BY <1>3, <1>5, <1>6, <1>7, <2>1, <2>2, <2>3
  <1> QED
    BY <1>8, <1>9

LEMMA OnceNotified ==
    ASSUME NEW H, NEW st, NEW D, StackShape(st), OnlyDue(H, st, D),
           st # <<>>, NEW h \in Hdr, NEW k \in Lists \cup {NULL},
           NEW sv, sv = [st EXCEPT ![Len(st)] = [at |-> "children", t |-> h, kids |-> k]]
    PROVE  OnlyDue(H, sv, D)
  <1> PICK n \in Nat : n = Len(st)
    BY StackIs
  <1>1. PICK g : g = [at |-> "children", t |-> h, kids |-> k]
    OBVIOUS
  <1>2. g \in Frame /\ g.at = "children" /\ DOMAIN st = 1..n
    BY <1>1, FrameIs, StackIs
  <1>3. DOMAIN sv = 1..n /\ sv[n] = g /\ \A j \in 1..n : j # n => sv[j] = st[j]
    BY <1>1, <1>2, Replaced
  <1>4. \A j \in DOMAIN sv : sv[j].at = "notify" => j \in DOMAIN st /\ sv[j] = st[j]
    BY <1>2, <1>3
  <1> QED
    BY <1>4 DEF OnlyDue

LEMMA OnceReturned ==
    ASSUME NEW H, NEW st, NEW D, StackShape(st), OnlyDue(H, st, D), st # <<>>
    PROVE  OnlyDue(H, Front(st), D)
  <1>1. \A j \in DOMAIN Front(st) : j \in DOMAIN st /\ Front(st)[j] = st[j]
    BY Popped, StackIs
  <1> QED
    BY <1>1 DEF OnlyDue

LEMMA NotifyKeeps ==
    ASSUME IInv, Notify
    PROVE  IInv'
  <1>1. /\ Tree(hdr, owner, links) /\ StackShape(stack) /\ Good(hdr, owner, links, stack, due, own)
        /\ StackData(hdr, stack) /\ DueData(hdr, stack, due) /\ OnlyDue(hdr, stack, due)
        /\ wild = FALSE
    BY DEF IInv, Good
  <1>2. PICK n \in Nat : n = Len(stack)
    BY <1>1, StackIs
  <1>3. /\ stack # <<>> /\ n \in 1..n /\ DOMAIN stack = 1..n /\ Last(stack) = stack[n]
        /\ stack[n].at = "notify" /\ stack[n] \in Frame
    BY <1>1, <1>2, StackIs DEF Notify, Top
  <1>4. PICK h, f, rest : h = stack[n].t /\ f = stack[n].n /\ rest = NotifiersAfter(h, f)
    OBVIOUS
  <1>5. h \in Dying(hdr) /\ h \in Heads /\ h \in Hdr /\ hdr[h] # NULL /\ InUse(h)
    <2>1. h \in Dying(hdr)
      BY <1>1, <1>3, <1>4 DEF StackData
    <2> QED
      BY <1>1, <2>1, Sorts, MemoryInUse DEF Dying, Present
  <1>6. f = NULL \/ NotifierAt(h, f) # 0
    BY <1>1, <1>3, <1>4, InTheseTerms DEF StackData
  <1>7. /\ \/ /\ rest # {}
              /\ \E note : /\ note = Props(h)[CHOOSE k \in rest : \A j \in rest : k <= j].at
                           /\ due' = due \ {<<h, note>>}
                           /\ stack' = Append([stack EXCEPT ![Len(stack)].n = note],
                                              [at |-> "callback", t |-> h, n |-> note, left |-> 1])
           \/ /\ rest = {}
              /\ stack' = [stack EXCEPT ![Len(stack)] =
                             [at |-> "children", t |-> h, kids |-> ChildrenOf(h)]]
              /\ due' = due
        /\ hdr' = hdr /\ owner' = owner /\ links' = links /\ own' = own /\ wild' = wild
    BY <1>2, <1>3, <1>4, <1>5, <1>6 DEF Notify, Top
  <1>8. PICK s : s = hdr[h].prop
    OBVIOUS
  <1>9. PropsOK(s) /\ DOMAIN s \subseteq Nat \ {0} /\ s \in Seq(Property) /\ KidsIn(s) \in Lists \cup {NULL}
    BY <1>1, <1>5, <1>8, PropsAre DEF PropsOK
  <1>10. rest = {k \in DOMAIN s : s[k].type = "NOTIFIER" /\ "FREE" \in s[k].types
                                  /\ k > (IF f = NULL THEN 0 ELSE NoteAt(s, f))}
    <2>1. rest = {k \in DOMAIN s : s[k].type = "NOTIFIER" /\ "FREE" \in s[k].types
                                  /\ (f = NULL \/ k > NoteAt(s, f))}
      BY <1>4, <1>8, InTheseTerms DEF NotifiersAfter, FreeNotifiers, Places, Props
    <2>2. \A k \in DOMAIN s : k > 0
      BY <1>9
    <2> QED
      BY <2>1, <2>2
  <1>11. ASSUME NEW d \in due, d[1] = h
         PROVE  NoteAt(s, d[2]) \in rest /\ s[NoteAt(s, d[2])].at = d[2]
    <2>1. PICK g, a : g = d[2] /\ a = NoteAt(s, g)
      OBVIOUS
    <2>2. a # 0 /\ "FREE" \in s[a].types /\ (f # NULL => NoteAt(s, f) < a)
      <3>1. /\ NoteAt(hdr[d[1]].prop, d[2]) # 0
            /\ "FREE" \in hdr[d[1]].prop[NoteAt(hdr[d[1]].prop, d[2])].types
            /\ \A j \in DOMAIN stack : stack[j].t = d[1] /\ stack[j].at = "notify" /\ stack[j].n # NULL =>
                  NoteAt(hdr[d[1]].prop, stack[j].n) < NoteAt(hdr[d[1]].prop, d[2])
        BY <1>1 DEF DueData
      <3> QED
        BY <1>3, <1>4, <1>8, <1>11, <2>1, <3>1
    <2>3. a \in DOMAIN s /\ s[a].type = "NOTIFIER" /\ s[a].at = g
      BY <1>9, <2>1, <2>2, NoteAtIs
    <2>4. a > 0
      BY <1>9, <2>3
    <2>5. a > (IF f = NULL THEN 0 ELSE NoteAt(s, f))
      <3>1. CASE f = NULL
        BY <2>4, <3>1
      <3>2. CASE f # NULL
        <4>1. NoteAt(s, f) \in Nat
          BY <1>1, <1>5, <1>8, PropsAre
        <4> QED
          BY <1>9, <2>2, <2>3, <3>2, <4>1
      <3> QED
        BY <3>1, <3>2
    <2> QED
      BY <1>10, <2>1, <2>2, <2>3, <2>5
  <1>12. CASE rest # {}
    <2>1. PICK m : m \in rest /\ m = (CHOOSE k \in rest : \A j \in rest : k <= j) /\ \A j \in rest : m <= j
      BY <1>9, <1>10, <1>12, LeastNatural
    <2>2. PICK note : /\ note = s[m].at
                      /\ due' = due \ {<<h, note>>}
                      /\ stack' = Append([stack EXCEPT ![Len(stack)].n = note],
                                         [at |-> "callback", t |-> h, n |-> note, left |-> 1])
      BY <1>7, <1>8, <1>12, <2>1 DEF Props
    <2>3. m \in DOMAIN s /\ s[m].type = "NOTIFIER" /\ s[m] \in Property /\ m \in Nat \ {0}
      <3>1. m \in rest
        BY <2>1
      <3>2. m \in DOMAIN s /\ s[m].type = "NOTIFIER"
        BY <1>10, <3>1
      <3> QED
        BY <1>9, <3>2
    <2>4. note \in Notes /\ NoteAt(s, note) = m /\ m # 0
      BY <1>9, <2>2, <2>3, PropertyIs, NoteAtIs
    <2>5. ASSUME NEW d \in due, d[1] = h /\ d[2] # note PROVE NoteAt(s, note) < NoteAt(s, d[2])
      <3>1. PICK a : a = NoteAt(s, d[2]) /\ a \in rest /\ s[a].at = d[2]
        BY <1>11, <2>5
      <3>2. m <= a /\ m # a /\ a \in Nat
        BY <1>9, <1>10, <2>1, <2>2, <2>5, <3>1
      <3> QED
        BY <2>3, <2>4, <3>1, <3>2
    <2>6. PICK sv : sv = Append([stack EXCEPT ![Len(stack)].n = note],
                                [at |-> "callback", t |-> h, n |-> note, left |-> 1])
      OBVIOUS
    <2>7. /\ stack # <<>> /\ stack[Len(stack)].at = "notify" /\ stack[Len(stack)].t = h
          /\ NoteAt(hdr[h].prop, note) # 0
          /\ \A d \in due : d[1] = h /\ d[2] # note => NoteAt(hdr[h].prop, note) < NoteAt(hdr[h].prop, d[2])
      BY <1>2, <1>3, <1>4, <1>8, <2>4, <2>5
    <2>8. StackShape(sv) /\ StackData(hdr, sv) /\ DueData(hdr, sv, due \ {<<h, note>>})
      BY <1>1, <2>4, <2>6, <2>7, NextCalled
    <2>9. f # NULL => NoteAt(s, f) <= m
      <3>1. f # NULL => m > NoteAt(s, f)
        BY <1>10, <2>1
      <3>2. NoteAt(s, f) \in Nat
        BY <1>9, NoteAtNat
      <3> QED
        BY <2>3, <3>1, <3>2
    <2>10. OnlyDue(hdr, sv, due \ {<<h, note>>})
      <3>1. hdr[h].destroying
        BY <1>5 DEF Dying
      <3>2. PropsOK(hdr[h].prop)
        BY <1>8, <1>9
      <3>3. stack[Len(stack)].n # NULL => NoteAt(hdr[h].prop, stack[Len(stack)].n) <= NoteAt(hdr[h].prop, note)
        BY <1>2, <1>4, <1>8, <2>4, <2>9
      <3> QED
        BY <1>1, <2>4, <2>6, <2>7, <3>3, <3>1, <3>2, OnceCalled
    <2> QED
      BY <1>1, <1>7, <2>2, <2>6, <2>8, <2>10 DEF IInv, Good
  <1>13. CASE rest = {}
    <2>1. stack' = [stack EXCEPT ![Len(stack)] = [at |-> "children", t |-> h, kids |-> ChildrenOf(h)]] /\ due' = due
      BY <1>7, <1>13
    <2>2. ChildrenOf(h) = KidsIn(hdr[h].prop)
      BY <1>8, <1>9, InTheseTerms
    <2>3. PICK sv : sv = [stack EXCEPT ![Len(stack)] = [at |-> "children", t |-> h, kids |-> KidsIn(hdr[h].prop)]]
      OBVIOUS
    <2>4. \A d \in due : d[1] # h
      BY <1>11, <1>13
    <2>5. /\ stack # <<>> /\ stack[Len(stack)].at = "notify" /\ stack[Len(stack)].t = h
          /\ KidsIn(hdr[h].prop) \in Lists \cup {NULL}
      BY <1>2, <1>3, <1>4, <1>8, <1>9
    <2>6. StackShape(sv) /\ StackData(hdr, sv) /\ DueData(hdr, sv, due)
      BY <1>1, <2>3, <2>4, <2>5, Notified
    <2>7. OnlyDue(hdr, sv, due)
      BY <1>1, <1>5, <2>3, <2>5, OnceNotified
    <2> QED
      BY <1>1, <1>7, <2>1, <2>2, <2>3, <2>6, <2>7 DEF IInv, Good
  <1> QED
    BY <1>12, <1>13

LEMMA ReturnKeeps ==
    ASSUME IInv, Return
    PROVE  IInv'
  <1>1. /\ StackShape(stack) /\ StackData(hdr, stack) /\ DueData(hdr, stack, due)
        /\ OnlyDue(hdr, stack, due) /\ stack # <<>> /\ stack[Len(stack)].at = "callback"
    BY StackIs DEF IInv, Good, Return, Running, Top
  <1>2. /\ StackShape(Front(stack)) /\ StackData(hdr, Front(stack)) /\ DueData(hdr, Front(stack), due)
        /\ OnlyDue(hdr, Front(stack), due)
    BY <1>1, Returned, OnceReturned
  <1> QED
    BY <1>2 DEF IInv, Good, Return

\* The children of an object that is being destroyed.
LEMMA KidsOfTop ==
    ASSUME IInv, AtChildren
    PROVE  /\ stack # <<>> /\ stack[Len(stack)].at = "children" /\ Top = stack[Len(stack)]
           /\ Top.t \in Dying(hdr) /\ Top.t \in Hdr /\ Top.t \in Heads /\ hdr[Top.t] # NULL
           /\ PropsOK(hdr[Top.t].prop)
           /\ Top.kids = KidsIn(hdr[Top.t].prop) /\ Top.kids = ChildrenOf(Top.t)
           /\ Top.kids # NULL => Top.kids \in Lists /\ owner[Top.kids] # NULL
  <1>1. Tree(hdr, owner, links) /\ StackShape(stack) /\ StackData(hdr, stack)
    BY DEF IInv, Good
  <1>2. PICK f : f = Top
    OBVIOUS
  <1>3. stack # <<>> /\ f.at = "children" /\ f = stack[Len(stack)] /\ Len(stack) \in DOMAIN stack
    BY <1>1, <1>2, StackIs DEF AtChildren, Top
  <1>4. f.t \in Dying(hdr) /\ f.kids = KidsIn(hdr[f.t].prop)
    BY <1>1, <1>3 DEF StackData
  <1>5. f.t \in Hdr /\ f.t \in Heads /\ hdr[f.t] # NULL
    BY <1>4, Sorts DEF Dying
  <1>6. PropsOK(hdr[f.t].prop) /\ f.kids \in Lists \cup {NULL}
    BY <1>1, <1>4, <1>5, PropsAre
  <1>7. f.kids # NULL => f.kids \in Lists /\ owner[f.kids] # NULL
    BY <1>1, <1>4, <1>5, <1>6, Sorts DEF Tree, Owners
  <1>8. f.kids = ChildrenOf(f.t)
    BY <1>4, <1>6, InTheseTerms
  <1> QED
    BY <1>2, <1>3, <1>4, <1>5, <1>6, <1>7, <1>8

LEMMA FreeChildKeeps ==
    ASSUME IInv, FreeChild
    PROVE  IInv'
  <1>1. Tree(hdr, owner, links) /\ StackShape(stack) /\ Good(hdr, owner, links, stack, due, own) /\ wild = FALSE
    BY DEF IInv, Good
  <1>2. PICK k, h : k = Top.kids /\ h = ListTop(links, k)
    OBVIOUS
  <1>3. /\ k # NULL /\ links.next[k] # k /\ h = links.next[k]
        /\ Using({k, h} \cup DelTouches(links, h),
                 /\ links' = ListDel(links, h)
                 /\ hdr' = [hdr EXCEPT ![h].destroying = TRUE]
                 /\ stack' = IF hdr[h].destroying THEN stack
                             ELSE Append(stack, [at |-> "notify", t |-> h, n |-> NULL])
                 /\ UNCHANGED <<owner, notifiers, own, due, failures>>)
    BY <1>2 DEF FreeChild, ListEmpty, ListTop
  <1>4. /\ stack # <<>> /\ stack[Len(stack)].at = "children" /\ stack[Len(stack)].kids # NULL
        /\ k \in Lists /\ owner[k] # NULL
    BY <1>2, <1>3, KidsOfTop DEF FreeChild
  <1>5. h \in StableIn(hdr) /\ h \in Stable /\ ~hdr[h].destroying
    <2>1. Ring(links, k, NodesIn(hdr, k))
      BY <1>1, <1>4 DEF Tree, Rings
    <2>2. h \in NodesIn(hdr, k)
      BY <1>3, <2>1 DEF Ring
    <2>3. h \in StableIn(hdr)
      BY <1>3, <2>2 DEF NodesIn
    <2> QED
      BY <2>3, InTheseTerms DEF StableIn
  <1>6. \A a \in {k, h} \cup DelTouches(links, h) : InUse(a)
    BY <1>1, <1>3, <1>4, <1>5, MemoryInUse
  <1>7. /\ links' = ListDel(links, h)
        /\ hdr' = [hdr EXCEPT ![h].destroying = TRUE]
        /\ stack' = Append(stack, [at |-> "notify", t |-> h, n |-> NULL])
        /\ owner' = owner /\ own' = own /\ due' = due /\ wild' = wild
    BY <1>3, <1>5, <1>6 DEF Using
  <1>8. PICK sv : sv = Append(stack, [at |-> "notify", t |-> h, n |-> NULL])
    OBVIOUS
  <1>9. Good([hdr EXCEPT ![h].destroying = TRUE], owner, ListDel(links, h), sv, due, own)
    BY <1>1, <1>4, <1>5, <1>8, GoodPushed
  <1> QED
    BY <1>1, <1>7, <1>8, <1>9 DEF IInv

LEMMA FreeSelfKeeps ==
    ASSUME IInv, FreeSelf
    PROVE  IInv'
  <1>1. /\ Tree(hdr, owner, links) /\ StackShape(stack) /\ wild = FALSE
        /\ Good(hdr, owner, links, stack, due, own)
    BY DEF IInv, Good
  <1>2. PICK h, gone : h = Top.t /\ gone = {h} \cup ({ChildrenOf(h)} \ {NULL})
    OBVIOUS
  <1>3. /\ Top.kids # NULL => links.next[Top.kids] = Top.kids
        /\ Using({h},
             /\ own' = own - OwnBlocks(h)
             /\ owner' = OwnersWithout(owner, gone)
             /\ links' = LinksWithout(links, gone)
             /\ hdr' = [hdr EXCEPT ![h] = NULL]
             /\ stack' = Front(stack)
             /\ UNCHANGED <<notifiers, due, failures>>)
    BY <1>2 DEF FreeSelf, ListEmpty, OwnersWithout, LinksWithout
  <1>4. /\ stack # <<>> /\ stack[Len(stack)].at = "children" /\ stack[Len(stack)].t = h
        /\ h \in Hdr /\ h \in Heads /\ hdr[h] # NULL /\ PropsOK(hdr[h].prop)
        /\ Top.kids = KidsIn(hdr[h].prop) /\ ChildrenOf(h) = KidsIn(hdr[h].prop)
    BY <1>2, KidsOfTop DEF FreeSelf
  <1>5. InUse(h)
    BY <1>1, <1>4, MemoryInUse DEF Present
  <1>6. /\ own' = own - OwnBlocks(h)
        /\ owner' = OwnersWithout(owner, gone) /\ links' = LinksWithout(links, gone)
        /\ hdr' = [hdr EXCEPT ![h] = NULL] /\ stack' = Front(stack) /\ due' = due /\ wild' = wild
    BY <1>3, <1>5 DEF Using
  <1>7. OwnBlocks(h) = Cardinality(OwnedIn(hdr[h].prop))
    <2>1. PICK s : s = hdr[h].prop
      OBVIOUS
    <2>2. PICK n \in Nat : n = Len(s) /\ DOMAIN s = 1..n /\ \A k \in DOMAIN s : s[k].type = "LITERAL" => k = n
      BY <1>4, <2>1 DEF PropsOK
    <2>3. OwnPlaces(h) = OwnedIn(s)
      BY <2>1, InTheseTerms
    <2>4. ASSUME NEW k \in OwnedIn(s), NEW j \in 1..(k - 1) PROVE s[j].type # "LITERAL"
      <3>1. k \in 1..n
        BY <2>2 DEF OwnedIn
      <3>2. j \in 1..n /\ j # n
        BY <3>1
      <3> QED
        BY <2>2, <3>2
    <2>5. {k \in OwnedIn(s) : \A j \in 1..(k - 1) : s[j].type # "LITERAL"} = OwnedIn(s)
      BY <2>4
    <2> QED
      BY <2>1, <2>3, <2>5 DEF OwnBlocks, Props
  <1>8. PICK Q, M, m : /\ Q = OwnersWithout(owner, gone) /\ M = LinksWithout(links, gone)
                       /\ m = own - Cardinality(OwnedIn(hdr[h].prop))
    OBVIOUS
  <1>9. /\ KidsIn(hdr[h].prop) # NULL => links.next[KidsIn(hdr[h].prop)] = KidsIn(hdr[h].prop)
        /\ gone = {h} \cup ({KidsIn(hdr[h].prop)} \ {NULL})
    BY <1>2, <1>3, <1>4
  <1>10. Good([hdr EXCEPT ![h] = NULL], Q, M, Front(stack), due, own - Cardinality(OwnedIn(hdr[h].prop)))
    BY <1>1, <1>4, <1>8, <1>9, GoodFreed
  <1>11. own' = m /\ Good([hdr EXCEPT ![h] = NULL], Q, M, Front(stack), due, m)
    BY <1>6, <1>7, <1>8, <1>10
  <1> QED
    BY <1>1, <1>6, <1>8, <1>11 DEF IInv

\* An object has at most one property of a kind.
LEMMA OnlyOne ==
    ASSUME NEW h, PropsOK(hdr[h].prop)
    PROVE  AtMostOne(h, {"CHILDREN"}) /\ AtMostOne(h, {"LENGTH"}) /\ AtMostOne(h, {"NAME", "LITERAL"})
  <1> PICK s : s = hdr[h].prop
    OBVIOUS
  <1>1. ASSUME NEW types, \A j, k \in DOMAIN s : s[j].type \in types /\ s[k].type \in types => j = k
        PROVE  AtMostOne(h, types)
    <2>1. PICK X : X = {k \in DOMAIN s : s[k].type \in types}
      OBVIOUS
    <2>2. CASE X = {}
      <3>1. Cardinality(X) = 0
        BY <2>2, FS_EmptySet
      <3> QED
        BY <2>1, <3>1 DEF AtMostOne, Places, Props
    <2>3. ASSUME NEW i \in X PROVE AtMostOne(h, types)
      <3>1. X = {i}
        BY <1>1, <2>1
      <3>2. Cardinality(X) = 1
        BY <3>1, FS_Singleton
      <3> QED
        BY <2>1, <3>2 DEF AtMostOne, Places, Props
    <2> QED
      BY <2>2, <2>3
  <1>2. \A j, k \in DOMAIN s : SameKind(s[j], s[k]) => j = k
    BY DEF PropsOK
  <1>3. AtMostOne(h, {"CHILDREN"})
    BY <1>1, <1>2 DEF SameKind
  <1>4. AtMostOne(h, {"LENGTH"})
    BY <1>1, <1>2 DEF SameKind
  <1>5. AtMostOne(h, {"NAME", "LITERAL"})
    <2>1. \A j, k \in DOMAIN s :
             s[j].type \in {"NAME", "LITERAL"} /\ s[k].type \in {"NAME", "LITERAL"} => j = k
      BY <1>2 DEF SameKind
    <2> QED
      BY <1>1, <2>1
  <1> QED
    BY <1>3, <1>4, <1>5

LEMMA InitGood ==
    ASSUME Init
    PROVE  IInv
  <1>1. PICK p, s, r : /\ p = [type |-> "CHILDREN", at |-> RootKids] /\ s = <<p>>
                       /\ r = [prop |-> s, parent_child |-> NULL, destroying |-> FALSE]
    OBVIOUS
  <1>2. /\ hdr = [h \in Heads |-> IF h = Root THEN r ELSE NULL]
        /\ owner = [k \in Lists |-> IF k = RootKids THEN Root ELSE NULL]
        /\ links = [next |-> [n \in Node |-> IF n = RootKids THEN n ELSE NULL],
                    prev |-> [n \in Node |-> IF n = RootKids THEN n ELSE NULL]]
        /\ own = 0 /\ stack = <<>> /\ due = {} /\ wild = FALSE
    BY <1>1 DEF Init
  <1>3. p \in Property /\ p.type = "CHILDREN" /\ p.at = RootKids
    BY <1>1, Sorts DEF Property
  <1>4. s \in Seq(Property) /\ Len(s) = 1 /\ DOMAIN s = {1} /\ s[1] = p
    BY <1>1, <1>3
  <1>5. PropsOK(s)
    <2>1. \A k \in DOMAIN s : s[k].type = "LITERAL" => k = Len(s)
      BY <1>4
    <2>2. \A j, k \in DOMAIN s : SameKind(s[j], s[k]) => j = k
      BY <1>4
    <2> QED
      BY <1>4, <2>1, <2>2 DEF PropsOK
  <1>6. KidsIn(s) = RootKids
    BY <1>3, <1>4, <1>5, KidsIs
  <1>7. r \in Header /\ r # NULL /\ r.prop = s
    <2>1. [prop |-> s, parent_child |-> NULL, destroying |-> FALSE] \in Header
      BY <1>4 DEF Header
    <2> QED
      BY <1>1, <2>1, Sorts
  <1>8. hdr[Root] = r /\ \A h \in Hdr : hdr[h] = NULL
    BY <1>2, Sorts
  <1>9. StableIn(hdr) = {} /\ Dying(hdr) = {} /\ {x \in Hdr : hdr[x] # NULL} = {}
    BY <1>8 DEF StableIn, Dying
  <1>10. hdr \in [Heads -> Header \cup {NULL}] /\ owner \in [Lists -> Heads \cup {NULL}]
    BY <1>2, <1>7, Sorts
  <1>11. /\ links \in Links /\ links.next[RootKids] = RootKids /\ links.prev[RootKids] = RootKids
    BY <1>2, Sorts DEF Links
  <1>12. TreeType(hdr, owner, links)
    BY <1>5, <1>7, <1>8, <1>10, <1>11, Sorts DEF TreeType
  <1>13. \A k \in Lists : owner[k] # NULL => k = RootKids /\ owner[k] = Root
    BY <1>2
  <1>14. owner[RootKids] = Root /\ Root # NULL
    BY <1>2, Sorts
  <1>15. Owners(hdr, owner)
    <2>1. \A k \in Lists : owner[k] # NULL => hdr[owner[k]] # NULL /\ KidsIn(hdr[owner[k]].prop) = k
      BY <1>6, <1>7, <1>8, <1>13
    <2>2. \A h \in Heads : hdr[h] # NULL /\ KidsIn(hdr[h].prop) # NULL => owner[KidsIn(hdr[h].prop)] = h
      BY <1>6, <1>7, <1>8, <1>14, Sorts
    <2> QED
      BY <1>9, <2>1, <2>2 DEF Owners
  <1>16. Rings(hdr, owner, links)
    <2>1. NodesIn(hdr, RootKids) = {RootKids}
      BY <1>9 DEF NodesIn
    <2>2. Ring(links, RootKids, {RootKids})
      BY <1>11, Sorts DEF Ring
    <2> QED
      BY <1>13, <2>1, <2>2 DEF Rings
  <1>17. NoCycle(hdr, owner)
    BY <1>9 DEF NoCycle
  <1>18. StackShape(stack) /\ StackData(hdr, stack) /\ DueData(hdr, stack, due)
    <2>1. stack \in Seq(Frame) /\ DOMAIN stack = {}
      BY <1>2
    <2>2. StackShape(stack)
      BY <2>1 DEF StackShape
    <2>3. StackData(hdr, stack)
      BY <1>9, <2>1 DEF StackData
    <2>4. DueData(hdr, stack, due)
      BY <1>2 DEF DueData
    <2> QED
      BY <2>2, <2>3, <2>4
  <1>19. IsFiniteSet(Blocks(hdr)) /\ Cardinality(Blocks(hdr)) = 0
    <2>1. Blocks(hdr) = {}
      BY <1>9 DEF Blocks
    <2> QED
      BY <2>1, FS_EmptySet
  <1>20. OnlyDue(hdr, stack, due)
    BY <1>8 DEF OnlyDue
  <1> QED
    BY <1>2, <1>12, <1>15, <1>16, <1>17, <1>18, <1>19, <1>20 DEF IInv, Good, Tree

LEMMA TraversalsKeep ==
    ASSUME IInv, First \/ NextObject \/ UNCHANGED vars
    PROVE  IInv'
  <1>1. UNCHANGED <<hdr, owner, links, own, stack, due, wild>>
    BY DEF First, NextObject, vars
  <1> QED
    BY <1>1 DEF IInv

\* The tree is one at every moment, and the calls in progress find what they have
\* left: the inductive invariant.
THEOREM Invariance == Spec => []IInv
  <1>1. Init => IInv
    BY InitGood
  <1>2. IInv /\ [Next]_vars => IInv'
    <2> SUFFICES ASSUME IInv, [Next]_vars PROVE IInv'
      OBVIOUS
    <2>1. CASE Alloc
      BY <2>1, AllocKeeps
    <2>2. CASE Steal
      BY <2>2, StealKeeps
    <2>3. CASE Free
      BY <2>3, FreeKeeps
    <2>4. CASE AddNotifier
      BY <2>4, AddNotifierKeeps
    <2>5. CASE DelNotifier
      BY <2>5, DelNotifierKeeps
    <2>6. CASE SetName
      BY <2>6, SetNameKeeps
    <2>7. CASE Resize
      BY <2>7, ResizeKeeps
    <2>8. CASE Notify
      BY <2>8, NotifyKeeps
    <2>9. CASE Return
      BY <2>9, ReturnKeeps
    <2>10. CASE FreeChild
      BY <2>10, FreeChildKeeps
    <2>11. CASE FreeSelf
      BY <2>11, FreeSelfKeeps
    <2>12. CASE First \/ NextObject \/ UNCHANGED vars
      BY <2>12, TraversalsKeep
    <2> QED
      BY <2>1, <2>2, <2>3, <2>4, <2>5, <2>6, <2>7, <2>8, <2>9, <2>10, <2>11, <2>12 DEF Next
  <1> QED
    BY <1>1, <1>2, PTL DEF Spec

\* No call uses memory that has been freed, whatever callbacks do: what a call has
\* read before a callback is still so when it goes on after it.
THEOREM NeverWild == Spec => []NoUseAfterFree
  <1>1. IInv => NoUseAfterFree
    BY DEF IInv, NoUseAfterFree
  <1> QED
    BY <1>1, Invariance, PTL

\* What tal_check looks for, and that each object is in the list of its parent.
THEOREM Linked == Spec => []TreeIsLinked
  <1>1. IInv => TreeIsLinked
    <2> SUFFICES ASSUME IInv PROVE TreeIsLinked
      OBVIOUS
    <2>1. Tree(hdr, owner, links) /\ links \in Links
      BY DEF IInv, Good, Tree, TreeType
    <2>2. \A h \in Live \cup {Root} : h \in Heads /\ hdr[h] # NULL
      BY <2>1, Sorts DEF Live, Tree, TreeType
    <2>3. ASSUME NEW h \in Heads, hdr[h] # NULL PROVE ChildrenOf(h) = KidsIn(hdr[h].prop) /\ PropsOK(hdr[h].prop)
      BY <2>1, <2>3, InTheseTerms, PropsAre
    <2>4. ASSUME NEW k \in Lists, owner[k] # NULL
          PROVE  /\ InUse(owner[k]) /\ ChildrenOf(owner[k]) = k
                 /\ ListCheck(links, k) /\ Members(links, k) = NodesIn(hdr, k) \ {k}
      <3>1. owner[k] \in Heads /\ hdr[owner[k]] # NULL /\ KidsIn(hdr[owner[k]].prop) = k
        BY <2>1, <2>4 DEF Tree, TreeType, Owners
      <3>2. Ring(links, k, NodesIn(hdr, k))
        BY <2>1, <2>4 DEF Tree, Rings
      <3>3. ListCheck(links, k) /\ Members(links, k) = NodesIn(hdr, k) \ {k}
        BY <2>1, <3>2, RingIsWalked
      <3>4. ChildrenOf(owner[k]) = k
        BY <2>3, <3>1
      <3> QED
        BY <3>1, <3>3, <3>4 DEF InUse
    <2>5. ASSUME NEW h \in Live \cup {Root} PROVE CheckNode(hdr[h].parent_child, h)
      <3>1. h \in Heads /\ hdr[h] # NULL /\ ChildrenOf(h) = KidsIn(hdr[h].prop) /\ PropsOK(hdr[h].prop)
        BY <2>2, <2>3, <2>5
      <3>2. /\ AtMostOne(h, {"CHILDREN"}) /\ AtMostOne(h, {"LENGTH"}) /\ AtMostOne(h, {"NAME", "LITERAL"})
        BY <3>1, OnlyOne
      <3>3. ASSUME ChildrenOf(h) # NULL
            PROVE  /\ ListCheck(links, ChildrenOf(h))
                   /\ \A i \in Members(links, ChildrenOf(h)) : i \in Stable /\ hdr[i].parent_child = ChildrenOf(h)
        <4>1. PICK k : k = ChildrenOf(h)
          OBVIOUS
        <4>2. k \in Lists /\ owner[k] # NULL
          BY <2>1, <3>1, <3>3, <4>1, KidsIs, Sorts DEF Tree, Owners
        <4>3. ListCheck(links, k) /\ Members(links, k) = NodesIn(hdr, k) \ {k}
          BY <2>4, <4>2
        <4>4. \A i \in NodesIn(hdr, k) \ {k} : i \in Stable /\ hdr[i].parent_child = k
          BY InTheseTerms DEF NodesIn
        <4> QED
          BY <4>1, <4>3, <4>4
      <3> QED
        BY <3>2, <3>3 DEF CheckNode
    <2>6. ASSUME NEW h \in Stable
          PROVE  InUse(hdr[h].parent_child) /\ h \in Members(links, hdr[h].parent_child)
      <3>1. PICK k : k = hdr[h].parent_child
        OBVIOUS
      <3>2. h \in StableIn(hdr) /\ h \in Hdr
        BY InTheseTerms DEF StableIn
      <3>3. k \in Lists /\ owner[k] # NULL
        BY <2>1, <3>1, <3>2 DEF Tree, Owners
      <3>4. h \in NodesIn(hdr, k) /\ h # k
        BY <3>1, <3>2, <3>3, Sorts DEF NodesIn
      <3>5. Members(links, k) = NodesIn(hdr, k) \ {k}
        BY <2>4, <3>3
      <3>6. InUse(k)
        BY <2>1, <3>3, MemoryInUse
      <3> QED
        BY <3>1, <3>4, <3>5, <3>6
    <2> QED
      BY <2>4, <2>5, <2>6 DEF TreeIsLinked
  <1> QED
    BY <1>1, Invariance, PTL

\* Nothing is lost: above an object there is null_parent, or one that is being freed
\* and in one of the calls in progress; and each block of memory has its property.
THEOREM AllKept == Spec => []NothingLost
  <1>1. IInv => NothingLost
    <2> SUFFICES ASSUME IInv PROVE NothingLost
      OBVIOUS
    <2>1. Tree(hdr, owner, links) /\ StackData(hdr, stack) /\ own = Cardinality(Blocks(hdr))
      BY DEF IInv, Good
    <2>2. ASSUME NEW h \in Stable
          PROVE  Root \in Path(h) \/ \E k \in DOMAIN stack : stack[k].t \in Path(h)
      <3>1. h \in Present(hdr)
        BY Sorts DEF Stable, Live, Present
      <3>2. PICK x \in Path(h) : x \notin StableIn(hdr) /\ x \in Present(hdr)
        BY <2>1, <3>1, PathIs
      <3>3. CASE x = Root
        BY <3>2, <3>3
      <3>4. CASE x # Root
        <4>1. x \in Dying(hdr)
          BY <3>2, <3>4, Sorts DEF Present, StableIn, Dying
        <4>2. PICK j \in DOMAIN stack : stack[j].t = x
          BY <2>1, <4>1 DEF StackData
        <4> QED
          BY <3>2, <4>2
      <3> QED
        BY <3>3, <3>4
    <2>3. ASSUME NEW h \in Live \ Stable PROVE \E k \in DOMAIN stack : stack[k].t = h
      <3>1. h \in Dying(hdr)
        BY DEF Live, Stable, Dying
      <3> QED
        BY <2>1, <3>1 DEF StackData
    <2>4. Blocks(hdr) = UNION {{h} \X OwnPlaces(h) : h \in Live}
      <3>1. \A h : OwnPlaces(h) = OwnedIn(hdr[h].prop)
        BY InTheseTerms
      <3> QED
        BY <3>1 DEF Blocks, Live
    <2> QED
      BY <2>1, <2>2, <2>3, <2>4 DEF NothingLost
  <1> QED
    BY <1>1, Invariance, PTL

\* A destructor that has not been called is still a property of an object that has
\* not been freed, and none is left when the children of the object are freed.
THEOREM AllCalled == Spec => []DestructorsCalled
  <1>1. IInv => DestructorsCalled
    <2> SUFFICES ASSUME IInv PROVE DestructorsCalled
      OBVIOUS
    <2>1. DueData(hdr, stack, due)
      BY DEF IInv, Good
    <2>2. \A d \in due : d[1] \in Live /\ NotifierAt(d[1], d[2]) # 0
      BY <2>1, InTheseTerms DEF DueData, Live
    <2>3. \A d \in due, j \in DOMAIN stack : stack[j].at = "children" => d[1] # stack[j].t
      BY <2>1 DEF DueData
    <2>4. ASSUME NEW j \in DOMAIN stack, stack[j].at = "notify"
          PROVE  {Props(stack[j].t)[i].at : i \in NotifiersAfter(stack[j].t, stack[j].n)}
                    = {note \in Notes : <<stack[j].t, note>> \in due}
      <3>1. PICK h, f, s : h = stack[j].t /\ f = stack[j].n /\ s = hdr[h].prop
        OBVIOUS
      <3>2. OnlyDue(hdr, stack, due) /\ StackData(hdr, stack) /\ Tree(hdr, owner, links)
        BY DEF IInv, Good
      <3>3. h \in Hdr /\ h \in Heads /\ hdr[h] # NULL
        BY <2>4, <3>1, <3>2, Sorts DEF StackData, Dying
      <3>4. PropsOK(s)
        BY <3>1, <3>2, <3>3, PropsAre
      <3>5. NotifiersAfter(h, f) = {k \in DOMAIN s : s[k].type = "NOTIFIER" /\ "FREE" \in s[k].types
                                                    /\ (f = NULL \/ k > NoteAt(s, f))}
        BY <3>1, InTheseTerms DEF NotifiersAfter, FreeNotifiers, Places, Props
      <3>6. ASSUME NEW i \in NotifiersAfter(h, f) PROVE s[i].at \in Notes /\ <<h, s[i].at>> \in due
        <4>1. PICK note : note = s[i].at
          OBVIOUS
        <4>2. i \in DOMAIN s /\ s[i].type = "NOTIFIER" /\ s[i] \in Property
          BY <3>4, <3>5, <3>6 DEF PropsOK
        <4>3. note \in Notes /\ NoteAt(s, note) = i /\ i \in Nat \ {0}
          BY <3>4, <4>1, <4>2, PropertyIs, NoteAtIs DEF PropsOK
        <4>4. FreeNote(hdr[h].prop, note)
          BY <3>1, <3>5, <3>6, <4>3 DEF FreeNote
        <4>5. ASSUME <<h, note>> \notin due PROVE FALSE
          <5>1. f # NULL /\ NoteAt(s, note) <= NoteAt(s, f)
            BY <2>4, <3>1, <3>2, <3>3, <4>3, <4>4, <4>5 DEF OnlyDue
          <5>2. i > NoteAt(s, f) /\ NoteAt(s, f) \in Nat
            BY <3>4, <3>5, <3>6, <5>1, NoteAtNat
          <5> QED
            BY <4>3, <5>1, <5>2
        <4> QED
          BY <4>1, <4>3, <4>5
      <3>7. ASSUME NEW note \in Notes, <<h, note>> \in due
            PROVE  \E i \in NotifiersAfter(h, f) : s[i].at = note
        <4>1. PICK d : d = <<h, note>> /\ d[1] = h /\ d[2] = note /\ d \in due
          BY <3>7
        <4>2. /\ NoteAt(s, note) # 0 /\ "FREE" \in s[NoteAt(s, note)].types
              /\ f # NULL => NoteAt(s, f) < NoteAt(s, note)
          BY <2>1, <2>4, <3>1, <4>1 DEF DueData
        <4>3. PICK a \in Nat, b \in Nat : a = NoteAt(s, note) /\ b = NoteAt(s, f)
          BY <3>4, NoteAtNat
        <4>4. a \in DOMAIN s /\ s[a].type = "NOTIFIER" /\ s[a].at = note
          BY <3>4, <4>2, <4>3, NoteAtIs
        <4>5. a \in NotifiersAfter(h, f)
          BY <3>5, <4>2, <4>3, <4>4
        <4> QED
          BY <4>4, <4>5
      <3>8. {s[i].at : i \in NotifiersAfter(h, f)} = {note \in Notes : <<h, note>> \in due}
        BY <3>6, <3>7
      <3> QED
        BY <3>1, <3>8 DEF Props
    <2> QED
      BY <2>2, <2>3, <2>4 DEF DestructorsCalled
  <1> QED
    BY <1>1, Invariance, PTL

-----------------------------------------------------------------------------
(***************************************************************************)
(* Traversals.                                                             *)
(***************************************************************************)
\* A set that has with each object the parent; and the least such set with h.
Closed(H, O, T) == \A y \in T \cap StableIn(H) : ParentIn(H, O, y) \in T
PathIn(H, O, h) == {x \in Heads : \A T \in SUBSET Heads : h \in T /\ Closed(H, O, T) => x \in T}
BelowIn(H, O, r) == {h \in StableIn(H) : r \in PathIn(H, O, h) \ {h}}
ChildrenIn(H, O, y) == {d \in StableIn(H) : ParentIn(H, O, d) = y}

LEMMA PathFacts ==
    ASSUME NEW H, NEW O, NEW L, Tree(H, O, L), NEW h \in Present(H)
    PROVE  /\ h \in PathIn(H, O, h) /\ Closed(H, O, PathIn(H, O, h)) /\ PathIn(H, O, h) \subseteq Present(H)
           /\ \A T \in SUBSET Heads : h \in T /\ Closed(H, O, T) => PathIn(H, O, h) \subseteq T
  <1>1. \A x \in StableIn(H) : ParentIn(H, O, x) \in Present(H)
    BY ParentIsPresent
  <1>2. PICK P : P = PathIn(H, O, h)
    OBVIOUS
  <1>3. h \in Heads /\ Present(H) \in SUBSET Heads
    BY DEF Present
  <1>4. h \in P
    BY <1>2, <1>3 DEF PathIn
  <1>5. \A T \in SUBSET Heads : h \in T /\ Closed(H, O, T) => P \subseteq T
    BY <1>2 DEF PathIn
  <1>6. P \subseteq Present(H)
    <2>1. Closed(H, O, Present(H))
      BY <1>1 DEF Closed
    <2> QED
      BY <1>3, <1>5, <2>1
  <1>7. Closed(H, O, P)
    <2> SUFFICES ASSUME NEW y \in P, y \in StableIn(H) PROVE ParentIn(H, O, y) \in P
      BY DEF Closed
    <2>1. ParentIn(H, O, y) \in Heads
      BY <1>1, <1>3
    <2>2. ASSUME NEW T \in SUBSET Heads, h \in T /\ Closed(H, O, T) PROVE ParentIn(H, O, y) \in T
      <3>1. y \in T
        BY <1>5, <2>2
      <3> QED
        BY <2>2, <3>1 DEF Closed
    <2> QED
      BY <1>2, <2>1, <2>2 DEF PathIn
  <1> QED
    BY <1>2, <1>4, <1>5, <1>6, <1>7

LEMMA PathOver ==
    ASSUME NEW H, NEW O, NEW L, Tree(H, O, L), NEW h \in Present(H), NEW x \in PathIn(H, O, h)
    PROVE  x \in Present(H) /\ PathIn(H, O, x) \subseteq PathIn(H, O, h)
  <1>1. PICK P : P = PathIn(H, O, h)
    OBVIOUS
  <1>2. Closed(H, O, P) /\ P \subseteq Present(H)
    BY <1>1, PathFacts
  <1>3. x \in Present(H) /\ P \in SUBSET Heads /\ x \in P
    BY <1>1, <1>2 DEF Present
  <1>4. PathIn(H, O, x) \subseteq P
    BY <1>2, <1>3, PathFacts
  <1> QED
    BY <1>1, <1>3, <1>4

LEMMA PathEnd ==
    ASSUME NEW H, NEW O, NEW L, Tree(H, O, L), NEW h \in Present(H), h \notin StableIn(H)
    PROVE  PathIn(H, O, h) = {h}
  <1>1. {h} \in SUBSET Heads /\ h \in {h} /\ Closed(H, O, {h})
    BY DEF Closed, Present
  <1>2. PathIn(H, O, h) \subseteq {h}
    BY <1>1, PathFacts
  <1>3. h \in PathIn(H, O, h)
    BY PathFacts
  <1> QED
    BY <1>2, <1>3

\* An object is not above its parent.
LEMMA PathStep ==
    ASSUME NEW H, NEW O, NEW L, Tree(H, O, L), NEW h \in StableIn(H), NEW p, p = ParentIn(H, O, h)
    PROVE  /\ p \in Present(H) /\ h \in Present(H)
           /\ PathIn(H, O, h) = {h} \cup PathIn(H, O, p)
           /\ h \notin PathIn(H, O, p)
  <1>1. p \in Present(H) /\ h \in Present(H)
    BY ParentIsPresent, Sorts DEF StableIn, Present
  <1>2. PICK P, R : P = PathIn(H, O, h) /\ R = PathIn(H, O, p)
    OBVIOUS
  <1>3. h \in P /\ Closed(H, O, P) /\ P \subseteq Present(H)
    BY <1>1, <1>2, PathFacts
  <1>4. p \in R /\ Closed(H, O, R) /\ R \subseteq Present(H)
    BY <1>1, <1>2, PathFacts
  <1>5. p \in P
    BY <1>3 DEF Closed
  <1>6. R \subseteq P
    BY <1>1, <1>2, <1>5, PathOver
  <1>7. P \subseteq {h} \cup R
    <2>1. Closed(H, O, {h} \cup R)
      BY <1>4 DEF Closed
    <2>2. {h} \cup R \in SUBSET Heads /\ h \in {h} \cup R
      BY <1>1, <1>4 DEF Present
    <2> QED
      BY <1>1, <1>2, <2>1, <2>2, PathFacts
  <1>8. h \notin R
    <2> SUFFICES ASSUME h \in R PROVE FALSE
      OBVIOUS
    <2>1. PICK T : T = {y \in R : h \in PathIn(H, O, y)}
      OBVIOUS
    <2>2. ASSUME NEW y \in T PROVE y \in StableIn(H) /\ ParentIn(H, O, y) \in T
      <3>1. y \in R /\ h \in PathIn(H, O, y) /\ y \in Present(H)
        BY <1>4, <2>1
      <3>2. y \in StableIn(H)
        <4>1. CASE y \notin StableIn(H)
          <5>1. PathIn(H, O, y) = {y}
            BY <3>1, <4>1, PathEnd
          <5> QED
            BY <3>1, <5>1
        <4> QED
          BY <4>1
      <3>3. PICK q : q = ParentIn(H, O, y)
        OBVIOUS
      <3>4. q \in R /\ q \in Present(H)
        BY <1>4, <3>1, <3>2, <3>3 DEF Closed
      <3>5. h \in PathIn(H, O, q)
        <4>1. CASE y = h
          BY <1>2, <3>3, <4>1
        <4>2. CASE y # h
          <5>1. PICK Y, Z : Y = PathIn(H, O, y) /\ Z = PathIn(H, O, q)
            OBVIOUS
          <5>2. q \in Z /\ Closed(H, O, Z) /\ Z \subseteq Present(H)
            BY <3>4, <5>1, PathFacts
          <5>3. Closed(H, O, {y} \cup Z)
            BY <3>3, <5>2 DEF Closed
          <5>4. {y} \cup Z \in SUBSET Heads /\ y \in {y} \cup Z
            BY <3>1, <5>2 DEF Present
          <5>5. Y \subseteq {y} \cup Z
            BY <3>1, <5>1, <5>3, <5>4, PathFacts
          <5> QED
            BY <3>1, <4>2, <5>1, <5>5
        <4> QED
          BY <4>1, <4>2
      <3> QED
        BY <2>1, <3>2, <3>3, <3>4, <3>5
    <2>3. p \in T
      BY <1>2, <1>4, <2>1
    <2>4. T \in SUBSET StableIn(H) /\ \A y \in T : ParentIn(H, O, y) \in T
      BY <2>2
    <2> QED
      BY <2>3, <2>4 DEF Tree, NoCycle
  <1> QED
    BY <1>1, <1>2, <1>3, <1>6, <1>7, <1>8

LEMMA BelowFacts ==
    ASSUME NEW H, NEW O, NEW L, Tree(H, O, L), NEW r \in Present(H)
    PROVE  /\ \A h \in StableIn(H) : /\ h \in BelowIn(H, O, r) <=> r \in PathIn(H, O, ParentIn(H, O, h))
                                     /\ h \in BelowIn(H, O, r) <=> \/ ParentIn(H, O, h) = r
                                                                   \/ ParentIn(H, O, h) \in BelowIn(H, O, r)
           /\ PathIn(H, O, r) \cap BelowIn(H, O, r) = {}
           /\ BelowIn(H, O, r) \subseteq StableIn(H) /\ r \notin BelowIn(H, O, r)
  <1>1. PICK B : B = BelowIn(H, O, r)
    OBVIOUS
  <1>2. r \notin B /\ B \subseteq StableIn(H)
    BY <1>1 DEF BelowIn
  <1>3. ASSUME NEW h \in StableIn(H) PROVE h \in B <=> r \in PathIn(H, O, ParentIn(H, O, h))
    <2>1. PICK p : p = ParentIn(H, O, h)
      OBVIOUS
    <2>2. PathIn(H, O, h) = {h} \cup PathIn(H, O, p) /\ h \notin PathIn(H, O, p)
      BY <2>1, PathStep
    <2> QED
      BY <1>1, <2>1, <2>2 DEF BelowIn
  <1>4. ASSUME NEW h \in StableIn(H) PROVE h \in B <=> ParentIn(H, O, h) = r \/ ParentIn(H, O, h) \in B
    <2>1. PICK p : p = ParentIn(H, O, h)
      OBVIOUS
    <2>2. p \in Present(H)
      BY <2>1, PathStep
    <2>3. CASE p = r
      BY <1>3, <2>1, <2>2, <2>3, PathFacts
    <2>4. CASE p # r /\ p \in StableIn(H)
      <3>1. p \in B <=> r \in PathIn(H, O, p)
        BY <1>1, <2>4 DEF BelowIn
      <3> QED
        BY <1>3, <2>1, <2>4, <3>1
    <2>5. CASE p # r /\ p \notin StableIn(H)
      <3>1. PathIn(H, O, p) = {p}
        BY <2>2, <2>5, PathEnd
      <3> QED
        BY <1>2, <1>3, <2>1, <2>5, <3>1
    <2> QED
      BY <2>3, <2>4, <2>5
  <1>5. ASSUME NEW y \in PathIn(H, O, r), y \in B PROVE FALSE
    <2>1. r \in PathIn(H, O, y) /\ y # r
      BY <1>1, <1>5 DEF BelowIn
    <2>2. r \in StableIn(H)
      <3>1. CASE r \notin StableIn(H)
        <4>1. PathIn(H, O, r) = {r}
          BY <3>1, PathEnd
        <4> QED
          BY <1>5, <2>1, <4>1
      <3> QED
        BY <3>1
    <2>3. PICK q : q = ParentIn(H, O, r)
      OBVIOUS
    <2>4. PathIn(H, O, r) = {r} \cup PathIn(H, O, q) /\ r \notin PathIn(H, O, q) /\ q \in Present(H)
      BY <2>2, <2>3, PathStep
    <2>5. y \in PathIn(H, O, q)
      BY <1>5, <2>1, <2>4
    <2>6. PathIn(H, O, y) \subseteq PathIn(H, O, q)
      BY <2>4, <2>5, PathOver
    <2> QED
      BY <2>1, <2>4, <2>6
  <1> QED
    BY <1>1, <1>2, <1>3, <1>4, <1>5

\* The children of an object are the nodes of its list.
LEMMA ChildrenAre ==
    ASSUME NEW H, NEW O, NEW L, Tree(H, O, L), NEW y \in Present(H), NEW k, k = KidsIn(H[y].prop)
    PROVE  /\ k = NULL => ChildrenIn(H, O, y) = {}
           /\ k # NULL => /\ k \in Lists /\ k \notin StableIn(H) /\ O[k] = y
                          /\ NodesIn(H, k) = {k} \cup ChildrenIn(H, O, y)
                          /\ Ring(L, k, NodesIn(H, k))
           /\ \A d \in ChildrenIn(H, O, y) : H[d].parent_child = k
  <1>1. y \in Heads /\ H[y] # NULL
    BY DEF Present
  <1>2. PropsOK(H[y].prop) /\ k \in Lists \cup {NULL}
    BY <1>1, PropsAre
  <1>3. ASSUME NEW d \in ChildrenIn(H, O, y) PROVE d \in StableIn(H) /\ H[d].parent_child = k /\ k # NULL
    <2>1. PICK j : j = H[d].parent_child
      OBVIOUS
    <2>2. d \in StableIn(H) /\ O[j] = y
      BY <2>1 DEF ChildrenIn, ParentIn
    <2>3. j \in Lists /\ O[j] # NULL
      BY <2>1, <2>2 DEF Tree, Owners
    <2>4. KidsIn(H[O[j]].prop) = j
      BY <2>3 DEF Tree, Owners
    <2> QED
      BY <2>1, <2>2, <2>3, <2>4, Sorts
  <1>4. ASSUME k # NULL
        PROVE  /\ k \in Lists /\ k \notin StableIn(H) /\ O[k] = y
               /\ NodesIn(H, k) = {k} \cup ChildrenIn(H, O, y)
               /\ Ring(L, k, NodesIn(H, k))
    <2>1. O[k] = y /\ k \in Lists
      BY <1>1, <1>2, <1>4 DEF Tree, Owners
    <2>2. k \notin StableIn(H) /\ y # NULL
      BY <1>1, <2>1, Sorts DEF StableIn
    <2>3. Ring(L, k, NodesIn(H, k))
      BY <2>1, <2>2 DEF Tree, Rings
    <2>4. \A d \in StableIn(H) : H[d].parent_child = k => d \in ChildrenIn(H, O, y)
      BY <2>1 DEF ChildrenIn, ParentIn
    <2>5. NodesIn(H, k) = {k} \cup ChildrenIn(H, O, y)
      BY <1>3, <2>4 DEF NodesIn
    <2> QED
      BY <2>1, <2>2, <2>3, <2>5
  <1> QED
    BY <1>3, <1>4

\* The list that an object is in has the children of its parent.
LEMMA SiblingsAre ==
    ASSUME NEW H, NEW O, NEW L, Tree(H, O, L), NEW x \in StableIn(H),
           NEW k, k = H[x].parent_child, NEW y, y = ParentIn(H, O, x)
    PROVE  /\ y \in Present(H) /\ k \notin StableIn(H) /\ x \in ChildrenIn(H, O, y)
           /\ Ring(L, k, {k} \cup ChildrenIn(H, O, y))
           /\ \A d \in ChildrenIn(H, O, y) : H[d].parent_child = k
  <1>1. y \in Present(H) /\ k \in Lists
    BY ParentIsPresent
  <1>2. x \in ChildrenIn(H, O, y)
    BY DEF ChildrenIn
  <1>3. PICK j : j = KidsIn(H[y].prop)
    OBVIOUS
  <1>4. k = j
    BY <1>1, <1>2, <1>3, ChildrenAre
  <1>5. j # NULL
    BY <1>1, <1>4, Sorts
  <1>6. j \notin StableIn(H) /\ NodesIn(H, j) = {j} \cup ChildrenIn(H, O, y) /\ Ring(L, j, NodesIn(H, j))
    BY <1>1, <1>3, <1>5, ChildrenAre
  <1>7. \A d \in ChildrenIn(H, O, y) : H[d].parent_child = j
    BY <1>1, <1>3, ChildrenAre
  <1> QED
    BY <1>1, <1>2, <1>4, <1>6, <1>7

\* The neighbours of an object.
LEMMA NeighboursAre ==
    ASSUME NEW H, NEW O, NEW L, Tree(H, O, L), NEW x \in StableIn(H)
    PROVE  /\ L.next[x] # x
           /\ L.next[x] \in StableIn(H) => /\ L.prev[L.next[x]] = x
                                           /\ L.next[x] \in ChildrenIn(H, O, ParentIn(H, O, x))
           /\ L.next[x] # H[x].parent_child => L.next[x] \in StableIn(H)
           /\ L.next[x] \notin StableIn(H) => L.next[x] = H[x].parent_child
  <1>1. PICK k, y : k = H[x].parent_child /\ y = ParentIn(H, O, x)
    OBVIOUS
  <1>2. PICK C : C = ChildrenIn(H, O, y)
    OBVIOUS
  <1>3. k \notin StableIn(H) /\ x \in C /\ Ring(L, k, {k} \cup C)
    BY <1>1, <1>2, SiblingsAre
  <1>4. C \subseteq StableIn(H)
    BY <1>2 DEF ChildrenIn
  <1>5. x \in ({k} \cup C) \ {k}
    BY <1>3
  <1>6. L.next[x] # x
    BY <1>3, <1>5, RingTop
  <1>7. L.next[x] \in {k} \cup C /\ L.prev[L.next[x]] = x
    BY <1>3 DEF Ring
  <1> QED
    BY <1>1, <1>2, <1>3, <1>4, <1>6, <1>7

\* A traversal that has come to the last child has seen the others.
LEMMA AllSeen ==
    ASSUME NEW H, NEW O, NEW L, Tree(H, O, L), NEW z \in StableIn(H),
           L.next[z] = H[z].parent_child, NEW S, z \in S,
           \A y \in S : L.prev[y] \in StableIn(H) => L.prev[y] \in S
    PROVE  ChildrenIn(H, O, ParentIn(H, O, z)) \subseteq S
  <1>1. PICK k, y : k = H[z].parent_child /\ y = ParentIn(H, O, z)
    OBVIOUS
  <1>2. PICK C : C = ChildrenIn(H, O, y)
    OBVIOUS
  <1>3. k \notin StableIn(H) /\ z \in C /\ Ring(L, k, {k} \cup C)
    BY <1>1, <1>2, SiblingsAre
  <1>4. C \subseteq StableIn(H)
    BY <1>2 DEF ChildrenIn
  <1>5. PICK T, N : T = {k} \cup (S \cap C) /\ N = {k} \cup C
    OBVIOUS
  <1>6. Ring(L, k, N) /\ T \in SUBSET N /\ k \in T
    BY <1>3, <1>5
  <1>7. L.prev[k] = z
    BY <1>1, <1>3, <1>5, <1>6 DEF Ring
  <1>8. ASSUME NEW n \in T PROVE L.prev[n] \in T
    <2>1. CASE n = k
      BY <1>3, <1>5, <1>7, <2>1
    <2>2. CASE n \in S \cap C
      <3>1. L.prev[n] \in N
        BY <1>5, <1>6, <2>2 DEF Ring
      <3>2. L.prev[n] \in C => L.prev[n] \in S
        BY <1>4, <2>2
      <3> QED
        BY <1>5, <3>1, <3>2
    <2> QED
      BY <1>5, <2>1, <2>2
  <1>9. T = N
    BY <1>6, <1>8, Backwards
  <1>10. C \subseteq S
    BY <1>3, <1>4, <1>5, <1>9
  <1> QED
    BY <1>1, <1>2, <1>10

\* tal_first: the first child is in front of the others.
LEMMA FirstIs ==
    ASSUME NEW H, NEW O, NEW L, Tree(H, O, L), NEW y \in Present(H), NEW k, k = KidsIn(H[y].prop)
    PROVE  /\ k = NULL \/ L.next[k] = k => ChildrenIn(H, O, y) = {}
           /\ ~(k = NULL \/ L.next[k] = k) => /\ L.next[k] \in ChildrenIn(H, O, y)
                                              /\ L.prev[L.next[k]] \notin StableIn(H)
  <1>1. PICK C : C = ChildrenIn(H, O, y)
    OBVIOUS
  <1>2. k = NULL => C = {}
    BY <1>1, ChildrenAre
  <1>3. ASSUME k # NULL
        PROVE  /\ L.next[k] = k => C = {}
               /\ L.next[k] # k => L.next[k] \in C /\ L.prev[L.next[k]] \notin StableIn(H)
    <2>1. k \notin StableIn(H) /\ NodesIn(H, k) = {k} \cup C /\ Ring(L, k, NodesIn(H, k))
      BY <1>1, <1>3, ChildrenAre
    <2>2. C \subseteq StableIn(H)
      BY <1>1 DEF ChildrenIn
    <2>3. PICK N : N = {k} \cup C
      OBVIOUS
    <2>4. Ring(L, k, N)
      BY <2>1, <2>3
    <2>5. L.next[k] \in N /\ (L.next[k] = k <=> N = {k}) /\ L.prev[L.next[k]] = k
      BY <2>4, RingTop DEF Ring
    <2> QED
      BY <2>1, <2>2, <2>3, <2>5
  <1> QED
    BY <1>1, <1>2, <1>3

\* What a traversal from r that has come to a has seen when the tree has stayed as
\* it was: all that is before a in the order of tal_first and tal_next.
Seen(H, O, L, r, a, S) ==
    /\ a \in S /\ S \subseteq BelowIn(H, O, r)
    /\ \A y \in S : ParentIn(H, O, y) \in S \cup {r}
    /\ \A y \in S : L.prev[y] \in StableIn(H) => L.prev[y] \in S
    /\ \A y \in S : y \notin PathIn(H, O, a) => ChildrenIn(H, O, y) \subseteq S
    /\ S \cap ChildrenIn(H, O, a) = {}
    /\ \A y \in PathIn(H, O, a) \cap BelowIn(H, O, r) : L.next[y] \notin S

\* The way up from a with a last child at each step ends at x.
Upwards(H, O, L, r, a, x, Q) ==
    /\ x \in PathIn(H, O, a) /\ r \in PathIn(H, O, x)
    /\ Q \subseteq PathIn(H, O, a) \cap BelowIn(H, O, r) /\ a \in Q \cup {x}
    /\ \A y \in Q : L.next[y] = H[y].parent_child /\ ParentIn(H, O, y) \in Q \cup {x}

LEMMA NotItsChild ==
    ASSUME NEW H, NEW O, NEW L, Tree(H, O, L), NEW x \in StableIn(H)
    PROVE  x \notin ChildrenIn(H, O, x)
  <1>1. x \notin PathIn(H, O, ParentIn(H, O, x)) /\ ParentIn(H, O, x) \in Present(H)
    BY PathStep
  <1>2. ParentIn(H, O, x) \in PathIn(H, O, ParentIn(H, O, x))
    BY <1>1, PathFacts
  <1> QED
    BY <1>1, <1>2 DEF ChildrenIn

\* What is above a and below r has been seen.
LEMMA PathSeen ==
    ASSUME NEW H, NEW O, NEW L, Tree(H, O, L), NEW r \in Present(H), NEW a, NEW S, Seen(H, O, L, r, a, S)
    PROVE  /\ a \in StableIn(H) /\ a \in Present(H) /\ r \in PathIn(H, O, a)
           /\ PathIn(H, O, a) \cap BelowIn(H, O, r) \subseteq S
  <1>1. a \in BelowIn(H, O, r) /\ a \in S /\ S \subseteq BelowIn(H, O, r)
    BY DEF Seen
  <1>2. a \in StableIn(H) /\ r \in PathIn(H, O, a)
    BY <1>1 DEF BelowIn
  <1>3. a \in Present(H)
    BY <1>2, PathStep
  <1>4. PICK R : R = PathIn(H, O, r)
    OBVIOUS
  <1>5. r \in R /\ Closed(H, O, R) /\ R \subseteq Present(H) /\ R \cap BelowIn(H, O, r) = {}
    BY <1>4, PathFacts, BelowFacts
  <1>6. S \subseteq StableIn(H) /\ S \subseteq Heads
    BY <1>1, Sorts DEF BelowIn, StableIn
  <1>7. Closed(H, O, S \cup R)
    BY <1>5 DEF Seen, Closed
  <1>8. S \cup R \in SUBSET Heads /\ a \in S \cup R
    BY <1>1, <1>5, <1>6 DEF Present
  <1>9. PathIn(H, O, a) \subseteq S \cup R
    BY <1>3, <1>7, <1>8, PathFacts
  <1> QED
    BY <1>2, <1>3, <1>5, <1>9

\* Everything below what has been climbed over has been seen.
LEMMA Climbed ==
    ASSUME NEW H, NEW O, NEW L, Tree(H, O, L), NEW r \in Present(H), NEW a, NEW S, Seen(H, O, L, r, a, S),
           ChildrenIn(H, O, a) = {}, NEW x, NEW Q, Upwards(H, O, L, r, a, x, Q)
    PROVE  /\ x \in Present(H)
           /\ \A y \in PathIn(H, O, a) : y \in PathIn(H, O, x) \ {x} \/ ChildrenIn(H, O, y) \subseteq S
  <1>1. /\ a \in StableIn(H) /\ a \in Present(H)
        /\ PathIn(H, O, a) \cap BelowIn(H, O, r) \subseteq S
    BY PathSeen
  <1>2. PICK P : P = PathIn(H, O, a)
    OBVIOUS
  <1>3. P \subseteq Present(H) /\ Closed(H, O, P) /\ x \in P /\ Q \subseteq P /\ Q \subseteq S /\ a \in Q \cup {x}
    BY <1>1, <1>2, PathFacts DEF Upwards
  <1>4. x \in Present(H)
    BY <1>3
  <1>5. PICK Z : Z = PathIn(H, O, x) \ {x}
    OBVIOUS
  <1>6. Closed(H, O, Z) /\ Z \subseteq Present(H) /\ (x \in StableIn(H) => ParentIn(H, O, x) \in Z)
    <2>1. CASE x \in StableIn(H)
      <3>1. PICK p : p = ParentIn(H, O, x)
        OBVIOUS
      <3>2. p \in Present(H) /\ Z = PathIn(H, O, p)
        BY <1>5, <2>1, <3>1, PathStep
      <3>3. p \in Z /\ Closed(H, O, Z) /\ Z \subseteq Present(H)
        BY <3>2, PathFacts
      <3> QED
        BY <3>1, <3>3
    <2>2. CASE x \notin StableIn(H)
      <3>1. Z = {}
        BY <1>4, <1>5, <2>2, PathEnd
      <3> QED
        BY <2>2, <3>1 DEF Closed
    <2> QED
      BY <2>1, <2>2
  <1>7. PICK D : D = {y \in Q \cup {x} : ChildrenIn(H, O, y) \subseteq S}
    OBVIOUS
  <1>8. a \in D /\ D \subseteq Present(H)
    BY <1>3, <1>4, <1>7
  <1>9. ASSUME NEW y \in D, y # x PROVE ParentIn(H, O, y) \in D
    <2>1. y \in Q /\ L.next[y] = H[y].parent_child /\ ParentIn(H, O, y) \in Q \cup {x}
      BY <1>7, <1>9 DEF Upwards
    <2>2. y \in S /\ y \in StableIn(H)
      BY <1>3, <2>1 DEF Seen, BelowIn
    <2>3. \A z \in S : L.prev[z] \in StableIn(H) => L.prev[z] \in S
      BY DEF Seen
    <2>4. ChildrenIn(H, O, ParentIn(H, O, y)) \subseteq S
      BY <2>1, <2>2, <2>3, AllSeen
    <2> QED
      BY <1>7, <2>1, <2>4
  <1>10. Closed(H, O, D \cup Z)
    BY <1>6, <1>9 DEF Closed
  <1>11. D \cup Z \in SUBSET Heads /\ a \in D \cup Z
    BY <1>6, <1>8 DEF Present
  <1>12. P \subseteq D \cup Z
    BY <1>1, <1>2, <1>10, <1>11, PathFacts
  <1> QED
    BY <1>2, <1>4, <1>5, <1>7, <1>12

LEMMA SeenFirst ==
    ASSUME NEW H, NEW O, NEW L, Tree(H, O, L), NEW r \in Present(H),
           NEW c \in ChildrenIn(H, O, r), L.prev[c] \notin StableIn(H)
    PROVE  c \in BelowIn(H, O, r) /\ Seen(H, O, L, r, c, {c})
  <1>1. c \in StableIn(H) /\ ParentIn(H, O, c) = r
    BY DEF ChildrenIn
  <1>2. PICK R, B : R = PathIn(H, O, r) /\ B = BelowIn(H, O, r)
    OBVIOUS
  <1>3. c \in B /\ R \cap B = {}
    BY <1>1, <1>2, BelowFacts
  <1>4. PathIn(H, O, c) = {c} \cup R
    BY <1>1, <1>2, PathStep
  <1>5. L.next[c] # c
    BY <1>1, NeighboursAre
  <1>6. c \notin ChildrenIn(H, O, c)
    BY <1>1, NotItsChild
  <1> QED
    BY <1>1, <1>2, <1>3, <1>4, <1>5, <1>6 DEF Seen

LEMMA SeenDown ==
    ASSUME NEW H, NEW O, NEW L, Tree(H, O, L), NEW r \in Present(H), NEW a, NEW S, Seen(H, O, L, r, a, S),
           NEW c \in ChildrenIn(H, O, a), L.prev[c] \notin StableIn(H)
    PROVE  c \notin S /\ c \in BelowIn(H, O, r) /\ Seen(H, O, L, r, c, S \cup {c})
  <1>1. c \in StableIn(H) /\ ParentIn(H, O, c) = a
    BY DEF ChildrenIn
  <1>2. PICK P, B, C : P = PathIn(H, O, a) /\ B = BelowIn(H, O, r) /\ C = ChildrenIn(H, O, a)
    OBVIOUS
  <1>3. /\ a \in S /\ S \subseteq B /\ S \cap C = {}
        /\ \A y \in S : ParentIn(H, O, y) \in S \cup {r}
        /\ \A y \in S : L.prev[y] \in StableIn(H) => L.prev[y] \in S
        /\ \A y \in S : y \notin P => ChildrenIn(H, O, y) \subseteq S
        /\ \A y \in P \cap B : L.next[y] \notin S
    BY <1>2 DEF Seen
  <1>4. c \in B /\ c \notin S /\ B \subseteq StableIn(H) /\ r \notin B
    BY <1>1, <1>2, <1>3, BelowFacts
  <1>5. PathIn(H, O, c) = {c} \cup P
    BY <1>1, <1>2, PathStep
  <1>6. \A y \in S \cup {c} : ParentIn(H, O, y) \in S \cup {c} \cup {r}
    BY <1>1, <1>3
  <1>7. \A y \in S \cup {c} : y \notin {c} \cup P => ChildrenIn(H, O, y) \subseteq S \cup {c}
    BY <1>3
  <1>8. (S \cup {c}) \cap ChildrenIn(H, O, c) = {}
    <2>1. c \notin ChildrenIn(H, O, c)
      BY <1>1, NotItsChild
    <2>2. ASSUME NEW d \in S, d \in ChildrenIn(H, O, c) PROVE FALSE
      <3>1. ParentIn(H, O, d) = c
        BY <2>2 DEF ChildrenIn
      <3> QED
        BY <1>3, <1>4, <3>1
    <2> QED
      BY <2>1, <2>2
  <1>9. ASSUME NEW y \in ({c} \cup P) \cap B PROVE L.next[y] \notin S \cup {c}
    <2>1. y \in StableIn(H)
      BY <1>4, <1>9
    <2>2. L.next[y] # y /\ (L.next[y] \in StableIn(H) => L.prev[L.next[y]] = y)
      BY <2>1, NeighboursAre
    <2>3. CASE y = c
      <3>1. L.next[c] \in StableIn(H) => L.next[c] \in C
        BY <1>1, <1>2, NeighboursAre
      <3> QED
        BY <1>3, <1>4, <2>2, <2>3, <3>1
    <2>4. CASE y \in P
      <3>1. L.next[y] \notin S
        BY <1>3, <1>9, <2>4
      <3>2. L.next[y] # c
        BY <1>1, <2>1, <2>2
      <3> QED
        BY <3>1, <3>2
    <2> QED
      BY <1>9, <2>3, <2>4
  <1>10. PICK U : U = S \cup {c}
    OBVIOUS
  <1>11. /\ c \in U /\ U \subseteq B
         /\ \A y \in U : ParentIn(H, O, y) \in U \cup {r}
         /\ \A y \in U : L.prev[y] \in StableIn(H) => L.prev[y] \in U
         /\ \A y \in U : y \notin PathIn(H, O, c) => ChildrenIn(H, O, y) \subseteq U
         /\ U \cap ChildrenIn(H, O, c) = {}
         /\ \A y \in PathIn(H, O, c) \cap B : L.next[y] \notin U
    BY <1>3, <1>4, <1>5, <1>6, <1>7, <1>8, <1>9, <1>10
  <1>12. Seen(H, O, L, r, c, U)
    BY <1>2, <1>11 DEF Seen
  <1> QED
    BY <1>2, <1>4, <1>10, <1>12

LEMMA SeenOn ==
    ASSUME NEW H, NEW O, NEW L, Tree(H, O, L), NEW r \in Present(H), NEW a, NEW S, Seen(H, O, L, r, a, S),
           ChildrenIn(H, O, a) = {}, NEW x, NEW Q, Upwards(H, O, L, r, a, x, Q),
           x # r, L.next[x] # H[x].parent_child, NEW n, n = L.next[x]
    PROVE  n \notin S /\ n \in BelowIn(H, O, r) /\ Seen(H, O, L, r, n, S \cup {n})
  <1>1. PICK P, B : P = PathIn(H, O, a) /\ B = BelowIn(H, O, r)
    OBVIOUS
  <1>2. /\ a \in S /\ S \subseteq B
        /\ \A y \in S : ParentIn(H, O, y) \in S \cup {r}
        /\ \A y \in S : L.prev[y] \in StableIn(H) => L.prev[y] \in S
        /\ \A y \in S : y \notin P => ChildrenIn(H, O, y) \subseteq S
        /\ \A y \in P \cap B : L.next[y] \notin S
    BY <1>1 DEF Seen
  <1>3. a \in Present(H) /\ P \cap B \subseteq S
    BY <1>1, PathSeen
  <1>4. x \in P /\ r \in PathIn(H, O, x) /\ x \in Present(H)
    BY <1>1, Climbed DEF Upwards
  <1>5. x \in StableIn(H)
    <2>1. CASE x \notin StableIn(H)
      <3>1. PathIn(H, O, x) = {x}
        BY <1>4, <2>1, PathEnd
      <3> QED
        BY <1>4, <3>1
    <2> QED
      BY <2>1
  <1>6. x \in B /\ x \in S /\ n \notin S
    <2>1. x \in B
      BY <1>1, <1>4, <1>5 DEF BelowIn
    <2> QED
      BY <1>2, <1>3, <1>4, <2>1
  <1>7. PICK p : p = ParentIn(H, O, x)
    OBVIOUS
  <1>8. n \in StableIn(H) /\ L.prev[n] = x /\ ParentIn(H, O, n) = p
    <2>1. L.next[x] \in StableIn(H) /\ L.prev[L.next[x]] = x /\ L.next[x] \in ChildrenIn(H, O, p)
      BY <1>5, <1>7, NeighboursAre
    <2> QED
      BY <2>1 DEF ChildrenIn
  <1>9. p \in S \cup {r}
    BY <1>2, <1>6, <1>7
  <1>10. /\ \A h \in StableIn(H) : h \in B <=> ParentIn(H, O, h) = r \/ ParentIn(H, O, h) \in B
         /\ r \notin B /\ B \subseteq StableIn(H)
    BY <1>1, BelowFacts
  <1>11. n \in B
    BY <1>2, <1>8, <1>9, <1>10
  <1>12. PICK R : R = PathIn(H, O, p)
    OBVIOUS
  <1>13. PathIn(H, O, n) = {n} \cup R /\ PathIn(H, O, x) = {x} \cup R /\ x \notin R
    BY <1>5, <1>7, <1>8, <1>12, PathStep
  <1>14. R \subseteq P
    <2>1. PathIn(H, O, x) \subseteq P
      BY <1>1, <1>3, <1>4, PathOver
    <2> QED
      BY <1>13, <2>1
  <1>15. PICK U : U = S \cup {n}
    OBVIOUS
  <1>16. \A y \in U : ParentIn(H, O, y) \in U \cup {r}
    BY <1>2, <1>8, <1>9, <1>15
  <1>17. \A y \in U : L.prev[y] \in StableIn(H) => L.prev[y] \in U
    BY <1>2, <1>6, <1>8, <1>15
  <1>18. ASSUME NEW y \in U, y \notin PathIn(H, O, n) PROVE ChildrenIn(H, O, y) \subseteq U
    <2>1. y \in S /\ y \notin R
      BY <1>13, <1>15, <1>18
    <2>2. CASE y \in P
      <3>1. y \in PathIn(H, O, x) \ {x} \/ ChildrenIn(H, O, y) \subseteq S
        BY <1>1, <2>2, Climbed
      <3> QED
        BY <1>13, <1>15, <2>1, <3>1
    <2>3. CASE y \notin P
      BY <1>2, <1>15, <2>1, <2>3
    <2> QED
      BY <2>2, <2>3
  <1>19. U \cap ChildrenIn(H, O, n) = {}
    <2>1. n \notin ChildrenIn(H, O, n)
      BY <1>8, NotItsChild
    <2>2. ASSUME NEW d \in S, d \in ChildrenIn(H, O, n) PROVE FALSE
      <3>1. ParentIn(H, O, d) = n
        BY <2>2 DEF ChildrenIn
      <3> QED
        BY <1>2, <1>6, <1>10, <1>11, <3>1
    <2> QED
      BY <1>15, <2>1, <2>2
  <1>20. ASSUME NEW y \in PathIn(H, O, n) \cap B PROVE L.next[y] \notin U
    <2>1. y \in StableIn(H)
      BY <1>10, <1>20
    <2>2. L.next[y] # y /\ (L.next[y] \in StableIn(H) => L.prev[L.next[y]] = y)
      BY <2>1, NeighboursAre
    <2>3. CASE y = n
      <3>1. L.next[n] \notin S
        <4>1. ASSUME L.next[n] \in S PROVE FALSE
          <5>1. L.next[n] \in StableIn(H)
            BY <1>2, <1>10, <4>1
          <5>2. L.prev[L.next[n]] = n
            BY <2>2, <2>3, <5>1
          <5> QED
            BY <1>2, <1>6, <1>8, <4>1, <5>2
        <4> QED
          BY <4>1
      <3> QED
        BY <1>15, <2>2, <2>3, <3>1
    <2>4. CASE y \in R
      <3>1. L.next[y] \notin S
        BY <1>2, <1>14, <1>20, <2>4
      <3>2. L.next[y] # n
        BY <1>8, <1>13, <2>2, <2>4
      <3> QED
        BY <1>15, <3>1, <3>2
    <2> QED
      BY <1>13, <1>20, <2>3, <2>4
  <1>21. n \in U /\ U \subseteq B
    BY <1>2, <1>11, <1>15
  <1>22. Seen(H, O, L, r, n, U)
    BY <1>1, <1>16, <1>17, <1>18, <1>19, <1>20, <1>21 DEF Seen
  <1> QED
    BY <1>1, <1>6, <1>11, <1>15, <1>22

\* At the end everything has been seen: what has not would have its parent with it.
LEMMA SeenAll ==
    ASSUME NEW H, NEW O, NEW L, Tree(H, O, L), NEW r \in Present(H), NEW a, NEW S, Seen(H, O, L, r, a, S),
           ChildrenIn(H, O, a) = {}, NEW Q, Upwards(H, O, L, r, a, r, Q)
    PROVE  S = BelowIn(H, O, r)
  <1>1. PICK P, B : P = PathIn(H, O, a) /\ B = BelowIn(H, O, r)
    OBVIOUS
  <1>2. S \subseteq B /\ \A y \in S : y \notin P => ChildrenIn(H, O, y) \subseteq S
    BY <1>1 DEF Seen
  <1>3. r \in P /\ \A y \in P : y \in PathIn(H, O, r) \ {r} \/ ChildrenIn(H, O, y) \subseteq S
    BY <1>1, Climbed DEF Upwards
  <1>4. /\ PathIn(H, O, r) \cap B = {} /\ B \subseteq StableIn(H)
        /\ \A h \in StableIn(H) : h \in B <=> ParentIn(H, O, h) = r \/ ParentIn(H, O, h) \in B
    BY <1>1, BelowFacts
  <1>5. \A y \in S \cup {r} : ChildrenIn(H, O, y) \subseteq S
    BY <1>2, <1>3, <1>4
  <1>6. PICK T : T = B \ S
    OBVIOUS
  <1>7. ASSUME NEW y \in T PROVE ParentIn(H, O, y) \in T
    <2>1. y \in StableIn(H) /\ y \notin S
      BY <1>4, <1>6, <1>7
    <2>2. ParentIn(H, O, y) \notin S \cup {r}
      BY <1>5, <2>1 DEF ChildrenIn
    <2>3. ParentIn(H, O, y) = r \/ ParentIn(H, O, y) \in B
      BY <1>4, <1>6, <1>7, <2>1
    <2> QED
      BY <1>6, <2>2, <2>3
  <1>8. T = {}
    <2>1. T \in SUBSET StableIn(H)
      BY <1>4, <1>6
    <2> QED
      BY <1>7, <2>1 DEF Tree, NoCycle
  <1> QED
    BY <1>1, <1>2, <1>6, <1>8

\* Path has what every set has that holds the parent of each object in it.
LEMMA PathSame ==
    ASSUME Tree(hdr, owner, links), NEW h \in Present(hdr)
    PROVE  Path(h) = PathIn(hdr, owner, h)
  <1>1. PICK n \in Nat : n = Cardinality(Hdr)
    BY TalAssumption, FS_CardinalityType
  <1>2. PICK f, P : f = Up(h) /\ P = PathIn(hdr, owner, h)
    OBVIOUS
  <1>3. Climbs(f, hdr, owner, h, n) /\ Path(h) = {f[k] : k \in 0..n}
    BY <1>1, <1>2, UpIs DEF Path
  <1>4. f[0] = h /\ \A i \in 1..n : f[i] = IF f[i - 1] \in StableIn(hdr) THEN ParentIn(hdr, owner, f[i - 1]) ELSE f[i - 1]
    BY <1>3 DEF Climbs
  <1>5. h \in P /\ Closed(hdr, owner, P)
    BY <1>2, PathFacts
  <1>6. \A i \in 0..n : f[i] \in P
    <2>1. PICK X : X = {i \in 0..n : f[i] \in P}
      OBVIOUS
    <2>2. 0 \in X
      BY <1>4, <1>5, <2>1
    <2>3. ASSUME NEW i \in 1..n, i - 1 \in X PROVE i \in X
      <3>1. f[i - 1] \in P
        BY <2>1, <2>3
      <3>2. f[i] \in P
        BY <1>4, <1>5, <3>1 DEF Closed
      <3> QED
        BY <2>1, <3>2
    <2>4. \A i \in 0..n : i \in X
      BY <2>2, <2>3, TurnByTurn
    <2> QED
      BY <2>1, <2>4
  <1>7. P \subseteq Path(h)
    <2>1. Closed(hdr, owner, Path(h)) /\ h \in Path(h) /\ Path(h) \in SUBSET Heads
      BY PathIs DEF Closed, Present
    <2> QED
      BY <1>2, <2>1, PathFacts
  <1> QED
    BY <1>2, <1>3, <1>6, <1>7

BelowAlike == \A r : Below(r) = BelowIn(hdr, owner, r)

LEMMA BelowSame ==
    ASSUME Tree(hdr, owner, links)
    PROVE  BelowAlike
  <1>1. Stable = StableIn(hdr)
    BY InTheseTerms
  <1>2. \A h \in StableIn(hdr) : Path(h) = PathIn(hdr, owner, h)
    <2>1. \A h \in StableIn(hdr) : h \in Present(hdr)
      BY Sorts DEF StableIn, Present
    <2> QED
      BY <2>1, PathSame
  <1> QED
    BY <1>1, <1>2 DEF BelowAlike, Below, BelowIn

LEMMA FirstChildIs ==
    ASSUME Tree(hdr, owner, links), NEW y \in Present(hdr)
    PROVE  /\ FirstChild(y) = NULL => ChildrenIn(hdr, owner, y) = {}
           /\ FirstChild(y) # NULL => /\ FirstChild(y) \in ChildrenIn(hdr, owner, y)
                                      /\ links.prev[FirstChild(y)] \notin StableIn(hdr)
  <1>1. PropsOK(hdr[y].prop)
    BY PropsAre DEF Present
  <1>2. PICK k : k = KidsIn(hdr[y].prop)
    OBVIOUS
  <1>3. ChildrenOf(y) = k
    BY <1>1, <1>2, InTheseTerms
  <1>4. FirstChild(y) = IF k = NULL \/ links.next[k] = k THEN NULL ELSE links.next[k]
    BY <1>3 DEF FirstChild, ListEmpty, ListTop
  <1>5. /\ k = NULL \/ links.next[k] = k => ChildrenIn(hdr, owner, y) = {}
        /\ ~(k = NULL \/ links.next[k] = k) => /\ links.next[k] \in ChildrenIn(hdr, owner, y)
                                               /\ links.prev[links.next[k]] \notin StableIn(hdr)
    BY <1>2, FirstIs
  <1>6. \A c \in ChildrenIn(hdr, owner, y) : c # NULL
    BY Sorts DEF ChildrenIn, StableIn
  <1> QED
    BY <1>4, <1>5, <1>6

\* tal_next climbs as long as there is no next object in the list.
LEMMA TalNextIs ==
    ASSUME Tree(hdr, owner, links), NEW r \in Present(hdr), NEW a \in BelowIn(hdr, owner, r),
           FirstChild(a) = NULL
    PROVE  \E x, Q : /\ Upwards(hdr, owner, links, r, a, x, Q)
                     /\ x = r \/ links.next[x] # hdr[x].parent_child
                     /\ TalNext(r, a) = IF x = r THEN NULL ELSE links.next[x]
  <1> DEFINE AtEnd(y) == links.next[y] = hdr[y].parent_child
  <1>1. PICK n \in Nat : n = Cardinality(Hdr)
    BY TalAssumption, FS_CardinalityType
  <1>2. PICK f, P : f = Up(a) /\ P = PathIn(hdr, owner, a)
    OBVIOUS
  <1>3. a \in StableIn(hdr) /\ a \in Present(hdr) /\ r \in P
    BY <1>2, Sorts DEF BelowIn, StableIn, Present
  <1>4. Climbs(f, hdr, owner, a, n) /\ Path(a) = {f[k] : k \in 0..n} /\ DOMAIN f = 0..n
    BY <1>1, <1>2, <1>3, UpIs DEF Path
  <1>5. f[0] = a /\ \A i \in 1..n : f[i] = IF f[i - 1] \in StableIn(hdr) THEN ParentIn(hdr, owner, f[i - 1]) ELSE f[i - 1]
    BY <1>4 DEF Climbs
  <1>6. PICK stops : stops = {k \in 0..n : f[k] = r \/ ~AtEnd(f[k])}
    OBVIOUS
  <1>7. stops \in SUBSET Nat /\ stops # {}
    <2>1. Path(a) = P
      BY <1>2, <1>3, PathSame
    <2>2. PICK k \in 0..n : f[k] = r
      BY <1>3, <1>4, <2>1
    <2> QED
      BY <1>6, <2>2
  <1>8. PICK m \in stops : \A j \in stops : m <= j
    BY <1>7, LeastNatural
  <1>9. m \in 0..n /\ (CHOOSE k \in stops : \A j \in stops : k <= j) = m
    <2>1. \A k \in stops : (\A j \in stops : k <= j) => k = m
      BY <1>7, <1>8
    <2> QED
      BY <1>6, <1>8, <2>1
  <1>10. TalNext(r, a) = IF f[m] = r THEN NULL ELSE links.next[f[m]]
    <2>1. stops = {k \in DOMAIN Up(a) : Up(a)[k] = r \/ ~(links.next[Up(a)[k]] = hdr[Up(a)[k]].parent_child)}
      BY <1>2, <1>4, <1>6
    <2>2. PICK c : c = CHOOSE k \in {i \in DOMAIN Up(a) : Up(a)[i] = r \/ ~(links.next[Up(a)[i]] = hdr[Up(a)[i]].parent_child)} :
                        \A j \in {i \in DOMAIN Up(a) : Up(a)[i] = r \/ ~(links.next[Up(a)[i]] = hdr[Up(a)[i]].parent_child)} : k <= j
      OBVIOUS
    <2>3. c = m
      BY <1>9, <2>1, <2>2
    <2>4. TalNext(r, a) = IF Up(a)[c] = r THEN NULL ELSE links.next[Up(a)[c]]
      BY <2>2 DEF TalNext
    <2> QED
      BY <1>2, <2>3, <2>4
  <1> HIDE DEF AtEnd
  <1>11. \A i \in 0..m : i # m => f[i] # r /\ AtEnd(f[i])
    BY <1>6, <1>8, <1>9
  <1>12. P \subseteq Present(hdr) /\ a \in P /\ Closed(hdr, owner, P)
    BY <1>2, <1>3, PathFacts
  <1>13. ASSUME NEW y \in P, y # r, r \in PathIn(hdr, owner, y)
         PROVE  /\ y \in StableIn(hdr) /\ y \in BelowIn(hdr, owner, r)
                /\ ParentIn(hdr, owner, y) \in P /\ r \in PathIn(hdr, owner, ParentIn(hdr, owner, y))
    <2>1. y \in Present(hdr)
      BY <1>12
    <2>2. y \in StableIn(hdr)
      <3>1. CASE y \notin StableIn(hdr)
        <4>1. PathIn(hdr, owner, y) = {y}
          BY <2>1, <3>1, PathEnd
        <4> QED
          BY <1>13, <4>1
      <3> QED
        BY <3>1
    <2>3. PICK p : p = ParentIn(hdr, owner, y)
      OBVIOUS
    <2>4. PathIn(hdr, owner, y) = {y} \cup PathIn(hdr, owner, p)
      BY <2>2, <2>3, PathStep
    <2>5. y \in BelowIn(hdr, owner, r) /\ p \in P
      BY <1>12, <1>13, <2>2, <2>3 DEF BelowIn, Closed
    <2> QED
      BY <1>13, <2>2, <2>3, <2>4, <2>5
  <1>14. \A i \in 0..m : f[i] \in P /\ r \in PathIn(hdr, owner, f[i])
    <2>1. PICK X : X = {i \in 0..m : f[i] \in P /\ r \in PathIn(hdr, owner, f[i])}
      OBVIOUS
    <2>2. 0 \in X
      BY <1>2, <1>3, <1>5, <1>9, <1>12, <2>1
    <2>3. ASSUME NEW i \in 1..m, i - 1 \in X PROVE i \in X
      <3>1. f[i - 1] \in P /\ r \in PathIn(hdr, owner, f[i - 1])
        BY <2>1, <2>3
      <3>2. i - 1 \in 0..m /\ i - 1 # m /\ i \in 1..n /\ i \in 0..m
        BY <1>9, <2>3
      <3>3. f[i - 1] # r
        BY <1>11, <3>2
      <3>4. f[i] = ParentIn(hdr, owner, f[i - 1])
        BY <1>5, <1>13, <3>1, <3>2, <3>3
      <3>5. f[i] \in P /\ r \in PathIn(hdr, owner, f[i])
        BY <1>13, <3>1, <3>3, <3>4
      <3> QED
        BY <2>1, <3>2, <3>5
    <2>4. \A i \in 0..m : i \in X
      BY <1>9, <2>2, <2>3, TurnByTurn
    <2> QED
      BY <2>1, <2>4
  <1>15. PICK x, Q : x = f[m] /\ Q = {f[i] : i \in 0..(m - 1)}
    OBVIOUS
  <1>16. x \in P /\ r \in PathIn(hdr, owner, x) /\ (x = r \/ ~AtEnd(x))
    <2>1. m \in 0..m
      BY <1>9
    <2> QED
      BY <1>6, <1>8, <1>14, <1>15, <2>1
  <1>17. ASSUME NEW i \in 0..(m - 1)
         PROVE  /\ f[i] \in P /\ f[i] \in BelowIn(hdr, owner, r) /\ AtEnd(f[i])
                /\ ParentIn(hdr, owner, f[i]) \in Q \cup {x}
    <2>1. i \in 0..m /\ i # m /\ i + 1 \in 1..n /\ (i + 1) - 1 = i /\ (i + 1 = m \/ i + 1 \in 0..(m - 1))
      BY <1>9
    <2>2. f[i] # r /\ AtEnd(f[i]) /\ f[i] \in P /\ r \in PathIn(hdr, owner, f[i])
      BY <1>11, <1>14, <2>1
    <2>3. f[i] \in StableIn(hdr) /\ f[i] \in BelowIn(hdr, owner, r)
      BY <1>13, <2>2
    <2>4. f[i + 1] = ParentIn(hdr, owner, f[i])
      BY <1>5, <2>1, <2>3
    <2>5. f[i + 1] \in Q \cup {x}
      BY <1>15, <2>1
    <2> QED
      BY <2>2, <2>3, <2>4, <2>5
  <1>18. a \in Q \cup {x}
    <2>1. m = 0 \/ 0 \in 0..(m - 1)
      BY <1>9
    <2> QED
      BY <1>5, <1>15, <2>1
  <1>19. Upwards(hdr, owner, links, r, a, x, Q)
    <2>1. Q \subseteq P \cap BelowIn(hdr, owner, r) /\ \A y \in Q : AtEnd(y) /\ ParentIn(hdr, owner, y) \in Q \cup {x}
      BY <1>15, <1>17
    <2> QED
      BY <1>2, <1>16, <1>18, <2>1 DEF Upwards, AtEnd
  <1> QED
    BY <1>10, <1>15, <1>16, <1>19 DEF AtEnd

\* A traversal is below its root, and has seen what it should have if nothing changed.
CursorOK(c, H, O, L) ==
    /\ c \in [root : Heads, at : Hdr, seen : SUBSET Hdr, altered : BOOLEAN]
    /\ H[c.root] # NULL /\ c.at \in BelowIn(H, O, c.root)
    /\ ~c.altered => Seen(H, O, L, c.root, c.at, c.seen)
CInv == Iterating => CursorOK(cursor, hdr, owner, links)

LEMMA FollowsOK ==
    ASSUME IInv', BelowAlike', CInv, CursorFollows
    PROVE  CInv'
  <1>1. CASE Iterating /\ \E c \in {cursor} : Kept(c)'
    <2>1. PICK c : c = cursor /\ Kept(c)'
      BY <1>1
    <2>2. c \in [root : Heads, at : Hdr, seen : SUBSET Hdr, altered : BOOLEAN]
      BY <1>1, <2>1 DEF CInv, CursorOK
    <2>3. PICK d : d = [c EXCEPT !.altered = TRUE]
      OBVIOUS
    <2>4. /\ d \in [root : Heads, at : Hdr, seen : SUBSET Hdr, altered : BOOLEAN]
          /\ d.root = c.root /\ d.at = c.at /\ d.altered
      BY <2>2, <2>3
    <2>5. cursor' = d
      BY <1>1, <2>1, <2>3 DEF CursorFollows
    <2>6. hdr'[c.root] # NULL /\ c.at \in Below(c.root)'
      BY <2>1, <2>2 DEF Kept, InUse
    <2>7. c.at \in BelowIn(hdr', owner', c.root)
      BY <2>6 DEF BelowAlike
    <2>8. CursorOK(d, hdr', owner', links')
      BY <2>4, <2>6, <2>7 DEF CursorOK
    <2> QED
      BY <2>5, <2>8 DEF CInv
  <1>2. CASE ~(Iterating /\ \E c \in {cursor} : Kept(c)')
    <2>1. cursor' = NULL
      BY <1>2 DEF CursorFollows
    <2> QED
      BY <2>1 DEF CInv, Iterating
  <1> QED
    BY <1>1, <1>2

LEMMA FirstOK ==
    ASSUME IInv, First
    PROVE  CInv'
  <1>1. Tree(hdr, owner, links)
    BY DEF IInv, Good
  <1>2. PICK r \in Live \cup {Root} :
              /\ FirstChild(r) # NULL
              /\ cursor' = [root |-> r, at |-> FirstChild(r), seen |-> {FirstChild(r)}, altered |-> FALSE]
    BY DEF First
  <1>3. PICK c : c = FirstChild(r)
    OBVIOUS
  <1>4. r \in Heads /\ hdr[r] # NULL /\ r \in Present(hdr)
    BY <1>1, Sorts DEF Live, Tree, TreeType, Present
  <1>5. c \in ChildrenIn(hdr, owner, r) /\ links.prev[c] \notin StableIn(hdr)
    BY <1>1, <1>2, <1>3, <1>4, FirstChildIs
  <1>6. c \in BelowIn(hdr, owner, r) /\ Seen(hdr, owner, links, r, c, {c}) /\ c \in Hdr
    BY <1>1, <1>4, <1>5, SeenFirst DEF ChildrenIn, StableIn
  <1>7. PICK d : d = [root |-> r, at |-> c, seen |-> {c}, altered |-> FALSE]
    OBVIOUS
  <1>8. /\ d \in [root : Heads, at : Hdr, seen : SUBSET Hdr, altered : BOOLEAN]
        /\ d.root = r /\ d.at = c /\ d.seen = {c}
    BY <1>4, <1>6, <1>7
  <1>9. CursorOK(d, hdr, owner, links)
    BY <1>4, <1>6, <1>8 DEF CursorOK
  <1>10. cursor' = d /\ hdr' = hdr /\ owner' = owner /\ links' = links
    BY <1>2, <1>3, <1>7 DEF First
  <1> QED
    BY <1>9, <1>10 DEF CInv

\* What tal_next returns, for a traversal of a tree that has stayed as it was or not.
LEMMA NextIs ==
    ASSUME Tree(hdr, owner, links), NEW c, CursorOK(c, hdr, owner, links),
           NEW x, x = TalNext(c.root, c.at)
    PROVE  /\ x # NULL => x \in BelowIn(hdr, owner, c.root)
           /\ ~c.altered => IF x = NULL THEN c.seen = BelowIn(hdr, owner, c.root)
                            ELSE /\ x \notin c.seen
                                 /\ Seen(hdr, owner, links, c.root, x, c.seen \cup {x})
  <1>1. PICK r, a, S, B : r = c.root /\ a = c.at /\ S = c.seen /\ B = BelowIn(hdr, owner, r)
    OBVIOUS
  <1>2. /\ r \in Heads /\ r \in Present(hdr) /\ a \in B
        /\ ~c.altered => Seen(hdr, owner, links, r, a, S)
    BY <1>1 DEF CursorOK, Present
  <1>3. a \in Present(hdr) /\ a \in StableIn(hdr) /\ B \subseteq StableIn(hdr)
    BY <1>1, <1>2, Sorts DEF BelowIn, StableIn, Present
  <1>4. NULL \notin B
    BY <1>1, Sorts DEF BelowIn, StableIn
  <1>5. \A h \in StableIn(hdr) : h \in B <=> ParentIn(hdr, owner, h) = r \/ ParentIn(hdr, owner, h) \in B
    BY <1>1, <1>2, BelowFacts
  <1>6. CASE FirstChild(a) # NULL
    <2>1. x = FirstChild(a)
      BY <1>1, <1>6 DEF TalNext
    <2>2. x \in ChildrenIn(hdr, owner, a) /\ links.prev[x] \notin StableIn(hdr)
      BY <1>3, <1>6, <2>1, FirstChildIs
    <2>3. x \in B
      BY <1>2, <1>5, <2>2 DEF ChildrenIn
    <2>4. ASSUME ~c.altered PROVE x \notin S /\ Seen(hdr, owner, links, r, x, S \cup {x})
      <3>1. Seen(hdr, owner, links, r, a, S)
        BY <1>2, <2>4
      <3> QED
        BY <1>2, <2>2, <3>1, SeenDown
    <2> QED
      BY <1>1, <1>4, <2>3, <2>4
  <1>7. CASE FirstChild(a) = NULL
    <2>1. ChildrenIn(hdr, owner, a) = {}
      BY <1>3, <1>7, FirstChildIs
    <2>2. a \in BelowIn(hdr, owner, r)
      BY <1>1, <1>2
    <2>3. PICK y, Q : /\ Upwards(hdr, owner, links, r, a, y, Q)
                      /\ y = r \/ links.next[y] # hdr[y].parent_child
                      /\ TalNext(r, a) = IF y = r THEN NULL ELSE links.next[y]
      BY <1>2, <1>7, <2>2, TalNextIs
    <2>4. CASE y = r
      <3>1. x = NULL
        BY <1>1, <2>3, <2>4
      <3>2. ASSUME ~c.altered PROVE S = B
        <4>1. Seen(hdr, owner, links, r, a, S)
          BY <1>2, <3>2
        <4>2. Upwards(hdr, owner, links, r, a, r, Q)
          BY <2>3, <2>4
        <4> QED
          BY <1>1, <1>2, <2>1, <4>1, <4>2, SeenAll
      <3> QED
        BY <1>1, <3>1, <3>2
    <2>5. CASE y # r
      <3>1. x = links.next[y] /\ links.next[y] # hdr[y].parent_child
        BY <1>1, <2>3, <2>5
      <3>2. y \in PathIn(hdr, owner, a) /\ r \in PathIn(hdr, owner, y)
        BY <2>3 DEF Upwards
      <3>3. y \in Present(hdr)
        BY <1>3, <3>2, PathOver
      <3>4. y \in StableIn(hdr)
        <4>1. CASE y \notin StableIn(hdr)
          <5>1. PathIn(hdr, owner, y) = {y}
            BY <3>3, <4>1, PathEnd
          <5> QED
            BY <2>5, <3>2, <5>1
        <4> QED
          BY <4>1
      <3>5. x \in ChildrenIn(hdr, owner, ParentIn(hdr, owner, y))
        BY <3>1, <3>4, NeighboursAre
      <3>6. y \in B
        BY <1>1, <2>5, <3>2, <3>4 DEF BelowIn
      <3>7. x \in B
        BY <1>5, <3>4, <3>5, <3>6 DEF ChildrenIn
      <3>8. ASSUME ~c.altered PROVE x \notin S /\ Seen(hdr, owner, links, r, x, S \cup {x})
        <4>1. Seen(hdr, owner, links, r, a, S)
          BY <1>2, <3>8
        <4>2. Upwards(hdr, owner, links, r, a, y, Q)
          BY <2>3
        <4> QED
          BY <1>2, <2>1, <2>5, <3>1, <4>1, <4>2, SeenOn
      <3> QED
        BY <1>1, <1>4, <3>7, <3>8
    <2> QED
      BY <2>4, <2>5
  <1> QED
    BY <1>6, <1>7

LEMMA NextOK ==
    ASSUME IInv, CInv, NextObject
    PROVE  CInv'
  <1>1. Tree(hdr, owner, links)
    BY DEF IInv, Good
  <1>2. PICK c, x : c = cursor /\ x = TalNext(c.root, c.at)
    OBVIOUS
  <1>3. /\ CursorOK(c, hdr, owner, links) /\ hdr' = hdr /\ owner' = owner /\ links' = links
        /\ cursor' = IF x = NULL THEN NULL ELSE [c EXCEPT !.at = x, !.seen = @ \cup {x}]
    BY <1>2 DEF NextObject, CInv
  <1>4. CASE x = NULL
    BY <1>3, <1>4 DEF CInv, Iterating
  <1>5. CASE x # NULL
    <2>1. /\ x \in BelowIn(hdr, owner, c.root)
          /\ ~c.altered => Seen(hdr, owner, links, c.root, x, c.seen \cup {x})
      BY <1>1, <1>2, <1>3, <1>5, NextIs
    <2>2. c \in [root : Heads, at : Hdr, seen : SUBSET Hdr, altered : BOOLEAN] /\ hdr[c.root] # NULL
      BY <1>3 DEF CursorOK
    <2>3. x \in Hdr
      BY <2>1 DEF BelowIn, StableIn
    <2>4. PICK d : d = [c EXCEPT !.at = x, !.seen = @ \cup {x}]
      OBVIOUS
    <2>5. /\ d \in [root : Heads, at : Hdr, seen : SUBSET Hdr, altered : BOOLEAN]
          /\ d.root = c.root /\ d.at = x /\ d.seen = c.seen \cup {x} /\ d.altered = c.altered
      BY <2>2, <2>3, <2>4
    <2>6. CursorOK(d, hdr, owner, links)
      BY <2>1, <2>2, <2>5 DEF CursorOK
    <2> QED
      BY <1>3, <1>5, <2>4, <2>6 DEF CInv
  <1> QED
    BY <1>4, <1>5

\* tal_first and tal_next give every object below the root once, and none that is not.
THEOREM EachOnce == Spec => []TraversalComplete
  <1>1. Init => CInv
    BY DEF Init, CInv, Iterating
  <1>2. IInv => BelowAlike
    BY BelowSame DEF IInv, Good
  <1>3. IInv /\ IInv' /\ BelowAlike' /\ CInv /\ [Next]_vars => CInv'
    <2> SUFFICES ASSUME IInv, IInv', BelowAlike', CInv, [Next]_vars PROVE CInv'
      OBVIOUS
    <2>1. CASE First
      BY <2>1, FirstOK
    <2>2. CASE NextObject
      BY <2>2, NextOK
    <2>3. CASE CursorFollows
      BY <2>3, FollowsOK
    <2>4. CASE Return \/ UNCHANGED vars
      <3>1. UNCHANGED <<hdr, owner, links, cursor>>
        BY <2>4 DEF Return, vars
      <3> QED
        BY <3>1 DEF CInv, Iterating
    <2> QED
      BY <2>1, <2>2, <2>3, <2>4 DEF Next, Alloc, Steal, Free, AddNotifier, DelNotifier, SetName, Resize,
                                    Notify, FreeChild, FreeSelf
  <1>4. IInv /\ BelowAlike /\ CInv => TraversalComplete
    <2> SUFFICES ASSUME IInv, BelowAlike, CInv, Iterating PROVE TraversalComplete
      BY DEF TraversalComplete
    <2>1. Tree(hdr, owner, links)
      BY DEF IInv, Good
    <2>2. PICK c, x : c = cursor /\ x = TalNext(c.root, c.at)
      OBVIOUS
    <2>3. CursorOK(c, hdr, owner, links) /\ c.at \in BelowIn(hdr, owner, c.root)
      BY <2>2 DEF CInv, CursorOK
    <2>4. ~c.altered => IF x = NULL THEN c.seen = BelowIn(hdr, owner, c.root) ELSE x \notin c.seen
      BY <2>1, <2>2, <2>3, NextIs
    <2>5. Below(c.root) = BelowIn(hdr, owner, c.root)
      BY DEF BelowAlike
    <2> QED
      BY <2>2, <2>3, <2>4, <2>5 DEF TraversalComplete
  <1> QED
    BY <1>1, <1>2, <1>3, <1>4, Invariance, PTL DEF Spec
=============================================================================
