-------------------------- MODULE ReadBlocksProofs --------------------------
(***************************************************************************)
(* Proofs about ReadBlocks, for any directory, any contents of its files   *)
(* and any sizes: which files are listed, which one is read from, what the *)
(* scan finds in them and what the parser reads of each transaction.       *)
(*                                                                         *)
(* Nothing is proved by induction over bytes: a file is cut where a record *)
(* or a field of it starts (what FlattenSeq does at one element), and the  *)
(* invariant says at each step of the parser which field comes next.       *)
(***************************************************************************)
EXTENDS ReadBlocks, NaturalLemmas, FiniteSetTheorems, SequenceTheorems

Exact(p) == p \in {"list", "duplicate", "scan", "past", "iterate", "full", "block", "done"}
NameOrNull == FileName \cup {NULL}

\* The type of every variable that the properties below speak of.
TypeOK ==
    /\ Exact(pc)
    /\ dir \in SUBSET FileName /\ unlisted \in SUBSET dir
    /\ names \in Seq(NameOrNull)
    /\ slot \in [1..SlotCount -> NameOrNull]
    /\ nextSlot \in 1..SlotCount
    /\ f \in (1..SlotCount) \cup {NULL}
    /\ file \in Nat \ {0}
    /\ IsSequence(found)

ListedNames == {names[k] : k \in DOMAIN names} \ {NULL}

\* names is filled in as readdir goes on, each name at the place of its number.
ListInv ==
    /\ pc # "duplicate" => ListedNames = {n \in dir \ unlisted : n.matches}
    /\ pc \notin {"list", "duplicate"} => unlisted = {}
    /\ \A k \in DOMAIN names : names[k] # NULL => Number(names[k]) = k - 1

\* The blocks found are in files that exist, which is why the lookup of a file
\* never asks for a slot that is empty.
FoundInv ==
    /\ pc \in {"list", "duplicate"} => found = <<>>
    /\ \A k \in DOMAIN found :
          found[k].filenum \in DOMAIN names /\ names[found[k].filenum] # NULL
    /\ pc = "block" => current \in DOMAIN found
    /\ pc # "block" => step = "idle"

IInv == TypeOK /\ ListInv /\ FoundInv /\ RightFileOpen /\ ListingExact

-----------------------------------------------------------------------------
(***************************************************************************)
(* The operators.                                                          *)
(***************************************************************************)

\* strtol of the digits of a name is a number.
LEMMA NumberIsNatural == ASSUME NEW name \in NameType PROVE Number(name) \in Nat
  <1> DEFINE n == Len(name.digits)
             g == [i \in 1..n |-> [x \in Nat |-> 10 * x + name.digits[i]]]
             value == CHOOSE v : v = [i \in 0..n |->
                         IF i = 0 THEN 0 ELSE 10 * v[i - 1] + name.digits[i]]
  <1>1. name.digits \in Seq(0..9)
    BY DEF NameType
  <1>2. PICK m \in Nat : m = Len(name.digits) /\ \A i \in 1..m : name.digits[i] \in 0..9
    BY <1>1
  <1>3. g \in [1..n -> [Nat -> Nat]]
    BY <1>2
  <1>4. PICK v \in [0..n -> Nat] : v[0] = 0 /\ \A i \in 1..n : v[i] = g[i][v[i - 1]]
    <2>1. n \in Nat /\ 0 \in Nat
      BY <1>2
    <2> HIDE DEF g, n
    <2>2. PICK v : IsLoop(v, Nat, 0, n, g)
      BY <1>3, <2>1, RecursiveFunction
    <2> QED
      BY <2>2 DEF IsLoop
  <1>5. v = [i \in 0..n |-> IF i = 0 THEN 0 ELSE 10 * v[i - 1] + name.digits[i]]
    <2>1. ASSUME NEW i \in 1..n PROVE v[i] = 10 * v[i - 1] + name.digits[i]
      <3>1. i - 1 \in 0..n /\ v[i - 1] \in Nat
        BY <1>2, <1>4
      <3>2. g[i][v[i - 1]] = 10 * v[i - 1] + name.digits[i]
        BY <3>1
      <3> HIDE DEF g
      <3> QED
        BY <1>4, <3>2
    <2>2. \A i \in 0..n : i = 0 \/ i \in 1..n
      BY <1>2
    <2> QED
      BY <1>4, <2>1, <2>2
  <1>6. value = [i \in 0..n |-> IF i = 0 THEN 0 ELSE 10 * value[i - 1] + name.digits[i]]
    BY <1>5
  <1>7. ASSUME NEW w, w = [i \in 0..n |-> IF i = 0 THEN 0 ELSE 10 * w[i - 1] + name.digits[i]],
               w[n] \notin Nat
        PROVE  FALSE
    <2> DEFINE T == {i \in 0..n : w[i] \notin Nat}
    <2>1. T \in SUBSET Nat /\ n \in T
      BY <1>2, <1>7
    <2>2. PICK i \in T : \A j \in T : i <= j
      <3> HIDE DEF T
      <3> QED
        BY <2>1, LeastNatural
    <2>3. i # 0
      BY <1>7, <2>2
    <2>4. i - 1 \in 0..n /\ i - 1 \notin T /\ i \in 1..n
      BY <2>2, <2>3, <1>2
    <2>5. w[i - 1] \in Nat
      BY <2>4
    <2>6. w[i] = 10 * w[i - 1] + name.digits[i] /\ w[i] \notin Nat
      BY <1>7, <2>2, <2>3
    <2>7. name.digits[i] \in Nat
      <3> HIDE DEF T
      <3> QED
        BY <1>2, <2>4
    <2> QED
      BY <2>5, <2>6, <2>7
  <1>8. value[n] \in Nat
    BY <1>6, <1>7
  <1> QED
    BY <1>8 DEF Number

\* add_name puts one name in its place, makes room for it with NULL, and leaves
\* the others where they are.
LEMMA AddNameIs ==
    ASSUME NEW S, NEW none, NEW ns \in Seq(S \cup {none}), NEW n \in Nat, NEW name \in S, none = NULL
    PROVE  /\ AddName(ns, n, name) \in Seq(S \cup {none})
           /\ \A k \in DOMAIN AddName(ns, n, name) :
                 AddName(ns, n, name)[k] =
                    IF k = n + 1 THEN name ELSE IF k \in DOMAIN ns THEN ns[k] ELSE NULL
           /\ DOMAIN ns \subseteq DOMAIN AddName(ns, n, name)
           /\ n + 1 \in DOMAIN AddName(ns, n, name)
  <1>1. PICK l \in Nat : l = Len(ns) /\ DOMAIN ns = 1..l
    OBVIOUS
  <1>2. PICK m \in Nat : m = (IF n < l THEN l ELSE n + 1)
    BY <1>1
  <1>3. AddName(ns, n, name) =
          [k \in 1..m |-> IF k = n + 1 THEN name ELSE IF k <= l THEN ns[k] ELSE NULL]
    BY <1>1, <1>2 DEF AddName
  <1> QED
    BY <1>1, <1>2, <1>3

\* block_file: f is the slot of the file, whether it was open or has replaced
\* another one, and a file is open for each slot that has a name.
LEMMA BlockFileIs ==
    ASSUME TypeOK, opened = Cardinality({s \in 1..SlotCount : slot[s] # NULL}),
           NEW n \in DOMAIN names, names[n] # NULL, BlockFile(n)
    PROVE  /\ slot' \in [1..SlotCount -> NameOrNull]
           /\ nextSlot' \in 1..SlotCount
           /\ f' \in 1..SlotCount
           /\ slot'[f'] = names[n]
           /\ opened' = Cardinality({s \in 1..SlotCount : slot'[s] # NULL})
  <1>1. SlotCount = 2 /\ names[n] \in NameOrNull
    BY DEF TypeOK, SlotCount
  <1>2. CASE Hit(n) # {}
    <2>1. Hit(n) \subseteq 1..2 /\ \A s \in Hit(n) : slot[s] = names[n]
      BY <1>1 DEF Hit
    <2>2. f' = Min(Hit(n)) /\ UNCHANGED <<slot, nextSlot, opened>>
      BY <1>2 DEF BlockFile
    <2>3. Min(Hit(n)) \in Hit(n)
      <3>1. \E x \in Hit(n) : \A y \in Hit(n) : x <= y
        BY <1>2, <2>1
      <3> QED
        BY <3>1 DEF Min
    <2> QED
      BY <1>1, <2>1, <2>2, <2>3 DEF TypeOK
  <1>3. CASE Hit(n) = {}
    <2>1. /\ f' = nextSlot /\ slot' = [slot EXCEPT ![nextSlot] = names[n]]
          /\ opened' = OpenedAfter(nextSlot) /\ nextSlot' = (nextSlot % SlotCount) + 1
      BY <1>3 DEF BlockFile
    <2>2. nextSlot' \in 1..2 /\ nextSlot \in 1..2
      BY <1>1, <2>1 DEF TypeOK
    <2>3. PICK U : U = {s \in 1..2 : slot[s] # NULL}
      OBVIOUS
    <2>4. {s \in 1..2 : slot'[s] # NULL} = U \cup {nextSlot}
      BY <1>1, <2>1, <2>2, <2>3 DEF TypeOK
    <2>5. IsFiniteSet(U)
      <3>1. 1 \in Int /\ 2 \in Int
        OBVIOUS
      <3>2. IsFiniteSet(1..2)
        BY <3>1, FS_Interval
      <3> QED
        BY <2>3, <3>2, FS_Subset
    <2>6. Cardinality(U \cup {nextSlot}) = IF nextSlot \in U THEN Cardinality(U) ELSE Cardinality(U) + 1
      BY <2>5, FS_AddElement
    <2>7. opened' = Cardinality(U \cup {nextSlot})
      BY <1>1, <2>1, <2>2, <2>3, <2>6 DEF OpenedAfter
    <2> QED
      BY <1>1, <2>1, <2>2, <2>4, <2>7 DEF TypeOK
  <1> QED
    BY <1>2, <1>3

\* read_transaction goes on with the file that is open.
LEMMA ParsingKeepsTheFile ==
    ASSUME ReadTransaction
    PROVE  step # "idle" /\ UNCHANGED fileVars
  <1>1. UNCHANGED fileVars
    BY DEF ReadTransaction
  <1>2. PullVersion => step # "idle"
    BY DEF PullVersion
  <1>3. PullInputCount => step # "idle"
    BY DEF PullInputCount
  <1>4. PullMarker => step # "idle"
    BY DEF PullMarker
  <1>5. BadFlag => step # "idle"
    BY DEF BadFlag
  <1>6. ReadInput => step # "idle"
    BY DEF ReadInput
  <1>7. PullOutputCount => step # "idle"
    BY DEF PullOutputCount
  <1>8. ReadOutput => step # "idle"
    BY DEF ReadOutput
  <1>9. HashBody => step # "idle"
    BY DEF HashBody
  <1>10. ReadWitnessField => step # "idle"
    BY DEF ReadWitnessField
  <1>11. ReadWitnessStackItem => step # "idle"
    BY DEF ReadWitnessStackItem
  <1>12. SkipWitness => step # "idle"
    BY DEF SkipWitness
  <1>13. FinishTransaction => step # "idle"
    BY DEF FinishTransaction
  <1> QED
    BY <1>1, <1>2, <1>3, <1>4, <1>5, <1>6, <1>7, <1>8, <1>9, <1>10, <1>11, <1>12, <1>13 DEF ReadTransaction

-----------------------------------------------------------------------------
(***************************************************************************)
(* The steps.                                                              *)
(***************************************************************************)

LEMMA InitIInv == Init => IInv
  <1> SUFFICES ASSUME Init PROVE IInv
    OBVIOUS
  <1> USE DEF Init, FileInit, ParseInit, SlotCount
  <1>1. TypeOK
    BY FilesAssumption DEF TypeOK, Exact, NameOrNull, IsSequence
  <1>2. opened = Cardinality({s \in 1..SlotCount : slot[s] # NULL})
    <2>1. {s \in 1..SlotCount : slot[s] # NULL} = {}
      OBVIOUS
    <2> QED
      BY <2>1, FS_EmptySet
  <1>3. ListInv
    <2>1. ListedNames = {}
      BY DEF ListedNames
    <2> QED
      BY <2>1 DEF ListInv
  <1> QED
    BY <1>1, <1>2, <1>3 DEF IInv, FoundInv, RightFileOpen, ListingExact

\* What no step after the listing changes.
LEMMA AfterTheListing ==
    ASSUME IInv, pc \notin {"list", "duplicate"}, pc' \notin {"list", "duplicate"},
           UNCHANGED <<names, dir, unlisted>>
    PROVE  ListInv' /\ ListingExact'
  <1>1. ListInv'
    BY DEF IInv, ListInv, ListedNames
  <1> QED
    BY <1>1 DEF ListInv, ListedNames, ListingExact, IInv

LEMMA ListEntryStep == ASSUME IInv, ListEntry PROVE IInv'
  <1>1. pc = "list" /\ TypeOK /\ found = <<>> /\ step = "idle"
    BY DEF ListEntry, IInv, FoundInv
  <1>2. /\ UNCHANGED <<disk, slot, nextSlot, opened, f, step, off, space>>
        /\ UNCHANGED <<dir, file, found, current>>
    BY DEF ListEntry, fileVars, parseVars
  <1>3. PICK name \in unlisted :
          /\ unlisted' = unlisted \ {name}
          /\ \/ ~name.matches /\ UNCHANGED <<names, pc>>
             \/ /\ name.matches /\ ~Taken(Number(name)) /\ UNCHANGED pc
                /\ names' = AddName(names, Number(name), name)
             \/ /\ name.matches /\ Taken(Number(name)) /\ pc' = "duplicate" /\ UNCHANGED names
    BY DEF ListEntry
  <1>4. name \in FileName /\ name \in dir /\ Number(name) \in Nat /\ name # NULL
    BY <1>1, FilesAssumption, NumberIsNatural DEF TypeOK
  <1>5. PICK n \in Nat : n = Number(name)
    BY <1>4
  <1>6. ListedNames = {x \in dir \ unlisted : x.matches}
    BY <1>1 DEF IInv, ListInv
  <1>7. RightFileOpen'
    BY <1>1, <1>2 DEF IInv, RightFileOpen
  <1>8. pc' \in {"list", "duplicate"} /\ (step = "idle")'
    BY <1>1, <1>2, <1>3
  <1>9. FoundInv'
    BY <1>1, <1>2, <1>8 DEF FoundInv
  <1>10. CASE ~name.matches /\ UNCHANGED <<names, pc>>
    <2>1. TypeOK'
      BY <1>1, <1>2, <1>3, <1>10 DEF TypeOK, Exact, IsSequence
    <2>2. ListedNames' = {x \in dir \ unlisted' : x.matches}
      BY <1>3, <1>4, <1>6, <1>10 DEF ListedNames
    <2>3. ListInv'
      BY <1>1, <1>2, <1>10, <2>2 DEF IInv, ListInv
    <2> QED
      BY <1>1, <1>7, <1>9, <1>10, <2>1, <2>3 DEF IInv, ListingExact
  <1>11. CASE /\ name.matches /\ ~Taken(n) /\ UNCHANGED pc
              /\ names' = AddName(names, n, name)
    <2>1. /\ names' \in Seq(NameOrNull)
          /\ DOMAIN names \subseteq DOMAIN names' /\ n + 1 \in DOMAIN names'
          /\ \A k \in DOMAIN names' : names'[k] =
                IF k = n + 1 THEN name ELSE IF k \in DOMAIN names THEN names[k] ELSE NULL
      BY <1>1, <1>4, <1>11, AddNameIs DEF TypeOK, NameOrNull
    <2>2. n + 1 \in DOMAIN names => names[n + 1] = NULL
      BY <1>1, <1>11 DEF Taken, TypeOK
    <2>3. TypeOK'
      BY <1>1, <1>2, <1>3, <1>11, <2>1 DEF TypeOK, Exact, IsSequence
    <2>4. ListedNames' = ListedNames \cup {name}
      <3>1. ASSUME NEW x \in ListedNames PROVE x \in ListedNames'
        <4>1. PICK k \in DOMAIN names : names[k] = x /\ x # NULL
          BY <3>1 DEF ListedNames
        <4>2. k \in DOMAIN names' /\ names'[k] = x
          BY <2>1, <2>2, <4>1
        <4> QED
          BY <4>1, <4>2 DEF ListedNames
      <3>2. ASSUME NEW x, x \in ListedNames' PROVE x \in ListedNames \cup {name}
        <4>1. PICK k \in DOMAIN names' : names'[k] = x /\ x # NULL
          BY <3>2 DEF ListedNames
        <4> QED
          BY <2>1, <4>1 DEF ListedNames
      <3>3. name \in ListedNames'
        BY <1>4, <2>1 DEF ListedNames
      <3> QED
        BY <3>1, <3>2, <3>3
    <2>5. ListedNames' = {x \in dir \ unlisted' : x.matches}
      BY <1>3, <1>4, <1>6, <1>11, <2>4
    <2>6. \A k \in DOMAIN names' : names'[k] # NULL => Number(names'[k]) = k - 1
      <3> SUFFICES ASSUME NEW k \in DOMAIN names', names'[k] # NULL
                   PROVE  Number(names'[k]) = k - 1
        OBVIOUS
      <3>1. k \in Int
        BY <2>1
      <3>2. CASE k = n + 1
        BY <1>5, <2>1, <3>1, <3>2
      <3>3. CASE k # n + 1
        <4>1. k \in DOMAIN names /\ names'[k] = names[k]
          BY <2>1, <3>3
        <4> QED
          BY <4>1 DEF IInv, ListInv
      <3> QED
        BY <3>2, <3>3
    <2>7. ListInv'
      BY <1>1, <1>2, <1>11, <2>5, <2>6 DEF ListInv
    <2> QED
      BY <1>1, <1>7, <1>9, <1>11, <2>3, <2>7 DEF IInv, ListingExact
  <1>12. CASE name.matches /\ Taken(n) /\ pc' = "duplicate" /\ UNCHANGED names
    <2>1. TypeOK'
      BY <1>1, <1>2, <1>3, <1>12 DEF TypeOK, Exact, IsSequence
    <2>2. ListInv'
      BY <1>12 DEF IInv, ListInv
    <2>3. n + 1 \in DOMAIN names /\ names[n + 1] # NULL
      BY <1>1, <1>12 DEF Taken, TypeOK
    <2>4. PICK m : m = names[n + 1]
      OBVIOUS
    <2>5. m \in dir /\ m.matches /\ m # name
      BY <1>3, <1>6, <2>3, <2>4 DEF ListedNames
    <2>6. Number(m) = Number(name)
      BY <1>5, <2>3, <2>4 DEF IInv, ListInv
    <2>7. ListingExact'
      BY <1>2, <1>4, <1>12, <2>5, <2>6 DEF ListingExact
    <2> QED
      BY <1>7, <1>9, <2>1, <2>2, <2>7 DEF IInv
  <1> QED
    BY <1>3, <1>5, <1>10, <1>11, <1>12

LEMMA ListDoneStep == ASSUME IInv, ListDone PROVE IInv'
  <1>1. pc = "list" /\ pc' = "scan" /\ unlisted = {} /\ UNCHANGED <<names, dir, unlisted, file, found, current>>
    BY DEF ListDone
  <1>2. UNCHANGED fileVars /\ UNCHANGED parseVars
    BY DEF ListDone
  <1>3. TypeOK'
    BY <1>1, <1>2 DEF IInv, TypeOK, Exact, IsSequence, fileVars
  <1>4. ListInv'
    BY <1>1 DEF IInv, ListInv, ListedNames
  <1>5. ListingExact'
    <2>1. ListedNames = {x \in dir : x.matches}
      BY <1>1 DEF IInv, ListInv
    <2> QED
      BY <1>1, <1>4, <2>1 DEF ListingExact, ListInv, ListedNames
  <1>6. FoundInv'
    BY <1>1, <1>2 DEF IInv, FoundInv, parseVars
  <1>7. RightFileOpen'
    BY <1>1, <1>2 DEF IInv, RightFileOpen, fileVars
  <1> QED
    BY <1>3, <1>4, <1>5, <1>6, <1>7 DEF IInv

\* What a step that touches neither the files nor the blocks found keeps.
LEMMA ElsewhereStep ==
    ASSUME IInv, pc \notin {"list", "duplicate"}, Exact(pc'), pc' \notin {"list", "duplicate"},
           UNCHANGED <<names, dir, unlisted, slot, nextSlot, opened, f, found>>,
           file' \in Nat \ {0}
    PROVE  /\ TypeOK' /\ ListInv' /\ ListingExact'
           /\ \A k \in DOMAIN found' :
                 found'[k].filenum \in DOMAIN names' /\ names'[found'[k].filenum] # NULL
           /\ opened' = Cardinality({s \in 1..SlotCount : slot'[s] # NULL})
  <1>1. ListInv' /\ ListingExact'
    BY AfterTheListing
  <1>2. TypeOK'
    BY DEF IInv, TypeOK, IsSequence
  <1> QED
    BY <1>1, <1>2 DEF IInv, FoundInv, RightFileOpen

LEMMA ScanKeeps ==
    ASSUME IInv, SkipHole \/ ScanDone \/ NoBlocks \/ EnterBlock \/ LeaveBlock
    PROVE  IInv'
  <1>1. CASE SkipHole \/ ScanDone \/ NoBlocks
    <2>1. /\ pc \in {"scan", "iterate"} /\ pc' \in {"scan", "iterate", "done"}
          /\ UNCHANGED <<names, dir, unlisted, found, step>> /\ UNCHANGED fileVars
          /\ file' = file \/ file' = file + 1
      BY <1>1 DEF SkipHole, ScanDone, NoBlocks, NextFile, fileVars, parseVars
    <2>2. file' \in Nat \ {0} /\ Exact(pc')
      BY <2>1 DEF IInv, TypeOK, Exact
    <2>3. FoundInv'
      BY <2>1, <2>2, ElsewhereStep DEF IInv, FoundInv, fileVars
    <2> QED
      BY <2>1, <2>2, <2>3, ElsewhereStep DEF IInv, FoundInv, RightFileOpen, fileVars
  <1>2. CASE EnterBlock
    <2>1. /\ pc = "iterate" /\ pc' \in {"full", "block"} /\ current' \in DOMAIN found
          /\ UNCHANGED <<names, dir, unlisted, found, step, file>> /\ UNCHANGED fileVars
      BY <1>2 DEF EnterBlock
    <2>2. file' \in Nat \ {0} /\ Exact(pc') /\ step = "idle"
      BY <2>1 DEF IInv, TypeOK, Exact, FoundInv
    <2>3. FoundInv'
      BY <2>1, <2>2, ElsewhereStep DEF FoundInv, fileVars
    <2> QED
      BY <2>1, <2>2, <2>3, ElsewhereStep DEF IInv, RightFileOpen, fileVars
  <1>3. CASE LeaveBlock
    <2>1. /\ pc = "block" /\ pc' \in {"iterate", "done"} /\ step = "idle"
          /\ UNCHANGED <<names, dir, unlisted, found, step, file>> /\ UNCHANGED fileVars
      BY <1>3 DEF LeaveBlock, parseVars
    <2>2. file' \in Nat \ {0} /\ Exact(pc')
      BY <2>1 DEF IInv, TypeOK, Exact
    <2>3. FoundInv'
      BY <2>1, <2>2, ElsewhereStep DEF FoundInv, fileVars
    <2> QED
      BY <2>1, <2>2, <2>3, ElsewhereStep DEF IInv, RightFileOpen, fileVars
  <1> QED
    BY <1>1, <1>2, <1>3

\* block_file while the files are scanned.
LEMMA ScanFileStep == ASSUME IInv, ScanBlock \/ ScanFileDone PROVE IInv'
  <1>1. /\ pc = "scan" /\ file \in DOMAIN names /\ names[file] # NULL
        /\ BlockFile(file) /\ UNCHANGED <<names, dir, unlisted, step>>
        /\ pc' \in {"scan", "past"} /\ file' \in Nat \ {0}
    <2>1. file \in Nat \ {0} /\ names \in Seq(NameOrNull)
      BY DEF IInv, TypeOK
    <2>2. CASE ScanBlock
      BY <2>1, <2>2 DEF ScanBlock
    <2>3. CASE ScanFileDone
      BY <2>1, <2>3 DEF ScanFileDone, NextFile
    <2> QED
      BY <2>2, <2>3
  <1>2. step = "idle" /\ TypeOK
    BY <1>1 DEF IInv, FoundInv
  <1>3. /\ slot' \in [1..SlotCount -> NameOrNull] /\ nextSlot' \in 1..SlotCount
        /\ f' \in 1..SlotCount
        /\ opened' = Cardinality({s \in 1..SlotCount : slot'[s] # NULL})
    BY <1>1, <1>2, BlockFileIs DEF IInv, RightFileOpen
  <1>4. ListInv' /\ ListingExact'
    BY <1>1, AfterTheListing
  <1>5. /\ IsSequence(found')
        /\ \A k \in DOMAIN found' :
              found'[k].filenum \in DOMAIN names /\ names[found'[k].filenum] # NULL
    <2>1. CASE ScanFileDone
      BY <2>1 DEF ScanFileDone, IInv, TypeOK, FoundInv, IsSequence
    <2>2. CASE ScanBlock
      <3>1. PICK b : found' = Append(found, b) /\ b.filenum = file
        BY <2>2 DEF ScanBlock
      <3>2. PICK n \in Nat : n = Len(found) /\ DOMAIN found = 1..n
        BY DEF IInv, TypeOK, IsSequence
      <3>3. /\ DOMAIN found' = 1..(n + 1) /\ found'[n + 1] = b
            /\ \A k \in 1..n : found'[k] = found[k]
        BY <3>1, <3>2 DEF IInv, TypeOK, IsSequence
      <3>4. found \in Seq({found[k] : k \in DOMAIN found} \cup {b})
        BY DEF IInv, TypeOK, IsSequence
      <3>5. found' \in Seq({found[k] : k \in DOMAIN found} \cup {b})
        BY <3>1, <3>4
      <3>6. IsSequence(found')
        BY <3>5 DEF IsSequence
      <3>7. \A k \in 1..(n + 1) : k = n + 1 \/ k \in 1..n
        BY <3>2
      <3> QED
        BY <1>1, <3>1, <3>2, <3>3, <3>6, <3>7 DEF IInv, FoundInv
    <2> QED
      BY <2>1, <2>2
  <1>6. TypeOK'
    BY <1>1, <1>2, <1>3, <1>5 DEF TypeOK, Exact
  <1>7. FoundInv' /\ RightFileOpen'
    BY <1>1, <1>2, <1>3, <1>5 DEF FoundInv, RightFileOpen
  <1> QED
    BY <1>4, <1>6, <1>7 DEF IInv

\* block_file for the first transaction of a block and for each one after it.
LEMMA NextTransactionStep == ASSUME IInv, NextTransaction PROVE IInv'
  <1>1. PICK n : n = found[current].filenum
    OBVIOUS
  <1>2. /\ pc = "block" /\ BlockFile(n)
        /\ UNCHANGED <<names, dir, unlisted, pc, file, found, current>>
    BY <1>1 DEF NextTransaction, BeginTransaction, scanVars
  <1>3. TypeOK /\ current \in DOMAIN found /\ n \in DOMAIN names /\ names[n] # NULL
    BY <1>1, <1>2 DEF IInv, FoundInv
  <1>4. /\ slot' \in [1..SlotCount -> NameOrNull] /\ nextSlot' \in 1..SlotCount
        /\ f' \in 1..SlotCount /\ slot'[f'] = names[n]
        /\ opened' = Cardinality({s \in 1..SlotCount : slot'[s] # NULL})
    BY <1>2, <1>3, BlockFileIs DEF IInv, RightFileOpen
  <1>5. ListInv' /\ ListingExact'
    BY <1>2, AfterTheListing
  <1>6. TypeOK'
    BY <1>2, <1>3, <1>4 DEF TypeOK, IsSequence
  <1>7. FoundInv'
    BY <1>2, <1>3 DEF IInv, FoundInv
  <1>8. RightFileOpen'
    BY <1>1, <1>2, <1>4 DEF RightFileOpen
  <1> QED
    BY <1>5, <1>6, <1>7, <1>8 DEF IInv

LEMMA ParseStep == ASSUME IInv, Parse \/ TransactionRead PROVE IInv'
  <1>1. /\ pc = "block" /\ step # "idle" /\ UNCHANGED fileVars
        /\ UNCHANGED <<names, dir, unlisted, pc, file, found, current>>
    BY ParsingKeepsTheFile DEF Parse, TransactionRead, scanVars
  <1>2. file' \in Nat \ {0} /\ Exact(pc')
    BY <1>1 DEF IInv, TypeOK
  <1>3. FoundInv'
    BY <1>1, <1>2, ElsewhereStep DEF IInv, FoundInv, fileVars
  <1> QED
    BY <1>1, <1>2, <1>3, ElsewhereStep DEF IInv, RightFileOpen, fileVars

LEMMA StutterIInv == ASSUME IInv, UNCHANGED vars PROVE IInv'
  <1>1. UNCHANGED <<names, slot, nextSlot, opened, f, step, dir, unlisted, pc, file, found, current>>
    BY DEF vars, fileVars, parseVars, scanVars
  <1>2. TypeOK'
    BY <1>1 DEF IInv, TypeOK, IsSequence
  <1>3. ListInv' /\ FoundInv'
    BY <1>1 DEF IInv, ListInv, FoundInv, ListedNames
  <1> QED
    BY <1>1, <1>2, <1>3 DEF IInv, RightFileOpen, ListingExact

-----------------------------------------------------------------------------
(***************************************************************************)
(* The results.                                                            *)
(***************************************************************************)

LEMMA KeepsIInv == ASSUME IInv, [Next]_vars PROVE IInv'
  <1>1. CASE Read
    <2>1. CASE ListEntry \/ ListDone
      BY <2>1, ListEntryStep, ListDoneStep
    <2>2. CASE SkipHole \/ ScanDone \/ NoBlocks \/ EnterBlock \/ LeaveBlock
      BY <2>2, ScanKeeps
    <2>3. CASE ScanBlock \/ ScanFileDone
      BY <2>3, ScanFileStep
    <2>4. CASE NextTransaction \/ Parse \/ TransactionRead
      BY <2>4, NextTransactionStep, ParseStep
    <2> QED
      BY <1>1, <2>1, <2>2, <2>3, <2>4 DEF Read
  <1>2. CASE UNCHANGED vars
    BY <1>2, StutterIInv
  <1> QED
    BY <1>1, <1>2 DEF Next

\* The inductive invariant of the listing and of the files that are open.
THEOREM Invariance == Spec => []IInv
  <1>1. IInv /\ [Next]_vars => IInv'
    BY KeepsIInv
  <1> QED
    BY <1>1, InitIInv, PTL DEF Spec

\* The list of block files has each file of the directory under its number,
\* whatever the order of readdir, and only two files of one number stop it.
THEOREM ListsTheFiles == Spec => []ListingExact
  <1>1. IInv => ListingExact
    BY DEF IInv
  <1> QED
    BY <1>1, Invariance, PTL

\* The two slots of block_file never leak a file, and each transaction is read to
\* its end from the file that the scan found its block in.
THEOREM ReadsTheRightFile == Spec => []RightFileOpen
  <1>1. IInv => RightFileOpen
    BY DEF IInv
  <1> QED
    BY <1>1, Invariance, PTL

-----------------------------------------------------------------------------
(***************************************************************************)
(* Numbers and their bytes.                                                *)
(***************************************************************************)

Byte == 0..255

\* r is v without its lowest bytes, one byte after the other.
Bared(r, n, v) ==
    /\ r \in [0..n -> Nat]
    /\ r[0] = v
    /\ \A i \in 1..n : r[i] = r[i - 1] \div 256

\* s adds up the bytes b from the highest one on.
Summed(s, b) ==
    /\ s \in [0..Len(b) -> Nat]
    /\ s[0] = 0
    /\ \A i \in 1..Len(b) : s[i] = 256 * s[i - 1] + b[Len(b) - i + 1]

LEMMA ShiftedIs == ASSUME NEW n \in Nat, NEW v \in Nat PROVE Bared(Shifted(n, v), n, v)
  <1> DEFINE g == [i \in 1..n |-> [x \in Nat |-> x \div 256]]
             rest == CHOOSE r : r = [i \in 0..n |-> IF i = 0 THEN v ELSE r[i - 1] \div 256]
  <1>1. g \in [1..n -> [Nat -> Nat]]
    <2>1. \A x \in Nat : x \div 256 \in Nat
      OBVIOUS
    <2> QED
      BY <2>1
  <1>2. PICK r \in [0..n -> Nat] : r[0] = v /\ \A i \in 1..n : r[i] = g[i][r[i - 1]]
    <2> HIDE DEF g
    <2>1. PICK r : IsLoop(r, Nat, v, n, g)
      BY <1>1, RecursiveFunction
    <2> QED
      BY <2>1 DEF IsLoop
  <1>3. \A i \in 1..n : i - 1 \in 0..n /\ i \in 0..n /\ i # 0
    OBVIOUS
  <1>4. \A i \in 1..n : r[i] = r[i - 1] \div 256
    BY <1>2, <1>3
  <1>5. r = [i \in 0..n |-> IF i = 0 THEN v ELSE r[i - 1] \div 256]
    <2>1. \A i \in 0..n : i = 0 \/ i \in 1..n
      OBVIOUS
    <2> HIDE DEF g
    <2> QED
      BY <1>2, <1>4, <2>1
  <1>6. rest = [i \in 0..n |-> IF i = 0 THEN v ELSE rest[i - 1] \div 256]
    BY <1>5
  <1>7. Shifted(n, v) = rest
    BY DEF Shifted
  <1> HIDE DEF rest, g
  <1>8. rest[0] = v /\ \A i \in 1..n : rest[i] = rest[i - 1] \div 256
    <2>1. 0 \in 0..n
      OBVIOUS
    <2>2. rest[0] = v
      BY <1>6, <2>1
    <2>3. ASSUME NEW i \in 1..n PROVE rest[i] = rest[i - 1] \div 256
      BY <1>3, <1>6
    <2> QED
      BY <2>2, <2>3
  <1>9. \A i \in 0..n : rest[i] \in Nat
    <2>1. PICK X : X = {i \in 0..n : rest[i] \in Nat}
      OBVIOUS
    <2>2. 0 \in X
      BY <1>8, <2>1
    <2>3. \A i \in 1..n : i - 1 \in X => i \in X
      BY <1>8, <2>1
    <2>4. \A i \in 0..n : i \in X
      BY <2>2, <2>3, TurnByTurn
    <2> QED
      BY <2>1, <2>4
  <1>10. rest \in [0..n -> Nat]
    BY <1>6, <1>9
  <1> QED
    BY <1>7, <1>8, <1>10 DEF Bared

LEMMA NumIs == ASSUME NEW b \in Seq(Byte) PROVE \E s : Summed(s, b) /\ Num(b) = s[Len(b)]
  <1>1. PICK n \in Nat : n = Len(b) /\ \A i \in 1..n : b[i] \in Byte
    OBVIOUS
  <1> DEFINE g == [i \in 1..n |-> [x \in Nat |-> 256 * x + b[n - i + 1]]]
             sum == CHOOSE s : s = [i \in 0..n |-> IF i = 0 THEN 0 ELSE 256 * s[i - 1] + b[n - i + 1]]
  <1>2. ASSUME NEW i \in 1..n PROVE n - i + 1 \in 1..n /\ b[n - i + 1] \in Nat
    <2>1. n - i + 1 \in 1..n
      OBVIOUS
    <2>2. b[n - i + 1] \in Byte
      BY <1>1, <2>1
    <2>3. \A x \in Byte : x \in Nat
      BY DEF Byte
    <2> QED
      BY <2>1, <2>2, <2>3
  <1>3. g \in [1..n -> [Nat -> Nat]]
    BY <1>2
  <1>4. PICK r \in [0..n -> Nat] : r[0] = 0 /\ \A i \in 1..n : r[i] = g[i][r[i - 1]]
    <2> HIDE DEF g
    <2>1. PICK r : IsLoop(r, Nat, 0, n, g)
      BY <1>3, RecursiveFunction
    <2> QED
      BY <2>1 DEF IsLoop
  <1>5. \A i \in 1..n : i - 1 \in 0..n /\ i \in 0..n /\ i # 0
    OBVIOUS
  <1>6. ASSUME NEW i \in 1..n PROVE r[i] = 256 * r[i - 1] + b[n - i + 1]
    <2>1. r[i - 1] \in Nat
      BY <1>4, <1>5
    <2>2. g[i][r[i - 1]] = 256 * r[i - 1] + b[n - i + 1]
      BY <2>1
    <2> HIDE DEF g
    <2> QED
      BY <1>4, <2>2
  <1>7. r = [i \in 0..n |-> IF i = 0 THEN 0 ELSE 256 * r[i - 1] + b[n - i + 1]]
    <2>1. \A i \in 0..n : i = 0 \/ i \in 1..n
      OBVIOUS
    <2> HIDE DEF g
    <2> QED
      BY <1>4, <1>6, <2>1
  <1>8. sum = [i \in 0..n |-> IF i = 0 THEN 0 ELSE 256 * sum[i - 1] + b[n - i + 1]]
    BY <1>7, ZenonT(60)
  <1>9. Num(b) = sum[n]
    BY <1>1 DEF Num
  <1> HIDE DEF sum, g
  <1>10. sum[0] = 0 /\ \A i \in 1..n : sum[i] = 256 * sum[i - 1] + b[n - i + 1]
    <2>1. 0 \in 0..n
      OBVIOUS
    <2>2. sum[0] = 0
      BY <1>8, <2>1
    <2>3. ASSUME NEW i \in 1..n PROVE sum[i] = 256 * sum[i - 1] + b[n - i + 1]
      BY <1>5, <1>8
    <2> QED
      BY <2>2, <2>3
  <1>11. \A i \in 0..n : sum[i] \in Nat
    <2>1. PICK X : X = {i \in 0..n : sum[i] \in Nat}
      OBVIOUS
    <2>2. 0 \in X
      BY <1>10, <2>1
    <2>3. ASSUME NEW i \in 1..n, i - 1 \in X PROVE i \in X
      <3>1. sum[i - 1] \in Nat
        BY <2>1, <2>3
      <3>2. sum[i] = 256 * sum[i - 1] + b[n - i + 1] /\ b[n - i + 1] \in Nat
        BY <1>2, <1>10
      <3> QED
        BY <1>5, <2>1, <3>1, <3>2, SMTT(30)
    <2>4. \A i \in 0..n : i \in X
      BY <2>2, <2>3, TurnByTurn
    <2> QED
      BY <2>1, <2>4
  <1>12. sum \in [0..n -> Nat]
    BY <1>8, <1>11
  <1> QED
    BY <1>1, <1>9, <1>10, <1>12 DEF Summed

LEMMA NumIsNatural == ASSUME NEW b \in Seq(Byte) PROVE Num(b) \in Nat
  <1>1. PICK s : Summed(s, b) /\ Num(b) = s[Len(b)]
    BY NumIs
  <1>2. Len(b) \in 0..Len(b)
    OBVIOUS
  <1> QED
    BY <1>1, <1>2 DEF Summed

LEMMA LeIs ==
    ASSUME NEW n \in Nat, NEW v \in Nat
    PROVE  /\ Le(n, v) \in Seq(Byte) /\ Len(Le(n, v)) = n
           /\ \A i \in 1..n : Le(n, v)[i] = Shifted(n, v)[i - 1] % 256
  <1>1. PICK r : r = Shifted(n, v)
    OBVIOUS
  <1>2. Le(n, v) = [i \in 1..n |-> r[i - 1] % 256]
    BY <1>1 DEF Le
  <1>3. \A i \in 1..n : r[i - 1] \in Nat
    <2>1. Bared(r, n, v)
      BY <1>1, ShiftedIs
    <2>2. \A i \in 1..n : i - 1 \in 0..n
      OBVIOUS
    <2> QED
      BY <2>1, <2>2 DEF Bared
  <1>4. \A i \in 1..n : r[i - 1] % 256 \in Byte
    BY <1>3 DEF Byte
  <1>5. Le(n, v) \in Seq(Byte) /\ Len(Le(n, v)) = n
    BY <1>2, <1>4
  <1> QED
    BY <1>1, <1>2, <1>5

\* What is written in as many bytes as it needs is read again.
LEMMA NumOfLe == ASSUME NEW n \in Nat, NEW v, Fits(n, v) PROVE Num(Le(n, v)) = v
  <1>1. v \in Nat /\ Shifted(n, v)[n] = 0
    BY DEF Fits
  <1>2. PICK r : r = Shifted(n, v)
    OBVIOUS
  <1>3. /\ r \in [0..n -> Nat] /\ r[0] = v /\ r[n] = 0
        /\ \A i \in 1..n : r[i] = r[i - 1] \div 256
    <2>1. Bared(r, n, v)
      BY <1>1, <1>2, ShiftedIs
    <2> QED
      BY <1>1, <1>2, <2>1 DEF Bared
  <1>4. PICK b : b = Le(n, v)
    OBVIOUS
  <1>5. b \in Seq(Byte) /\ Len(b) = n /\ \A i \in 1..n : b[i] = r[i - 1] % 256
    <2>1. Le(n, v) \in Seq(Byte) /\ Len(Le(n, v)) = n
      BY <1>1, LeIs
    <2>2. \A i \in 1..n : Le(n, v)[i] = Shifted(n, v)[i - 1] % 256
      BY <1>1, LeIs
    <2> QED
      BY <1>2, <1>4, <2>1, <2>2
  <1>6. PICK s \in [0..n -> Nat] :
          s[0] = 0 /\ Num(b) = s[n] /\ \A i \in 1..n : s[i] = 256 * s[i - 1] + b[n - i + 1]
    <2>1. PICK s : Summed(s, b) /\ Num(b) = s[n]
      BY <1>5, NumIs
    <2>2. /\ s \in [0..n -> Nat] /\ s[0] = 0
          /\ \A i \in 1..n : s[i] = 256 * s[i - 1] + b[n - i + 1]
      <3>1. Len(b) = n
        BY <1>5
      <3> QED
        BY <2>1, <3>1 DEF Summed
    <2> QED
      BY <2>1, <2>2
  <1>7. PICK X : X = {i \in 0..n : s[i] = r[n - i]}
    OBVIOUS
  <1>8. 0 \in X
    BY <1>3, <1>6, <1>7
  <1>9. ASSUME NEW i \in 1..n, i - 1 \in X PROVE i \in X
    <2>1. PICK j \in 1..n : j = n - i + 1
      OBVIOUS
    <2>2. s[i - 1] = r[j]
      <3>1. n - (i - 1) = j
        BY <2>1
      <3> QED
        BY <1>7, <1>9, <3>1
    <2>3. s[i] = 256 * r[j] + b[j]
      BY <1>6, <2>1, <2>2
    <2>4. r[j] = r[j - 1] \div 256 /\ b[j] = r[j - 1] % 256 /\ r[j - 1] \in Nat
      <3>1. j - 1 \in 0..n
        BY <2>1
      <3> QED
        BY <1>3, <1>5, <3>1
    <2>5. s[i] = r[j - 1]
      <3>1. PICK x \in Nat : x = r[j - 1]
        BY <2>4
      <3>2. 256 * (x \div 256) + (x % 256) = x
        OBVIOUS
      <3> QED
        BY <2>3, <2>4, <3>1, <3>2
    <2>6. j - 1 = n - i /\ i \in 0..n
      BY <2>1
    <2> QED
      BY <1>7, <2>5, <2>6
  <1>10. \A i \in 0..n : i \in X
    BY <1>8, <1>9, TurnByTurn
  <1>11. n \in X
    BY <1>10
  <1>12. s[n] = r[0]
    BY <1>7, <1>11
  <1> QED
    BY <1>3, <1>4, <1>6, <1>12

LEMMA FitsInTwo == ASSUME NEW v \in Nat PROVE Fits(2, v) <=> v <= 65535
  <1>1. PICK r : r = Shifted(2, v)
    OBVIOUS
  <1>2. Bared(r, 2, v)
    BY <1>1, ShiftedIs
  <1>3. r[0] = v /\ r[1] = r[1 - 1] \div 256 /\ r[2] = r[2 - 1] \div 256
    BY <1>2 DEF Bared
  <1>4. r[2] = (v \div 256) \div 256
    BY <1>3
  <1>5. (v \div 256) \div 256 = 0 <=> v <= 65535
    OBVIOUS
  <1> QED
    BY <1>1, <1>4, <1>5 DEF Fits

LEMMA FitsInFour == ASSUME NEW v \in Nat PROVE Fits(4, v) <=> v \div 65536 <= 65535
  <1>1. PICK r : r = Shifted(4, v)
    OBVIOUS
  <1>2. Bared(r, 4, v)
    BY <1>1, ShiftedIs
  <1>3. /\ r[0] = v /\ r[1] = r[1 - 1] \div 256 /\ r[2] = r[2 - 1] \div 256
        /\ r[3] = r[3 - 1] \div 256 /\ r[4] = r[4 - 1] \div 256
    BY <1>2 DEF Bared
  <1>4. PICK x : x = (v \div 256) \div 256
    OBVIOUS
  <1>5. x = v \div 65536 /\ x \in Nat
    BY <1>4
  <1>6. r[4] = (x \div 256) \div 256
    BY <1>3, <1>4
  <1>7. (x \div 256) \div 256 = 0 <=> x <= 65535
    BY <1>5
  <1> QED
    BY <1>1, <1>5, <1>6, <1>7 DEF Fits

\* b is n as a varint, and pull_varint reads it as such.
IsVarint(b, n) ==
    b \in Seq(Byte) /\ Len(b) \in Nat \ {0} /\ VarSize(b[1]) = Len(b) /\ VarValue(b) = n

LEMMA LongVarint ==
    ASSUME NEW n, NEW w \in {2, 4, 8}, Fits(w, n),
           NEW lead, lead = (IF w = 2 THEN 253 ELSE IF w = 4 THEN 254 ELSE 255)
    PROVE  IsVarint(<<lead>> \o Le(w, n), n)
  <1>1. n \in Nat /\ w \in Nat /\ lead \in Byte
    BY DEF Fits, Byte
  <1>2. PICK s : s = Le(w, n)
    OBVIOUS
  <1>3. s \in Seq(Byte) /\ Len(s) = w
    BY <1>1, <1>2, LeIs
  <1>4. Num(s) = n
    BY <1>1, <1>2, NumOfLe
  <1>5. PICK b : b = <<lead>> \o s
    OBVIOUS
  <1>6. b \in Seq(Byte) /\ Len(b) = w + 1 /\ b[1] = lead /\ Tail(b) = s
    BY <1>1, <1>3, <1>5
  <1>7. VarSize(b[1]) = Len(b)
    BY <1>6 DEF VarSize
  <1>8. VarValue(b) = n
    <2>1. Len(b) # 1
      BY <1>6
    <2>2. Num(Tail(b)) = n
      BY <1>4, <1>6
    <2> QED
      BY <2>1, <2>2 DEF VarValue
  <1> QED
    BY <1>1, <1>2, <1>5, <1>6, <1>7, <1>8 DEF IsVarint

\* A varint is read as what was written, and printed in the same bytes.
LEMMA CompactSizeIs ==
    ASSUME NEW n, Fits(8, n)
    PROVE  IsVarint(CompactSize(n), n) /\ PrintVarint(n) = CompactSize(n)
  <1>1. n \in Nat
    BY DEF Fits
  <1>2. CASE n < 253
    <2>1. CompactSize(n) = <<n>> /\ PrintVarint(n) = <<n>>
      BY <1>2 DEF CompactSize, PrintVarint
    <2>2. IsVarint(<<n>>, n)
      BY <1>1, <1>2 DEF IsVarint, VarSize, VarValue, Byte
    <2> QED
      BY <2>1, <2>2
  <1>3. CASE n >= 253
    <2> DEFINE W == {w \in {2, 4, 8} : Fits(w, n)}
    <2>1. PICK w : w = Min(W)
      OBVIOUS
    <2>2. w = IF Fits(2, n) THEN 2 ELSE IF Fits(4, n) THEN 4 ELSE 8
      <3>1. PICK m \in W : m = IF Fits(2, n) THEN 2 ELSE IF Fits(4, n) THEN 4 ELSE 8
        OBVIOUS
      <3>2. \A x \in W : m <= x
        BY <3>1
      <3>3. W \in SUBSET Nat
        OBVIOUS
      <3> HIDE DEF W
      <3>4. w \in W /\ \A x \in W : w <= x
        BY <2>1, <3>2 DEF Min
      <3>5. w <= m /\ m <= w /\ w \in Nat /\ m \in Nat
        BY <3>2, <3>3, <3>4
      <3> QED
        BY <3>1, <3>5
    <2>3. PICK lead : lead = (IF w = 2 THEN 253 ELSE IF w = 4 THEN 254 ELSE 255)
      OBVIOUS
    <2>4. w \in {2, 4, 8} /\ Fits(w, n)
      BY <2>2
    <2>5. CompactSize(n) = <<lead>> \o Le(w, n)
      <3>1. CompactSize(n) = <<CASE w = 2 -> 253 [] w = 4 -> 254 [] w = 8 -> 255>> \o Le(w, n)
        <4>1. ~(n < 253)
          BY <1>1, <1>3
        <4> QED
          BY <4>1, <2>1, Zenon DEF CompactSize
      <3>2. (CASE w = 2 -> 253 [] w = 4 -> 254 [] w = 8 -> 255) = lead
        BY <2>3, <2>4
      <3> QED
        BY <3>1, <3>2
    <2>6. PrintVarint(n) = <<lead>> \o Le(w, n)
      <3>1. Fits(2, n) <=> n <= 65535
        BY <1>1, FitsInTwo
      <3>2. Fits(4, n) <=> n \div 65536 <= 65535
        BY <1>1, FitsInFour
      <3>3. CASE Fits(2, n)
        BY <1>1, <1>3, <2>2, <2>3, <3>1, <3>3 DEF PrintVarint
      <3>4. CASE ~Fits(2, n) /\ Fits(4, n)
        BY <1>1, <1>3, <2>2, <2>3, <3>1, <3>2, <3>4 DEF PrintVarint
      <3>5. CASE ~Fits(2, n) /\ ~Fits(4, n)
        BY <1>1, <1>3, <2>2, <2>3, <3>1, <3>2, <3>5 DEF PrintVarint
      <3> QED
        BY <3>3, <3>4, <3>5
    <2>7. IsVarint(<<lead>> \o Le(w, n), n)
      BY <2>3, <2>4, LongVarint
    <2> QED
      BY <2>5, <2>6, <2>7
  <1> QED
    BY <1>1, <1>2, <1>3

-----------------------------------------------------------------------------
(***************************************************************************)
(* Sequences put together.                                                 *)
(***************************************************************************)

\* What FlattenSeq makes of the first m of them.
Upto(seqs, m) == FlattenSeq(SubSeq(seqs, 1, m))

Running(run, seqs, S) ==
    /\ run \in [0..Len(seqs) -> Seq(S)]
    /\ run[0] = <<>>
    /\ \A i \in 1..Len(seqs) : run[i] = run[i - 1] \o seqs[i]

LEMMA RunExists ==
    ASSUME NEW S, NEW seqs \in Seq(Seq(S))
    PROVE  \E run : Running(run, seqs, S)
  <1>1. PICK n \in Nat : n = Len(seqs) /\ \A i \in 1..n : seqs[i] \in Seq(S)
    OBVIOUS
  <1> DEFINE g == [i \in 1..n |-> [x \in Seq(S) |-> x \o seqs[i]]]
  <1>2. g \in [1..n -> [Seq(S) -> Seq(S)]]
    <2>1. \A i \in 1..n : \A x \in Seq(S) : x \o seqs[i] \in Seq(S)
      BY <1>1
    <2> QED
      BY <2>1
  <1>3. <<>> \in Seq(S)
    OBVIOUS
  <1>4. PICK r : r \in [0..n -> Seq(S)] /\ r[0] = <<>> /\ \A i \in 1..n : r[i] = g[i][r[i - 1]]
    <2> HIDE DEF g
    <2>1. PICK r : IsLoop(r, Seq(S), <<>>, n, g)
      BY <1>2, <1>3, RecursiveFunction
    <2> QED
      BY <2>1 DEF IsLoop
  <1>5. ASSUME NEW i \in 1..n PROVE r[i] = r[i - 1] \o seqs[i]
    <2>1. r[i - 1] \in Seq(S)
      <3>1. i - 1 \in 0..n
        OBVIOUS
      <3> QED
        BY <1>4, <3>1
    <2>2. g[i][r[i - 1]] = r[i - 1] \o seqs[i]
      BY <2>1
    <2> HIDE DEF g
    <2> QED
      BY <1>4, <2>2
  <1> QED
    BY <1>1, <1>4, <1>5 DEF Running

LEMMA FlattenRun ==
    ASSUME NEW S, NEW seqs \in Seq(Seq(S)), NEW run, Running(run, seqs, S)
    PROVE  FlattenSeq(seqs) = run[Len(seqs)]
  <1>1. PICK n \in Nat : n = Len(seqs) /\ \A i \in 1..n : seqs[i] \in Seq(S)
    OBVIOUS
  <1>2. run[0] = <<>> /\ \A i \in 1..n : run[i] = run[i - 1] \o seqs[i]
    BY <1>1 DEF Running
  <1>3. CASE n = 0
    <2>1. seqs = <<>>
      BY <1>1, <1>3, EmptySeq
    <2> QED
      BY <1>1, <1>2, <1>3, <2>1 DEF FlattenSeq
  <1>4. CASE n # 0
    <2> DEFINE w == CHOOSE h : h = [i \in 1..n |-> IF i = 1 THEN seqs[i] ELSE h[i - 1] \o seqs[i]]
    <2>1. PICK h : h = [i \in 1..n |-> run[i]]
      OBVIOUS
    <2>2. ASSUME NEW i \in 1..n PROVE h[i] = IF i = 1 THEN seqs[i] ELSE h[i - 1] \o seqs[i]
      <3>1. h[i] = run[i] /\ run[i] = run[i - 1] \o seqs[i] /\ seqs[i] \in Seq(S)
        BY <1>1, <1>2, <2>1
      <3>2. CASE i = 1
        <4>1. run[i - 1] = <<>>
          BY <1>2, <3>2
        <4>2. \A x \in Seq(S) : <<>> \o x = x
          OBVIOUS
        <4> QED
          BY <3>1, <3>2, <4>1, <4>2
      <3>3. CASE i # 1
        <4>1. i - 1 \in 1..n
          BY <3>3
        <4> QED
          BY <2>1, <3>1, <3>3, <4>1
      <3> QED
        BY <3>2, <3>3
    <2>3. h = [i \in 1..n |-> IF i = 1 THEN seqs[i] ELSE h[i - 1] \o seqs[i]]
      BY <2>1, <2>2
    <2>4. w = [i \in 1..n |-> IF i = 1 THEN seqs[i] ELSE w[i - 1] \o seqs[i]]
      BY <2>3
    <2>5. FlattenSeq(seqs) = w[n]
      BY <1>1, <1>4 DEF FlattenSeq
    <2> HIDE DEF w
    <2>6. PICK X : X = {i \in 0..n : i = 0 \/ w[i] = h[i]}
      OBVIOUS
    <2>7. 0 \in X
      BY <2>6
    <2>8. ASSUME NEW i \in 1..n, i - 1 \in X PROVE i \in X
      <3>1. w[i] = IF i = 1 THEN seqs[i] ELSE w[i - 1] \o seqs[i]
        BY <2>4
      <3>2. i = 1 \/ w[i - 1] = h[i - 1]
        BY <2>6, <2>8
      <3> QED
        BY <2>2, <2>6, <3>1, <3>2
    <2>9. \A i \in 0..n : i \in X
      BY <2>7, <2>8, TurnByTurn
    <2>10. w[n] = h[n]
      BY <1>4, <2>6, <2>9
    <2> QED
      BY <1>1, <1>4, <2>1, <2>5, <2>10
  <1> QED
    BY <1>3, <1>4

\* Upto starts from nothing, and each turn adds the next of the sequences.
Grows(seqs, S) ==
    /\ \A m \in 0..Len(seqs) : Upto(seqs, m) \in Seq(S)
    /\ Upto(seqs, 0) = <<>>
    /\ \A m \in 1..Len(seqs) : Upto(seqs, m) = Upto(seqs, m - 1) \o seqs[m]
    /\ FlattenSeq(seqs) = Upto(seqs, Len(seqs))

LEMMA UptoIs == ASSUME NEW S, NEW seqs \in Seq(Seq(S)) PROVE Grows(seqs, S)
  <1>1. PICK n \in Nat : n = Len(seqs) /\ \A i \in 1..n : seqs[i] \in Seq(S)
    OBVIOUS
  <1>2. PICK run : Running(run, seqs, S)
    BY RunExists
  <1>3. /\ run \in [0..n -> Seq(S)] /\ run[0] = <<>>
        /\ \A i \in 1..n : run[i] = run[i - 1] \o seqs[i]
    BY <1>1, <1>2 DEF Running
  <1>4. FlattenSeq(seqs) = run[n]
    BY <1>1, <1>2, FlattenRun
  <1>5. ASSUME NEW m \in 0..n PROVE Upto(seqs, m) = run[m]
    <2>1. PICK s : s = SubSeq(seqs, 1, m)
      OBVIOUS
    <2>2. s \in Seq(Seq(S)) /\ Len(s) = m /\ \A i \in 1..m : s[i] = seqs[i]
      BY <1>1, <2>1
    <2>3. PICK r : r = [i \in 0..m |-> run[i]]
      OBVIOUS
    <2>4. Running(r, s, S)
      <3>1. r \in [0..m -> Seq(S)] /\ r[0] = <<>>
        BY <1>3, <2>3
      <3>2. ASSUME NEW i \in 1..m PROVE r[i] = r[i - 1] \o s[i]
        <4>1. i \in 1..n /\ i \in 0..m /\ i - 1 \in 0..m
          BY <1>1
        <4> QED
          BY <1>3, <2>2, <2>3, <4>1
      <3> QED
        BY <2>2, <3>1, <3>2 DEF Running
    <2>5. FlattenSeq(s) = r[m]
      BY <2>2, <2>4, FlattenRun
    <2> QED
      BY <2>1, <2>3, <2>5 DEF Upto
  <1>6. Upto(seqs, 0) = <<>> /\ FlattenSeq(seqs) = Upto(seqs, n)
    BY <1>3, <1>4, <1>5
  <1>7. \A m \in 0..n : Upto(seqs, m) \in Seq(S)
    BY <1>3, <1>5
  <1>8. ASSUME NEW m \in 1..n PROVE Upto(seqs, m) = Upto(seqs, m - 1) \o seqs[m]
    <2>1. m \in 0..n /\ m - 1 \in 0..n
      OBVIOUS
    <2> QED
      BY <1>3, <1>5, <2>1
  <1> QED
    BY <1>1, <1>6, <1>7, <1>8 DEF Grows

\* Where the sequences are in what they have been put together to.
LEMMA PartsAre ==
    ASSUME NEW S, NEW seqs \in Seq(Seq(S)), NEW m \in 1..Len(seqs)
    PROVE  /\ Len(Upto(seqs, m - 1)) \in Nat /\ Len(seqs[m]) \in Nat
           /\ Len(Upto(seqs, m)) = Len(Upto(seqs, m - 1)) + Len(seqs[m])
           /\ Len(Upto(seqs, m)) <= Len(FlattenSeq(seqs))
           /\ \A j \in 1..Len(seqs[m]) : FlattenSeq(seqs)[Len(Upto(seqs, m - 1)) + j] = seqs[m][j]
  <1>1. PICK n \in Nat : n = Len(seqs) /\ \A i \in 1..n : seqs[i] \in Seq(S)
    OBVIOUS
  <1>2. Grows(seqs, S)
    BY UptoIs
  <1>3. PICK u : u = [i \in 0..n |-> Upto(seqs, i)]
    OBVIOUS
  <1>4. /\ u \in [0..n -> Seq(S)]
        /\ \A i \in 1..n : u[i] = u[i - 1] \o seqs[i]
    <2>1. \A i \in 1..n : i - 1 \in 0..n /\ i \in 0..n
      OBVIOUS
    <2>2. u \in [0..n -> Seq(S)]
      BY <1>1, <1>2, <1>3 DEF Grows
    <2>3. \A i \in 1..n : Upto(seqs, i) = Upto(seqs, i - 1) \o seqs[i]
      BY <1>1, <1>2 DEF Grows
    <2> QED
      BY <1>3, <2>1, <2>2, <2>3
  <1>5. FlattenSeq(seqs) = u[n]
    BY <1>1, <1>2, <1>3 DEF Grows
  <1>6. m \in 1..n /\ m - 1 \in 0..n /\ m \in 0..n /\ n - m \in Nat
    BY <1>1
  <1>7. PICK X : X = {k \in 0..(n - m) :
                       Len(u[m]) <= Len(u[m + k]) /\ \A j \in 1..Len(u[m]) : u[m + k][j] = u[m][j]}
    OBVIOUS
  <1>8. 0 \in X
    BY <1>4, <1>6, <1>7
  <1>9. ASSUME NEW k \in 1..(n - m), k - 1 \in X PROVE k \in X
    <2>1. PICK p \in 1..n : p = m + k /\ p - 1 \in 0..n
      BY <1>6
    <2>2. PICK a \in Seq(S) : a = u[p - 1]
      BY <1>4, <2>1
    <2>3. PICK b \in Seq(S) : b = u[m]
      BY <1>4, <1>6
    <2>4. u[p] = a \o seqs[p] /\ seqs[p] \in Seq(S)
      BY <1>1, <1>4, <2>1, <2>2
    <2>5. Len(b) <= Len(a) /\ \A j \in 1..Len(b) : a[j] = b[j]
      <3>1. m + (k - 1) = p - 1
        BY <1>6, <2>1
      <3> QED
        BY <1>7, <1>9, <2>2, <2>3, <3>1
    <2>6. Len(b) <= Len(u[p]) /\ \A j \in 1..Len(b) : u[p][j] = b[j]
      BY <2>4, <2>5
    <2>7. k \in 0..(n - m)
      BY <1>6
    <2> QED
      BY <1>7, <2>1, <2>3, <2>6, <2>7
  <1>10. n - m \in X
    <2>1. \A k \in 0..(n - m) : k \in X
      BY <1>6, <1>8, <1>9, TurnByTurn
    <2> QED
      BY <1>6, <2>1
  <1>11. Len(u[m]) <= Len(u[n]) /\ \A j \in 1..Len(u[m]) : u[n][j] = u[m][j]
    <2>1. m + (n - m) = n
      BY <1>6
    <2> QED
      BY <1>7, <1>10, <2>1
  <1>12. PICK a \in Seq(S) : a = u[m - 1]
    BY <1>4, <1>6
  <1>13. u[m] = a \o seqs[m] /\ seqs[m] \in Seq(S)
    BY <1>1, <1>4, <1>6, <1>12
  <1>14. /\ Len(u[m]) = Len(a) + Len(seqs[m])
         /\ \A j \in 1..Len(seqs[m]) : u[m][Len(a) + j] = seqs[m][j] /\ Len(a) + j \in 1..Len(u[m])
    BY <1>13
  <1>15. Upto(seqs, m) = u[m] /\ Upto(seqs, m - 1) = a
    BY <1>3, <1>6, <1>12
  <1>16. Len(u[m]) \in Nat /\ Len(a) \in Nat /\ Len(seqs[m]) \in Nat
    <2>1. \A x \in Seq(S) : Len(x) \in Nat
      OBVIOUS
    <2>2. u[m] \in Seq(S)
      BY <1>4, <1>6
    <2> QED
      BY <1>13, <2>1, <2>2
  <1>17. ASSUME NEW j \in 1..Len(seqs[m]) PROVE FlattenSeq(seqs)[Len(a) + j] = seqs[m][j]
    BY <1>5, <1>11, <1>14
  <1>18. Len(u[m]) <= Len(FlattenSeq(seqs))
    BY <1>5, <1>11
  <1> QED
    BY <1>14, <1>15, <1>16, <1>17, <1>18

-----------------------------------------------------------------------------
(***************************************************************************)
(* What a file holds, and what is read of it.                              *)
(***************************************************************************)

\* The bytes of d from o on are those of s, as far as there are any.
Holds(d, o, s) == \A k \in 1..Len(s) : o + k <= Len(d) => d[o + k] = s[k]

LEMMA BothBytes ==
    ASSUME NEW a \in Seq(Byte), NEW b \in Seq(Byte)
    PROVE  /\ a \o b \in Seq(Byte) /\ Len(a \o b) = Len(a) + Len(b)
           /\ Len(a) \in Nat /\ Len(b) \in Nat
  OBVIOUS

LEMMA HoldsBoth ==
    ASSUME NEW d \in Seq(Byte), NEW o \in Nat, NEW a \in Seq(Byte), NEW b \in Seq(Byte),
           Holds(d, o, a \o b)
    PROVE  /\ Holds(d, o, a) /\ Holds(d, o + Len(a), b)
           /\ a \o b \in Seq(Byte) /\ Len(a \o b) = Len(a) + Len(b)
           /\ Len(a) \in Nat /\ Len(b) \in Nat /\ o + Len(a) \in Nat
  <1>1. PICK la \in Nat : la = Len(a)
    OBVIOUS
  <1>2. PICK lb \in Nat : lb = Len(b)
    OBVIOUS
  <1>3. PICK c : c = a \o b
    OBVIOUS
  <1>4. c \in Seq(Byte) /\ Len(c) = la + lb
    BY <1>1, <1>2, <1>3
  <1>5. Holds(d, o, a)
    <2>1. ASSUME NEW k \in 1..la, o + k <= Len(d) PROVE d[o + k] = a[k]
      <3>1. k \in 1..Len(c) /\ c[k] = a[k]
        BY <1>1, <1>2, <1>3, <1>4
      <3> QED
        BY <1>3, <2>1, <3>1 DEF Holds
    <2> QED
      BY <1>1, <2>1 DEF Holds
  <1>6. Holds(d, o + la, b)
    <2>1. ASSUME NEW k \in 1..lb, (o + la) + k <= Len(d) PROVE d[(o + la) + k] = b[k]
      <3>1. la + k \in 1..Len(c) /\ c[la + k] = b[k] /\ o + (la + k) = (o + la) + k
        BY <1>1, <1>2, <1>3, <1>4
      <3>2. o + (la + k) <= Len(d) => d[o + (la + k)] = c[la + k]
        BY <1>3, <3>1 DEF Holds
      <3> QED
        BY <2>1, <3>1, <3>2
    <2> QED
      BY <1>2, <2>1 DEF Holds
  <1> QED
    BY <1>1, <1>2, <1>3, <1>4, <1>5, <1>6

LEMMA HoldsPart ==
    ASSUME NEW d \in Seq(Byte), NEW o \in Nat, NEW seqs \in Seq(Seq(Byte)), NEW m \in 1..Len(seqs),
           Holds(d, o, FlattenSeq(seqs))
    PROVE  Holds(d, o + Len(Upto(seqs, m - 1)), seqs[m])
  <1>1. PICK before \in Nat : before = Len(Upto(seqs, m - 1))
    BY PartsAre
  <1>2. PICK l \in Nat : l = Len(seqs[m])
    BY PartsAre
  <1>3. before + l <= Len(FlattenSeq(seqs))
    BY <1>1, <1>2, PartsAre
  <1>4. \A j \in 1..l : FlattenSeq(seqs)[before + j] = seqs[m][j]
    BY <1>1, <1>2, PartsAre
  <1>5. FlattenSeq(seqs) \in Seq(Byte)
    <2>1. Grows(seqs, Byte) /\ Len(seqs) \in 0..Len(seqs)
      BY UptoIs
    <2> QED
      BY <2>1 DEF Grows
  <1>6. PICK s \in Seq(Byte) : s = FlattenSeq(seqs)
    BY <1>5
  <1>7. ASSUME NEW k \in 1..l, (o + before) + k <= Len(d) PROVE d[(o + before) + k] = seqs[m][k]
    <2>1. before + k \in 1..Len(s) /\ o + (before + k) = (o + before) + k
      BY <1>3, <1>6
    <2>2. o + (before + k) <= Len(d) => d[o + (before + k)] = s[before + k]
      BY <1>6, <2>1 DEF Holds
    <2> QED
      BY <1>4, <1>6, <1>7, <2>1, <2>2
  <1> QED
    BY <1>1, <1>2, <1>7 DEF Holds

LEMMA SliceIs ==
    ASSUME NEW d \in Seq(Byte), NEW o \in Nat, NEW n \in Nat
    PROVE  /\ Slice(d, o, n) \in Seq(Byte) /\ Len(Slice(d, o, n)) = n
           /\ \A k \in 1..n : Slice(d, o, n)[k] = IF o + k <= Len(d) THEN d[o + k] ELSE 0
  <1>1. PICK s : s = Slice(d, o, n)
    OBVIOUS
  <1>2. s = [k \in 1..n |-> IF o + k <= Len(d) THEN d[o + k] ELSE 0]
    BY <1>1 DEF Slice
  <1>3. \A k \in 1..n : (IF o + k <= Len(d) THEN d[o + k] ELSE 0) \in Byte
    <2>1. ASSUME NEW k \in 1..n, o + k <= Len(d) PROVE d[o + k] \in Byte
      <3>1. o + k \in 1..Len(d)
        BY <2>1
      <3> QED
        BY <3>1
    <2>2. 0 \in Byte
      BY DEF Byte
    <2> QED
      BY <2>1, <2>2
  <1>4. s \in [1..n -> Byte]
    BY <1>2, <1>3
  <1>5. s \in Seq(Byte) /\ Len(s) = n
    BY <1>4
  <1> QED
    BY <1>1, <1>2, <1>5

LEMMA HoldsSlice ==
    ASSUME NEW d \in Seq(Byte), NEW o \in Nat, NEW s \in Seq(Byte), Holds(d, o, s),
           o + Len(s) <= Len(d)
    PROVE  Slice(d, o, Len(s)) = s
  <1>1. PICK n \in Nat : n = Len(s)
    OBVIOUS
  <1>2. PICK t : t = Slice(d, o, n)
    OBVIOUS
  <1>3. t \in Seq(Byte) /\ Len(t) = n
    BY <1>2, SliceIs
  <1>4. ASSUME NEW k \in 1..n PROVE t[k] = s[k]
    <2>1. t[k] = IF o + k <= Len(d) THEN d[o + k] ELSE 0
      BY <1>2, SliceIs, ZenonT(60)
    <2>2. o + k <= Len(d)
      BY <1>1
    <2> QED
      BY <1>1, <2>1, <2>2 DEF Holds
  <1>5. t = s
    BY <1>1, <1>3, <1>4, SeqEqual
  <1> QED
    BY <1>1, <1>2, <1>5

\* pull_varint, wherever it is, reads a number and moves on.
LEMMA VarIsNatural ==
    ASSUME NEW d \in Seq(Byte), NEW o \in Nat
    PROVE  VarIn(d, o) \in Nat /\ VarLenIn(d, o) \in Nat \ {0}
  <1>1. VarLenIn(d, o) \in {1, 3, 5, 9}
    BY DEF VarLenIn, VarSize
  <1>2. PICK n \in Nat \ {0} : n = VarLenIn(d, o)
    BY <1>1
  <1>3. PICK s \in Seq(Byte) : s = Slice(d, o, n) /\ Len(s) = n
    BY SliceIs
  <1>4. VarIn(d, o) = VarValue(s)
    BY <1>2, <1>3 DEF VarIn
  <1>5. s[1] \in Nat
    <2>1. s[1] \in Byte
      BY <1>2, <1>3
    <2>2. \A x \in Byte : x \in Nat
      BY DEF Byte
    <2> QED
      BY <2>1, <2>2
  <1>6. Num(Tail(s)) \in Nat
    <2>1. Tail(s) \in Seq(Byte)
      BY <1>2, <1>3
    <2> QED
      BY <2>1, NumIsNatural
  <1> QED
    BY <1>2, <1>4, <1>5, <1>6 DEF VarValue

\* Where there is a varint pull_varint reads it, if it is all there.
LEMMA HoldsVarint ==
    ASSUME NEW d \in Seq(Byte), NEW o \in Nat, NEW n, Fits(8, n), Holds(d, o, CompactSize(n)),
           o + VarLenIn(d, o) <= Len(d) \/ o + Len(CompactSize(n)) <= Len(d)
    PROVE  /\ VarIn(d, o) = n /\ VarLenIn(d, o) = Len(CompactSize(n)) /\ n \in Nat
           /\ VarLenIn(d, o) \in Nat \ {0} /\ CompactSize(n) \in Seq(Byte)
           /\ o + VarLenIn(d, o) \in Nat /\ o + VarLenIn(d, o) <= Len(d)
  <1>1. PICK b : b = CompactSize(n)
    OBVIOUS
  <1>2. IsVarint(b, n)
    BY <1>1, CompactSizeIs
  <1>3. PICK l \in Nat \ {0} : b \in Seq(Byte) /\ Len(b) = l /\ VarSize(b[1]) = l /\ VarValue(b) = n
    BY <1>2 DEF IsVarint
  <1>4. PICK v \in Nat \ {0} : v = VarLenIn(d, o)
    BY VarIsNatural
  <1>5. o + 1 <= Len(d)
    BY <1>1, <1>3, <1>4
  <1>6. PICK x : x = Slice(d, o, 1)[1]
    OBVIOUS
  <1>7. x = b[1]
    <2>1. x = d[o + 1]
      BY <1>5, <1>6, SliceIs
    <2>2. 1 \in 1..Len(b)
      BY <1>3
    <2> QED
      BY <1>1, <1>5, <2>1, <2>2 DEF Holds
  <1>8. v = l
    BY <1>3, <1>4, <1>6, <1>7 DEF VarLenIn
  <1>9. o + Len(b) <= Len(d)
    BY <1>1, <1>3, <1>4, <1>8
  <1>10. Slice(d, o, Len(b)) = b
    BY <1>1, <1>3, <1>9, HoldsSlice
  <1>11. VarIn(d, o) = n
    BY <1>3, <1>4, <1>8, <1>10 DEF VarIn
  <1> QED
    BY <1>1, <1>3, <1>4, <1>8, <1>9, <1>11 DEF Fits

\* le32_to_cpu and le64_to_cpu of a field.
LEMMA HoldsNumber ==
    ASSUME NEW d \in Seq(Byte), NEW o \in Nat, NEW n \in Nat, NEW v, Fits(n, v),
           Holds(d, o, Le(n, v)), o + n <= Len(d)
    PROVE  Num(Slice(d, o, n)) = v
  <1>1. v \in Nat
    BY DEF Fits
  <1>2. PICK s \in Seq(Byte) : s = Le(n, v) /\ Len(s) = n
    BY <1>1, LeIs
  <1>3. Slice(d, o, n) = s
    BY <1>2, HoldsSlice
  <1> QED
    BY <1>2, <1>3, NumOfLe

-----------------------------------------------------------------------------
(***************************************************************************)
(* A transaction as it is stored: its fields, and where they are.          *)
(***************************************************************************)

Ins(t) == [k \in DOMAIN t.input |-> StoredIn(t.input[k])]
Outs(t) == [k \in DOMAIN t.output |-> StoredOut(t.output[k])]
Items(w) == [k \in DOMAIN w |-> Script(w[k])]
Wits(t) == [k \in DOMAIN t.input |-> StoredWitness(t.input[k].witness)]

Mark(t) == IF HasWitness(t) THEN <<0, 1>> ELSE <<>>
WitnessBytes(t) == IF HasWitness(t) THEN FlattenSeq(Wits(t)) ELSE <<>>

BodyAt(t) == 4 + Len(Mark(t))
InsAt(t) == BodyAt(t) + Len(CompactSize(Len(t.input)))
CountAt(t) == InsAt(t) + Len(FlattenSeq(Ins(t)))
OutsAt(t) == CountAt(t) + Len(CompactSize(Len(t.output)))
WitAt(t) == OutsAt(t) + Len(FlattenSeq(Outs(t)))
LockAt(t) == WitAt(t) + Len(WitnessBytes(t))

LEMMA SizedIs == ASSUME NEW s, Sized(s) PROVE DOMAIN s = 1..Len(s) /\ Len(s) \in Nat
  BY DEF Sized, IsSequence

LEMMA CompactSizeBytes ==
    ASSUME NEW n, Fits(8, n)
    PROVE  CompactSize(n) \in Seq(Byte) /\ Len(CompactSize(n)) \in Nat \ {0}
  <1>1. IsVarint(CompactSize(n), n)
    BY CompactSizeIs
  <1> QED
    BY <1>1 DEF IsVarint

LEMMA FourBytes == ASSUME NEW v, Fits(4, v) PROVE Le(4, v) \in Seq(Byte) /\ Len(Le(4, v)) = 4
  <1>1. v \in Nat /\ 4 \in Nat
    BY DEF Fits
  <1> QED
    BY <1>1, LeIs

LEMMA EightBytes == ASSUME NEW v, Fits(8, v) PROVE Le(8, v) \in Seq(Byte) /\ Len(Le(8, v)) = 8
  <1>1. v \in Nat /\ 8 \in Nat
    BY DEF Fits
  <1> QED
    BY <1>1, LeIs

LEMMA HashBytes == ASSUME NEW h, IsHash(h) PROVE h \in Seq(Byte) /\ Len(h) = 32
  <1>1. 32 \in Nat /\ h \in [1..32 -> Byte]
    BY DEF IsHash, Byte
  <1>2. ASSUME NEW n \in Nat, NEW g \in [1..n -> Byte] PROVE g \in Seq(Byte) /\ Len(g) = n
    OBVIOUS
  <1> QED
    BY <1>1, <1>2

LEMMA FlattenBytes == ASSUME NEW s \in Seq(Seq(Byte)) PROVE FlattenSeq(s) \in Seq(Byte)
  <1>1. Grows(s, Byte) /\ Len(s) \in 0..Len(s)
    BY UptoIs
  <1> QED
    BY <1>1 DEF Grows

LEMMA ScriptBytes ==
    ASSUME NEW s, IsScript(s)
    PROVE  /\ s \in Seq(Byte) /\ CompactSize(Len(s)) \in Seq(Byte) /\ Script(s) \in Seq(Byte)
           /\ Len(Script(s)) = Len(CompactSize(Len(s))) + Len(s) /\ Len(Script(s)) \in Nat \ {0}
  <1>1. s \in Seq(Byte) /\ Fits(8, Len(s))
    BY DEF IsScript, Byte
  <1>2. PICK b \in Seq(Byte) : b = CompactSize(Len(s)) /\ Len(b) \in Nat \ {0}
    BY <1>1, CompactSizeBytes
  <1>3. b \o s \in Seq(Byte) /\ Len(b \o s) = Len(b) + Len(s) /\ Len(s) \in Nat
    BY <1>1, <1>2
  <1> QED
    BY <1>1, <1>2, <1>3 DEF Script

LEMMA StoredInBytes == ASSUME NEW i, IsIn(i) PROVE StoredIn(i) \in Seq(Byte)
  <1>1. i.txid \in Seq(Byte)
    BY HashBytes DEF IsIn
  <1>2. Le(4, i.index) \in Seq(Byte) /\ Le(4, i.sequence_number) \in Seq(Byte)
    BY FourBytes DEF IsIn
  <1>3. Script(i.script) \in Seq(Byte)
    BY ScriptBytes DEF IsIn
  <1>4. ASSUME NEW a \in Seq(Byte), NEW b \in Seq(Byte), NEW c \in Seq(Byte), NEW e \in Seq(Byte)
        PROVE  a \o b \o c \o e \in Seq(Byte)
    OBVIOUS
  <1> QED
    BY <1>1, <1>2, <1>3, <1>4 DEF StoredIn

LEMMA StoredOutBytes == ASSUME NEW x, IsOut(x) PROVE StoredOut(x) \in Seq(Byte)
  <1>1. Le(8, x.amount) \in Seq(Byte)
    BY EightBytes DEF IsOut
  <1>2. Script(x.script) \in Seq(Byte)
    BY ScriptBytes DEF IsOut
  <1>3. ASSUME NEW a \in Seq(Byte), NEW b \in Seq(Byte) PROVE a \o b \in Seq(Byte)
    OBVIOUS
  <1> QED
    BY <1>1, <1>2, <1>3 DEF StoredOut

\* A stack of witnesses, as in an input.
IsStack(w) == Sized(w) /\ \A k \in DOMAIN w : IsScript(w[k])

LEMMA StackBytes ==
    ASSUME NEW w, IsStack(w)
    PROVE  /\ Items(w) \in Seq(Seq(Byte)) /\ Len(Items(w)) = Len(w) /\ Len(w) \in Nat
           /\ DOMAIN w = 1..Len(w) /\ Fits(8, Len(w))
           /\ StoredWitness(w) = CompactSize(Len(w)) \o FlattenSeq(Items(w))
           /\ StoredWitness(w) \in Seq(Byte)
  <1>1. DOMAIN w = 1..Len(w) /\ Len(w) \in Nat /\ Fits(8, Len(w))
    BY SizedIs DEF IsStack, Sized
  <1>2. \A k \in 1..Len(w) : Script(w[k]) \in Seq(Byte)
    BY <1>1, ScriptBytes DEF IsStack
  <1>3. Items(w) \in Seq(Seq(Byte)) /\ Len(Items(w)) = Len(w)
    BY <1>1, <1>2 DEF Items
  <1>4. StoredWitness(w) = CompactSize(Len(w)) \o FlattenSeq(Items(w))
    BY DEF StoredWitness, Items
  <1>5. CompactSize(Len(w)) \in Seq(Byte) /\ FlattenSeq(Items(w)) \in Seq(Byte)
    BY <1>1, <1>3, CompactSizeBytes, FlattenBytes
  <1>6. CompactSize(Len(w)) \o FlattenSeq(Items(w)) \in Seq(Byte)
    BY <1>5
  <1> QED
    BY <1>1, <1>3, <1>4, <1>6

\* The parts of a stored transaction are bytes.
LEMMA TxBytes ==
    ASSUME NEW t, IsTx(t)
    PROVE  /\ Ins(t) \in Seq(Seq(Byte)) /\ Len(Ins(t)) = Len(t.input)
           /\ Outs(t) \in Seq(Seq(Byte)) /\ Len(Outs(t)) = Len(t.output)
           /\ Wits(t) \in Seq(Seq(Byte)) /\ Len(Wits(t)) = Len(t.input)
           /\ DOMAIN t.input = 1..Len(t.input) /\ Len(t.input) \in Nat /\ Fits(8, Len(t.input))
           /\ DOMAIN t.output = 1..Len(t.output) /\ Len(t.output) \in Nat /\ Fits(8, Len(t.output))
  <1>1. /\ DOMAIN t.input = 1..Len(t.input) /\ Len(t.input) \in Nat /\ Fits(8, Len(t.input))
        /\ DOMAIN t.output = 1..Len(t.output) /\ Len(t.output) \in Nat /\ Fits(8, Len(t.output))
    BY SizedIs DEF IsTx, Sized
  <1>2. \A k \in 1..Len(t.input) : StoredIn(t.input[k]) \in Seq(Byte)
    BY <1>1, StoredInBytes DEF IsTx
  <1>3. \A k \in 1..Len(t.output) : StoredOut(t.output[k]) \in Seq(Byte)
    BY <1>1, StoredOutBytes DEF IsTx
  <1>4. \A k \in 1..Len(t.input) : StoredWitness(t.input[k].witness) \in Seq(Byte)
    <2> SUFFICES ASSUME NEW k \in 1..Len(t.input) PROVE StoredWitness(t.input[k].witness) \in Seq(Byte)
      OBVIOUS
    <2>1. IsStack(t.input[k].witness)
      BY <1>1 DEF IsTx, IsIn, IsStack
    <2> QED
      BY <2>1, StackBytes
  <1>5. Ins(t) \in Seq(Seq(Byte)) /\ Len(Ins(t)) = Len(t.input)
    BY <1>1, <1>2 DEF Ins
  <1>6. Outs(t) \in Seq(Seq(Byte)) /\ Len(Outs(t)) = Len(t.output)
    BY <1>1, <1>3 DEF Outs
  <1>7. Wits(t) \in Seq(Seq(Byte)) /\ Len(Wits(t)) = Len(t.input)
    BY <1>1, <1>4 DEF Wits
  <1> QED
    BY <1>1, <1>5, <1>6, <1>7

\* How long they are together.
TxMeasured(t) ==
    /\ Mark(t) \in Seq(Byte) /\ StoredBody(t) \in Seq(Byte) /\ WitnessBytes(t) \in Seq(Byte)
    /\ Serialized(t) \in Seq(Byte) /\ Original(t) \in Seq(Byte)
    /\ {BodyAt(t), InsAt(t), CountAt(t), OutsAt(t), WitAt(t), LockAt(t)} \subseteq Nat
    /\ Len(StoredBody(t)) = WitAt(t) - BodyAt(t)
    /\ Len(Original(t)) = 8 + Len(StoredBody(t))
    /\ Len(Serialized(t)) = LockAt(t) + 4
    /\ Serialized(t) = Le(4, t.version) \o Mark(t) \o StoredBody(t) \o WitnessBytes(t) \o Le(4, t.lock_time)

LEMMA TxIsMeasured == ASSUME NEW t, IsTx(t) PROVE TxMeasured(t)
  <1>1. Le(4, t.version) \in Seq(Byte) /\ Len(Le(4, t.version)) = 4
    BY FourBytes DEF IsTx
  <1>2. Le(4, t.lock_time) \in Seq(Byte) /\ Len(Le(4, t.lock_time)) = 4
    BY FourBytes DEF IsTx
  <1>3. PICK v \in Seq(Byte) : v = Le(4, t.version) /\ Len(v) = 4
    BY <1>1
  <1>4. PICK e \in Seq(Byte) : e = Le(4, t.lock_time) /\ Len(e) = 4
    BY <1>2
  <1>5. PICK ic \in Seq(Byte) : ic = CompactSize(Len(t.input))
    BY TxBytes, CompactSizeBytes
  <1>6. PICK oc \in Seq(Byte) : oc = CompactSize(Len(t.output))
    BY TxBytes, CompactSizeBytes
  <1>7. PICK is \in Seq(Byte) : is = FlattenSeq(Ins(t))
    BY TxBytes, FlattenBytes
  <1>8. PICK os \in Seq(Byte) : os = FlattenSeq(Outs(t))
    BY TxBytes, FlattenBytes
  <1>9. PICK ws \in Seq(Byte) : ws = WitnessBytes(t) /\ (~HasWitness(t) => ws = <<>>)
    <2>1. FlattenSeq(Wits(t)) \in Seq(Byte)
      BY TxBytes, FlattenBytes
    <2>2. <<>> \in Seq(Byte)
      OBVIOUS
    <2> QED
      BY <2>1, <2>2 DEF WitnessBytes
  <1>10. PICK mk \in Seq(Byte) : mk = Mark(t) /\ (~HasWitness(t) => mk = <<>>)
    <2>1. <<>> \in Seq(Byte) /\ <<0, 1>> \in Seq(Byte)
      BY DEF Byte
    <2> QED
      BY <2>1 DEF Mark
  <1>11. PICK b : b = StoredBody(t)
    OBVIOUS
  <1>12. b = ic \o is \o oc \o os
    BY <1>5, <1>6, <1>7, <1>8, <1>11 DEF StoredBody, Ins, Outs
  <1>13. b \in Seq(Byte) /\ Len(b) = Len(ic) + Len(is) + Len(oc) + Len(os)
    BY <1>12
  <1>14. Original(t) = v \o b \o e
    BY <1>3, <1>4, <1>11 DEF Original
  <1>15. Original(t) \in Seq(Byte) /\ Len(Original(t)) = 4 + Len(b) + 4
    <2>1. v \o b \in Seq(Byte) /\ Len(v \o b) = Len(v) + Len(b)
      BY <1>13, BothBytes
    <2>2. (v \o b) \o e \in Seq(Byte) /\ Len((v \o b) \o e) = Len(v \o b) + Len(e)
      BY <2>1
    <2> QED
      BY <1>3, <1>4, <1>14, <2>1, <2>2
  <1>16. Serialized(t) = v \o mk \o b \o ws \o e
    <2>1. CASE HasWitness(t)
      BY <1>3, <1>4, <1>9, <1>10, <1>11, <2>1 DEF Serialized, Mark, WitnessBytes, Wits
    <2>2. CASE ~HasWitness(t)
      <3>1. Serialized(t) = v \o b \o e
        BY <1>14, <2>2 DEF Serialized
      <3>2. v \o mk = v
        BY <1>10, <2>2, ConcatEmptySeq
      <3>3. (v \o b) \o ws = v \o b
        <4>1. v \o b \in Seq(Byte)
          BY <1>13
        <4> QED
          BY <1>9, <2>2, <4>1, ConcatEmptySeq
      <3> QED
        BY <3>1, <3>2, <3>3
    <2> QED
      BY <2>1, <2>2
  <1>17. /\ Serialized(t) \in Seq(Byte)
         /\ Len(Serialized(t)) = 4 + Len(mk) + Len(b) + Len(ws) + 4
    <2>1. PICK x \in Seq(Byte) : x = v \o mk /\ Len(x) = Len(v) + Len(mk)
      BY BothBytes
    <2>2. PICK y \in Seq(Byte) : y = x \o b /\ Len(y) = Len(x) + Len(b)
      BY <1>13, BothBytes
    <2>3. PICK z \in Seq(Byte) : z = y \o ws /\ Len(z) = Len(y) + Len(ws)
      BY BothBytes
    <2>4. z \o e \in Seq(Byte) /\ Len(z \o e) = Len(z) + Len(e)
      OBVIOUS
    <2>5. Serialized(t) = z \o e
      BY <1>16, <2>1, <2>2, <2>3
    <2> QED
      BY <1>3, <1>4, <2>1, <2>2, <2>3, <2>4, <2>5
  <1>18. \A s \in Seq(Byte) : Len(s) \in Nat
    OBVIOUS
  <1>19. /\ BodyAt(t) = 4 + Len(mk) /\ InsAt(t) = BodyAt(t) + Len(ic)
         /\ CountAt(t) = InsAt(t) + Len(is) /\ OutsAt(t) = CountAt(t) + Len(oc)
         /\ WitAt(t) = OutsAt(t) + Len(os) /\ LockAt(t) = WitAt(t) + Len(ws)
    BY <1>5, <1>6, <1>7, <1>8, <1>9, <1>10 DEF BodyAt, InsAt, CountAt, OutsAt, WitAt, LockAt
  <1>20. /\ Len(mk) \in Nat /\ Len(ic) \in Nat /\ Len(is) \in Nat /\ Len(oc) \in Nat
         /\ Len(os) \in Nat /\ Len(ws) \in Nat /\ Len(b) \in Nat
    BY <1>13, <1>18
  <1>21. {BodyAt(t), InsAt(t), CountAt(t), OutsAt(t), WitAt(t), LockAt(t)} \subseteq Nat
    BY <1>19, <1>20
  <1>22. Len(b) = WitAt(t) - BodyAt(t)
    BY <1>13, <1>19, <1>20
  <1>23. Len(Serialized(t)) = LockAt(t) + 4
    BY <1>13, <1>17, <1>19, <1>20
  <1>24. Len(Original(t)) = 8 + Len(b)
    BY <1>15, <1>20
  <1> QED
    BY <1>3, <1>4, <1>9, <1>10, <1>11, <1>13, <1>15, <1>16, <1>17, <1>21, <1>22, <1>23, <1>24 DEF TxMeasured

\* Where a file has a transaction it has the parts of it.
TxHeld(d, o, t) ==
    /\ Holds(d, o, Serialized(t))
    /\ Holds(d, o, Le(4, t.version))
    /\ Holds(d, o + 4, Mark(t))
    /\ Holds(d, o + BodyAt(t), StoredBody(t))
    /\ Holds(d, o + BodyAt(t), CompactSize(Len(t.input)))
    /\ Holds(d, o + InsAt(t), FlattenSeq(Ins(t)))
    /\ Holds(d, o + CountAt(t), CompactSize(Len(t.output)))
    /\ Holds(d, o + OutsAt(t), FlattenSeq(Outs(t)))
    /\ Holds(d, o + WitAt(t), WitnessBytes(t))
    /\ Holds(d, o + LockAt(t), Le(4, t.lock_time))

LEMMA TxIsHeld ==
    ASSUME NEW d \in Seq(Byte), NEW o \in Nat, NEW t, IsTx(t), Holds(d, o, Serialized(t))
    PROVE  TxHeld(d, o, t)
  <1>1. TxMeasured(t)
    BY TxIsMeasured
  <1>2. PICK v \in Seq(Byte) : v = Le(4, t.version) /\ Len(v) = 4
    BY FourBytes DEF IsTx
  <1>3. PICK e \in Seq(Byte) : e = Le(4, t.lock_time) /\ Len(e) = 4
    BY FourBytes DEF IsTx
  <1>4. PICK ic \in Seq(Byte) : ic = CompactSize(Len(t.input))
    BY TxBytes, CompactSizeBytes
  <1>5. PICK oc \in Seq(Byte) : oc = CompactSize(Len(t.output))
    BY TxBytes, CompactSizeBytes
  <1>6. PICK is \in Seq(Byte) : is = FlattenSeq(Ins(t))
    BY TxBytes, FlattenBytes
  <1>7. PICK os \in Seq(Byte) : os = FlattenSeq(Outs(t))
    BY TxBytes, FlattenBytes
  <1>8. PICK ws \in Seq(Byte) : ws = WitnessBytes(t)
    BY <1>1 DEF TxMeasured
  <1>9. PICK mk \in Seq(Byte) : mk = Mark(t)
    BY <1>1 DEF TxMeasured
  <1>10. PICK b \in Seq(Byte) : b = StoredBody(t)
    BY <1>1 DEF TxMeasured
  <1>11. PICK x \in Seq(Byte) : x = v \o mk /\ Len(x) = Len(v) + Len(mk)
    BY BothBytes
  <1>12. PICK y \in Seq(Byte) : y = x \o b /\ Len(y) = Len(x) + Len(b)
    BY BothBytes
  <1>13. PICK z \in Seq(Byte) : z = y \o ws /\ Len(z) = Len(y) + Len(ws)
    BY BothBytes
  <1>14. b = ((ic \o is) \o oc) \o os
    BY <1>4, <1>5, <1>6, <1>7, <1>10 DEF StoredBody, Ins, Outs
  <1>15. /\ ic \o is \in Seq(Byte) /\ (ic \o is) \o oc \in Seq(Byte)
         /\ Len(ic \o is) = Len(ic) + Len(is) /\ Len((ic \o is) \o oc) = Len(ic \o is) + Len(oc)
    OBVIOUS
  <1>16. Holds(d, o, z) /\ Holds(d, o + Len(z), e)
    <2>1. Holds(d, o, z \o e)
      BY <1>1, <1>2, <1>3, <1>8, <1>9, <1>10, <1>11, <1>12, <1>13 DEF TxMeasured
    <2> QED
      BY <2>1, HoldsBoth
  <1>17. Holds(d, o, y) /\ Holds(d, o + Len(y), ws)
    BY <1>13, <1>16, HoldsBoth
  <1>18. Holds(d, o, x) /\ Holds(d, o + Len(x), b)
    BY <1>12, <1>17, HoldsBoth
  <1>19. Holds(d, o, v) /\ Holds(d, o + Len(v), mk)
    BY <1>11, <1>18, HoldsBoth
  <1>20. PICK p \in Nat : p = o + Len(x)
    OBVIOUS
  <1>21. Holds(d, p, (ic \o is) \o oc) /\ Holds(d, p + Len((ic \o is) \o oc), os)
    BY <1>14, <1>15, <1>18, <1>20, HoldsBoth
  <1>22. Holds(d, p, ic \o is) /\ Holds(d, p + Len(ic \o is), oc)
    BY <1>15, <1>21, HoldsBoth
  <1>23. Holds(d, p, ic) /\ Holds(d, p + Len(ic), is)
    BY <1>22, HoldsBoth
  <1>24. /\ BodyAt(t) = 4 + Len(mk) /\ InsAt(t) = BodyAt(t) + Len(ic)
         /\ CountAt(t) = InsAt(t) + Len(is) /\ OutsAt(t) = CountAt(t) + Len(oc)
         /\ WitAt(t) = OutsAt(t) + Len(os) /\ LockAt(t) = WitAt(t) + Len(ws)
    BY <1>4, <1>5, <1>6, <1>7, <1>8, <1>9 DEF BodyAt, InsAt, CountAt, OutsAt, WitAt, LockAt
  <1>25. /\ Len(mk) \in Nat /\ Len(ic) \in Nat /\ Len(is) \in Nat /\ Len(oc) \in Nat
         /\ Len(os) \in Nat /\ Len(ws) \in Nat /\ Len(b) \in Nat
    OBVIOUS
  <1>26. Len(b) = Len(ic) + Len(is) + Len(oc) + Len(os)
    BY <1>14, <1>15
  <1>27. p = o + BodyAt(t)
    BY <1>2, <1>11, <1>20, <1>24, <1>25
  <1>28. /\ p + Len(ic) = o + InsAt(t) /\ p + Len(ic \o is) = o + CountAt(t)
         /\ p + Len((ic \o is) \o oc) = o + OutsAt(t)
    BY <1>15, <1>24, <1>25, <1>27
  <1>29. o + Len(y) = o + WitAt(t) /\ o + Len(z) = o + LockAt(t)
    <2>1. Len(y) = 4 + Len(mk) + Len(b) /\ Len(z) = Len(y) + Len(ws)
      BY <1>2, <1>11, <1>12, <1>13
    <2> QED
      BY <1>24, <1>25, <1>26, <2>1
  <1>30. /\ Holds(d, o, v) /\ Holds(d, o + 4, mk) /\ Holds(d, o + BodyAt(t), b)
         /\ Holds(d, o + BodyAt(t), ic) /\ Holds(d, o + InsAt(t), is)
    BY <1>2, <1>18, <1>19, <1>20, <1>23, <1>27, <1>28
  <1>31. /\ Holds(d, o + CountAt(t), oc) /\ Holds(d, o + OutsAt(t), os)
         /\ Holds(d, o + WitAt(t), ws) /\ Holds(d, o + LockAt(t), e)
    BY <1>16, <1>17, <1>21, <1>22, <1>28, <1>29
  <1> QED
    BY <1>2, <1>3, <1>4, <1>5, <1>6, <1>7, <1>8, <1>9, <1>10, <1>30, <1>31 DEF TxHeld

-----------------------------------------------------------------------------
(***************************************************************************)
(* The fields that are read: where they end, and what is printed of them.  *)
(***************************************************************************)

\* pull_varint and pull_bytes of a script, or of an item of a witness.
LEMMA HoldsScript ==
    ASSUME NEW d \in Seq(Byte), NEW o \in Nat, NEW s, IsScript(s), Holds(d, o, Script(s)),
           \/ o + VarLenIn(d, o) + VarIn(d, o) <= Len(d)
           \/ o + Len(Script(s)) <= Len(d)
    PROVE  /\ VarIn(d, o) = Len(s)
           /\ o + VarLenIn(d, o) \in Nat
           /\ o + VarLenIn(d, o) + VarIn(d, o) = o + Len(Script(s))
           /\ Slice(d, o + VarLenIn(d, o), VarIn(d, o)) = s
           /\ PrintVarint(VarIn(d, o)) \o s = Script(s)
  <1>1. PICK b \in Seq(Byte) : b = CompactSize(Len(s))
    BY ScriptBytes
  <1>2. s \in Seq(Byte) /\ Script(s) = b \o s /\ Fits(8, Len(s))
    BY <1>1, ScriptBytes DEF Script, IsScript
  <1>3. PICK n \in Nat : n = Len(s)
    BY <1>2
  <1>4. PICK l \in Nat : l = Len(b) /\ Len(Script(s)) = l + n
    BY <1>1, <1>2, <1>3, BothBytes, ZenonT(60)
  <1>5. Holds(d, o, b) /\ Holds(d, o + l, s)
    BY <1>2, <1>4, HoldsBoth
  <1>6. PICK v \in Nat, w \in Nat : v = VarIn(d, o) /\ w = VarLenIn(d, o)
    BY VarIsNatural
  <1>7. o + VarLenIn(d, o) <= Len(d) \/ o + Len(CompactSize(n)) <= Len(d)
    BY <1>1, <1>3, <1>4, <1>6
  <1>8. v = n /\ w = l
    BY <1>1, <1>2, <1>3, <1>4, <1>5, <1>6, <1>7, HoldsVarint
  <1>9. (o + l) + Len(s) <= Len(d)
    BY <1>3, <1>4, <1>6, <1>8
  <1>10. Slice(d, o + l, n) = s
    BY <1>2, <1>3, <1>5, <1>9, HoldsSlice
  <1>11. PrintVarint(n) = b
    BY <1>1, <1>2, <1>3, CompactSizeIs
  <1> QED
    BY <1>2, <1>3, <1>4, <1>6, <1>8, <1>10, <1>11

LEMMA BytesAssociate ==
    ASSUME NEW a \in Seq(Byte), NEW b \in Seq(Byte), NEW c \in Seq(Byte)
    PROVE  (a \o b) \o c = a \o (b \o c)
  BY ConcatAssociative

\* r is what ReadInput makes of the bytes from o to end.
InputAt(r, d, o, end) ==
    LET lenAt == o + 36
        scriptAt == lenAt + VarLenIn(d, lenAt) IN
    /\ end = scriptAt + VarIn(d, lenAt) + 4
    /\ r.txid = Slice(d, o, 32) /\ r.index = Num(Slice(d, o + 32, 4))
    /\ r.script_length = VarIn(d, lenAt) /\ r.script = Slice(d, scriptAt, VarIn(d, lenAt))
    /\ r.sequence_number = Num(Slice(d, scriptAt + VarIn(d, lenAt), 4))

LEMMA InputRead ==
    ASSUME NEW d \in Seq(Byte), NEW o \in Nat, NEW i, IsIn(i), Holds(d, o, StoredIn(i)),
           NEW r, NEW end, InputAt(r, d, o, end),
           end <= Len(d) \/ o + Len(StoredIn(i)) <= Len(d)
    PROVE  end = o + Len(StoredIn(i)) /\ DumpTxInput(r) = StoredIn(i)
  <1>1. PICK h, x, q, c :
          h = i.txid /\ x = Le(4, i.index) /\ q = Le(4, i.sequence_number) /\ c = Script(i.script)
    OBVIOUS
  <1>2. Len(h) = 32 /\ Len(x) = 4 /\ Len(q) = 4
    BY <1>1, HashBytes, FourBytes DEF IsIn
  <1>3. h \in Seq(Byte) /\ x \in Seq(Byte) /\ q \in Seq(Byte) /\ c \in Seq(Byte)
    BY <1>1, HashBytes, FourBytes, ScriptBytes DEF IsIn
  <1>4. PICK y, z : y = h \o x /\ z = y \o c
    OBVIOUS
  <1>5. y \in Seq(Byte) /\ Len(y) = Len(h) + Len(x)
    BY <1>3, <1>4, BothBytes
  <1>6. z \in Seq(Byte) /\ Len(z) = Len(y) + Len(c) /\ Len(c) \in Nat
    BY <1>3, <1>4, <1>5, BothBytes
  <1>7. z \o q \in Seq(Byte) /\ Len(z \o q) = Len(z) + Len(q)
    BY <1>3, <1>6, BothBytes
  <1>8. StoredIn(i) = z \o q
    BY <1>1, <1>4, Zenon DEF StoredIn
  <1>9. Len(y) = 36 /\ Len(z) = 36 + Len(c)
    <2>1. Len(y) = Len(h) + Len(x) /\ Len(z) = Len(y) + Len(c)
      BY <1>5, <1>6
    <2> QED
      BY <1>2, <2>1
  <1>10. Len(StoredIn(i)) = 40 + Len(c) /\ Len(c) \in Nat
    <2>1. Len(StoredIn(i)) = Len(z) + Len(q)
      BY <1>7, <1>8
    <2>2. Len(c) \in Nat
      BY <1>6
    <2> QED
      BY <1>2, <1>9, <2>1, <2>2
  <1>11. Holds(d, o, z) /\ Holds(d, o + Len(z), q)
    <2>1. z \in Seq(Byte) /\ q \in Seq(Byte) /\ Holds(d, o, z \o q)
      BY <1>3, <1>6, <1>8
    <2> QED
      BY <2>1, HoldsBoth
  <1>12. Holds(d, o, y) /\ Holds(d, o + 36, c)
    <2>1. Holds(d, o, y) /\ Holds(d, o + Len(y), c)
      BY <1>3, <1>4, <1>5, <1>11, HoldsBoth
    <2> QED
      BY <1>9, <2>1
  <1>13. Holds(d, o, h) /\ Holds(d, o + 32, x)
    <2>1. Holds(d, o, h) /\ Holds(d, o + Len(h), x)
      BY <1>3, <1>4, <1>12, HoldsBoth
    <2> QED
      BY <1>2, <2>1
  <1>14. PICK lenAt \in Nat : lenAt = o + 36
    OBVIOUS
  <1>15. VarIn(d, lenAt) \in Nat /\ VarLenIn(d, lenAt) \in Nat
    BY VarIsNatural
  <1>16. PICK v \in Nat : v = VarIn(d, lenAt)
    BY <1>15
  <1>17. PICK w \in Nat : w = VarLenIn(d, lenAt)
    BY <1>15
  <1>18. /\ end = lenAt + w + v + 4
         /\ r.txid = Slice(d, o, 32) /\ r.index = Num(Slice(d, o + 32, 4))
         /\ r.script_length = v /\ r.script = Slice(d, lenAt + w, v)
         /\ r.sequence_number = Num(Slice(d, lenAt + w + v, 4))
    BY <1>14, <1>16, <1>17 DEF InputAt
  <1>19. lenAt + w + v <= Len(d) \/ lenAt + Len(c) <= Len(d)
    BY <1>14, <1>18, <1>10
  <1>20. /\ v = Len(i.script) /\ lenAt + w + v = lenAt + Len(c)
         /\ Slice(d, lenAt + w, v) = i.script /\ PrintVarint(v) \o i.script = c
    <2>1. Holds(d, lenAt, Script(i.script)) /\ IsScript(i.script)
      BY <1>1, <1>12, <1>14 DEF IsIn
    <2>2. \/ lenAt + VarLenIn(d, lenAt) + VarIn(d, lenAt) <= Len(d)
          \/ lenAt + Len(Script(i.script)) <= Len(d)
      BY <1>1, <1>16, <1>17, <1>19
    <2>3. /\ VarIn(d, lenAt) = Len(i.script)
          /\ lenAt + VarLenIn(d, lenAt) + VarIn(d, lenAt) = lenAt + Len(Script(i.script))
          /\ Slice(d, lenAt + VarLenIn(d, lenAt), VarIn(d, lenAt)) = i.script
          /\ PrintVarint(VarIn(d, lenAt)) \o i.script = Script(i.script)
      BY <2>1, <2>2, HoldsScript
    <2> QED
      BY <1>1, <1>16, <1>17, <2>3
  <1>21. end = o + 40 + Len(c) /\ lenAt + w + v = o + Len(z)
    <2>1. lenAt + w + v = lenAt + Len(c) /\ end = lenAt + w + v + 4
      BY <1>18, <1>20
    <2>2. Len(c) \in Nat /\ Len(z) = 36 + Len(c)
      BY <1>9, <1>10
    <2> QED
      BY <1>14, <2>1, <2>2
  <1>22. end <= Len(d)
    BY <1>21, <1>10
  <1>23. r.txid = i.txid
    <2>1. o + Len(h) <= Len(d)
      BY <1>2, <1>21, <1>22, <1>10
    <2>2. Slice(d, o, Len(h)) = h
      BY <1>3, <1>13, <2>1, HoldsSlice
    <2> QED
      BY <1>1, <1>2, <1>18, <2>2
  <1>24. r.index = i.index
    <2>1. Fits(4, i.index) /\ 4 \in Nat /\ o + 32 \in Nat /\ (o + 32) + 4 <= Len(d)
      BY <1>21, <1>22, <1>9, <1>10 DEF IsIn
    <2>2. Holds(d, o + 32, Le(4, i.index))
      BY <1>1, <1>13
    <2>3. Num(Slice(d, o + 32, 4)) = i.index
      BY <2>1, <2>2, HoldsNumber
    <2> QED
      BY <1>18, <2>3
  <1>25. r.sequence_number = i.sequence_number
    <2>1. Fits(4, i.sequence_number) /\ 4 \in Nat /\ o + Len(z) \in Nat /\ (o + Len(z)) + 4 <= Len(d)
      BY <1>21, <1>22, <1>9, <1>10 DEF IsIn
    <2>2. Num(Slice(d, o + Len(z), 4)) = i.sequence_number
      BY <1>1, <1>11, <2>1, HoldsNumber
    <2> QED
      BY <1>18, <1>21, <2>2
  <1>26. r.script = i.script /\ r.script_length = v
    BY <1>18, <1>20
  <1>27. DumpTxInput(r) = ((y \o PrintVarint(v)) \o i.script) \o q
    BY <1>1, <1>4, <1>23, <1>24, <1>25, <1>26 DEF DumpTxInput
  <1>28. (y \o PrintVarint(v)) \o i.script = y \o c
    <2>1. IsScript(i.script)
      BY DEF IsIn
    <2>2. i.script \in Seq(Byte) /\ Fits(8, v) /\ CompactSize(v) \in Seq(Byte)
      BY <1>20, <2>1, ScriptBytes DEF IsScript
    <2>3. PrintVarint(v) \in Seq(Byte)
      BY <2>2, CompactSizeIs
    <2>4. (y \o PrintVarint(v)) \o i.script = y \o (PrintVarint(v) \o i.script)
      BY <1>5, <2>2, <2>3, BytesAssociate
    <2> QED
      BY <1>20, <2>4
  <1>29. DumpTxInput(r) = StoredIn(i)
    BY <1>4, <1>8, <1>27, <1>28, Zenon
  <1> QED
    BY <1>21, <1>29, <1>10

\* r is what ReadOutput makes of them.
OutputAt(r, d, o, end) ==
    LET lenAt == o + 8
        scriptAt == lenAt + VarLenIn(d, lenAt) IN
    /\ end = scriptAt + VarIn(d, lenAt)
    /\ r.amount = Num(Slice(d, o, 8))
    /\ r.script_length = VarIn(d, lenAt) /\ r.script = Slice(d, scriptAt, VarIn(d, lenAt))

LEMMA OutputRead ==
    ASSUME NEW d \in Seq(Byte), NEW o \in Nat, NEW x, IsOut(x), Holds(d, o, StoredOut(x)),
           NEW r, NEW end, OutputAt(r, d, o, end),
           end <= Len(d) \/ o + Len(StoredOut(x)) <= Len(d)
    PROVE  end = o + Len(StoredOut(x)) /\ DumpTxOutput(r) = StoredOut(x)
  <1>1. PICK a \in Seq(Byte) : a = Le(8, x.amount) /\ Len(a) = 8
    BY EightBytes DEF IsOut
  <1>2. PICK c \in Seq(Byte) : c = Script(x.script)
    BY ScriptBytes DEF IsOut
  <1>3. StoredOut(x) = a \o c /\ Len(a \o c) = 8 + Len(c) /\ Len(c) \in Nat
    BY <1>1, <1>2, BothBytes, ZenonT(60) DEF StoredOut
  <1>4. Holds(d, o, a) /\ Holds(d, o + 8, c)
    BY <1>1, <1>3, HoldsBoth
  <1>5. PICK lenAt \in Nat : lenAt = o + 8
    OBVIOUS
  <1>6. VarIn(d, lenAt) \in Nat /\ VarLenIn(d, lenAt) \in Nat
    BY VarIsNatural
  <1>7. PICK v \in Nat : v = VarIn(d, lenAt)
    BY <1>6
  <1>8. PICK w \in Nat : w = VarLenIn(d, lenAt)
    BY <1>6
  <1>9. /\ end = lenAt + w + v /\ r.amount = Num(Slice(d, o, 8))
        /\ r.script_length = v /\ r.script = Slice(d, lenAt + w, v)
    BY <1>5, <1>7, <1>8 DEF OutputAt
  <1>10. lenAt + w + v <= Len(d) \/ lenAt + Len(c) <= Len(d)
    BY <1>3, <1>5, <1>9
  <1>11. /\ v = Len(x.script) /\ lenAt + w + v = lenAt + Len(c)
         /\ Slice(d, lenAt + w, v) = x.script /\ PrintVarint(v) \o x.script = c
    <2>1. Holds(d, lenAt, Script(x.script)) /\ IsScript(x.script)
      BY <1>2, <1>4, <1>5 DEF IsOut
    <2>2. \/ lenAt + VarLenIn(d, lenAt) + VarIn(d, lenAt) <= Len(d)
          \/ lenAt + Len(Script(x.script)) <= Len(d)
      BY <1>2, <1>7, <1>8, <1>10
    <2>3. /\ VarIn(d, lenAt) = Len(x.script)
          /\ lenAt + VarLenIn(d, lenAt) + VarIn(d, lenAt) = lenAt + Len(Script(x.script))
          /\ Slice(d, lenAt + VarLenIn(d, lenAt), VarIn(d, lenAt)) = x.script
          /\ PrintVarint(VarIn(d, lenAt)) \o x.script = Script(x.script)
      BY <2>1, <2>2, HoldsScript
    <2> QED
      BY <1>2, <1>7, <1>8, <2>3
  <1>12. end = o + 8 + Len(c) /\ o + 8 <= Len(d)
    BY <1>3, <1>5, <1>9, <1>11
  <1>13. r.amount = x.amount
    <2>1. Fits(8, x.amount) /\ 8 \in Nat
      BY DEF IsOut
    <2>2. Num(Slice(d, o, 8)) = x.amount
      BY <1>1, <1>4, <1>12, <2>1, HoldsNumber
    <2> QED
      BY <1>9, <2>2
  <1>14. r.script = x.script /\ r.script_length = v
    BY <1>9, <1>11
  <1>15. DumpTxOutput(r) = (a \o PrintVarint(v)) \o x.script
    BY <1>1, <1>13, <1>14 DEF DumpTxOutput
  <1>16. (a \o PrintVarint(v)) \o x.script = a \o c
    <2>1. IsScript(x.script)
      BY DEF IsOut
    <2>2. x.script \in Seq(Byte) /\ Fits(8, v) /\ CompactSize(v) \in Seq(Byte)
      BY <1>11, <2>1, ScriptBytes DEF IsScript
    <2>3. PrintVarint(v) \in Seq(Byte)
      BY <2>2, CompactSizeIs
    <2>4. (a \o PrintVarint(v)) \o x.script = a \o (PrintVarint(v) \o x.script)
      BY <2>2, <2>3, BytesAssociate, ZenonT(60)
    <2> QED
      BY <1>11, <2>4
  <1> QED
    BY <1>3, <1>12, <1>15, <1>16

-----------------------------------------------------------------------------
(***************************************************************************)
(* read_transaction, from the version to the lock time, on a transaction t *)
(* that the file has from start on.                                        *)
(***************************************************************************)

TxThere(t) ==
    Data \in Seq(Byte) /\ IsTx(t) /\ start \in Nat /\ Holds(Data, start, Serialized(t))

\* The step ends in the file, or all of the transaction is in it.
InTheFile(t) == off' <= Len(Data) \/ start + Len(Serialized(t)) <= Len(Data)

\* It also ends in the transaction.
Within(t) == off' \in Nat /\ off' <= start + Len(Serialized(t)) /\ start' = start

InputFields == {"txid", "index", "script_length", "script", "num_witness", "sequence_number"}

InputsRead(t) ==
    /\ IsSequence(trans.input) /\ Len(trans.input) <= Len(t.input)
    /\ \A k \in 1..Len(trans.input) :
          /\ DumpTxInput(trans.input[k]) = StoredIn(t.input[k])
          /\ DOMAIN trans.input[k] = InputFields

OutputsRead(t) ==
    /\ IsSequence(trans.output) /\ Len(trans.output) <= Len(t.output)
    /\ \A k \in 1..Len(trans.output) : DumpTxOutput(trans.output[k]) = StoredOut(t.output[k])

NoWitnessYet == \A k \in 1..Len(trans.input) : trans.input[k].num_witness = NULL

Bit(b) == IF b THEN 1 ELSE 0

AtVersion(t) ==
    off = start /\ contextOff = start /\ hashed = <<>> /\ trans = NoTrans /\ items = 0

AtCount(t) ==
    /\ DOMAIN trans = DOMAIN NoTrans /\ trans.version = t.version
    /\ off = start + 4 /\ contextOff = off /\ items = 0
    /\ hashed = Le(4, t.version) /\ trans.non_swlen = 4
    /\ trans.input = <<>> /\ trans.output = <<>>

InBody(t) ==
    /\ DOMAIN trans = DOMAIN NoTrans /\ trans.version = t.version
    /\ contextOff = start + BodyAt(t) /\ items = 0
    /\ hashed = Le(4, t.version) /\ trans.non_swlen = 4
    /\ trans.segwit = Bit(HasWitness(t)) /\ trans.input_count = Len(t.input)
    /\ InputsRead(t) /\ NoWitnessYet

AtInput(t) ==
    /\ InBody(t) /\ trans.output = <<>>
    /\ off = start + InsAt(t) + Len(Upto(Ins(t), Len(trans.input)))

AtOutput(t) ==
    /\ InBody(t) /\ OutputsRead(t)
    /\ Len(trans.input) = Len(t.input) /\ trans.output_count = Len(t.output)
    /\ off = start + OutsAt(t) + Len(Upto(Outs(t), Len(trans.output)))

AfterBody(t) ==
    /\ DOMAIN trans = DOMAIN NoTrans /\ trans.version = t.version
    /\ hashed = Le(4, t.version) \o StoredBody(t)
    /\ trans.non_swlen = 4 + Len(StoredBody(t))
    /\ trans.segwit = Bit(HasWitness(t))
    /\ InputsRead(t) /\ Len(trans.input) = Len(t.input) /\ trans.input_count = Len(t.input)
    /\ OutputsRead(t) /\ Len(trans.output) = Len(t.output) /\ trans.output_count = Len(t.output)

\* The stack of input j is being read, and those before it have been.
WitnessRead(t, j) ==
    /\ \A k \in 1..Len(t.input) :
          trans.input[k].num_witness = IF k <= j THEN Len(t.input[k].witness) ELSE NULL
    /\ items \in Nat
    /\ j = 0 => items = 0 /\ off = start + WitAt(t)
    /\ j # 0 =>
          LET w == t.input[j].witness IN
          /\ items <= Len(w)
          /\ off = start + WitAt(t) + Len(Upto(Wits(t), j - 1)) + Len(CompactSize(Len(w)))
                   + Len(Upto(Items(w), Len(w) - items))

AtWitness(t) == AfterBody(t) /\ HasWitness(t) /\ \E j \in 0..Len(t.input) : WitnessRead(t, j)

AtLockTime(t) ==
    /\ AfterBody(t)
    /\ off = start + LockAt(t) /\ contextOff = off /\ items = 0
    /\ HasWitness(t) =>
          \A k \in 1..Len(t.input) : trans.input[k].num_witness = Len(t.input[k].witness)

\* What TxExact and DumpIsOriginal say of a transaction.
TxRead(x, t) ==
    /\ x.segwit = Bit(HasWitness(t))
    /\ x.txid = Sha256d(Original(t)) /\ x.wtxid = Sha256d(Serialized(t))
    /\ x.total_len = Len(Serialized(t)) /\ x.non_swlen = Len(Original(t))
    /\ HasWitness(t) =>
          \A k \in 1..Len(t.input) : x.input[k].num_witness = Len(t.input[k].witness)
    /\ DumpTx(x) = Original(t)

AtRead(t) == items = 0 /\ off = start + Len(Serialized(t)) /\ TxRead(trans, t)

LEMMA FirstPart ==
    ASSUME NEW seqs \in Seq(Seq(Byte))
    PROVE  Upto(seqs, 0) = <<>> /\ Len(Upto(seqs, 0)) = 0 /\ Upto(seqs, Len(seqs)) = FlattenSeq(seqs)
  <1>1. Grows(seqs, Byte)
    BY UptoIs
  <1> QED
    BY <1>1 DEF Grows

LEMMA ItsElements == ASSUME NEW S, NEW a \in Seq(S) PROVE IsSequence(a)
  <1>1. ASSUME NEW k \in 1..Len(a) PROVE a[k] \in {a[i] : i \in DOMAIN a}
    OBVIOUS
  <1>2. a \in [1..Len(a) -> {a[i] : i \in DOMAIN a}] /\ Len(a) \in Nat
    BY <1>1
  <1> QED
    BY <1>2 DEF IsSequence

LEMMA AppendTo ==
    ASSUME NEW s, IsSequence(s), NEW x
    PROVE  /\ IsSequence(Append(s, x)) /\ Len(s) \in Nat /\ DOMAIN s = 1..Len(s)
           /\ Len(Append(s, x)) = Len(s) + 1 /\ Append(s, x)[Len(s) + 1] = x
           /\ \A k \in 1..Len(s) : Append(s, x)[k] = s[k]
  <1>1. s \in Seq({s[k] : k \in DOMAIN s} \cup {x})
    BY DEF IsSequence
  <1>2. PICK a : a = Append(s, x)
    OBVIOUS
  <1>3. /\ Len(s) \in Nat /\ DOMAIN s = 1..Len(s)
        /\ Len(a) = Len(s) + 1 /\ a[Len(s) + 1] = x /\ DOMAIN a = 1..(Len(s) + 1)
        /\ \A k \in 1..Len(s) : a[k] = s[k]
    BY <1>1, <1>2
  <1>4. a \in Seq({s[k] : k \in DOMAIN s} \cup {x})
    BY <1>1, <1>2
  <1>5. IsSequence(a)
    BY <1>4, ItsElements
  <1> QED
    BY <1>2, <1>3, <1>5

\* A byte that is not one of the three that announce a longer number.
LEMMA HoldsShort ==
    ASSUME NEW d \in Seq(Byte), NEW o \in Nat, NEW b \in Nat, b < 253, Holds(d, o, <<b>>), o + 1 <= Len(d)
    PROVE  VarIn(d, o) = b /\ VarLenIn(d, o) = 1
  <1>1. Slice(d, o, 1)[1] = b /\ Len(Slice(d, o, 1)) = 1
    <2>1. d[o + 1] = b
      BY DEF Holds
    <2>2. 1 \in Nat /\ 1 \in 1..1
      OBVIOUS
    <2>3. Slice(d, o, 1)[1] = (IF o + 1 <= Len(d) THEN d[o + 1] ELSE 0) /\ Len(Slice(d, o, 1)) = 1
      BY <2>2, SliceIs
    <2> QED
      BY <2>1, <2>3
  <1>2. VarLenIn(d, o) = 1
    BY <1>1 DEF VarLenIn, VarSize
  <1>3. VarIn(d, o) = VarValue(Slice(d, o, 1))
    BY <1>2 DEF VarIn
  <1> QED
    BY <1>1, <1>2, <1>3 DEF VarValue

\* The order of the parts of a transaction.
Ordered(t) ==
    /\ BodyAt(t) \in Nat /\ InsAt(t) \in Nat /\ CountAt(t) \in Nat /\ OutsAt(t) \in Nat
    /\ WitAt(t) \in Nat /\ LockAt(t) \in Nat
    /\ BodyAt(t) = IF HasWitness(t) THEN 6 ELSE 4
    /\ BodyAt(t) < InsAt(t) /\ InsAt(t) <= CountAt(t) /\ CountAt(t) < OutsAt(t)
    /\ OutsAt(t) <= WitAt(t) /\ WitAt(t) <= LockAt(t)
    /\ Len(Serialized(t)) = LockAt(t) + 4

LEMMA PartsAreOrdered == ASSUME NEW t, IsTx(t) PROVE Ordered(t)
  <1>1. TxMeasured(t)
    BY TxIsMeasured
  <1>2. /\ Len(CompactSize(Len(t.input))) \in Nat \ {0}
        /\ Len(CompactSize(Len(t.output))) \in Nat \ {0}
    BY TxBytes, CompactSizeBytes
  <1>3. \A s \in Seq(Byte) : Len(s) \in Nat
    OBVIOUS
  <1>4. Len(FlattenSeq(Ins(t))) \in Nat
    BY <1>3, TxBytes, FlattenBytes
  <1>5. Len(FlattenSeq(Outs(t))) \in Nat
    BY <1>3, TxBytes, FlattenBytes
  <1>6. Len(WitnessBytes(t)) \in Nat
    BY <1>1, <1>3 DEF TxMeasured
  <1>7. Len(Mark(t)) = IF HasWitness(t) THEN 2 ELSE 0
    BY DEF Mark
  <1>8. BodyAt(t) = IF HasWitness(t) THEN 6 ELSE 4
    BY <1>7 DEF BodyAt
  <1>9. /\ BodyAt(t) \in Nat /\ InsAt(t) \in Nat /\ CountAt(t) \in Nat /\ OutsAt(t) \in Nat
        /\ WitAt(t) \in Nat /\ LockAt(t) \in Nat
    BY <1>1 DEF TxMeasured
  <1>10. /\ BodyAt(t) < InsAt(t) /\ InsAt(t) <= CountAt(t) /\ CountAt(t) < OutsAt(t)
         /\ OutsAt(t) <= WitAt(t) /\ WitAt(t) <= LockAt(t)
    <2>1. InsAt(t) = BodyAt(t) + Len(CompactSize(Len(t.input)))
      BY DEF InsAt
    <2>2. CountAt(t) = InsAt(t) + Len(FlattenSeq(Ins(t)))
      BY DEF CountAt
    <2>3. OutsAt(t) = CountAt(t) + Len(CompactSize(Len(t.output)))
      BY DEF OutsAt
    <2>4. WitAt(t) = OutsAt(t) + Len(FlattenSeq(Outs(t)))
      BY DEF WitAt
    <2>5. LockAt(t) = WitAt(t) + Len(WitnessBytes(t))
      BY DEF LockAt
    <2>6. BodyAt(t) < InsAt(t) /\ CountAt(t) < OutsAt(t)
      BY <1>2, <1>9, <2>1, <2>3
    <2>7. InsAt(t) <= CountAt(t) /\ OutsAt(t) <= WitAt(t)
      BY <1>4, <1>5, <1>9, <2>2, <2>4
    <2>8. WitAt(t) <= LockAt(t)
      BY <1>6, <1>9, <2>5
    <2> QED
      BY <2>6, <2>7, <2>8
  <1> QED
    BY <1>1, <1>8, <1>9, <1>10 DEF Ordered, TxMeasured

\* d is the file that is read, and t is in it.
Placed(t, d) ==
    /\ d = Data /\ d \in Seq(Byte) /\ IsTx(t) /\ start \in Nat
    /\ TxHeld(d, start, t) /\ Ordered(t)

\* Besides, the step ends in the file, or all of the transaction is in it.
Setting(t, d) == Placed(t, d) /\ (off' <= Len(d) \/ start + (LockAt(t) + 4) <= Len(d))

LEMMA ThePlace == ASSUME NEW t, TxThere(t) PROVE \E d : Placed(t, d)
  <1>1. PICK d : d = Data
    OBVIOUS
  <1>2. d \in Seq(Byte) /\ IsTx(t) /\ start \in Nat /\ Holds(d, start, Serialized(t))
    BY <1>1 DEF TxThere
  <1>3. TxHeld(d, start, t) /\ Ordered(t)
    BY <1>2, TxIsHeld, PartsAreOrdered
  <1> QED
    BY <1>1, <1>2, <1>3 DEF Placed

LEMMA TheSetting == ASSUME NEW t, TxThere(t), InTheFile(t) PROVE \E d : Setting(t, d)
  <1>1. PICK d : Placed(t, d)
    BY ThePlace
  <1>2. d = Data /\ Ordered(t)
    BY <1>1 DEF Placed
  <1>3. off' <= Len(d) \/ start + (LockAt(t) + 4) <= Len(d)
    BY <1>2 DEF InTheFile, Ordered
  <1> QED
    BY <1>1, <1>3 DEF Setting

LEMMA VersionPulled ==
    ASSUME NEW t, TxThere(t), InTheFile(t), AtVersion(t), PullVersion, items' = items
    PROVE  AtCount(t)' /\ Within(t)
  <1>1. PICK d : Setting(t, d)
    BY TheSetting
  <1>2. d = Data /\ d \in Seq(Byte) /\ start \in Nat /\ Ordered(t) /\ IsTx(t)
    BY <1>1 DEF Setting, Placed
  <1>3. off = start /\ contextOff = start /\ hashed = <<>> /\ trans = NoTrans /\ items = 0
    BY DEF AtVersion
  <1>4. /\ off' = start + 4 /\ start' = start /\ contextOff' = off'
        /\ hashed' = hashed \o Slice(d, start, off' - start)
        /\ trans' = [[NoTrans EXCEPT !.version = Num(Slice(d, start, 4))] EXCEPT !.non_swlen = @ + (off' - start)]
    BY <1>2, <1>3 DEF PullVersion, AppendToHash, At, U32
  <1>5. off' - start = 4 /\ off' \in Nat
    BY <1>2, <1>4
  <1>6. start + 4 <= Len(d)
    BY <1>1, <1>2, <1>4 DEF Setting, Placed, Ordered
  <1>7. Holds(d, start, Le(4, t.version)) /\ Fits(4, t.version)
    BY <1>1, <1>2 DEF Setting, Placed, TxHeld, IsTx
  <1>8. Num(Slice(d, start, 4)) = t.version
    <2>1. 4 \in Nat
      OBVIOUS
    <2> QED
      BY <1>2, <1>6, <1>7, <2>1, HoldsNumber
  <1>9. Le(4, t.version) \in Seq(Byte) /\ Len(Le(4, t.version)) = 4
    BY <1>7, FourBytes
  <1>10. Slice(d, start, 4) = Le(4, t.version)
    <2>1. start + Len(Le(4, t.version)) <= Len(d)
      BY <1>6, <1>9
    <2>2. Slice(d, start, Len(Le(4, t.version))) = Le(4, t.version)
      BY <1>2, <1>7, <1>9, <2>1, HoldsSlice
    <2> QED
      BY <1>9, <2>2
  <1>11. hashed' = Le(4, t.version)
    BY <1>3, <1>4, <1>5, <1>9, <1>10, ConcatEmptySeq
  <1>12. /\ DOMAIN trans' = DOMAIN NoTrans /\ trans'.version = t.version /\ trans'.non_swlen = 4
         /\ trans'.input = <<>> /\ trans'.output = <<>>
    BY <1>4, <1>5, <1>8 DEF NoTrans
  <1>13. off' <= start + Len(Serialized(t))
    BY <1>2, <1>4 DEF Ordered
  <1> QED
    BY <1>3, <1>4, <1>5, <1>11, <1>12, <1>13 DEF AtCount, Within

LEMMA MarkHeld ==
    ASSUME NEW t, NEW d, Placed(t, d), HasWitness(t)
    PROVE  Holds(d, start + 4, <<0>>) /\ Holds(d, start + 5, <<1>>)
  <1>1. d \in Seq(Byte) /\ start \in Nat /\ Holds(d, start + 4, <<0, 1>>)
    BY DEF Placed, TxHeld, Mark
  <1>2. \A k \in 1..2 : (start + 4) + k <= Len(d) => d[(start + 4) + k] = <<0, 1>>[k]
    BY <1>1 DEF Holds
  <1> QED
    BY <1>1, <1>2 DEF Holds

\* A zero where the number of inputs should be, in a transaction without
\* witnesses: there is no input, and the next number is that of the outputs.
LEMMA NoInputs ==
    ASSUME NEW t, NEW d, Setting(t, d), ~HasWitness(t), NEW o \in Nat, o = start + 4, VarIn(d, o) = 0,
           NEW flagAt, flagAt = o + VarLenIn(d, o), off' \in Nat, flagAt + VarLenIn(d, flagAt) <= off',
           off' <= Len(d) \/ start + (LockAt(t) + 4) <= Len(d)
    PROVE  /\ t.input = <<>> /\ VarIn(d, flagAt) = Len(t.output)
           /\ flagAt + VarLenIn(d, flagAt) = start + OutsAt(t)
  <1>1. d \in Seq(Byte) /\ start \in Nat /\ Ordered(t) /\ IsTx(t) /\ BodyAt(t) = 4
    BY DEF Setting, Placed, Ordered
  <1>2. /\ Holds(d, start + BodyAt(t), CompactSize(Len(t.input)))
        /\ Holds(d, start + CountAt(t), CompactSize(Len(t.output)))
    BY DEF Setting, Placed, TxHeld
  <1>3. /\ Ins(t) \in Seq(Seq(Byte)) /\ Len(Ins(t)) = Len(t.input)
        /\ Fits(8, Len(t.input)) /\ Len(t.input) \in Nat
        /\ Fits(8, Len(t.output)) /\ Len(t.output) \in Nat /\ DOMAIN t.input = 1..Len(t.input)
    BY <1>1, TxBytes
  <1>4. VarLenIn(d, o) \in Nat \ {0} /\ flagAt \in Nat
    <2>1. VarLenIn(d, o) \in Nat \ {0}
      BY <1>1, VarIsNatural
    <2> QED
      BY <2>1
  <1>5. VarLenIn(d, flagAt) \in Nat \ {0}
    BY <1>1, <1>4, VarIsNatural
  <1>6. InsAt(t) = BodyAt(t) + Len(CompactSize(Len(t.input)))
    BY DEF InsAt
  <1>7. Len(CompactSize(Len(t.input))) \in Nat \ {0} /\ Len(CompactSize(Len(t.output))) \in Nat \ {0}
    BY <1>3, CompactSizeBytes
  <1>8. o + VarLenIn(d, o) <= Len(d) \/ o + Len(CompactSize(Len(t.input))) <= Len(d)
    <2>1. Len(d) \in Nat
      BY <1>1
    <2>2. InsAt(t) <= LockAt(t) /\ InsAt(t) \in Nat /\ LockAt(t) \in Nat
      BY <1>1 DEF Ordered
    <2> QED
      BY <1>1, <1>4, <1>5, <1>6, <1>7, <2>1, <2>2, SMTT(30)
  <1>9. VarIn(d, o) = Len(t.input) /\ VarLenIn(d, o) = Len(CompactSize(Len(t.input)))
    <2>1. PICK n : n = Len(t.input)
      OBVIOUS
    <2>2. /\ Fits(8, n) /\ Holds(d, o, CompactSize(n))
          /\ o + VarLenIn(d, o) <= Len(d) \/ o + Len(CompactSize(n)) <= Len(d)
      BY <1>1, <1>2, <1>3, <1>8, <2>1, Zenon
    <2>3. VarIn(d, o) = n /\ VarLenIn(d, o) = Len(CompactSize(n))
      BY <1>1, <2>2, HoldsVarint
    <2> QED
      BY <2>1, <2>3
  <1>10. t.input = <<>>
    <2>1. t.input \in Seq({t.input[k] : k \in DOMAIN t.input})
      BY <1>1 DEF IsTx, Sized, IsSequence
    <2> QED
      BY <1>9, <2>1
  <1>11. Len(FlattenSeq(Ins(t))) = 0
    BY <1>3, <1>9, FirstPart
  <1>12. flagAt = start + CountAt(t)
    <2>1. CountAt(t) = InsAt(t) + Len(FlattenSeq(Ins(t)))
      BY DEF CountAt
    <2> QED
      BY <1>1, <1>4, <1>6, <1>9, <1>11, <2>1
  <1>13. OutsAt(t) = CountAt(t) + Len(CompactSize(Len(t.output)))
    BY DEF OutsAt
  <1>14. CountAt(t) \in Nat /\ OutsAt(t) <= LockAt(t) /\ OutsAt(t) \in Nat /\ LockAt(t) \in Nat
    BY <1>1 DEF Ordered
  <1>15. flagAt + VarLenIn(d, flagAt) <= Len(d) \/ flagAt + Len(CompactSize(Len(t.output))) <= Len(d)
    <2>1. Len(d) \in Nat
      BY <1>1
    <2>2. flagAt + Len(CompactSize(Len(t.output))) = start + OutsAt(t)
      BY <1>1, <1>7, <1>12, <1>13, <1>14
    <2>3. start + OutsAt(t) <= start + (LockAt(t) + 4)
      BY <1>1, <1>14
    <2>4. CASE off' <= Len(d)
      BY <1>4, <1>5, <2>1, <2>4
    <2>5. CASE start + (LockAt(t) + 4) <= Len(d)
      <3>1. start + OutsAt(t) \in Nat /\ start + (LockAt(t) + 4) \in Nat
        BY <1>1, <1>14
      <3> QED
        BY <2>1, <2>2, <2>3, <2>5, <3>1
    <2> QED
      BY <2>4, <2>5
  <1>16. VarIn(d, flagAt) = Len(t.output) /\ VarLenIn(d, flagAt) = Len(CompactSize(Len(t.output)))
    BY <1>1, <1>2, <1>3, <1>4, <1>12, <1>15, HoldsVarint
  <1> QED
    BY <1>1, <1>10, <1>12, <1>13, <1>14, <1>16

\* The number of inputs is at o.
LEMMA InputsCounted ==
    ASSUME NEW t, NEW d, Setting(t, d), NEW o, o = start + BodyAt(t), off' = o + VarLenIn(d, o)
    PROVE  VarIn(d, o) = Len(t.input) /\ off' = start + InsAt(t) /\ off' \in Nat
  <1>1. d \in Seq(Byte) /\ start \in Nat /\ Ordered(t) /\ IsTx(t)
    BY DEF Setting, Placed
  <1>2. Holds(d, o, CompactSize(Len(t.input))) /\ o \in Nat
    BY <1>1 DEF Setting, Placed, TxHeld, Ordered
  <1>3. Fits(8, Len(t.input)) /\ Len(CompactSize(Len(t.input))) \in Nat \ {0}
    BY <1>1, TxBytes, CompactSizeBytes
  <1>4. InsAt(t) = BodyAt(t) + Len(CompactSize(Len(t.input)))
    BY DEF InsAt
  <1>5. InsAt(t) <= LockAt(t) /\ InsAt(t) \in Nat /\ LockAt(t) \in Nat /\ BodyAt(t) \in Nat
    BY <1>1 DEF Ordered
  <1>6. o + VarLenIn(d, o) <= Len(d) \/ o + Len(CompactSize(Len(t.input))) <= Len(d)
    <2>1. Len(d) \in Nat /\ (off' <= Len(d) \/ start + (LockAt(t) + 4) <= Len(d))
      BY <1>1 DEF Setting, Placed
    <2> QED
      BY <1>1, <1>3, <1>4, <1>5, <2>1
  <1>7. VarIn(d, o) = Len(t.input) /\ VarLenIn(d, o) = Len(CompactSize(Len(t.input)))
    BY <1>1, <1>2, <1>3, <1>6, HoldsVarint
  <1> QED
    BY <1>1, <1>4, <1>5, <1>7

\* What both ways to the first input have in common.
LEMMA ToTheInputs ==
    ASSUME NEW t, IsTx(t), start \in Nat, AtCount(t), items' = items, start' = start,
           NEW b, b = Bit(HasWitness(t)),
           trans' = [trans EXCEPT !.segwit = b, !.input_count = Len(t.input)],
           hashed' = hashed, contextOff' = start + BodyAt(t), off' = start + InsAt(t)
    PROVE  AtInput(t)' /\ Within(t)
  <1>1. Ordered(t) /\ Ins(t) \in Seq(Seq(Byte)) /\ Len(t.input) \in Nat
    BY PartsAreOrdered, TxBytes
  <1>2. Upto(Ins(t), 0) = <<>> /\ Len(Upto(Ins(t), 0)) = 0
    BY <1>1, FirstPart
  <1>3. /\ DOMAIN trans' = DOMAIN NoTrans /\ trans'.version = t.version /\ trans'.non_swlen = 4
        /\ trans'.input = <<>> /\ trans'.output = <<>> /\ trans'.segwit = b
        /\ trans'.input_count = Len(t.input)
    BY DEF AtCount, NoTrans
  <1>4. IsSequence(<<>>) /\ Len(<<>>) = 0
    BY DEF IsSequence
  <1>5. InputsRead(t)' /\ NoWitnessYet'
    BY <1>1, <1>3, <1>4 DEF InputsRead, NoWitnessYet
  <1>6. hashed' = Le(4, t.version) /\ items' = 0
    BY DEF AtCount
  <1>7. InBody(t)'
    BY <1>3, <1>5, <1>6 DEF InBody
  <1>8. off' = start + InsAt(t) + Len(Upto(Ins(t), Len(trans'.input)))
    <2>1. Len(trans'.input) = 0
      BY <1>3, <1>4
    <2> QED
      BY <1>1, <1>2, <2>1 DEF Ordered
  <1>9. AtInput(t)'
    BY <1>3, <1>7, <1>8 DEF AtInput
  <1>10. off' \in Nat /\ off' <= start + Len(Serialized(t))
    BY <1>1 DEF Ordered
  <1> QED
    BY <1>9, <1>10 DEF Within

LEMMA InputCountPulled ==
    ASSUME NEW t, TxThere(t), InTheFile(t), AtCount(t), PullInputCount, items' = items
    PROVE  AtInput(t)' /\ Within(t)
  <1>1. PICK d : Setting(t, d)
    BY TheSetting
  <1>2. d = Data /\ d \in Seq(Byte) /\ start \in Nat /\ Ordered(t) /\ IsTx(t)
    BY <1>1 DEF Setting, Placed
  <1>3. PICK o \in Nat : o = off /\ o = start + 4
    BY <1>2 DEF AtCount
  <1>4. /\ VarIn(d, o) # 0 /\ off' = o + VarLenIn(d, o) /\ start' = start
        /\ trans' = [trans EXCEPT !.segwit = 0, !.input_count = VarIn(d, o)]
        /\ contextOff' = contextOff /\ hashed' = hashed
    BY <1>2, <1>3 DEF PullInputCount, Var, VarLen
  <1>5. VarLenIn(d, o) \in Nat \ {0}
    BY <1>2, VarIsNatural
  <1>6. ~HasWitness(t)
    <2>1. SUFFICES ASSUME HasWitness(t) PROVE FALSE
      OBVIOUS
    <2>2. Holds(d, o, <<0>>)
      BY <1>1, <1>3, <2>1, MarkHeld DEF Setting
    <2>3. o + 1 <= Len(d)
      <3>1. Len(d) \in Nat /\ (off' <= Len(d) \/ start + (LockAt(t) + 4) <= Len(d))
        BY <1>1, <1>2 DEF Setting, Placed
      <3>2. LockAt(t) >= 4 /\ LockAt(t) \in Nat
        BY <1>2 DEF Ordered
      <3> QED
        BY <1>2, <1>3, <1>4, <1>5, <3>1, <3>2
    <2> QED
      BY <1>2, <1>4, <2>2, <2>3, HoldsShort
  <1>7. BodyAt(t) = 4 /\ Bit(HasWitness(t)) = 0
    BY <1>2, <1>6 DEF Ordered, Bit
  <1>8. VarIn(d, o) = Len(t.input) /\ off' = start + InsAt(t)
    BY <1>1, <1>3, <1>4, <1>7, InputsCounted
  <1>9. contextOff' = start + BodyAt(t)
    BY <1>3, <1>4, <1>7 DEF AtCount
  <1>10. trans' = [trans EXCEPT !.segwit = 0, !.input_count = Len(t.input)]
    BY <1>4, <1>8
  <1> QED
    BY <1>2, <1>4, <1>7, <1>8, <1>9, <1>10, ToTheInputs

\* The marker and the flag, and what follows them.
LEMMA FlagHeld ==
    ASSUME NEW t, NEW d, Setting(t, d), HasWitness(t), NEW o \in Nat, o = start + 4,
           NEW flagAt, flagAt = o + VarLenIn(d, o), off' \in Nat, flagAt + VarLenIn(d, flagAt) <= off'
    PROVE  VarIn(d, flagAt) = 1 /\ flagAt + VarLenIn(d, flagAt) = start + BodyAt(t)
  <1>1. d \in Seq(Byte) /\ start \in Nat /\ Ordered(t) /\ BodyAt(t) = 6
    BY DEF Setting, Placed, Ordered
  <1>2. Holds(d, o, <<0>>) /\ Holds(d, o + 1, <<1>>)
    BY <1>1, MarkHeld DEF Setting
  <1>3. VarLenIn(d, o) \in Nat \ {0}
    BY <1>1, VarIsNatural
  <1>4. flagAt \in Nat
    BY <1>3
  <1>5. VarLenIn(d, flagAt) \in Nat \ {0}
    BY <1>1, <1>4, VarIsNatural
  <1>6. o + 2 <= Len(d)
    <2>1. Len(d) \in Nat /\ (off' <= Len(d) \/ start + (LockAt(t) + 4) <= Len(d))
      BY <1>1 DEF Setting, Placed
    <2>2. LockAt(t) >= 6 /\ LockAt(t) \in Nat
      BY <1>1 DEF Ordered
    <2>3. o + 2 <= off'
      BY <1>3, <1>4, <1>5
    <2>4. CASE off' <= Len(d)
      BY <2>1, <2>3, <2>4
    <2>5. CASE start + (LockAt(t) + 4) <= Len(d)
      BY <1>1, <2>1, <2>2, <2>5
    <2> QED
      BY <2>1, <2>4, <2>5
  <1>7. VarLenIn(d, o) = 1
    <2>1. o + 1 <= Len(d) /\ 0 \in Nat /\ 0 < 253
      BY <1>1, <1>6
    <2> QED
      BY <1>1, <1>2, <2>1, HoldsShort
  <1>8. flagAt = o + 1
    BY <1>7
  <1>9. VarIn(d, flagAt) = 1 /\ VarLenIn(d, flagAt) = 1
    <2>1. flagAt + 1 <= Len(d) /\ 1 \in Nat /\ 1 < 253
      BY <1>6, <1>8
    <2> QED
      BY <1>1, <1>2, <1>4, <1>8, <2>1, HoldsShort
  <1> QED
    BY <1>1, <1>8, <1>9

LEMMA MarkerPulled ==
    ASSUME NEW t, TxThere(t), InTheFile(t), AtCount(t), PullMarker, items' = items
    PROVE  AtInput(t)' /\ Within(t)
  <1>1. PICK d : Setting(t, d)
    BY TheSetting
  <1>2. d = Data /\ d \in Seq(Byte) /\ start \in Nat /\ Ordered(t) /\ IsTx(t)
    BY <1>1 DEF Setting, Placed
  <1>3. PICK o \in Nat : o = off /\ o = start + 4
    BY <1>2 DEF AtCount
  <1>4. PICK flagAt : flagAt = o + VarLenIn(d, o)
    OBVIOUS
  <1>5. PICK countAt : countAt = flagAt + VarLenIn(d, flagAt)
    OBVIOUS
  <1>6. /\ VarIn(d, o) = 0 /\ VarIn(d, flagAt) = 1 /\ off' = countAt + VarLenIn(d, countAt)
        /\ start' = start /\ contextOff' = countAt /\ hashed' = hashed
        /\ trans' = [trans EXCEPT !.segwit = 1, !.input_count = VarIn(d, countAt)]
    BY <1>2, <1>3, <1>4, <1>5 DEF PullMarker, FlagAt, Var, VarLen
  <1>7. VarLenIn(d, o) \in Nat \ {0}
    BY <1>2, VarIsNatural
  <1>8. flagAt \in Nat
    BY <1>4, <1>7
  <1>9. VarLenIn(d, flagAt) \in Nat \ {0}
    BY <1>2, <1>8, VarIsNatural
  <1>10. countAt \in Nat
    BY <1>5, <1>8, <1>9
  <1>11. VarLenIn(d, countAt) \in Nat \ {0}
    BY <1>2, <1>10, VarIsNatural
  <1>12. off' \in Nat /\ countAt <= off'
    BY <1>6, <1>10, <1>11
  <1>13. off' <= Len(d) \/ start + (LockAt(t) + 4) <= Len(d)
    BY <1>1 DEF Setting, Placed
  <1>14. HasWitness(t)
    <2>1. SUFFICES ASSUME ~HasWitness(t) PROVE FALSE
      OBVIOUS
    <2>2. t.input = <<>> /\ VarIn(d, flagAt) = Len(t.output)
      BY <1>1, <1>3, <1>4, <1>5, <1>6, <1>12, <1>13, <2>1, NoInputs
    <2> QED
      BY <1>2, <1>6, <2>2 DEF IsTx
  <1>15. countAt = start + BodyAt(t)
    BY <1>1, <1>3, <1>4, <1>5, <1>12, <1>14, FlagHeld
  <1>16. VarIn(d, countAt) = Len(t.input) /\ off' = start + InsAt(t)
    BY <1>1, <1>6, <1>15, InputsCounted
  <1>17. Bit(HasWitness(t)) = 1
    BY <1>14 DEF Bit
  <1>18. trans' = [trans EXCEPT !.segwit = 1, !.input_count = Len(t.input)]
    BY <1>6, <1>16
  <1> QED
    BY <1>2, <1>6, <1>15, <1>16, <1>17, <1>18, ToTheInputs

\* A flag that is not one is the number of the outputs of a transaction without
\* an input.
LEMMA BadFlagPulled ==
    ASSUME NEW t, TxThere(t), InTheFile(t), AtCount(t), BadFlag
    PROVE  t.input = <<>> /\ Within(t)
  <1>1. PICK d : Setting(t, d)
    BY TheSetting
  <1>2. d = Data /\ d \in Seq(Byte) /\ start \in Nat /\ Ordered(t)
    BY <1>1 DEF Setting, Placed
  <1>3. PICK o \in Nat : o = off /\ o = start + 4
    BY <1>2 DEF AtCount
  <1>4. PICK flagAt : flagAt = o + VarLenIn(d, o)
    OBVIOUS
  <1>5. /\ VarIn(d, o) = 0 /\ VarIn(d, flagAt) # 1 /\ off' = flagAt + VarLenIn(d, flagAt)
        /\ start' = start
    BY <1>2, <1>3, <1>4 DEF BadFlag, FlagAt, Var, VarLen
  <1>6. VarLenIn(d, o) \in Nat \ {0}
    BY <1>2, VarIsNatural
  <1>7. flagAt \in Nat
    BY <1>4, <1>6
  <1>8. VarLenIn(d, flagAt) \in Nat \ {0}
    BY <1>2, <1>7, VarIsNatural
  <1>9. off' \in Nat /\ flagAt + VarLenIn(d, flagAt) <= off'
    BY <1>5, <1>7, <1>8
  <1>10. off' <= Len(d) \/ start + (LockAt(t) + 4) <= Len(d)
    BY <1>1 DEF Setting, Placed
  <1>11. ~HasWitness(t)
    BY <1>1, <1>3, <1>4, <1>5, <1>9, FlagHeld
  <1>12. t.input = <<>> /\ off' = start + OutsAt(t)
    BY <1>1, <1>3, <1>4, <1>5, <1>9, <1>10, <1>11, NoInputs
  <1>13. off' <= start + Len(Serialized(t))
    BY <1>2, <1>12 DEF Ordered
  <1> QED
    BY <1>5, <1>9, <1>12, <1>13 DEF Within

\* Where the mth of some sequences is, in a file that has them from o on.
LEMMA PartAt ==
    ASSUME NEW d \in Seq(Byte), NEW o \in Nat, NEW seqs \in Seq(Seq(Byte)), NEW m \in 1..Len(seqs),
           Holds(d, o, FlattenSeq(seqs)), NEW at, at = o + Len(Upto(seqs, m - 1))
    PROVE  /\ at \in Nat /\ Holds(d, at, seqs[m]) /\ Len(seqs[m]) \in Nat
           /\ at + Len(seqs[m]) = o + Len(Upto(seqs, m))
           /\ at + Len(seqs[m]) <= o + Len(FlattenSeq(seqs)) /\ Len(FlattenSeq(seqs)) \in Nat
  <1>1. PICK u \in Nat : u = Len(Upto(seqs, m - 1))
    BY PartsAre
  <1>2. PICK l \in Nat : l = Len(seqs[m])
    BY PartsAre
  <1>3. Len(Upto(seqs, m)) = u + l /\ u + l <= Len(FlattenSeq(seqs))
    BY <1>1, <1>2, PartsAre
  <1>4. Holds(d, at, seqs[m])
    BY HoldsPart
  <1>5. PICK n \in Nat : n = Len(FlattenSeq(seqs))
    <2>1. FlattenSeq(seqs) \in Seq(Byte)
      BY FlattenBytes
    <2> QED
      BY <2>1
  <1>6. at = o + u /\ u + l <= n
    BY <1>1, <1>3, <1>5
  <1>7. at \in Nat /\ at + l = o + (u + l) /\ at + l <= o + n
    <2>1. PICK a \in Nat : a = o + u
      OBVIOUS
    <2>2. a + l = o + (u + l) /\ a + l <= o + n
      BY <1>6, <2>1
    <2> QED
      BY <1>6, <2>1, <2>2
  <1> QED
    BY <1>2, <1>3, <1>4, <1>5, <1>7

LEMMA InputIsRead ==
    ASSUME NEW t, TxThere(t), InTheFile(t), AtInput(t), ReadInput, items' = items
    PROVE  AtInput(t)' /\ Within(t)
  <1>1. PICK d : Setting(t, d)
    BY TheSetting
  <1>2. d = Data /\ d \in Seq(Byte) /\ start \in Nat /\ Ordered(t) /\ IsTx(t)
    BY <1>1 DEF Setting, Placed
  <1>3. InBody(t) /\ InputsRead(t) /\ NoWitnessYet /\ trans.output = <<>>
    BY DEF AtInput, InBody
  <1>4. PICK r :
          /\ trans' = [trans EXCEPT !.input = Append(@, r)] /\ InputAt(r, d, off, off')
          /\ DOMAIN r = InputFields /\ r.num_witness = NULL
          /\ start' = start /\ contextOff' = contextOff /\ hashed' = hashed
    <2>1. PICK r : r = [txid |-> At(off, 32), index |-> U32(off + 32), script_length |-> Var(off + 36),
                        script |-> At(off + 36 + VarLen(off + 36), Var(off + 36)), num_witness |-> NULL,
                        sequence_number |-> U32(off + 36 + VarLen(off + 36) + Var(off + 36))]
      OBVIOUS
    <2>2. /\ trans' = [trans EXCEPT !.input = Append(@, r)]
          /\ off' = off + 36 + VarLen(off + 36) + Var(off + 36) + 4
          /\ start' = start /\ contextOff' = contextOff /\ hashed' = hashed
      BY <2>1 DEF ReadInput
    <2>3. InputAt(r, d, off, off')
      BY <1>2, <2>1, <2>2 DEF InputAt, At, U32, Var, VarLen
    <2>4. DOMAIN r = InputFields /\ r.num_witness = NULL
      BY <2>1 DEF InputFields
    <2> QED
      BY <2>2, <2>3, <2>4, Zenon
  <1>5. /\ IsSequence(trans.input) /\ Len(trans.input) \in Nat /\ Len(trans.input) < Len(t.input)
        /\ "input" \in DOMAIN trans
    <2>1. Len(trans.input) < trans.input_count /\ trans.input_count = Len(t.input)
      BY <1>3 DEF ReadInput, InBody
    <2>2. IsSequence(trans.input) /\ "input" \in DOMAIN trans
      BY <1>3 DEF InputsRead, InBody, NoTrans
    <2> QED
      BY <2>1, <2>2, AppendTo
  <1>6. PICK m \in 1..Len(t.input) : m = Len(trans.input) + 1
    <2>1. Len(t.input) \in Nat
      BY <1>2, TxBytes
    <2> QED
      BY <1>5, <2>1
  <1>7. /\ Ins(t) \in Seq(Seq(Byte)) /\ Len(Ins(t)) = Len(t.input) /\ Ins(t)[m] = StoredIn(t.input[m])
        /\ IsIn(t.input[m]) /\ Len(t.input) \in Nat
    BY <1>2, <1>6, TxBytes DEF Ins, IsTx
  <1>8. PICK o \in Nat : o = start + InsAt(t)
    BY <1>2 DEF Ordered
  <1>9. m - 1 = Len(trans.input) /\ off = o + Len(Upto(Ins(t), m - 1))
    BY <1>5, <1>6, <1>8 DEF AtInput
  <1>10. Holds(d, o, FlattenSeq(Ins(t)))
    BY <1>1, <1>8 DEF Setting, Placed, TxHeld
  <1>11. /\ off \in Nat /\ Holds(d, off, Ins(t)[m]) /\ Len(Ins(t)[m]) \in Nat
         /\ off + Len(Ins(t)[m]) = o + Len(Upto(Ins(t), m))
         /\ off + Len(Ins(t)[m]) <= o + Len(FlattenSeq(Ins(t))) /\ Len(FlattenSeq(Ins(t))) \in Nat
    <2>1. m \in 1..Len(Ins(t))
      BY <1>6, <1>7
    <2> QED
      BY <1>2, <1>7, <1>9, <1>10, <2>1, PartAt, ZenonT(60)
  <1>12. off + Len(Ins(t)[m]) <= start + (LockAt(t) + 4)
    <2>1. o + Len(FlattenSeq(Ins(t))) = start + CountAt(t)
      <3>1. CountAt(t) = InsAt(t) + Len(FlattenSeq(Ins(t)))
        BY DEF CountAt
      <3> QED
        BY <1>2, <1>8, <1>11, <3>1, SMTT(30) DEF Ordered
    <2>2. start + CountAt(t) <= start + (LockAt(t) + 4) /\ start + CountAt(t) \in Nat
          /\ start + (LockAt(t) + 4) \in Nat
      BY <1>2 DEF Ordered
    <2> QED
      BY <1>11, <2>1, <2>2
  <1>13. off' <= Len(d) \/ off + Len(StoredIn(t.input[m])) <= Len(d)
    <2>1. Len(d) \in Nat /\ (off' <= Len(d) \/ start + (LockAt(t) + 4) <= Len(d))
      BY <1>1, <1>2 DEF Setting, Placed
    <2>2. LockAt(t) \in Nat
      BY <1>2 DEF Ordered
    <2> QED
      BY <1>2, <1>7, <1>11, <1>12, <2>1, <2>2
  <1>14. off' = off + Len(StoredIn(t.input[m])) /\ DumpTxInput(r) = StoredIn(t.input[m])
    BY <1>2, <1>4, <1>7, <1>11, <1>13, InputRead
  <1>15. /\ IsSequence(trans'.input) /\ Len(trans'.input) = m /\ trans'.input[m] = r
         /\ \A k \in 1..(m - 1) : trans'.input[k] = trans.input[k]
    <2>1. trans'.input = Append(trans.input, r)
      BY <1>4, <1>5
    <2> QED
      BY <1>5, <1>6, <1>9, <2>1, AppendTo
  <1>16. \A k \in 1..m : k = m \/ k \in 1..(m - 1)
    OBVIOUS
  <1>17. InputsRead(t)'
    <2>1. \A k \in 1..(m - 1) :
             DumpTxInput(trans.input[k]) = StoredIn(t.input[k]) /\ DOMAIN trans.input[k] = InputFields
      BY <1>3, <1>9 DEF InputsRead
    <2>2. m <= Len(t.input)
      BY <1>7
    <2> QED
      BY <1>4, <1>14, <1>15, <1>16, <2>1, <2>2 DEF InputsRead
  <1>18. NoWitnessYet'
    BY <1>3, <1>4, <1>9, <1>15, <1>16 DEF NoWitnessYet
  <1>19. InBody(t)' /\ trans'.output = <<>>
    BY <1>3, <1>4, <1>17, <1>18 DEF InBody, NoTrans
  <1>20. off' = o + Len(Upto(Ins(t), m))
    BY <1>7, <1>11, <1>14
  <1>21. AtInput(t)'
    BY <1>4, <1>8, <1>15, <1>19, <1>20 DEF AtInput
  <1>22. off' \in Nat /\ off' <= start + Len(Serialized(t))
    BY <1>2, <1>7, <1>11, <1>12, <1>14 DEF Ordered
  <1> QED
    BY <1>4, <1>21, <1>22 DEF Within

LEMMA OutputCountPulled ==
    ASSUME NEW t, TxThere(t), InTheFile(t), AtInput(t), PullOutputCount, items' = items
    PROVE  AtOutput(t)' /\ Within(t)
  <1>1. PICK d : Setting(t, d)
    BY TheSetting
  <1>2. d = Data /\ d \in Seq(Byte) /\ start \in Nat /\ Ordered(t) /\ IsTx(t)
    BY <1>1 DEF Setting, Placed
  <1>3. /\ off' = off + VarLenIn(d, off) /\ trans' = [trans EXCEPT !.output_count = VarIn(d, off)]
        /\ Len(trans.input) = trans.input_count
        /\ start' = start /\ contextOff' = contextOff /\ hashed' = hashed
    BY <1>2 DEF PullOutputCount, Var, VarLen
  <1>4. Len(trans.input) = Len(t.input) /\ InBody(t) /\ trans.output = <<>>
    BY <1>3 DEF AtInput, InBody
  <1>5. Ins(t) \in Seq(Seq(Byte)) /\ Len(Ins(t)) = Len(t.input) /\ Fits(8, Len(t.output))
        /\ Outs(t) \in Seq(Seq(Byte)) /\ Len(t.output) \in Nat
    BY <1>2, TxBytes
  <1>6. off = start + CountAt(t) /\ off \in Nat
    <2>1. off = start + InsAt(t) + Len(FlattenSeq(Ins(t)))
      <3>1. Upto(Ins(t), Len(t.input)) = FlattenSeq(Ins(t))
        BY <1>5, FirstPart
      <3> QED
        BY <1>4, <3>1 DEF AtInput
    <2>2. CountAt(t) = InsAt(t) + Len(FlattenSeq(Ins(t)))
      BY DEF CountAt
    <2>3. FlattenSeq(Ins(t)) \in Seq(Byte)
      BY <1>5, FlattenBytes
    <2>4. Len(FlattenSeq(Ins(t))) \in Nat
      BY <2>3
    <2> QED
      BY <1>2, <2>1, <2>2, <2>4 DEF Ordered
  <1>7. Holds(d, off, CompactSize(Len(t.output)))
    BY <1>1, <1>6 DEF Setting, Placed, TxHeld
  <1>8. PICK c \in Nat : c = Len(CompactSize(Len(t.output)))
    BY <1>5, CompactSizeBytes
  <1>9. off + c = start + OutsAt(t)
    <2>1. OutsAt(t) = CountAt(t) + c
      BY <1>8 DEF OutsAt
    <2> QED
      BY <1>2, <1>6, <2>1 DEF Ordered
  <1>10. start + OutsAt(t) <= start + (LockAt(t) + 4) /\ start + OutsAt(t) \in Nat
         /\ start + (LockAt(t) + 4) \in Nat
    BY <1>2 DEF Ordered
  <1>11. off + VarLenIn(d, off) <= Len(d) \/ off + Len(CompactSize(Len(t.output))) <= Len(d)
    <2>1. Len(d) \in Nat /\ (off' <= Len(d) \/ start + (LockAt(t) + 4) <= Len(d))
      BY <1>1, <1>2 DEF Setting, Placed
    <2> QED
      BY <1>3, <1>8, <1>9, <1>10, <2>1
  <1>12. VarIn(d, off) = Len(t.output) /\ VarLenIn(d, off) = c
    BY <1>2, <1>5, <1>6, <1>7, <1>8, <1>11, HoldsVarint
  <1>13. off' = start + OutsAt(t)
    BY <1>3, <1>9, <1>12
  <1>14. InBody(t)'
    BY <1>3, <1>4 DEF InBody, NoTrans, InputsRead, NoWitnessYet
  <1>15. trans'.output = <<>> /\ trans'.output_count = Len(t.output) /\ trans'.input = trans.input
    BY <1>3, <1>4, <1>12 DEF InBody, NoTrans
  <1>16. OutputsRead(t)' /\ Len(trans'.output) = 0
    <2>1. IsSequence(<<>>) /\ Len(<<>>) = 0
      BY DEF IsSequence
    <2> QED
      BY <1>5, <1>15, <2>1 DEF OutputsRead
  <1>17. off' = start + OutsAt(t) + Len(Upto(Outs(t), 0))
    <2>1. Len(Upto(Outs(t), 0)) = 0
      BY <1>5, FirstPart
    <2> QED
      BY <1>10, <1>13, <2>1
  <1>18. AtOutput(t)'
    BY <1>3, <1>4, <1>14, <1>15, <1>16, <1>17 DEF AtOutput
  <1>19. off' \in Nat /\ off' <= start + Len(Serialized(t))
    BY <1>2, <1>10, <1>13 DEF Ordered
  <1> QED
    BY <1>3, <1>18, <1>19 DEF Within

LEMMA OutputIsRead ==
    ASSUME NEW t, TxThere(t), InTheFile(t), AtOutput(t), ReadOutput, items' = items
    PROVE  AtOutput(t)' /\ Within(t)
  <1>1. PICK d : Setting(t, d)
    BY TheSetting
  <1>2. d = Data /\ d \in Seq(Byte) /\ start \in Nat /\ Ordered(t) /\ IsTx(t)
    BY <1>1 DEF Setting, Placed
  <1>3. InBody(t) /\ OutputsRead(t) /\ Len(trans.input) = Len(t.input) /\ trans.output_count = Len(t.output)
    BY DEF AtOutput
  <1>4. PICK r :
          /\ trans' = [trans EXCEPT !.output = Append(@, r)] /\ OutputAt(r, d, off, off')
          /\ start' = start /\ contextOff' = contextOff /\ hashed' = hashed
    <2>1. PICK r : r = [amount |-> U64(off), script_length |-> Var(off + 8),
                        script |-> At(off + 8 + VarLen(off + 8), Var(off + 8))]
      OBVIOUS
    <2>2. /\ trans' = [trans EXCEPT !.output = Append(@, r)]
          /\ off' = off + 8 + VarLen(off + 8) + Var(off + 8)
          /\ start' = start /\ contextOff' = contextOff /\ hashed' = hashed
      BY <2>1 DEF ReadOutput
    <2>3. OutputAt(r, d, off, off')
      BY <1>2, <2>1, <2>2 DEF OutputAt, At, U64, Var, VarLen
    <2> QED
      BY <2>2, <2>3, Zenon
  <1>5. /\ IsSequence(trans.output) /\ Len(trans.output) \in Nat /\ Len(trans.output) < Len(t.output)
        /\ "output" \in DOMAIN trans
    <2>1. Len(trans.output) < Len(t.output)
      BY <1>3 DEF ReadOutput
    <2>2. IsSequence(trans.output) /\ "output" \in DOMAIN trans
      BY <1>3 DEF OutputsRead, InBody, NoTrans
    <2> QED
      BY <2>1, <2>2, AppendTo
  <1>6. PICK m \in 1..Len(t.output) : m = Len(trans.output) + 1
    <2>1. Len(t.output) \in Nat
      BY <1>2, TxBytes
    <2> QED
      BY <1>5, <2>1
  <1>7. /\ Outs(t) \in Seq(Seq(Byte)) /\ Len(Outs(t)) = Len(t.output)
        /\ Outs(t)[m] = StoredOut(t.output[m]) /\ IsOut(t.output[m]) /\ Len(t.output) \in Nat
    BY <1>2, <1>6, TxBytes DEF Outs, IsTx
  <1>8. PICK o \in Nat : o = start + OutsAt(t)
    BY <1>2 DEF Ordered
  <1>9. m - 1 = Len(trans.output) /\ off = o + Len(Upto(Outs(t), m - 1))
    BY <1>5, <1>6, <1>8 DEF AtOutput
  <1>10. Holds(d, o, FlattenSeq(Outs(t)))
    BY <1>1, <1>8 DEF Setting, Placed, TxHeld
  <1>11. /\ off \in Nat /\ Holds(d, off, Outs(t)[m]) /\ Len(Outs(t)[m]) \in Nat
         /\ off + Len(Outs(t)[m]) = o + Len(Upto(Outs(t), m))
         /\ off + Len(Outs(t)[m]) <= o + Len(FlattenSeq(Outs(t))) /\ Len(FlattenSeq(Outs(t))) \in Nat
    <2>1. m \in 1..Len(Outs(t))
      BY <1>6, <1>7
    <2> QED
      BY <1>2, <1>7, <1>9, <1>10, <2>1, PartAt, ZenonT(60)
  <1>12. off + Len(Outs(t)[m]) <= start + (LockAt(t) + 4)
    <2>1. o + Len(FlattenSeq(Outs(t))) = start + WitAt(t)
      <3>1. WitAt(t) = OutsAt(t) + Len(FlattenSeq(Outs(t)))
        BY DEF WitAt
      <3> QED
        BY <1>2, <1>8, <1>11, <3>1, SMTT(30) DEF Ordered
    <2>2. start + WitAt(t) <= start + (LockAt(t) + 4) /\ start + WitAt(t) \in Nat
          /\ start + (LockAt(t) + 4) \in Nat
      BY <1>2 DEF Ordered
    <2> QED
      BY <1>11, <2>1, <2>2
  <1>13. off' <= Len(d) \/ off + Len(StoredOut(t.output[m])) <= Len(d)
    <2>1. Len(d) \in Nat /\ (off' <= Len(d) \/ start + (LockAt(t) + 4) <= Len(d))
      BY <1>1, <1>2 DEF Setting, Placed
    <2>2. LockAt(t) \in Nat
      BY <1>2 DEF Ordered
    <2> QED
      BY <1>2, <1>7, <1>11, <1>12, <2>1, <2>2
  <1>14. off' = off + Len(StoredOut(t.output[m])) /\ DumpTxOutput(r) = StoredOut(t.output[m])
    BY <1>2, <1>4, <1>7, <1>11, <1>13, OutputRead
  <1>15. /\ IsSequence(trans'.output) /\ Len(trans'.output) = m /\ trans'.output[m] = r
         /\ \A k \in 1..(m - 1) : trans'.output[k] = trans.output[k]
    <2>1. trans'.output = Append(trans.output, r)
      BY <1>4, <1>5
    <2> QED
      BY <1>5, <1>6, <1>9, <2>1, AppendTo
  <1>16. \A k \in 1..m : k = m \/ k \in 1..(m - 1)
    OBVIOUS
  <1>17. OutputsRead(t)'
    <2>1. \A k \in 1..(m - 1) : DumpTxOutput(trans.output[k]) = StoredOut(t.output[k])
      BY <1>3, <1>9 DEF OutputsRead
    <2>2. m <= Len(t.output)
      BY <1>7
    <2> QED
      BY <1>14, <1>15, <1>16, <2>1, <2>2 DEF OutputsRead
  <1>18. /\ InBody(t)' /\ trans'.input = trans.input /\ trans'.output_count = Len(t.output)
    BY <1>3, <1>4 DEF InBody, NoTrans, InputsRead, NoWitnessYet
  <1>19. off' = o + Len(Upto(Outs(t), m))
    BY <1>7, <1>11, <1>14
  <1>20. AtOutput(t)'
    BY <1>3, <1>4, <1>8, <1>15, <1>17, <1>18, <1>19 DEF AtOutput
  <1>21. off' \in Nat /\ off' <= start + Len(Serialized(t))
    BY <1>2, <1>7, <1>11, <1>12, <1>14 DEF Ordered
  <1> QED
    BY <1>4, <1>20, <1>21 DEF Within

\* What is hashed up to the witnesses.
LEMMA BodyIsHashed ==
    ASSUME NEW t, TxThere(t), InTheFile(t), AtOutput(t), HashBody, items' = items
    PROVE  (IF HasWitness(t) THEN AtWitness(t)' ELSE AtLockTime(t)') /\ Within(t)
  <1>1. PICK d : Setting(t, d)
    BY TheSetting
  <1>2. d = Data /\ d \in Seq(Byte) /\ start \in Nat /\ Ordered(t) /\ IsTx(t)
    BY <1>1 DEF Setting, Placed
  <1>3. InBody(t) /\ OutputsRead(t) /\ Len(trans.input) = Len(t.input) /\ trans.output_count = Len(t.output)
    BY DEF AtOutput
  <1>4. /\ hashed' = hashed \o Slice(d, contextOff, off - contextOff)
        /\ trans' = [trans EXCEPT !.non_swlen = @ + (off - contextOff)]
        /\ contextOff' = off /\ off' = off /\ start' = start /\ Len(trans.output) = Len(t.output)
    BY <1>2, <1>3 DEF HashBody, AppendToHash, At
  <1>5. Outs(t) \in Seq(Seq(Byte)) /\ Len(Outs(t)) = Len(t.output)
    BY <1>2, TxBytes
  <1>6. off = start + WitAt(t) /\ contextOff = start + BodyAt(t)
    <2>1. Upto(Outs(t), Len(t.output)) = FlattenSeq(Outs(t))
      BY <1>5, FirstPart
    <2>2. off = start + OutsAt(t) + Len(FlattenSeq(Outs(t)))
      BY <1>4, <2>1 DEF AtOutput
    <2>3. WitAt(t) = OutsAt(t) + Len(FlattenSeq(Outs(t)))
      BY DEF WitAt
    <2>4. FlattenSeq(Outs(t)) \in Seq(Byte)
      BY <1>5, FlattenBytes
    <2>5. Len(FlattenSeq(Outs(t))) \in Nat
      BY <2>4
    <2>6. OutsAt(t) \in Nat /\ contextOff = start + BodyAt(t)
      BY <1>2, <1>3 DEF InBody, Ordered
    <2> QED
      BY <1>2, <2>2, <2>3, <2>5, <2>6
  <1>7. StoredBody(t) \in Seq(Byte) /\ Len(StoredBody(t)) = WitAt(t) - BodyAt(t)
    BY <1>2, TxIsMeasured DEF TxMeasured
  <1>8. PICK n \in Nat : n = Len(StoredBody(t))
    BY <1>7
  <1>9. off - contextOff = n /\ contextOff \in Nat /\ contextOff + n = off /\ off \in Nat
    <2>1. PICK w \in Nat, b \in Nat : w = WitAt(t) /\ b = BodyAt(t)
      BY <1>2 DEF Ordered
    <2>2. off = start + w /\ contextOff = start + b /\ n = w - b
      BY <1>6, <1>7, <1>8, <2>1
    <2> QED
      BY <1>2, <2>2
  <1>10. off <= Len(d)
    <2>1. Len(d) \in Nat /\ (off' <= Len(d) \/ start + (LockAt(t) + 4) <= Len(d))
      BY <1>1, <1>2 DEF Setting, Placed
    <2>2. start + WitAt(t) <= start + (LockAt(t) + 4) /\ start + WitAt(t) \in Nat
          /\ start + (LockAt(t) + 4) \in Nat
      BY <1>2 DEF Ordered
    <2> QED
      BY <1>4, <1>6, <2>1, <2>2
  <1>11. Slice(d, contextOff, n) = StoredBody(t)
    <2>1. Holds(d, contextOff, StoredBody(t))
      BY <1>1, <1>6 DEF Setting, Placed, TxHeld
    <2>2. contextOff + Len(StoredBody(t)) <= Len(d)
      BY <1>8, <1>9, <1>10
    <2> QED
      BY <1>2, <1>7, <1>8, <1>9, <2>1, <2>2, HoldsSlice
  <1>12. hashed' = Le(4, t.version) \o StoredBody(t)
    BY <1>3, <1>4, <1>9, <1>11 DEF InBody
  <1>13. trans' = [trans EXCEPT !.non_swlen = 4 + Len(StoredBody(t))]
    BY <1>3, <1>4, <1>8, <1>9 DEF InBody, NoTrans
  <1>14. /\ DOMAIN trans' = DOMAIN NoTrans /\ trans'.version = t.version
         /\ trans'.non_swlen = 4 + Len(StoredBody(t)) /\ trans'.segwit = Bit(HasWitness(t))
         /\ trans'.input = trans.input /\ trans'.output = trans.output
         /\ trans'.input_count = Len(t.input) /\ trans'.output_count = Len(t.output)
    BY <1>3, <1>13 DEF InBody, NoTrans
  <1>15. InputsRead(t)' /\ OutputsRead(t)'
    BY <1>3, <1>14 DEF InBody, InputsRead, OutputsRead
  <1>16. AfterBody(t)'
    BY <1>3, <1>4, <1>12, <1>14, <1>15 DEF AfterBody
  <1>17. items' = 0 /\ off' = start + WitAt(t)
    BY <1>3, <1>4, <1>6 DEF InBody
  <1>18. CASE HasWitness(t)
    <2>1. \A k \in 1..Len(t.input) : trans'.input[k].num_witness = NULL /\ ~(k <= 0)
      <3>1. Len(t.input) \in Nat
        BY <1>2, TxBytes
      <3> QED
        BY <1>3, <1>14, <3>1 DEF InBody, NoWitnessYet
    <2>2. WitnessRead(t, 0)'
      BY <1>4, <1>17, <2>1 DEF WitnessRead
    <2>3. 0 \in 0..Len(t.input)
      BY <1>2, TxBytes
    <2>4. AtWitness(t)'
      BY <1>16, <1>18, <2>2, <2>3 DEF AtWitness
    <2>5. Within(t)
      BY <1>2, <1>4, <1>6, <1>9 DEF Within, Ordered
    <2> QED
      BY <1>18, <2>4, <2>5
  <1>19. CASE ~HasWitness(t)
    <2>1. LockAt(t) = WitAt(t)
      <3>1. LockAt(t) = WitAt(t) + Len(<<>>)
        BY <1>19 DEF LockAt, WitnessBytes
      <3> QED
        BY <1>2, <3>1 DEF Ordered
    <2>2. AtLockTime(t)'
      BY <1>4, <1>16, <1>17, <1>19, <2>1 DEF AtLockTime
    <2> QED
      BY <1>2, <1>4, <1>6, <1>9, <1>19, <2>2, SMTT(30) DEF Within, Ordered
  <1> QED
    BY <1>18, <1>19

LEMMA ExceptAt ==
    ASSUME NEW s, IsSequence(s), NEW m \in 1..Len(s), NEW x
    PROVE  /\ IsSequence([s EXCEPT ![m] = x]) /\ Len([s EXCEPT ![m] = x]) = Len(s)
           /\ [s EXCEPT ![m] = x][m] = x
           /\ \A k \in 1..Len(s) : k # m => [s EXCEPT ![m] = x][k] = s[k]
  <1>1. s \in Seq({s[k] : k \in DOMAIN s} \cup {x})
    BY DEF IsSequence
  <1>2. Len(s) \in Nat /\ DOMAIN s = 1..Len(s)
    BY <1>1
  <1>3. PICK a : a = [s EXCEPT ![m] = x]
    OBVIOUS
  <1>4. a \in Seq({s[k] : k \in DOMAIN s} \cup {x}) /\ Len(a) = Len(s)
    BY <1>1, <1>2, <1>3, ExceptSeq
  <1>5. a[m] = x /\ \A k \in 1..Len(s) : k # m => a[k] = s[k]
    BY <1>2, <1>3
  <1>6. IsSequence(a)
    BY <1>4, ItsElements
  <1> QED
    BY <1>3, <1>4, <1>5, <1>6

\* The stack w of input j, c bytes for its length from p on and its items after
\* them.
StackAt(t, d, j, w, p, c) ==
    /\ w = t.input[j].witness /\ IsStack(w)
    /\ p = start + WitAt(t) + Len(Upto(Wits(t), j - 1)) /\ p \in Nat
    /\ c = Len(CompactSize(Len(w))) /\ c \in Nat \ {0}
    /\ Holds(d, p, CompactSize(Len(w))) /\ Holds(d, p + c, FlattenSeq(Items(w)))
    /\ Items(w) \in Seq(Seq(Byte)) /\ Len(Items(w)) = Len(w) /\ Len(w) \in Nat /\ Fits(8, Len(w))
    /\ Len(FlattenSeq(Items(w))) \in Nat
    /\ p + c + Len(FlattenSeq(Items(w))) = start + WitAt(t) + Len(Upto(Wits(t), j))
    /\ p + c + Len(FlattenSeq(Items(w))) <= start + LockAt(t)

LEMMA StackOf ==
    ASSUME NEW t, NEW d, Placed(t, d), HasWitness(t), NEW j \in 1..Len(t.input)
    PROVE  \E w, p, c : StackAt(t, d, j, w, p, c)
  <1>1. d \in Seq(Byte) /\ start \in Nat /\ Ordered(t) /\ IsTx(t)
    BY DEF Placed
  <1>2. PICK o \in Nat : o = start + WitAt(t)
    BY <1>1 DEF Ordered
  <1>3. Holds(d, o, FlattenSeq(Wits(t)))
    BY <1>2 DEF Placed, TxHeld, WitnessBytes
  <1>4. PICK w : w = t.input[j].witness
    OBVIOUS
  <1>5. /\ Wits(t) \in Seq(Seq(Byte)) /\ Len(Wits(t)) = Len(t.input)
        /\ Wits(t)[j] = StoredWitness(w) /\ IsStack(w)
    BY <1>1, <1>4, TxBytes DEF Wits, IsTx, IsIn, IsStack
  <1>6. PICK p : p = o + Len(Upto(Wits(t), j - 1))
    OBVIOUS
  <1>7. /\ p \in Nat /\ Holds(d, p, Wits(t)[j]) /\ Len(Wits(t)[j]) \in Nat
        /\ p + Len(Wits(t)[j]) = o + Len(Upto(Wits(t), j))
        /\ p + Len(Wits(t)[j]) <= o + Len(FlattenSeq(Wits(t))) /\ Len(FlattenSeq(Wits(t))) \in Nat
    <2>1. j \in 1..Len(Wits(t))
      BY <1>5
    <2> QED
      BY <1>1, <1>3, <1>5, <1>6, <2>1, PartAt
  <1>8. /\ Items(w) \in Seq(Seq(Byte)) /\ Len(Items(w)) = Len(w) /\ Len(w) \in Nat /\ Fits(8, Len(w))
        /\ StoredWitness(w) = CompactSize(Len(w)) \o FlattenSeq(Items(w))
    BY <1>5, StackBytes
  <1>9. PICK c \in Nat \ {0} : c = Len(CompactSize(Len(w)))
    BY <1>8, CompactSizeBytes
  <1>10. CompactSize(Len(w)) \in Seq(Byte) /\ FlattenSeq(Items(w)) \in Seq(Byte)
    BY <1>8, CompactSizeBytes, FlattenBytes
  <1>11. /\ Holds(d, p, CompactSize(Len(w))) /\ Holds(d, p + c, FlattenSeq(Items(w)))
         /\ Len(Wits(t)[j]) = c + Len(FlattenSeq(Items(w))) /\ Len(FlattenSeq(Items(w))) \in Nat
    <2>1. Holds(d, p, CompactSize(Len(w)) \o FlattenSeq(Items(w)))
      BY <1>5, <1>7, <1>8
    <2> QED
      BY <1>1, <1>5, <1>7, <1>8, <1>9, <1>10, <2>1, HoldsBoth
  <1>12. o + Len(FlattenSeq(Wits(t))) = start + LockAt(t)
    <2>1. LockAt(t) = WitAt(t) + Len(FlattenSeq(Wits(t)))
      BY DEF LockAt, WitnessBytes
    <2> QED
      BY <1>1, <1>2, <1>7, <2>1, SMTT(30) DEF Ordered
  <1>13. PICK n \in Nat : n = Len(FlattenSeq(Items(w)))
    BY <1>11
  <1>14. p + c + n = p + Len(Wits(t)[j])
    BY <1>7, <1>9, <1>11, <1>13
  <1> QED
    BY <1>2, <1>4, <1>5, <1>6, <1>7, <1>8, <1>9, <1>11, <1>12, <1>13, <1>14 DEF StackAt

\* No item of input j is left.
LEMMA StackDone ==
    ASSUME NEW t, NEW d, Placed(t, d), HasWitness(t), NEW j \in 0..Len(t.input), WitnessRead(t, j),
           items = 0
    PROVE  off = start + WitAt(t) + Len(Upto(Wits(t), j)) /\ off \in Nat
  <1>1. IsTx(t) /\ start \in Nat /\ WitAt(t) \in Nat
    BY DEF Placed, Ordered
  <1>2. CASE j = 0
    <2>1. Len(Upto(Wits(t), 0)) = 0
      BY <1>1, TxBytes, FirstPart
    <2>2. off = start + WitAt(t)
      BY <1>2 DEF WitnessRead
    <2> QED
      BY <1>1, <1>2, <2>1, <2>2
  <1>3. CASE j # 0
    <2>1. j \in 1..Len(t.input)
      BY <1>3
    <2>2. PICK w, p, c : StackAt(t, d, j, w, p, c)
      BY <2>1, StackOf
    <2>3. off = p + c + Len(Upto(Items(w), Len(w) - 0))
      BY <1>3, <2>2 DEF WitnessRead, StackAt
    <2>4. Len(w) - 0 = Len(Items(w)) /\ Items(w) \in Seq(Seq(Byte))
      BY <2>2 DEF StackAt
    <2>5. Upto(Items(w), Len(w) - 0) = FlattenSeq(Items(w))
      BY <2>4, FirstPart
    <2>6. off = p + c + Len(FlattenSeq(Items(w)))
      BY <2>3, <2>5
    <2> QED
      BY <2>2, <2>6, SMTT(30) DEF StackAt
  <1> QED
    BY <1>2, <1>3

\* The inputs whose witness is still to be read are those after j.
LEMMA UnreadAre ==
    ASSUME NEW t, IsTx(t), AfterBody(t), NEW j \in 0..Len(t.input), WitnessRead(t, j)
    PROVE  /\ Unread = (j + 1)..Len(t.input)
           /\ Unread # {} => j + 1 \in 1..Len(t.input) /\ Min(Unread) = j + 1
           /\ Unread = {} => j = Len(t.input)
  <1>1. Len(t.input) \in Nat /\ DOMAIN t.input = 1..Len(t.input)
    BY TxBytes
  <1>2. DOMAIN trans.input = 1..Len(t.input)
    BY AppendTo DEF AfterBody, InputsRead
  <1>3. ASSUME NEW k \in 1..Len(t.input) PROVE trans.input[k].num_witness = NULL <=> k > j
    <2>1. trans.input[k].num_witness = IF k <= j THEN Len(t.input[k].witness) ELSE NULL
      BY DEF WitnessRead
    <2>2. IsStack(t.input[k].witness)
      BY <1>1 DEF IsTx, IsIn, IsStack
    <2>3. Len(t.input[k].witness) \in Nat
      BY <2>2, StackBytes
    <2>4. NULL \notin Nat
      BY FilesAssumption
    <2> QED
      BY <1>1, <2>1, <2>3, <2>4
  <1>4. \A k : k \in Unread <=> k \in (j + 1)..Len(t.input)
    <2>1. \A k : k \in Unread <=> k \in 1..Len(t.input) /\ k > j
      BY <1>2, <1>3 DEF Unread
    <2> QED
      BY <1>1, <2>1
  <1>5. Unread = (j + 1)..Len(t.input)
    BY <1>4
  <1>6. ASSUME Unread # {} PROVE j + 1 \in 1..Len(t.input) /\ Min(Unread) = j + 1
    <2>1. j + 1 \in Unread /\ \A k \in Unread : j + 1 <= k
      BY <1>1, <1>5, <1>6
    <2>2. Unread \subseteq Int
      BY <1>1, <1>5
    <2>3. \A x \in Unread : (\A y \in Unread : x <= y) => x = j + 1
      BY <2>1, <2>2
    <2> QED
      BY <1>1, <1>5, <2>1, <2>3 DEF Min
  <1>7. ASSUME Unread = {} PROVE j = Len(t.input)
    BY <1>1, <1>5, <1>7
  <1> QED
    BY <1>5, <1>6, <1>7

LEMMA WitnessFieldRead ==
    ASSUME NEW t, TxThere(t), InTheFile(t), AtWitness(t), ReadWitnessField
    PROVE  AtWitness(t)' /\ Within(t)
  <1>1. PICK d : Setting(t, d)
    BY TheSetting
  <1>2. d = Data /\ d \in Seq(Byte) /\ start \in Nat /\ Ordered(t) /\ IsTx(t)
    BY <1>1 DEF Setting, Placed
  <1>3. AfterBody(t) /\ HasWitness(t) /\ items = 0 /\ Unread # {}
    BY DEF AtWitness, ReadWitnessField
  <1>4. PICK j \in 0..Len(t.input) : WitnessRead(t, j)
    BY DEF AtWitness
  <1>5. PICK m \in 1..Len(t.input) : m = j + 1 /\ Min(Unread) = m
    BY <1>2, <1>3, <1>4, UnreadAre
  <1>6. /\ off' = off + VarLenIn(d, off) /\ items' = VarIn(d, off)
        /\ trans' = [trans EXCEPT !.input[m].num_witness = VarIn(d, off)]
        /\ start' = start /\ contextOff' = contextOff /\ hashed' = hashed
    BY <1>2, <1>5 DEF ReadWitnessField, Var, VarLen
  <1>7. PICK w, p, c : StackAt(t, d, m, w, p, c)
    BY <1>1, <1>3, StackOf DEF Setting
  <1>8. off = p
    <2>1. Len(t.input) \in Nat /\ m - 1 = j
      BY <1>2, <1>5, TxBytes
    <2>2. off = start + WitAt(t) + Len(Upto(Wits(t), j))
      BY <1>1, <1>3, <1>4, StackDone DEF Setting
    <2> QED
      BY <1>7, <2>1, <2>2 DEF StackAt
  <1>9. /\ p \in Nat /\ c \in Nat \ {0} /\ c = Len(CompactSize(Len(w))) /\ Fits(8, Len(w)) /\ Len(w) \in Nat
        /\ Holds(d, p, CompactSize(Len(w)))
        /\ p + c + Len(FlattenSeq(Items(w))) <= start + LockAt(t) /\ Len(FlattenSeq(Items(w))) \in Nat
    BY <1>7 DEF StackAt
  <1>10. p + c <= start + LockAt(t) /\ start + LockAt(t) \in Nat
    <2>1. PICK n \in Nat : n = Len(FlattenSeq(Items(w)))
      BY <1>9
    <2>2. PICK e \in Nat : e = start + LockAt(t)
      BY <1>2 DEF Ordered
    <2>3. p + c + n <= e
      BY <1>9, <2>1, <2>2
    <2>4. p + c <= e
      BY <1>9, <2>3
    <2> QED
      BY <2>2, <2>4
  <1>11. p + VarLenIn(d, p) <= Len(d) \/ p + Len(CompactSize(Len(w))) <= Len(d)
    <2>1. Len(d) \in Nat /\ (off' <= Len(d) \/ start + (LockAt(t) + 4) <= Len(d))
      BY <1>1, <1>2 DEF Setting, Placed
    <2>2. start + LockAt(t) <= start + (LockAt(t) + 4) /\ start + (LockAt(t) + 4) \in Nat
      BY <1>2 DEF Ordered
    <2> QED
      BY <1>6, <1>8, <1>9, <1>10, <2>1, <2>2
  <1>12. VarIn(d, p) = Len(w) /\ VarLenIn(d, p) = c
    BY <1>2, <1>9, <1>11, HoldsVarint
  <1>13. off' = p + c /\ items' = Len(w)
    BY <1>6, <1>8, <1>12
  <1>14. PICK r : r = [trans.input[m] EXCEPT !.num_witness = Len(w)]
    OBVIOUS
  <1>15. trans' = [trans EXCEPT !.input = [@ EXCEPT ![m] = r]]
    <2>1. trans' = [trans EXCEPT !.input[m].num_witness = Len(w)]
      BY <1>6, <1>8, <1>12
    <2> QED
      BY <1>14, <2>1
  <1>16. /\ IsSequence(trans.input) /\ Len(trans.input) = Len(t.input) /\ DOMAIN trans = DOMAIN NoTrans
         /\ DOMAIN trans.input[m] = InputFields
         /\ \A k \in 1..Len(t.input) :
               DumpTxInput(trans.input[k]) = StoredIn(t.input[k]) /\ DOMAIN trans.input[k] = InputFields
    BY <1>3 DEF AfterBody, InputsRead
  <1>17. /\ trans'.input = [trans.input EXCEPT ![m] = r] /\ DOMAIN trans' = DOMAIN NoTrans
         /\ trans'.version = trans.version /\ trans'.non_swlen = trans.non_swlen
         /\ trans'.segwit = trans.segwit /\ trans'.output = trans.output
         /\ trans'.input_count = trans.input_count /\ trans'.output_count = trans.output_count
    BY <1>15, <1>16 DEF NoTrans
  <1>18. /\ IsSequence(trans'.input) /\ Len(trans'.input) = Len(t.input) /\ trans'.input[m] = r
         /\ \A k \in 1..Len(t.input) : k # m => trans'.input[k] = trans.input[k]
    <2>1. PICK x : x = trans.input
      OBVIOUS
    <2>2. IsSequence(x) /\ m \in 1..Len(x) /\ Len(x) = Len(t.input)
      BY <1>16, <2>1
    <2>3. /\ IsSequence([x EXCEPT ![m] = r]) /\ Len([x EXCEPT ![m] = r]) = Len(x)
          /\ [x EXCEPT ![m] = r][m] = r
          /\ \A k \in 1..Len(x) : k # m => [x EXCEPT ![m] = r][k] = x[k]
      BY <2>2, ExceptAt, SMTT(30)
    <2> QED
      BY <1>17, <2>1, <2>2, <2>3
  <1>19. r.num_witness = Len(w) /\ DOMAIN r = InputFields /\ DumpTxInput(r) = DumpTxInput(trans.input[m])
    <2>1. DOMAIN r = InputFields /\ r.num_witness = Len(w)
      BY <1>14, <1>16 DEF InputFields
    <2>2. /\ r.txid = trans.input[m].txid /\ r.index = trans.input[m].index
          /\ r.script_length = trans.input[m].script_length /\ r.script = trans.input[m].script
          /\ r.sequence_number = trans.input[m].sequence_number
      BY <1>14, <1>16 DEF InputFields
    <2> QED
      BY <2>1, <2>2 DEF DumpTxInput
  <1>20. InputsRead(t)'
    <2>1. ASSUME NEW k \in 1..Len(t.input)
          PROVE  DumpTxInput(trans'.input[k]) = StoredIn(t.input[k]) /\ DOMAIN trans'.input[k] = InputFields
      BY <1>16, <1>18, <1>19
    <2>2. Len(t.input) \in Nat
      BY <1>2, TxBytes
    <2> QED
      BY <1>18, <2>1, <2>2 DEF InputsRead
  <1>21. AfterBody(t)'
    BY <1>3, <1>6, <1>17, <1>18, <1>20 DEF AfterBody, OutputsRead
  <1>22. WitnessRead(t, m)'
    <2>1. ASSUME NEW k \in 1..Len(t.input)
          PROVE  trans'.input[k].num_witness = IF k <= m THEN Len(t.input[k].witness) ELSE NULL
      <3>1. Len(t.input) \in Nat /\ w = t.input[m].witness
        BY <1>2, <1>7, TxBytes DEF StackAt
      <3>2. CASE k = m
        BY <1>18, <1>19, <3>1, <3>2
      <3>3. CASE k # m
        <4>1. trans'.input[k] = trans.input[k] /\ (k <= m <=> k <= j)
          BY <1>5, <1>18, <3>1, <3>3
        <4> QED
          BY <1>4, <4>1 DEF WitnessRead
      <3> QED
        BY <3>2, <3>3
    <2>2. off' = p + c + Len(Upto(Items(w), Len(w) - items'))
      <3>1. Len(w) - items' = 0
        BY <1>9, <1>13
      <3>2. Len(Upto(Items(w), 0)) = 0
        BY <1>7, FirstPart DEF StackAt
      <3> QED
        BY <1>9, <1>13, <3>1, <3>2
    <2>3. /\ p = start + WitAt(t) + Len(Upto(Wits(t), m - 1)) /\ c = Len(CompactSize(Len(w)))
          /\ w = t.input[m].witness
      BY <1>7 DEF StackAt
    <2>4. items' \in Nat /\ items' <= Len(w) /\ m # 0
      BY <1>9, <1>13
    <2> QED
      BY <1>6, <2>1, <2>2, <2>3, <2>4 DEF WitnessRead
  <1>23. AtWitness(t)'
    <2>1. m \in 0..Len(t.input)
      OBVIOUS
    <2> QED
      BY <1>3, <1>21, <1>22, <2>1 DEF AtWitness
  <1>24. off' \in Nat /\ off' <= start + Len(Serialized(t))
    <2>1. LockAt(t) \in Nat /\ Len(Serialized(t)) = LockAt(t) + 4
      BY <1>2 DEF Ordered
    <2> QED
      BY <1>2, <1>9, <1>10, <1>13, <2>1, SMTT(30)
  <1> QED
    BY <1>6, <1>23, <1>24 DEF Within

LEMMA StackItemRead ==
    ASSUME NEW t, TxThere(t), InTheFile(t), AtWitness(t), ReadWitnessStackItem
    PROVE  AtWitness(t)' /\ Within(t)
  <1>1. PICK d : Setting(t, d)
    BY TheSetting
  <1>2. d = Data /\ d \in Seq(Byte) /\ start \in Nat /\ Ordered(t) /\ IsTx(t)
    BY <1>1 DEF Setting, Placed
  <1>3. /\ AfterBody(t) /\ HasWitness(t) /\ items > 0
        /\ off' = off + VarLenIn(d, off) + VarIn(d, off) /\ items' = items - 1
        /\ start' = start /\ contextOff' = contextOff /\ hashed' = hashed /\ trans' = trans
    BY <1>2 DEF AtWitness, ReadWitnessStackItem, Var, VarLen
  <1>4. PICK j \in 0..Len(t.input) : WitnessRead(t, j)
    BY DEF AtWitness
  <1>5. j \in 1..Len(t.input) /\ items \in Nat
    <2>1. j # 0 /\ items \in Nat
      BY <1>3, <1>4 DEF WitnessRead
    <2>2. Len(t.input) \in Nat
      BY <1>2, TxBytes
    <2> QED
      BY <2>1, <2>2
  <1>6. PICK w, p, c : StackAt(t, d, j, w, p, c)
    BY <1>1, <1>3, <1>5, StackOf DEF Setting
  <1>7. /\ p = start + WitAt(t) + Len(Upto(Wits(t), j - 1)) /\ c = Len(CompactSize(Len(w)))
        /\ w = t.input[j].witness
    BY <1>6 DEF StackAt
  <1>8. items <= Len(w) /\ off = p + c + Len(Upto(Items(w), Len(w) - items))
    BY <1>4, <1>5, <1>7 DEF WitnessRead
  <1>9. /\ p \in Nat /\ c \in Nat /\ Len(w) \in Nat /\ IsStack(w)
        /\ Holds(d, p + c, FlattenSeq(Items(w))) /\ Items(w) \in Seq(Seq(Byte)) /\ Len(Items(w)) = Len(w)
        /\ p + c + Len(FlattenSeq(Items(w))) <= start + LockAt(t)
    BY <1>6 DEF StackAt
  <1>10. PICK i \in 1..Len(w) : i = Len(w) - items + 1
    <2>1. PICK n \in Nat, x \in Nat : n = Len(w) /\ x = items
      BY <1>5, <1>9
    <2>2. x > 0 /\ x <= n
      BY <1>3, <1>8, <2>1
    <2>3. n - x + 1 \in 1..n
      BY <2>2
    <2> QED
      BY <2>1, <2>3
  <1>11. i - 1 = Len(w) - items /\ i = Len(w) - items'
    BY <1>3, <1>5, <1>9, <1>10
  <1>12. PICK o \in Nat : o = p + c
    BY <1>9
  <1>13. off = o + Len(Upto(Items(w), i - 1))
    BY <1>8, <1>11, <1>12
  <1>14. Items(w)[i] = Script(w[i]) /\ IsScript(w[i])
    <2>1. DOMAIN w = 1..Len(w)
      BY <1>9, StackBytes
    <2> QED
      BY <1>9, <2>1 DEF Items, IsStack
  <1>15. /\ off \in Nat /\ Holds(d, off, Items(w)[i]) /\ Len(Items(w)[i]) \in Nat
         /\ off + Len(Items(w)[i]) = o + Len(Upto(Items(w), i))
         /\ off + Len(Items(w)[i]) <= o + Len(FlattenSeq(Items(w))) /\ Len(FlattenSeq(Items(w))) \in Nat
    <2>1. i \in 1..Len(Items(w)) /\ Holds(d, o, FlattenSeq(Items(w)))
      BY <1>9, <1>12
    <2>2. d \in Seq(Byte) /\ Items(w) \in Seq(Seq(Byte))
      BY <1>2, <1>9
    <2> QED
      BY <1>13, <2>1, <2>2, PartAt
  <1>16. off + Len(Items(w)[i]) <= start + LockAt(t) /\ LockAt(t) \in Nat
    <2>1. PICK e \in Nat : e = start + LockAt(t) /\ LockAt(t) \in Nat
      BY <1>2 DEF Ordered
    <2>2. o + Len(FlattenSeq(Items(w))) <= e
      BY <1>9, <1>12, <2>1
    <2> QED
      BY <1>15, <2>1, <2>2
  <1>17. \/ off + VarLenIn(d, off) + VarIn(d, off) <= Len(d)
         \/ off + Len(Script(w[i])) <= Len(d)
    <2>1. Len(d) \in Nat /\ (off' <= Len(d) \/ start + (LockAt(t) + 4) <= Len(d))
      BY <1>1, <1>2 DEF Setting, Placed
    <2>2. CASE off' <= Len(d)
      BY <1>3, <2>2
    <2>3. CASE start + (LockAt(t) + 4) <= Len(d)
      BY <1>2, <1>14, <1>15, <1>16, <2>1, <2>3
    <2> QED
      BY <2>1, <2>2, <2>3
  <1>18. off' = off + Len(Script(w[i]))
    BY <1>2, <1>3, <1>14, <1>15, <1>17, HoldsScript
  <1>19. off' = p + c + Len(Upto(Items(w), Len(w) - items'))
    BY <1>11, <1>12, <1>14, <1>15, <1>18
  <1>20. items' \in Nat /\ items' <= Len(w)
    BY <1>3, <1>5, <1>8, <1>9
  <1>21. WitnessRead(t, j)'
    <2>1. \A k \in 1..Len(t.input) :
             trans'.input[k].num_witness = IF k <= j THEN Len(t.input[k].witness) ELSE NULL
      BY <1>3, <1>4 DEF WitnessRead
    <2> QED
      BY <1>3, <1>5, <1>7, <1>19, <1>20, <2>1 DEF WitnessRead
  <1>22. AfterBody(t)'
    BY <1>3 DEF AfterBody, InputsRead, OutputsRead
  <1>23. AtWitness(t)'
    BY <1>3, <1>21, <1>22 DEF AtWitness
  <1>24. off' \in Nat /\ off' <= start + Len(Serialized(t))
    <2>1. Len(Serialized(t)) = LockAt(t) + 4
      BY <1>2 DEF Ordered
    <2> QED
      BY <1>2, <1>14, <1>15, <1>16, <1>18, <2>1, SMTT(30)
  <1> QED
    BY <1>3, <1>23, <1>24 DEF Within

LEMMA WitnessSkipped ==
    ASSUME NEW t, TxThere(t), InTheFile(t), AtWitness(t), SkipWitness, items' = items
    PROVE  AtLockTime(t)' /\ Within(t)
  <1>1. PICK d : Setting(t, d)
    BY TheSetting
  <1>2. d = Data /\ d \in Seq(Byte) /\ start \in Nat /\ Ordered(t) /\ IsTx(t)
    BY <1>1 DEF Setting, Placed
  <1>3. /\ AfterBody(t) /\ HasWitness(t) /\ items = 0 /\ Unread = {} /\ contextOff' = off
        /\ off' = off /\ start' = start /\ hashed' = hashed /\ trans' = trans
    BY DEF AtWitness, SkipWitness
  <1>4. PICK j \in 0..Len(t.input) : WitnessRead(t, j)
    BY DEF AtWitness
  <1>5. j = Len(t.input)
    BY <1>2, <1>3, <1>4, UnreadAre
  <1>6. off = start + WitAt(t) + Len(FlattenSeq(Wits(t))) /\ off \in Nat
    <2>1. off = start + WitAt(t) + Len(Upto(Wits(t), j)) /\ off \in Nat
      BY <1>1, <1>3, <1>4, StackDone DEF Setting
    <2>2. Upto(Wits(t), Len(t.input)) = FlattenSeq(Wits(t))
      <3>1. Wits(t) \in Seq(Seq(Byte)) /\ Len(Wits(t)) = Len(t.input)
        BY <1>2, TxBytes
      <3> QED
        BY <3>1, FirstPart
    <2> QED
      BY <1>5, <2>1, <2>2
  <1>7. off = start + LockAt(t)
    <2>1. LockAt(t) = WitAt(t) + Len(FlattenSeq(Wits(t)))
      BY <1>3 DEF LockAt, WitnessBytes
    <2>2. PICK n \in Nat : n = Len(FlattenSeq(Wits(t)))
      <3>1. FlattenSeq(Wits(t)) \in Seq(Byte)
        BY <1>2, TxBytes, FlattenBytes
      <3> QED
        BY <3>1
    <2>3. WitAt(t) \in Nat
      BY <1>2 DEF Ordered
    <2> QED
      BY <1>2, <1>6, <2>1, <2>2, <2>3
  <1>8. \A k \in 1..Len(t.input) : trans.input[k].num_witness = Len(t.input[k].witness)
    <2>1. Len(t.input) \in Nat
      BY <1>2, TxBytes
    <2> QED
      BY <1>4, <1>5, <2>1 DEF WitnessRead
  <1>9. AfterBody(t)'
    BY <1>3 DEF AfterBody, InputsRead, OutputsRead
  <1>10. AtLockTime(t)'
    BY <1>3, <1>7, <1>8, <1>9 DEF AtLockTime
  <1> QED
    BY <1>2, <1>3, <1>6, <1>7, <1>10, SMTT(30) DEF Within, Ordered

Associate(v, a, b, c, e) == (((v \o a) \o b) \o c) \o e = v \o (((a \o b) \o c) \o e)

LEMMA BodyAssociates ==
    ASSUME NEW v \in Seq(Byte), NEW a \in Seq(Byte), NEW b \in Seq(Byte), NEW c \in Seq(Byte),
           NEW e \in Seq(Byte)
    PROVE  Associate(v, a, b, c, e)
  <1>1. PICK ab : ab = a \o b
    OBVIOUS
  <1>2. ab \in Seq(Byte)
    BY <1>1, BothBytes
  <1>3. PICK abc : abc = ab \o c
    OBVIOUS
  <1>4. abc \in Seq(Byte)
    BY <1>2, <1>3, BothBytes
  <1>5. (v \o a) \o b = v \o ab
    BY <1>1, BytesAssociate
  <1>6. (v \o ab) \o c = v \o abc
    BY <1>2, <1>3, BytesAssociate, SMTT(30)
  <1>7. (v \o abc) \o e = v \o (abc \o e)
    BY <1>4, BytesAssociate, SMTT(30)
  <1> QED
    BY <1>1, <1>3, <1>5, <1>6, <1>7, Zenon DEF Associate

\* What is printed of a transaction all of whose fields are those of t.
LEMMA DumpedAsStored ==
    ASSUME NEW x, NEW t, IsTx(t), x.version = t.version, x.lock_time = t.lock_time,
           x.input_count = Len(t.input), x.output_count = Len(t.output),
           \A k \in 1..Len(t.input) : DumpTxInput(x.input[k]) = StoredIn(t.input[k]),
           \A k \in 1..Len(t.output) : DumpTxOutput(x.output[k]) = StoredOut(t.output[k])
    PROVE  DumpTx(x) = Original(t)
  <1>1. /\ DOMAIN t.input = 1..Len(t.input) /\ Fits(8, Len(t.input))
        /\ DOMAIN t.output = 1..Len(t.output) /\ Fits(8, Len(t.output))
        /\ Ins(t) \in Seq(Seq(Byte)) /\ Outs(t) \in Seq(Seq(Byte))
    BY TxBytes
  <1>2. PICK v, e, ic, is, oc, os :
          /\ v = Le(4, t.version) /\ e = Le(4, t.lock_time)
          /\ ic = CompactSize(Len(t.input)) /\ is = FlattenSeq(Ins(t))
          /\ oc = CompactSize(Len(t.output)) /\ os = FlattenSeq(Outs(t))
    OBVIOUS
  <1>3. [k \in 1..x.input_count |-> DumpTxInput(x.input[k])] = Ins(t)
    BY <1>1 DEF Ins
  <1>4. [k \in 1..x.output_count |-> DumpTxOutput(x.output[k])] = Outs(t)
    BY <1>1 DEF Outs
  <1>5. PrintVarint(x.input_count) = ic /\ PrintVarint(x.output_count) = oc
    BY <1>1, <1>2, CompactSizeIs
  <1>6. DumpTx(x) = ((((v \o ic) \o is) \o oc) \o os) \o e
    <2>1. FlattenSeq([k \in 1..x.input_count |-> DumpTxInput(x.input[k])]) = is
      BY <1>2, <1>3, Zenon
    <2>2. FlattenSeq([k \in 1..x.output_count |-> DumpTxOutput(x.output[k])]) = os
      BY <1>2, <1>4, Zenon
    <2>3. Le(4, x.version) = v /\ Le(4, x.lock_time) = e
      BY <1>2, Zenon
    <2> QED
      BY <1>5, <2>1, <2>2, <2>3, Zenon DEF DumpTx
  <1>7. Original(t) = (v \o (((ic \o is) \o oc) \o os)) \o e
    BY <1>2, Zenon DEF Original, StoredBody, Ins, Outs
  <1>8. v \in Seq(Byte)
    BY <1>2, FourBytes DEF IsTx
  <1>9. ic \in Seq(Byte) /\ oc \in Seq(Byte)
    BY <1>1, <1>2, CompactSizeBytes
  <1>10. is \in Seq(Byte) /\ os \in Seq(Byte)
    BY <1>1, <1>2, FlattenBytes
  <1>11. Associate(v, ic, is, oc, os)
    BY <1>8, <1>9, <1>10, BodyAssociates
  <1> QED
    BY <1>6, <1>7, <1>11, Zenon DEF Associate

LEMMA TransactionFinished ==
    ASSUME NEW t, TxThere(t), InTheFile(t), AtLockTime(t), FinishTransaction, items' = items
    PROVE  AtRead(t)' /\ Within(t)
  <1>1. PICK d : Setting(t, d)
    BY TheSetting
  <1>2. d = Data /\ d \in Seq(Byte) /\ start \in Nat /\ Ordered(t) /\ IsTx(t)
    BY <1>1 DEF Setting, Placed
  <1>3. AfterBody(t) /\ off = start + LockAt(t) /\ contextOff = off /\ items = 0
    BY DEF AtLockTime
  <1>4. TxMeasured(t)
    BY <1>2, TxIsMeasured
  <1>5. off' = off + 4 /\ off' - contextOff = 4 /\ off \in Nat /\ off' \in Nat
        /\ off' - start = Len(Serialized(t)) /\ off' = start + Len(Serialized(t))
        /\ Len(Serialized(t)) \in Nat
    <2>1. PICK n \in Nat : n = LockAt(t)
      BY <1>2 DEF Ordered
    <2>2. off' = off + 4 /\ off = start + n /\ Len(Serialized(t)) = n + 4
      BY <1>2, <1>3, <2>1 DEF FinishTransaction, Ordered
    <2> QED
      BY <1>2, <1>3, <2>2
  <1>6. /\ hashed' = hashed \o Slice(d, off, 4) /\ start' = start
        /\ trans' = [trans EXCEPT
              !.lock_time = Num(Slice(d, off, 4)), !.non_swlen = @ + 4,
              !.total_len = Len(Serialized(t)), !.txid = Sha256d(hashed'),
              !.wtxid = WtxidOf(trans.segwit, Sha256d(hashed'), Slice(d, start, Len(Serialized(t))))]
    BY <1>2, <1>3, <1>5 DEF FinishTransaction, At, U32
  <1>7. off + 4 <= Len(d)
    <2>1. Len(d) \in Nat /\ (off' <= Len(d) \/ start + (LockAt(t) + 4) <= Len(d))
      BY <1>1, <1>2 DEF Setting, Placed
    <2>2. start + (LockAt(t) + 4) = off + 4
      BY <1>2, <1>3 DEF Ordered
    <2> QED
      BY <1>5, <2>1, <2>2
  <1>8. Fits(4, t.lock_time) /\ Holds(d, off, Le(4, t.lock_time)) /\ Holds(d, start, Serialized(t))
    BY <1>1, <1>2, <1>3 DEF Setting, Placed, TxHeld, IsTx
  <1>9. Le(4, t.lock_time) \in Seq(Byte) /\ Len(Le(4, t.lock_time)) = 4
    BY <1>8, FourBytes
  <1>10. Slice(d, off, 4) = Le(4, t.lock_time)
    <2>1. off + Len(Le(4, t.lock_time)) <= Len(d)
      BY <1>7, <1>9
    <2>2. Slice(d, off, Len(Le(4, t.lock_time))) = Le(4, t.lock_time)
      BY <1>2, <1>5, <1>8, <1>9, <2>1, HoldsSlice
    <2> QED
      BY <1>9, <2>2
  <1>11. Num(Slice(d, off, 4)) = t.lock_time
    <2>1. 4 \in Nat
      OBVIOUS
    <2> QED
      BY <1>2, <1>5, <1>7, <1>8, <2>1, HoldsNumber
  <1>12. Slice(d, start, Len(Serialized(t))) = Serialized(t)
    <2>1. start + Len(Serialized(t)) <= Len(d)
      BY <1>5, <1>7
    <2>2. Serialized(t) \in Seq(Byte)
      BY <1>4 DEF TxMeasured
    <2> QED
      BY <1>2, <1>8, <2>1, <2>2, HoldsSlice
  <1>13. hashed' = Original(t)
    BY <1>3, <1>6, <1>10, Zenon DEF AfterBody, Original
  <1>14. /\ DOMAIN trans = DOMAIN NoTrans /\ trans.version = t.version
         /\ trans.segwit = Bit(HasWitness(t)) /\ trans.non_swlen = 4 + Len(StoredBody(t))
         /\ trans.input_count = Len(t.input) /\ trans.output_count = Len(t.output)
         /\ \A k \in 1..Len(t.input) : DumpTxInput(trans.input[k]) = StoredIn(t.input[k])
         /\ \A k \in 1..Len(t.output) : DumpTxOutput(trans.output[k]) = StoredOut(t.output[k])
    BY <1>3 DEF AfterBody, InputsRead, OutputsRead
  <1>15. /\ trans'.version = t.version /\ trans'.lock_time = t.lock_time
         /\ trans'.segwit = Bit(HasWitness(t)) /\ trans'.non_swlen = 4 + Len(StoredBody(t)) + 4
         /\ trans'.input = trans.input /\ trans'.output = trans.output
         /\ trans'.input_count = Len(t.input) /\ trans'.output_count = Len(t.output)
         /\ trans'.total_len = Len(Serialized(t)) /\ trans'.txid = Sha256d(Original(t))
         /\ trans'.wtxid = WtxidOf(trans.segwit, Sha256d(Original(t)), Serialized(t))
    BY <1>6, <1>11, <1>12, <1>13, <1>14 DEF NoTrans
  <1>16. trans'.wtxid = Sha256d(Serialized(t))
    <2>1. CASE HasWitness(t)
      BY <1>14, <1>15, <2>1 DEF WtxidOf, Bit
    <2>2. CASE ~HasWitness(t)
      <3>1. Serialized(t) = Original(t)
        BY <2>2 DEF Serialized
      <3> QED
        BY <1>14, <1>15, <2>2, <3>1 DEF WtxidOf, Bit
    <2> QED
      BY <2>1, <2>2
  <1>17. trans'.non_swlen = Len(Original(t))
    <2>1. Len(Original(t)) = 8 + Len(StoredBody(t)) /\ StoredBody(t) \in Seq(Byte)
      BY <1>4 DEF TxMeasured
    <2>2. Len(StoredBody(t)) \in Nat
      BY <2>1
    <2> QED
      BY <1>15, <2>1, <2>2
  <1>18. DumpTx(trans') = Original(t)
    BY <1>2, <1>14, <1>15, DumpedAsStored
  <1>19. HasWitness(t) =>
            \A k \in 1..Len(t.input) : trans'.input[k].num_witness = Len(t.input[k].witness)
    BY <1>15 DEF AtLockTime
  <1>20. TxRead(trans', t)
    BY <1>15, <1>16, <1>17, <1>18, <1>19 DEF TxRead
  <1> QED
    BY <1>3, <1>5, <1>6, <1>20 DEF AtRead, Within

-----------------------------------------------------------------------------
(***************************************************************************)
(* read_transaction as a whole.                                            *)
(***************************************************************************)

\* Where it is in t, by what it pulls next; where it has given up, why.
Stage(t) ==
    /\ step \in {"version", "count", "input", "output", "witness", "lockTime"} => off \in Nat
    /\ step \in {"output", "witness"} => off <= Len(Data)
    /\ step = "version" => AtVersion(t)
    /\ step = "count" => AtCount(t)
    /\ step = "input" => AtInput(t)
    /\ step = "output" => AtOutput(t)
    /\ step = "witness" => AtWitness(t)
    /\ step = "lockTime" => AtLockTime(t)
    /\ step = "read" => AtRead(t)
    /\ step = "badFlag" => t.input = <<>>
    /\ step = "past" => start + Len(Serialized(t)) > Len(Data)

LEMMA VarEnds ==
    ASSUME Data \in Seq(Byte), NEW o \in Nat
    PROVE  /\ o + VarLen(o) \in Nat /\ o + VarLen(o) + Var(o) \in Nat
           /\ o + VarLen(o) + Var(o) + 4 \in Nat
  <1>1. VarLen(o) \in Nat
    BY VarIsNatural DEF VarLen
  <1>2. Var(o) \in Nat
    BY VarIsNatural DEF Var
  <1>3. PICK v \in Nat, w \in Nat : v = Var(o) /\ w = VarLen(o)
    BY <1>1, <1>2
  <1> QED
    BY <1>3

LEMMA OffIsNatural ==
    ASSUME Data \in Seq(Byte), off \in Nat, ReadTransaction
    PROVE  off' \in Nat /\ start' = start
  <1>1. start' = start
    BY DEF ReadTransaction, PullVersion, PullInputCount, PullMarker, BadFlag, ReadInput, PullOutputCount,
           ReadOutput, HashBody, ReadWitnessField, ReadWitnessStackItem, SkipWitness, FinishTransaction
  <1>2. CASE PullVersion \/ FinishTransaction \/ HashBody \/ SkipWitness
    BY <1>1, <1>2 DEF PullVersion, FinishTransaction, HashBody, SkipWitness
  <1>3. CASE PullInputCount \/ PullOutputCount \/ ReadWitnessField
    <2>1. off' = off + VarLen(off)
      BY <1>3 DEF PullInputCount, PullOutputCount, ReadWitnessField
    <2> QED
      BY <1>1, <2>1, VarEnds
  <1>4. CASE ReadWitnessStackItem
    <2>1. off' = off + VarLen(off) + Var(off)
      BY <1>4 DEF ReadWitnessStackItem
    <2> QED
      BY <1>1, <2>1, VarEnds
  <1>5. CASE PullMarker \/ BadFlag
    <2>1. PICK a : a = FlagAt
      OBVIOUS
    <2>2. a \in Nat
      BY <2>1, VarEnds DEF FlagAt
    <2>3. PICK c : c = a + VarLen(a)
      OBVIOUS
    <2>4. c \in Nat
      BY <2>2, <2>3, VarEnds
    <2>5. c + VarLen(c) \in Nat
      BY <2>4, VarEnds
    <2>6. off' = c \/ off' = c + VarLen(c)
      BY <1>5, <2>1, <2>3 DEF PullMarker, BadFlag
    <2> QED
      BY <1>1, <2>4, <2>5, <2>6
  <1>6. CASE ReadInput
    <2>1. PICK a \in Nat : a = off + 36
      OBVIOUS
    <2>2. off' = a + VarLen(a) + Var(a) + 4
      BY <1>6, <2>1 DEF ReadInput
    <2> QED
      BY <1>1, <2>2, VarEnds
  <1>7. CASE ReadOutput
    <2>1. PICK a \in Nat : a = off + 8
      OBVIOUS
    <2>2. off' = a + VarLen(a) + Var(a)
      BY <1>7, <2>1 DEF ReadOutput
    <2> QED
      BY <1>1, <2>2, VarEnds
  <1> QED
    BY <1>2, <1>3, <1>4, <1>5, <1>6, <1>7 DEF ReadTransaction

\* A step either ends in the file or the file ends in the transaction.
LEMMA GoesTo ==
    ASSUME NEW t, TxThere(t), off' \in Nat, NEW s, Goto(s), start' = start, UNCHANGED fileVars,
           InTheFile(t) => Within(t)
    PROVE  \/ step' = "full"
           \/ step' = "past" /\ start' + Len(Serialized(t)) > Len(Data')
           \/ step' = s /\ off' <= Len(Data') /\ InTheFile(t)
  <1>1. PICK d \in Seq(Byte) : d = Data /\ d = Data'
    BY DEF TxThere, fileVars, Data
  <1>2. PICK n \in Nat : n = start + Len(Serialized(t))
    BY PartsAreOrdered DEF TxThere, Ordered
  <1>3. PICK l \in Nat : l = Len(d)
    BY <1>1
  <1>4. CASE off' > l
    <2>1. n > l
      <3>1. SUFFICES ASSUME n <= l PROVE FALSE
        BY <1>2, <1>3
      <3>2. InTheFile(t)
        BY <1>1, <1>2, <1>3, <3>1 DEF InTheFile
      <3>3. off' <= n
        BY <1>2, <3>2 DEF Within
      <3> QED
        BY <1>4, <3>1, <3>3
    <2>2. step' = "full" \/ step' = "past"
      BY <1>1, <1>3, <1>4 DEF Goto
    <2> QED
      BY <1>1, <1>2, <1>3, <2>1, <2>2
  <1>5. CASE off' <= l
    <2>1. step' = "full" \/ step' = s
      BY <1>1, <1>3, <1>5 DEF Goto
    <2>2. InTheFile(t)
      BY <1>1, <1>3, <1>5 DEF InTheFile
    <2> QED
      BY <1>1, <1>3, <1>5, <2>1, <2>2
  <1> QED
    BY <1>4, <1>5

LEMMA ReadStep ==
    ASSUME NEW t, TxThere(t), Stage(t), ReadTransaction
    PROVE  TxThere(t)' /\ Stage(t)'
  <1>1. UNCHANGED fileVars /\ Data' = Data
    BY DEF ReadTransaction, fileVars, Data
  <1>2. off \in Nat
    <2>1. step \in {"version", "count", "input", "output", "witness", "lockTime"}
      BY DEF ReadTransaction, PullVersion, PullInputCount, PullMarker, BadFlag, ReadInput, PullOutputCount,
             ReadOutput, HashBody, ReadWitnessField, ReadWitnessStackItem, SkipWitness, FinishTransaction
    <2> QED
      BY <2>1 DEF Stage
  <1>3. off' \in Nat /\ start' = start
    BY <1>2, OffIsNatural DEF TxThere
  <1>4. TxThere(t)'
    BY <1>1, <1>3 DEF TxThere
  <1>5. CASE PullVersion /\ UNCHANGED items
    <2>1. AtVersion(t) /\ Goto("count")
      BY <1>5 DEF Stage, PullVersion
    <2>2. InTheFile(t) => AtCount(t)' /\ Within(t)
      BY <1>5, <2>1, VersionPulled
    <2>3. \/ step' = "full"
          \/ step' = "past" /\ start' + Len(Serialized(t)) > Len(Data')
          \/ step' = "count" /\ off' <= Len(Data') /\ AtCount(t)'
      BY <1>1, <1>3, <2>1, <2>2, GoesTo
    <2> QED
      BY <1>3, <1>4, <2>3 DEF Stage
  <1>6. CASE PullInputCount /\ UNCHANGED items
    <2>1. AtCount(t) /\ Goto("input")
      BY <1>6 DEF Stage, PullInputCount
    <2>2. InTheFile(t) => AtInput(t)' /\ Within(t)
      BY <1>6, <2>1, InputCountPulled
    <2>3. \/ step' = "full"
          \/ step' = "past" /\ start' + Len(Serialized(t)) > Len(Data')
          \/ step' = "input" /\ off' <= Len(Data') /\ AtInput(t)'
      BY <1>1, <1>3, <2>1, <2>2, GoesTo
    <2> QED
      BY <1>3, <1>4, <2>3 DEF Stage
  <1>7. CASE PullMarker /\ UNCHANGED items
    <2>1. AtCount(t) /\ Goto("input")
      BY <1>7 DEF Stage, PullMarker
    <2>2. InTheFile(t) => AtInput(t)' /\ Within(t)
      BY <1>7, <2>1, MarkerPulled
    <2>3. \/ step' = "full"
          \/ step' = "past" /\ start' + Len(Serialized(t)) > Len(Data')
          \/ step' = "input" /\ off' <= Len(Data') /\ AtInput(t)'
      BY <1>1, <1>3, <2>1, <2>2, GoesTo
    <2> QED
      BY <1>3, <1>4, <2>3 DEF Stage
  <1>8. CASE ReadInput /\ UNCHANGED items
    <2>1. AtInput(t) /\ Goto("input")
      BY <1>8 DEF Stage, ReadInput
    <2>2. InTheFile(t) => AtInput(t)' /\ Within(t)
      BY <1>8, <2>1, InputIsRead
    <2>3. \/ step' = "full"
          \/ step' = "past" /\ start' + Len(Serialized(t)) > Len(Data')
          \/ step' = "input" /\ off' <= Len(Data') /\ AtInput(t)'
      BY <1>1, <1>3, <2>1, <2>2, GoesTo
    <2> QED
      BY <1>3, <1>4, <2>3 DEF Stage
  <1>9. CASE PullOutputCount /\ UNCHANGED items
    <2>1. AtInput(t) /\ Goto("output")
      BY <1>9 DEF Stage, PullOutputCount
    <2>2. InTheFile(t) => AtOutput(t)' /\ Within(t)
      BY <1>9, <2>1, OutputCountPulled
    <2>3. \/ step' = "full"
          \/ step' = "past" /\ start' + Len(Serialized(t)) > Len(Data')
          \/ step' = "output" /\ off' <= Len(Data') /\ AtOutput(t)'
      BY <1>1, <1>3, <2>1, <2>2, GoesTo
    <2> QED
      BY <1>3, <1>4, <2>3 DEF Stage
  <1>10. CASE ReadOutput /\ UNCHANGED items
    <2>1. AtOutput(t) /\ Goto("output")
      BY <1>10 DEF Stage, ReadOutput
    <2>2. InTheFile(t) => AtOutput(t)' /\ Within(t)
      BY <1>10, <2>1, OutputIsRead
    <2>3. \/ step' = "full"
          \/ step' = "past" /\ start' + Len(Serialized(t)) > Len(Data')
          \/ step' = "output" /\ off' <= Len(Data') /\ AtOutput(t)'
      BY <1>1, <1>3, <2>1, <2>2, GoesTo
    <2> QED
      BY <1>3, <1>4, <2>3 DEF Stage
  <1>11. CASE ReadWitnessField
    <2>1. AtWitness(t) /\ Goto("witness")
      BY <1>11 DEF Stage, ReadWitnessField
    <2>2. InTheFile(t) => AtWitness(t)' /\ Within(t)
      BY <1>11, <2>1, WitnessFieldRead
    <2>3. \/ step' = "full"
          \/ step' = "past" /\ start' + Len(Serialized(t)) > Len(Data')
          \/ step' = "witness" /\ off' <= Len(Data') /\ AtWitness(t)'
      BY <1>1, <1>3, <2>1, <2>2, GoesTo
    <2> QED
      BY <1>3, <1>4, <2>3 DEF Stage
  <1>12. CASE ReadWitnessStackItem
    <2>1. AtWitness(t) /\ Goto("witness")
      BY <1>12 DEF Stage, ReadWitnessStackItem
    <2>2. InTheFile(t) => AtWitness(t)' /\ Within(t)
      BY <1>12, <2>1, StackItemRead
    <2>3. \/ step' = "full"
          \/ step' = "past" /\ start' + Len(Serialized(t)) > Len(Data')
          \/ step' = "witness" /\ off' <= Len(Data') /\ AtWitness(t)'
      BY <1>1, <1>3, <2>1, <2>2, GoesTo
    <2> QED
      BY <1>3, <1>4, <2>3 DEF Stage
  <1>13. CASE FinishTransaction /\ UNCHANGED items
    <2>1. AtLockTime(t) /\ Goto("read")
      BY <1>13 DEF Stage, FinishTransaction
    <2>2. InTheFile(t) => AtRead(t)' /\ Within(t)
      BY <1>13, <2>1, TransactionFinished
    <2>3. \/ step' = "full"
          \/ step' = "past" /\ start' + Len(Serialized(t)) > Len(Data')
          \/ step' = "read" /\ off' <= Len(Data') /\ AtRead(t)'
      BY <1>1, <1>3, <2>1, <2>2, GoesTo
    <2> QED
      BY <1>3, <1>4, <2>3 DEF Stage
  <1>14. CASE BadFlag
    <2>1. AtCount(t) /\ Goto("badFlag")
      BY <1>14 DEF Stage, BadFlag
    <2>2. InTheFile(t) => t.input = <<>> /\ Within(t)
      BY <1>14, <2>1, BadFlagPulled
    <2>3. \/ step' = "full"
          \/ step' = "past" /\ start' + Len(Serialized(t)) > Len(Data')
          \/ step' = "badFlag" /\ t.input = <<>>
      BY <1>1, <1>3, <2>1, <2>2, GoesTo
    <2> QED
      BY <1>4, <2>3 DEF Stage
  <1>15. CASE HashBody /\ UNCHANGED items
    <2>1. AtOutput(t) /\ off' = off /\ off <= Len(Data) /\ (trans.segwit = 1 <=> HasWitness(t))
      BY <1>15 DEF Stage, HashBody, AtOutput, InBody, Bit
    <2>2. InTheFile(t)
      BY <2>1 DEF InTheFile
    <2>3. IF HasWitness(t) THEN AtWitness(t)' ELSE AtLockTime(t)'
      BY <1>15, <2>1, <2>2, BodyIsHashed
    <2>4. step' = IF HasWitness(t) THEN "witness" ELSE "lockTime"
      BY <1>15, <2>1 DEF HashBody
    <2> QED
      BY <1>1, <1>3, <1>4, <2>1, <2>3, <2>4 DEF Stage
  <1>16. CASE SkipWitness /\ UNCHANGED items
    <2>1. AtWitness(t) /\ off' = off /\ off <= Len(Data) /\ step' = "lockTime"
      BY <1>16 DEF Stage, SkipWitness
    <2>2. InTheFile(t)
      BY <2>1 DEF InTheFile
    <2>3. AtLockTime(t)'
      BY <1>16, <2>1, <2>2, WitnessSkipped
    <2> QED
      BY <1>3, <1>4, <2>1, <2>3 DEF Stage
  <1> QED
    BY <1>5, <1>6, <1>7, <1>8, <1>9, <1>10, <1>11, <1>12, <1>13, <1>14, <1>15, <1>16 DEF ReadTransaction

-----------------------------------------------------------------------------
(***************************************************************************)
(* The blocks of a file, and what the scan makes of the bytes of one.      *)
(***************************************************************************)

Sers(b) == [i \in DOMAIN b.txs |-> Serialized(b.txs[i])]

LEMMA SersAre ==
    ASSUME NEW b, IsBlock(b)
    PROVE  /\ Sers(b) \in Seq(Seq(Byte)) /\ Len(Sers(b)) = Len(b.txs)
           /\ DOMAIN b.txs = 1..Len(b.txs) /\ Len(b.txs) \in Nat /\ Fits(8, Len(b.txs))
           /\ FlattenSeq(Sers(b)) \in Seq(Byte) /\ Len(FlattenSeq(Sers(b))) \in Nat
           /\ \A i \in 1..Len(b.txs) : IsTx(b.txs[i]) /\ Sers(b)[i] = Serialized(b.txs[i])
  <1>1. Sized(b.txs) /\ \A i \in DOMAIN b.txs : IsTx(b.txs[i])
    BY DEF IsBlock
  <1>2. DOMAIN b.txs = 1..Len(b.txs) /\ Len(b.txs) \in Nat /\ Fits(8, Len(b.txs))
    BY <1>1, SizedIs DEF Sized
  <1>3. \A i \in 1..Len(b.txs) : Serialized(b.txs[i]) \in Seq(Byte)
    BY <1>1, <1>2, TxIsMeasured DEF TxMeasured
  <1>4. PICK n \in Nat : n = Len(b.txs)
    BY <1>2
  <1>5. Sers(b) \in [1..n -> Seq(Byte)] /\ DOMAIN Sers(b) = 1..n
    BY <1>2, <1>3, <1>4 DEF Sers
  <1>6. Sers(b) \in Seq(Seq(Byte)) /\ Len(Sers(b)) = n
    BY <1>5
  <1>7. FlattenSeq(Sers(b)) \in Seq(Byte)
    BY <1>6, FlattenBytes
  <1>8. Len(FlattenSeq(Sers(b))) \in Nat
    BY <1>7
  <1>9. \A i \in 1..Len(b.txs) : IsTx(b.txs[i]) /\ Sers(b)[i] = Serialized(b.txs[i])
    BY <1>1, <1>2 DEF Sers
  <1> QED
    BY <1>2, <1>4, <1>6, <1>7, <1>8, <1>9

\* s is n bytes long.
Bytes(s, n) == s \in Seq(Byte) /\ Len(s) = n

LEMMA BytesJoin ==
    ASSUME NEW a, NEW b, NEW i \in Nat, NEW j \in Nat, Bytes(a, i), Bytes(b, j)
    PROVE  Bytes(a \o b, i + j)
  <1>1. a \o b \in Seq(Byte) /\ Len(a \o b) = Len(a) + Len(b)
    BY BothBytes DEF Bytes
  <1> QED
    BY <1>1 DEF Bytes

LEMMA BytesPart ==
    ASSUME NEW d \in Seq(Byte), NEW o \in Nat, NEW a, NEW b, NEW i, NEW j, Bytes(a, i), Bytes(b, j),
           Holds(d, o, a \o b)
    PROVE  Holds(d, o, a) /\ Holds(d, o + i, b)
  BY HoldsBoth DEF Bytes

LEMMA FourAre == ASSUME NEW v, Fits(4, v) PROVE Bytes(Le(4, v), 4)
  BY FourBytes DEF Bytes

LEMMA HashIs == ASSUME NEW h, IsHash(h) PROVE Bytes(h, 32)
  BY HashBytes DEF Bytes

Three(s, a, b, c) ==
    /\ s \in Seq(Seq(Byte)) /\ Len(s) = 3 /\ a \in Seq(Byte)
    /\ s[1] = a /\ s[2] = b /\ s[3] = c

LEMMA SequenceIs == ASSUME NEW S, NEW n \in Nat, NEW s \in [1..n -> S] PROVE s \in Seq(S) /\ Len(s) = n
  OBVIOUS

LEMMA FlattenThree ==
    ASSUME NEW s, NEW a, NEW b, NEW c, Three(s, a, b, c)
    PROVE  FlattenSeq(s) = (a \o b) \o c
  <1>1. Grows(s, Byte)
    BY UptoIs DEF Three
  <1>2. Upto(s, 0) = <<>> /\ FlattenSeq(s) = Upto(s, 3)
    BY <1>1 DEF Grows, Three
  <1>3. \A m \in 1..3 : Upto(s, m) = Upto(s, m - 1) \o s[m]
    BY <1>1 DEF Grows, Three
  <1>4. Upto(s, 1) = Upto(s, 0) \o s[1]
    <2>1. 1 \in 1..3 /\ 1 - 1 = 0
      OBVIOUS
    <2>2. Upto(s, 1) = Upto(s, 1 - 1) \o s[1]
      BY <1>3, <2>1
    <2> QED
      BY <2>1, <2>2, Zenon
  <1>5. Upto(s, 2) = Upto(s, 1) \o s[2]
    <2>1. 2 \in 1..3 /\ 2 - 1 = 1
      OBVIOUS
    <2>2. Upto(s, 2) = Upto(s, 2 - 1) \o s[2]
      BY <1>3, <2>1
    <2> QED
      BY <2>1, <2>2, Zenon
  <1>6. Upto(s, 3) = Upto(s, 2) \o s[3]
    <2>1. 3 \in 1..3 /\ 3 - 1 = 2
      OBVIOUS
    <2>2. Upto(s, 3) = Upto(s, 3 - 1) \o s[3]
      BY <1>3, <2>1
    <2> QED
      BY <2>1, <2>2, Zenon
  <1>7. <<>> \o a = a
    BY ConcatEmptySeq DEF Three
  <1>8. s[1] = a /\ s[2] = b /\ s[3] = c
    BY DEF Three
  <1> QED
    BY <1>2, <1>4, <1>5, <1>6, <1>7, <1>8, Zenon

\* h is made of a version, two hashes and three numbers.
HeaderOf(h, v, p, m, x, y, z) ==
    /\ Bytes(v, 4) /\ Bytes(p, 32) /\ Bytes(m, 32) /\ Bytes(x, 4) /\ Bytes(y, 4) /\ Bytes(z, 4)
    /\ h = ((((v \o p) \o m) \o x) \o y) \o z

LEMMA HeaderIs ==
    ASSUME NEW b, IsBlock(b)
    PROVE  HeaderOf(StoredHeader(b), Le(4, b.bh.version), b.bh.prev_hash, b.bh.merkle_hash,
                    Le(4, b.bh.timestamp), Le(4, b.bh.target), Le(4, b.bh.nonce))
  <1>1. PICK v, p, m, x, y, z :
          /\ v = Le(4, b.bh.version) /\ p = b.bh.prev_hash /\ m = b.bh.merkle_hash
          /\ x = Le(4, b.bh.timestamp) /\ y = Le(4, b.bh.target) /\ z = Le(4, b.bh.nonce)
    OBVIOUS
  <1>2. Bytes(v, 4) /\ Bytes(x, 4) /\ Bytes(y, 4) /\ Bytes(z, 4) /\ Bytes(p, 32) /\ Bytes(m, 32)
    BY <1>1, FourAre, HashIs DEF IsBlock
  <1>3. PICK s : s = [k \in 1..3 |-> Le(4, <<b.bh.timestamp, b.bh.target, b.bh.nonce>>[k])]
    OBVIOUS
  <1>4. Three(s, x, y, z)
    <2>1. s[1] = x /\ s[2] = y /\ s[3] = z /\ DOMAIN s = 1..3
      BY <1>1, <1>3
    <2>2. x \in Seq(Byte) /\ y \in Seq(Byte) /\ z \in Seq(Byte)
      BY <1>2 DEF Bytes
    <2>3. s \in [1..3 -> Seq(Byte)]
      <3>1. \A k \in 1..3 : k = 1 \/ k = 2 \/ k = 3
        OBVIOUS
      <3>2. \A k \in 1..3 : s[k] \in Seq(Byte)
        BY <2>1, <2>2, <3>1, Zenon
      <3> QED
        BY <1>3, <3>2
    <2>4. 3 \in Nat
      OBVIOUS
    <2>5. s \in Seq(Seq(Byte)) /\ Len(s) = 3
      BY <2>3, <2>4, SequenceIs
    <2> QED
      BY <2>1, <2>2, <2>5 DEF Three
  <1>5. FlattenSeq(s) = (x \o y) \o z
    BY <1>4, FlattenThree
  <1>6. StoredHeader(b) = ((v \o p) \o m) \o ((x \o y) \o z)
    BY <1>1, <1>3, <1>5, Zenon DEF StoredHeader
  <1>7. PICK h : h = (v \o p) \o m
    OBVIOUS
  <1>8. h \in Seq(Byte)
    <2>1. v \o p \in Seq(Byte)
      BY <1>2, BothBytes DEF Bytes
    <2> QED
      BY <1>2, <1>7, <2>1, BothBytes DEF Bytes
  <1>9. (h \o x) \o y = h \o (x \o y)
    BY <1>2, <1>8, BytesAssociate DEF Bytes
  <1>10. (h \o (x \o y)) \o z = h \o ((x \o y) \o z)
    <2>1. x \o y \in Seq(Byte)
      BY <1>2, BothBytes DEF Bytes
    <2> QED
      BY <1>2, <1>8, <2>1, BytesAssociate, ZenonT(60) DEF Bytes
  <1>11. StoredHeader(b) = ((((v \o p) \o m) \o x) \o y) \o z
    BY <1>6, <1>7, <1>9, <1>10, Zenon
  <1> QED
    BY <1>1, <1>2, <1>11 DEF HeaderOf

LEMMA HeaderHeld ==
    ASSUME NEW h, NEW v, NEW p, NEW m, NEW x, NEW y, NEW z, HeaderOf(h, v, p, m, x, y, z)
    PROVE  /\ Bytes(h, 80)
           /\ \A d \in Seq(Byte), o \in Nat : Holds(d, o, h) =>
                 /\ Holds(d, o, v) /\ Holds(d, o + 4, p) /\ Holds(d, o + 36, m)
                 /\ Holds(d, o + 68, x) /\ Holds(d, o + 72, y) /\ Holds(d, o + 76, z)
  <1>1. PICK a : a = v \o p
    OBVIOUS
  <1>2. PICK b : b = a \o m
    OBVIOUS
  <1>3. PICK c : c = b \o x
    OBVIOUS
  <1>4. PICK e : e = c \o y
    OBVIOUS
  <1>5. h = e \o z
    BY <1>1, <1>2, <1>3, <1>4, Zenon DEF HeaderOf
  <1>6. Bytes(v, 4) /\ Bytes(p, 32) /\ Bytes(m, 32) /\ Bytes(x, 4) /\ Bytes(y, 4) /\ Bytes(z, 4)
    BY DEF HeaderOf
  <1>7. Bytes(a, 36)
    <2>1. Bytes(v \o p, 4 + 32)
      BY <1>6, BytesJoin
    <2> QED
      BY <1>1, <2>1
  <1>8. Bytes(b, 68)
    <2>1. Bytes(a \o m, 36 + 32)
      BY <1>6, <1>7, BytesJoin
    <2> QED
      BY <1>2, <2>1
  <1>9. Bytes(c, 72)
    <2>1. Bytes(b \o x, 68 + 4)
      BY <1>6, <1>8, BytesJoin
    <2> QED
      BY <1>3, <2>1
  <1>10. Bytes(e, 76)
    <2>1. Bytes(c \o y, 72 + 4)
      BY <1>6, <1>9, BytesJoin
    <2> QED
      BY <1>4, <2>1
  <1>11. Bytes(h, 80)
    <2>1. Bytes(e \o z, 76 + 4)
      BY <1>6, <1>10, BytesJoin
    <2> QED
      BY <1>5, <2>1
  <1>12. ASSUME NEW d \in Seq(Byte), NEW o \in Nat, Holds(d, o, h)
         PROVE  /\ Holds(d, o, v) /\ Holds(d, o + 4, p) /\ Holds(d, o + 36, m)
                /\ Holds(d, o + 68, x) /\ Holds(d, o + 72, y) /\ Holds(d, o + 76, z)
    <2>1. Holds(d, o, e) /\ Holds(d, o + 76, z)
      BY <1>5, <1>6, <1>10, <1>12, BytesPart
    <2>2. Holds(d, o, c) /\ Holds(d, o + 72, y)
      BY <1>4, <1>6, <1>9, <2>1, BytesPart
    <2>3. Holds(d, o, b) /\ Holds(d, o + 68, x)
      BY <1>3, <1>6, <1>8, <2>2, BytesPart
    <2>4. Holds(d, o, a) /\ Holds(d, o + 36, m)
      BY <1>2, <1>6, <1>7, <2>3, BytesPart
    <2>5. Holds(d, o, v) /\ Holds(d, o + 4, p)
      BY <1>1, <1>6, <2>4, BytesPart
    <2> QED
      BY <2>1, <2>2, <2>3, <2>4, <2>5
  <1> QED
    BY <1>11, <1>12

LEMMA MarkerIs == Bytes(Marker, 4)
  <1>1. 4 \in Nat /\ Marker \in [1..4 -> Byte]
    BY MarkerAssumption DEF Byte
  <1> QED
    BY <1>1, SequenceIs DEF Bytes

\* The parts of a stored block: c bytes for the number of its transactions, n for
\* the transactions.
BlockParts(b, c, n) ==
    /\ c \in Nat \ {0} /\ n \in Nat
    /\ Bytes(StoredHeader(b), 80) /\ Bytes(CompactSize(Len(b.txs)), c) /\ Bytes(FlattenSeq(Sers(b)), n)
    /\ Bytes(StoredHeader(b) \o CompactSize(Len(b.txs)), 80 + c)
    /\ Bytes(BlockBody(b), 80 + c + n) /\ Bytes(Marker \o Le(4, Len(BlockBody(b))), 8)
    /\ Bytes(StoredBlock(b), 88 + c + n)
    /\ Bytes(Le(4, Len(BlockBody(b))), 4)
    /\ BlockBody(b) = (StoredHeader(b) \o CompactSize(Len(b.txs))) \o FlattenSeq(Sers(b))
    /\ StoredBlock(b) = (Marker \o Le(4, Len(BlockBody(b)))) \o BlockBody(b)

LEMMA PartsOfBlock == ASSUME NEW b, IsBlock(b) PROVE \E c, n : BlockParts(b, c, n)
  <1>1. PICK c \in Nat \ {0} : c = Len(CompactSize(Len(b.txs)))
    BY SersAre, CompactSizeBytes
  <1>2. PICK n \in Nat : n = Len(FlattenSeq(Sers(b)))
    BY SersAre
  <1>3. Bytes(CompactSize(Len(b.txs)), c)
    BY <1>1, SersAre, CompactSizeBytes DEF Bytes
  <1>4. Bytes(FlattenSeq(Sers(b)), n)
    BY <1>2, SersAre DEF Bytes
  <1>5. Bytes(StoredHeader(b), 80)
    BY HeaderIs, HeaderHeld
  <1>6. Bytes(Le(4, Len(BlockBody(b))), 4)
    BY FourAre DEF IsBlock
  <1>7. BlockBody(b) = (StoredHeader(b) \o CompactSize(Len(b.txs))) \o FlattenSeq(Sers(b))
    BY Zenon DEF BlockBody, Sers
  <1>8. Bytes(StoredHeader(b) \o CompactSize(Len(b.txs)), 80 + c)
    BY <1>3, <1>5, BytesJoin
  <1>9. Bytes(BlockBody(b), 80 + c + n)
    <2>1. 80 + c \in Nat
      OBVIOUS
    <2>2. Bytes((StoredHeader(b) \o CompactSize(Len(b.txs))) \o FlattenSeq(Sers(b)), (80 + c) + n)
      BY <1>4, <1>8, <2>1, BytesJoin
    <2> QED
      BY <1>7, <2>2, Zenon
  <1>10. StoredBlock(b) = (Marker \o Le(4, Len(BlockBody(b)))) \o BlockBody(b)
    BY Zenon DEF StoredBlock
  <1>11. Bytes(Marker \o Le(4, Len(BlockBody(b))), 8)
    <2>1. Bytes(Marker \o Le(4, Len(BlockBody(b))), 4 + 4)
      BY <1>6, MarkerIs, BytesJoin
    <2> QED
      BY <2>1
  <1>12. Bytes(StoredBlock(b), 88 + c + n)
    <2>1. PICK m \in Nat : m = 80 + c + n
      OBVIOUS
    <2>2. Bytes((Marker \o Le(4, Len(BlockBody(b)))) \o BlockBody(b), 8 + m)
      BY <1>9, <1>11, <2>1, BytesJoin
    <2>3. 8 + m = 88 + c + n
      BY <2>1
    <2> QED
      BY <1>10, <2>2, <2>3, Zenon
  <1> QED
    BY <1>3, <1>4, <1>5, <1>6, <1>7, <1>8, <1>9, <1>10, <1>11, <1>12 DEF BlockParts

\* Where a file has a block it has the parts of it.
BlockHeld(d, o, b, c) ==
    /\ Holds(d, o, Marker) /\ Holds(d, o + 4, Le(4, Len(BlockBody(b))))
    /\ Holds(d, o + 8, StoredHeader(b)) /\ Holds(d, o + 88, CompactSize(Len(b.txs)))
    /\ Holds(d, o + 88 + c, FlattenSeq(Sers(b)))

LEMMA BlockIsHeld ==
    ASSUME NEW d \in Seq(Byte), NEW o \in Nat, NEW b, NEW c, NEW n, BlockParts(b, c, n),
           Holds(d, o, StoredBlock(b))
    PROVE  BlockHeld(d, o, b, c)
  <1>1. /\ c \in Nat /\ Bytes(StoredHeader(b), 80) /\ Bytes(CompactSize(Len(b.txs)), c)
        /\ Bytes(FlattenSeq(Sers(b)), n) /\ Bytes(StoredHeader(b) \o CompactSize(Len(b.txs)), 80 + c)
        /\ Bytes(BlockBody(b), 80 + c + n) /\ Bytes(Marker \o Le(4, Len(BlockBody(b))), 8)
        /\ Bytes(Le(4, Len(BlockBody(b))), 4) /\ Bytes(Marker, 4)
    BY MarkerIs DEF BlockParts
  <1>2. Holds(d, o, (Marker \o Le(4, Len(BlockBody(b)))) \o BlockBody(b))
    BY DEF BlockParts
  <1>3. Holds(d, o, Marker \o Le(4, Len(BlockBody(b)))) /\ Holds(d, o + 8, BlockBody(b))
    BY <1>1, <1>2, BytesPart
  <1>4. Holds(d, o, Marker) /\ Holds(d, o + 4, Le(4, Len(BlockBody(b))))
    BY <1>1, <1>3, BytesPart
  <1>5. PICK p \in Nat : p = o + 8
    OBVIOUS
  <1>6. Holds(d, p, (StoredHeader(b) \o CompactSize(Len(b.txs))) \o FlattenSeq(Sers(b)))
    BY <1>3, <1>5 DEF BlockParts
  <1>7. /\ Holds(d, p, StoredHeader(b) \o CompactSize(Len(b.txs)))
        /\ Holds(d, p + (80 + c), FlattenSeq(Sers(b)))
    BY <1>1, <1>6, BytesPart
  <1>8. Holds(d, p, StoredHeader(b)) /\ Holds(d, p + 80, CompactSize(Len(b.txs)))
    BY <1>1, <1>7, BytesPart
  <1>9. p + 80 = o + 88 /\ p + (80 + c) = o + 88 + c
    BY <1>1, <1>5
  <1> QED
    BY <1>4, <1>5, <1>7, <1>8, <1>9 DEF BlockHeld

\* What read_block_header makes of a block at o, and where it leaves the file.
BlockRead(d, o, b, pos) ==
    /\ DumpBlockHeader(HeaderAt(d, o)) = StoredHeader(b)
    /\ Slice(d, o + 8, 80) = StoredHeader(b)
    /\ HeaderAt(d, o).transaction_count = Len(b.txs)
    /\ HeaderAt(d, o).len = Len(BlockBody(b)) /\ Len(BlockBody(b)) \in Nat
    /\ pos \in Nat /\ pos <= Len(d) /\ Holds(d, pos, FlattenSeq(Sers(b)))
    /\ pos + Len(FlattenSeq(Sers(b))) = o + Len(StoredBlock(b))
    /\ Len(StoredBlock(b)) = 8 + Len(BlockBody(b))

LEMMA BlockIsRead ==
    ASSUME NEW d \in Seq(Byte), NEW o \in Nat, NEW b, IsBlock(b), Holds(d, o, StoredBlock(b)),
           NEW pos, pos = o + 88 + VarLenIn(d, o + 88),
           pos <= Len(d) \/ o + Len(StoredBlock(b)) <= Len(d)
    PROVE  BlockRead(d, o, b, pos)
  <1>1. PICK c, n : BlockParts(b, c, n)
    BY PartsOfBlock
  <1>2. BlockHeld(d, o, b, c)
    BY <1>1, BlockIsHeld
  <1>3. /\ c \in Nat \ {0} /\ n \in Nat /\ c = Len(CompactSize(Len(b.txs)))
        /\ Len(FlattenSeq(Sers(b))) = n /\ Len(BlockBody(b)) = 80 + c + n
        /\ Len(StoredBlock(b)) = 88 + c + n
    BY <1>1 DEF BlockParts, Bytes
  <1>4. PICK l \in Nat : l = Len(d)
    OBVIOUS
  <1>5. PICK q \in Nat : q = o + 88
    OBVIOUS
  <1>6. PICK w \in Nat \ {0} : w = VarLenIn(d, q)
    BY <1>5, VarIsNatural
  <1>7. pos = q + w /\ (q + w <= l \/ q + c <= l)
    <2>1. o + (88 + c + n) <= l => q + c <= l
      BY <1>3, <1>5
    <2> QED
      BY <1>3, <1>4, <1>5, <1>6, <2>1
  <1>8. Fits(8, Len(b.txs)) /\ Holds(d, q, CompactSize(Len(b.txs)))
    BY <1>2, <1>5, SersAre DEF BlockHeld
  <1>9. VarIn(d, q) = Len(b.txs) /\ w = c
    <2>1. q + VarLenIn(d, q) <= Len(d) \/ q + Len(CompactSize(Len(b.txs))) <= Len(d)
      BY <1>3, <1>4, <1>6, <1>7
    <2> QED
      BY <1>3, <1>6, <1>8, <2>1, HoldsVarint
  <1>10. pos = o + 88 + c /\ pos \in Nat /\ pos <= l /\ o + 88 <= l
    BY <1>3, <1>5, <1>7, <1>9
  <1>11. PICK h : h = HeaderAt(d, o)
    OBVIOUS
  <1>12. /\ h.len = Num(Slice(d, o + 4, 4)) /\ h.version = Num(Slice(d, o + 8, 4))
         /\ h.prev_hash = Slice(d, o + 12, 32) /\ h.merkle_hash = Slice(d, o + 44, 32)
         /\ h.timestamp = Num(Slice(d, o + 76, 4)) /\ h.target = Num(Slice(d, o + 80, 4))
         /\ h.nonce = Num(Slice(d, o + 84, 4)) /\ h.transaction_count = VarIn(d, o + 88)
    BY <1>11 DEF HeaderAt
  <1>13. PICK p \in Nat : p = o + 8
    OBVIOUS
  <1>14. PICK v, ph, mh, x, y, z :
          /\ v = Le(4, b.bh.version) /\ ph = b.bh.prev_hash /\ mh = b.bh.merkle_hash
          /\ x = Le(4, b.bh.timestamp) /\ y = Le(4, b.bh.target) /\ z = Le(4, b.bh.nonce)
    OBVIOUS
  <1>15. HeaderOf(StoredHeader(b), v, ph, mh, x, y, z)
    BY <1>14, HeaderIs
  <1>16. Holds(d, p, StoredHeader(b))
    BY <1>2, <1>13 DEF BlockHeld
  <1>17. /\ Holds(d, p, v) /\ Holds(d, p + 4, ph) /\ Holds(d, p + 36, mh)
         /\ Holds(d, p + 68, x) /\ Holds(d, p + 72, y) /\ Holds(d, p + 76, z)
    BY <1>15, <1>16, HeaderHeld
  <1>18. ASSUME NEW a \in Nat, NEW u, Fits(4, u), Holds(d, a, Le(4, u)), a + 4 <= o + 88
         PROVE  Num(Slice(d, a, 4)) = u
    <2>1. a + 4 <= Len(d) /\ 4 \in Nat
      BY <1>4, <1>10, <1>18
    <2> QED
      BY <1>18, <2>1, HoldsNumber
  <1>19. ASSUME NEW a \in Nat, NEW u, NEW k \in Nat, Bytes(u, k), Holds(d, a, u), a + k <= o + 88
         PROVE  Slice(d, a, k) = u
    <2>1. a + Len(u) <= Len(d) /\ u \in Seq(Byte) /\ Len(u) = k
      BY <1>4, <1>10, <1>19 DEF Bytes
    <2>2. Slice(d, a, Len(u)) = u
      BY <1>19, <2>1, HoldsSlice
    <2> QED
      BY <2>1, <2>2
  <1>20. /\ Fits(4, b.bh.version) /\ Fits(4, b.bh.timestamp) /\ Fits(4, b.bh.target)
         /\ Fits(4, b.bh.nonce) /\ Fits(4, Len(BlockBody(b))) /\ Bytes(ph, 32) /\ Bytes(mh, 32)
    BY <1>15 DEF IsBlock, HeaderOf
  <1>21. h.version = b.bh.version
    BY <1>12, <1>13, <1>14, <1>17, <1>18, <1>20
  <1>22. h.timestamp = b.bh.timestamp
    <2>1. o + 76 \in Nat /\ o + 76 = p + 68 /\ (o + 76) + 4 <= o + 88
      BY <1>13
    <2> QED
      BY <1>12, <1>14, <1>17, <1>18, <1>20, <2>1
  <1>23. h.target = b.bh.target
    <2>1. o + 80 \in Nat /\ o + 80 = p + 72 /\ (o + 80) + 4 <= o + 88
      BY <1>13
    <2> QED
      BY <1>12, <1>14, <1>17, <1>18, <1>20, <2>1
  <1>24. h.nonce = b.bh.nonce
    <2>1. o + 84 \in Nat /\ o + 84 = p + 76 /\ (o + 84) + 4 <= o + 88
      BY <1>13
    <2> QED
      BY <1>12, <1>14, <1>17, <1>18, <1>20, <2>1
  <1>25. h.len = Len(BlockBody(b))
    <2>1. Holds(d, o + 4, Le(4, Len(BlockBody(b)))) /\ o + 4 \in Nat /\ (o + 4) + 4 <= o + 88
      BY <1>2 DEF BlockHeld
    <2> QED
      BY <1>12, <1>18, <1>20, <2>1
  <1>26. h.prev_hash = ph
    <2>1. o + 12 \in Nat /\ o + 12 = p + 4 /\ (o + 12) + 32 <= o + 88 /\ 32 \in Nat
      BY <1>13
    <2> QED
      BY <1>12, <1>17, <1>19, <1>20, <2>1
  <1>27. h.merkle_hash = mh
    <2>1. o + 44 \in Nat /\ o + 44 = p + 36 /\ (o + 44) + 32 <= o + 88 /\ 32 \in Nat
      BY <1>13
    <2> QED
      BY <1>12, <1>17, <1>19, <1>20, <2>1
  <1>28. Slice(d, o + 8, 80) = StoredHeader(b)
    <2>1. p + 80 <= o + 88 /\ 80 \in Nat /\ Bytes(StoredHeader(b), 80)
      BY <1>1, <1>13 DEF BlockParts
    <2> QED
      BY <1>13, <1>16, <1>19, <2>1
  <1>29. DumpBlockHeader(h) = StoredHeader(b)
    <2>1. DumpBlockHeader(h) = ((((v \o ph) \o mh) \o x) \o y) \o z
      BY <1>14, <1>21, <1>22, <1>23, <1>24, <1>26, <1>27, Zenon DEF DumpBlockHeader
    <2> QED
      BY <1>15, <2>1, Zenon DEF HeaderOf
  <1>30. h.transaction_count = Len(b.txs)
    BY <1>5, <1>9, <1>12
  <1>31. Holds(d, pos, FlattenSeq(Sers(b)))
    BY <1>2, <1>10 DEF BlockHeld
  <1>32. /\ pos + Len(FlattenSeq(Sers(b))) = o + Len(StoredBlock(b))
         /\ Len(StoredBlock(b)) = 8 + Len(BlockBody(b)) /\ Len(BlockBody(b)) \in Nat
    BY <1>3, <1>10
  <1> QED
    BY <1>4, <1>10, <1>11, <1>25, <1>28, <1>29, <1>30, <1>31, <1>32 DEF BlockRead

-----------------------------------------------------------------------------
(***************************************************************************)
(* The files.                                                              *)
(***************************************************************************)

Records(n) == Layout[n].records
Recs(n) == [k \in DOMAIN Records(n) |-> StoredRecord(Records(n)[k])]
Zeroes(r) == [z \in 1..r.pad |-> 0]
Stored(r) == IF r.block = NULL THEN <<>> ELSE StoredBlock(r.block)
IsRecord(r) == r.pad \in Nat /\ (r.block # NULL => IsBlock(r.block))

LEMMA RecordIs ==
    ASSUME NEW r, IsRecord(r)
    PROVE  /\ Bytes(Zeroes(r), r.pad) /\ \A z \in 1..r.pad : Zeroes(r)[z] = 0
           /\ Stored(r) \in Seq(Byte) /\ Len(Stored(r)) \in Nat
           /\ StoredRecord(r) = Zeroes(r) \o Stored(r)
           /\ Bytes(StoredRecord(r), r.pad + Len(Stored(r)))
  <1>1. PICK p \in Nat : p = r.pad
    BY DEF IsRecord
  <1>2. Zeroes(r) \in [1..p -> Byte] /\ \A z \in 1..p : Zeroes(r)[z] = 0
    BY <1>1 DEF Zeroes, Byte
  <1>3. Bytes(Zeroes(r), p)
    BY <1>2, SequenceIs DEF Bytes
  <1>4. Stored(r) \in Seq(Byte) /\ Len(Stored(r)) \in Nat
    <2>1. CASE r.block = NULL
      BY <2>1 DEF Stored
    <2>2. CASE r.block # NULL
      <3>1. PICK c, k : BlockParts(r.block, c, k)
        BY <2>2, PartsOfBlock DEF IsRecord
      <3>2. StoredBlock(r.block) \in Seq(Byte)
        BY <3>1 DEF BlockParts, Bytes
      <3> QED
        BY <2>2, <3>2 DEF Stored
    <2> QED
      BY <2>1, <2>2
  <1>5. StoredRecord(r) = Zeroes(r) \o Stored(r)
    BY Zenon DEF StoredRecord, Zeroes, Stored
  <1>6. PICK l \in Nat : l = Len(Stored(r))
    BY <1>4
  <1>7. Bytes(Zeroes(r) \o Stored(r), p + l)
    BY <1>3, <1>4, <1>6, BytesJoin DEF Bytes
  <1> QED
    BY <1>1, <1>2, <1>3, <1>4, <1>5, <1>6, <1>7

\* The records of a file.
FileRecords(n) ==
    /\ Recs(n) \in Seq(Seq(Byte)) /\ Len(Recs(n)) = Len(Records(n)) /\ Len(Records(n)) \in Nat
    /\ DOMAIN Records(n) = 1..Len(Records(n)) /\ Whole(n) = FlattenSeq(Recs(n))
    /\ \A k \in 1..Len(Records(n)) :
          IsRecord(Records(n)[k]) /\ Recs(n)[k] = StoredRecord(Records(n)[k])

LEMMA RecordsAre == ASSUME NEW n \in FileName PROVE FileRecords(n)
  <1>1. IsSequence(Records(n)) /\ \A k \in DOMAIN Records(n) : IsRecord(Records(n)[k])
    BY LayoutAssumption DEF Records, IsRecord
  <1>2. PICK l \in Nat : l = Len(Records(n)) /\ DOMAIN Records(n) = 1..l
    BY <1>1 DEF IsSequence
  <1>3. \A k \in 1..l : StoredRecord(Records(n)[k]) \in Seq(Byte)
    BY <1>1, <1>2, RecordIs DEF Bytes
  <1>4. Recs(n) \in [1..l -> Seq(Byte)] /\ \A k \in 1..l : Recs(n)[k] = StoredRecord(Records(n)[k])
    BY <1>2, <1>3 DEF Recs
  <1>5. Recs(n) \in Seq(Seq(Byte)) /\ Len(Recs(n)) = l
    BY <1>4, SequenceIs
  <1>6. Whole(n) = FlattenSeq(Recs(n))
    BY Zenon DEF Whole, Recs, Records
  <1> QED
    BY <1>1, <1>2, <1>4, <1>5, <1>6 DEF FileRecords

\* The sequences put together grow with each that is added.
LEMMA UptoGrows ==
    ASSUME NEW S, NEW seqs \in Seq(Seq(S)), NEW r \in 0..Len(seqs), NEW q \in r..Len(seqs)
    PROVE  /\ Len(Upto(seqs, r)) \in Nat /\ Len(Upto(seqs, q)) \in Nat
           /\ Len(Upto(seqs, r)) <= Len(Upto(seqs, q))
           /\ Len(FlattenSeq(seqs)) = Len(Upto(seqs, Len(seqs)))
  <1>1. PICK l \in Nat : l = Len(seqs)
    OBVIOUS
  <1>2. Grows(seqs, S)
    BY UptoIs
  <1>3. ASSUME NEW m \in 0..l PROVE Len(Upto(seqs, m)) \in Nat
    <2>1. Upto(seqs, m) \in Seq(S)
      BY <1>1, <1>2 DEF Grows
    <2> QED
      BY <2>1
  <1>4. PICK X : X = {k \in 0..(q - r) : Len(Upto(seqs, r)) <= Len(Upto(seqs, r + k))}
    OBVIOUS
  <1>5. r \in Nat /\ q \in 0..l /\ q - r \in Nat
    BY <1>1
  <1>6. 0 \in X
    BY <1>1, <1>3, <1>4, <1>5
  <1>7. ASSUME NEW k \in 1..(q - r), k - 1 \in X PROVE k \in X
    <2>1. r + k \in 1..l /\ (r + k) - 1 = r + (k - 1) /\ r + (k - 1) \in 0..l /\ r \in 0..l
      BY <1>1, <1>5
    <2>2. Len(seqs[r + k]) \in Nat /\ Len(Upto(seqs, r + k)) = Len(Upto(seqs, (r + k) - 1)) + Len(seqs[r + k])
      <3>1. r + k \in 1..Len(seqs)
        BY <1>1, <2>1
      <3> QED
        BY <3>1, PartsAre
    <2>3. PICK a \in Nat, b \in Nat : a = Len(Upto(seqs, r)) /\ b = Len(Upto(seqs, r + (k - 1)))
      BY <1>3, <2>1
    <2>4. a <= b
      BY <1>4, <1>7, <2>3
    <2>5. PICK c \in Nat : c = Len(seqs[r + k])
      BY <2>2
    <2>6. Len(Upto(seqs, r + k)) = b + c
      BY <2>1, <2>2, <2>3, <2>5
    <2>7. a <= b + c
      BY <2>4
    <2> QED
      BY <1>4, <2>3, <2>6, <2>7
  <1>8. q - r \in X
    <2>1. \A k \in 0..(q - r) : k \in X
      BY <1>5, <1>6, <1>7, TurnByTurn
    <2> QED
      BY <1>5, <2>1
  <1>9. Len(Upto(seqs, r)) <= Len(Upto(seqs, q))
    <2>1. r + (q - r) = q
      BY <1>5
    <2> QED
      BY <1>4, <1>8, <2>1
  <1>10. Len(FlattenSeq(seqs)) = Len(Upto(seqs, Len(seqs)))
    BY <1>2 DEF Grows
  <1> QED
    BY <1>1, <1>3, <1>5, <1>9, <1>10

\* The file as it is, with the marker of its last block if that is cut.
FileContent(n) ==
    /\ Content[n] \in Seq(Byte) /\ Layout[n].cut \in Nat
    /\ Holds(Content[n], 0, FlattenSeq(Recs(n)))
    /\ Len(Content[n]) = Len(Upto(Recs(n), Len(Records(n)))) - Layout[n].cut
    /\ Layout[n].cut # 0 =>
          /\ Len(Records(n)) # 0 /\ Records(n)[Len(Records(n))].block # NULL
          /\ Len(Upto(Recs(n), Len(Records(n)) - 1)) + Records(n)[Len(Records(n))].pad + 4
                <= Len(Content[n])

LEMMA FileIs == ASSUME NEW n \in FileName PROVE FileContent(n)
  <1>1. FileRecords(n)
    BY RecordsAre
  <1>2. PICK l \in Nat : l = Len(Records(n)) /\ l = Len(Recs(n)) /\ DOMAIN Records(n) = 1..l
    BY <1>1 DEF FileRecords
  <1>3. PICK s : s = FlattenSeq(Recs(n)) /\ s \in Seq(Byte)
    BY <1>1, FlattenBytes DEF FileRecords
  <1>4. PICK w \in Nat : w = Len(s)
    BY <1>3
  <1>5. w = Len(Upto(Recs(n), l))
    <2>1. 0 \in 0..Len(Recs(n)) /\ l \in 0..Len(Recs(n))
      BY <1>2
    <2> QED
      BY <1>1, <1>2, <1>3, <1>4, <2>1, UptoGrows DEF FileRecords
  <1>6. PICK cut \in Nat : cut = Layout[n].cut
    BY LayoutAssumption
  <1>7. /\ cut # 0 => l # 0 /\ Records(n)[l].block # NULL /\ cut + 4 <= Len(Stored(Records(n)[l]))
    <2>1. cut # 0 => /\ Records(n) # <<>> /\ Records(n)[l].block # NULL
                     /\ cut + 4 <= Len(StoredBlock(Records(n)[l].block))
      BY <1>2, <1>6, LayoutAssumption DEF Records
    <2>2. l = 0 => Records(n) = <<>>
      <3>1. Records(n) \in Seq({Records(n)[k] : k \in DOMAIN Records(n)})
        BY LayoutAssumption DEF Records, IsSequence
      <3> QED
        BY <1>2, <3>1, EmptySeq
    <2> QED
      BY <2>1, <2>2 DEF Stored
  <1>8. ASSUME cut # 0
        PROVE  /\ Len(Upto(Recs(n), l - 1)) \in Nat /\ Records(n)[l].pad \in Nat
               /\ Len(Upto(Recs(n), l - 1)) + Records(n)[l].pad + 4 <= w - cut
    <2>1. l \in 1..l
      BY <1>7, <1>8
    <2>2. IsRecord(Records(n)[l]) /\ Recs(n)[l] = StoredRecord(Records(n)[l])
      BY <1>1, <1>2, <2>1 DEF FileRecords
    <2>3. PICK p \in Nat : p = Records(n)[l].pad
      BY <2>2 DEF IsRecord
    <2>4. PICK b \in Nat : b = Len(Stored(Records(n)[l])) /\ Len(Recs(n)[l]) = p + b
      BY <2>2, <2>3, RecordIs DEF Bytes
    <2>5. Len(Upto(Recs(n), l - 1)) \in Nat /\ w = Len(Upto(Recs(n), l - 1)) + Len(Recs(n)[l])
      <3>1. l \in 1..Len(Recs(n))
        BY <1>2, <2>1
      <3> QED
        BY <1>1, <1>5, <3>1, PartsAre DEF FileRecords
    <2>6. PICK u \in Nat : u = Len(Upto(Recs(n), l - 1))
      BY <2>5
    <2>7. w = u + (p + b) /\ cut + 4 <= b
      BY <1>7, <1>8, <2>4, <2>5, <2>6
    <2>8. u + p + 4 <= w - cut
      BY <2>7
    <2> QED
      BY <2>3, <2>6, <2>8
  <1>9. cut <= w
    <2>1. CASE cut # 0
      <3>1. PICK u \in Nat, p \in Nat : u + p + 4 <= w - cut
        BY <1>8, <2>1
      <3> QED
        BY <3>1
    <2> QED
      BY <2>1
  <1>10. PICK e \in 0..w : e = w - cut
    BY <1>9
  <1>11. Content[n] = SubSeq(s, 1, e)
    BY <1>1, <1>3, <1>4, <1>6, <1>10 DEF Content, FileRecords
  <1>12. /\ SubSeq(s, 1, e) \in Seq(Byte) /\ Len(SubSeq(s, 1, e)) = e
         /\ \A k \in 1..e : SubSeq(s, 1, e)[k] = s[k]
    <2>1. SubSeq(s, 1, e) = [k \in 1..e |-> s[k]]
      BY <1>3, <1>4, <1>10
    <2>2. \A k \in 1..e : s[k] \in Byte
      BY <1>3, <1>4, <1>10
    <2>3. PICK c : c = SubSeq(s, 1, e)
      OBVIOUS
    <2>4. c \in [1..e -> Byte] /\ \A k \in 1..e : c[k] = s[k]
      BY <2>1, <2>2, <2>3
    <2>5. e \in Nat
      BY <1>10
    <2>6. c \in Seq(Byte) /\ Len(c) = e
      BY <2>4, <2>5, SequenceIs
    <2> QED
      BY <2>3, <2>4, <2>6
  <1>13. Holds(Content[n], 0, s)
    <2>1. ASSUME NEW k \in 1..w, 0 + k <= Len(Content[n]) PROVE Content[n][0 + k] = s[k]
      <3>1. k \in 1..e /\ 0 + k = k
        BY <1>11, <1>12, <2>1
      <3> QED
        BY <1>11, <1>12, <3>1
    <2> QED
      BY <1>4, <2>1 DEF Holds
  <1>14. Len(Content[n]) = w - cut
    BY <1>10, <1>11, <1>12
  <1> QED
    BY <1>2, <1>3, <1>5, <1>6, <1>7, <1>8, <1>11, <1>12, <1>13, <1>14 DEF FileContent

\* Each record at its place: zeroes, then a block if it has one.
RecordAt(n, k, u) ==
    /\ u = Len(Upto(Recs(n), k - 1)) /\ u \in Nat /\ Records(n)[k].pad \in Nat
    /\ IsRecord(Records(n)[k]) /\ Len(Stored(Records(n)[k])) \in Nat
    /\ Len(Upto(Recs(n), k)) = u + Records(n)[k].pad + Len(Stored(Records(n)[k]))
    /\ \A x \in 1..Records(n)[k].pad : u + x <= Len(Content[n]) => Content[n][u + x] = 0
    /\ Holds(Content[n], u + Records(n)[k].pad, Stored(Records(n)[k]))

LEMMA TheRecord ==
    ASSUME NEW n \in FileName, NEW k \in 1..Len(Records(n))
    PROVE  \E u : RecordAt(n, k, u)
  <1>1. FileRecords(n) /\ FileContent(n)
    BY RecordsAre, FileIs
  <1>2. PICK seqs : seqs = Recs(n) /\ seqs \in Seq(Seq(Byte)) /\ k \in 1..Len(seqs)
    BY <1>1 DEF FileRecords
  <1>3. PICK d \in Seq(Byte) : d = Content[n] /\ Holds(d, 0, FlattenSeq(seqs))
    BY <1>1, <1>2 DEF FileContent
  <1>4. PICK u \in Nat : u = Len(Upto(seqs, k - 1)) /\ Len(Upto(seqs, k)) = u + Len(seqs[k])
    BY <1>2, PartsAre
  <1>5. PICK r : r = Records(n)[k] /\ IsRecord(r) /\ seqs[k] = StoredRecord(r)
    BY <1>1, <1>2 DEF FileRecords
  <1>6. PICK p \in Nat : p = r.pad
    BY <1>5 DEF IsRecord
  <1>7. /\ Bytes(Zeroes(r), p) /\ \A z \in 1..p : Zeroes(r)[z] = 0
        /\ Stored(r) \in Seq(Byte) /\ Len(Stored(r)) \in Nat
        /\ StoredRecord(r) = Zeroes(r) \o Stored(r) /\ Len(StoredRecord(r)) = p + Len(Stored(r))
    BY <1>5, <1>6, RecordIs DEF Bytes
  <1>8. Holds(d, u, seqs[k])
    <2>1. 0 \in Nat /\ 0 + u = u
      OBVIOUS
    <2> QED
      BY <1>2, <1>3, <1>4, <2>1, HoldsPart
  <1>9. Holds(d, u, Zeroes(r)) /\ Holds(d, u + p, Stored(r))
    <2>1. Zeroes(r) \in Seq(Byte) /\ Len(Zeroes(r)) = p
      BY <1>7 DEF Bytes
    <2>2. Holds(d, u, Zeroes(r) \o Stored(r))
      BY <1>5, <1>7, <1>8
    <2> QED
      BY <1>7, <2>1, <2>2, HoldsBoth
  <1>10. \A x \in 1..p : u + x <= Len(d) => d[u + x] = 0
    <2>1. Len(Zeroes(r)) = p
      BY <1>7 DEF Bytes
    <2> QED
      BY <1>7, <1>9, <2>1 DEF Holds
  <1>11. Len(Upto(seqs, k)) = u + p + Len(Stored(r))
    <2>1. PICK b \in Nat : b = Len(Stored(r))
      BY <1>7
    <2>2. Len(Upto(seqs, k)) = u + (p + b)
      BY <1>4, <1>5, <1>7, <2>1
    <2> QED
      BY <2>1, <2>2
  <1>12. RecordAt(n, k, u)
    BY <1>2, <1>3, <1>4, <1>5, <1>6, <1>7, <1>9, <1>10, <1>11 DEF RecordAt
  <1> QED
    BY <1>12

\* Between two blocks there are only zeroes.
LEMMA Padding ==
    ASSUME NEW n \in FileName, NEW r \in 0..Len(Records(n)), NEW q \in r..Len(Records(n)),
           \A k \in (r + 1)..q : Records(n)[k].block = NULL,
           NEW x \in Nat, Len(Upto(Recs(n), r)) < x, x <= Len(Upto(Recs(n), q)), x <= Len(Content[n])
    PROVE  Content[n][x] = 0
  <1>1. PICK l \in Nat : l = Len(Records(n)) /\ l = Len(Recs(n))
    BY RecordsAre DEF FileRecords
  <1>2. r \in Nat /\ q \in 0..l /\ r <= q
    BY <1>1
  <1>3. PICK T : T = {m \in r..q : x <= Len(Upto(Recs(n), m))}
    OBVIOUS
  <1>4. q \in T /\ T \in SUBSET Nat
    BY <1>2, <1>3
  <1>5. PICK m \in T : \A k \in T : m <= k
    BY <1>4, LeastNatural
  <1>6. m \in r..q /\ x <= Len(Upto(Recs(n), m))
    BY <1>3, <1>5
  <1>7. Len(Upto(Recs(n), r)) \in Nat
    <2>1. r \in 0..Len(Recs(n)) /\ r \in r..Len(Recs(n))
      BY <1>1, <1>2
    <2> QED
      BY <2>1, RecordsAre, UptoGrows DEF FileRecords
  <1>8. m # r
    BY <1>6, <1>7
  <1>9. m - 1 \in r..q /\ m \in 1..Len(Records(n)) /\ m \in (r + 1)..q /\ ~(m <= m - 1)
    BY <1>1, <1>2, <1>6, <1>8
  <1>10. PICK u : RecordAt(n, m, u)
    BY <1>9, TheRecord
  <1>11. PICK p \in Nat : p = Records(n)[m].pad
    BY <1>10 DEF RecordAt
  <1>12. u \in Nat /\ u = Len(Upto(Recs(n), m - 1)) /\ Len(Upto(Recs(n), m)) = u + p
    <2>1. Len(Stored(Records(n)[m])) = 0
      BY <1>9 DEF Stored
    <2> QED
      BY <1>10, <1>11, <2>1 DEF RecordAt
  <1>13. u < x
    BY <1>3, <1>5, <1>9, <1>12
  <1>14. PICK y \in 1..p : x = u + y
    <2>1. x <= u + p /\ u < x /\ u \in Nat
      BY <1>6, <1>12, <1>13
    <2>2. x - u \in 1..p /\ x = u + (x - u)
      BY <2>1
    <2> QED
      BY <2>2
  <1> QED
    BY <1>10, <1>11, <1>14 DEF RecordAt

\* A marker is not zero.
LEMMA MarkersAre ==
    ASSUME NEW d \in Seq(Byte), NEW o \in Nat
    PROVE  /\ \A k \in FirstMarker(d, o) : k \in o..(Len(d) - 4) /\ d[k + 1] # 0
           /\ \A k \in o..(Len(d) - 4) :
                 Holds(d, k, Marker) /\ (\A j \in o..(k - 1) : d[j + 1] = 0) => FirstMarker(d, o) = {k}
  <1>1. PICK l \in Nat : l = Len(d)
    OBVIOUS
  <1>2. PICK M : M = {k \in o..(l - 4) : d[k + 1] = Marker[1] /\ Slice(d, k, 4) = Marker}
    OBVIOUS
  <1>3. FirstMarker(d, o) = {k \in M : k = Min(M)}
    BY <1>1, <1>2 DEF FirstMarker
  <1>4. Marker[1] # 0
    BY MarkerAssumption
  <1>5. \A k \in M : k \in o..(l - 4) /\ d[k + 1] # 0
    BY <1>2, <1>4
  <1>6. ASSUME NEW k \in o..(l - 4), Holds(d, k, Marker), \A j \in o..(k - 1) : d[j + 1] = 0
        PROVE  FirstMarker(d, o) = {k}
    <2>1. Len(Marker) = 4 /\ Marker \in Seq(Byte) /\ k \in Nat /\ k + 4 <= l
      BY MarkerIs DEF Bytes
    <2>2. Slice(d, k, 4) = Marker
      BY <1>1, <1>6, <2>1, HoldsSlice
    <2>3. d[k + 1] = Marker[1]
      <3>1. 1 \in 1..Len(Marker) /\ k + 1 <= Len(d)
        BY <1>1, <2>1
      <3> QED
        BY <1>6, <3>1 DEF Holds
    <2>4. k \in M
      BY <1>2, <2>2, <2>3
    <2>5. \A j \in M : k <= j
      <3> SUFFICES ASSUME NEW j \in M, ~(k <= j) PROVE FALSE
        OBVIOUS
      <3>1. j \in o..(k - 1)
        BY <1>5
      <3> QED
        BY <1>5, <1>6, <3>1
    <2>6. Min(M) = k
      <3>1. \A i \in M : (\A j \in M : i <= j) => i = k
        BY <1>5, <2>4, <2>5
      <3> QED
        BY <2>4, <2>5, <3>1 DEF Min
    <2> QED
      BY <1>3, <2>4, <2>6
  <1> QED
    BY <1>1, <1>3, <1>5, <1>6

\* Where no block is left the scan finds no marker.
LEMMA NoMarker ==
    ASSUME NEW n \in FileName, NEW r \in 0..Len(Records(n)),
           \A k \in (r + 1)..Len(Records(n)) : Records(n)[k].block = NULL
    PROVE  FirstMarker(Content[n], Len(Upto(Recs(n), r))) = {}
  <1>1. FileRecords(n) /\ FileContent(n)
    BY RecordsAre, FileIs
  <1>2. PICK l \in Nat : l = Len(Records(n)) /\ l = Len(Recs(n)) /\ Recs(n) \in Seq(Seq(Byte))
    BY <1>1 DEF FileRecords
  <1>3. PICK o \in Nat : o = Len(Upto(Recs(n), r))
    <2>1. r \in 0..Len(Recs(n)) /\ r \in r..Len(Recs(n))
      BY <1>2
    <2> QED
      BY <1>2, <2>1, UptoGrows
  <1>4. PICK w \in Nat : w = Len(Upto(Recs(n), l))
    <2>1. l \in 0..Len(Recs(n)) /\ l \in l..Len(Recs(n))
      BY <1>2
    <2> QED
      BY <1>2, <2>1, UptoGrows
  <1>5. PICK d \in Seq(Byte) : d = Content[n] /\ Len(d) <= w
    BY <1>1, <1>2, <1>4 DEF FileContent
  <1>6. SUFFICES ASSUME NEW k \in FirstMarker(d, o) PROVE FALSE
    BY <1>3, <1>5
  <1>7. k \in o..(Len(d) - 4) /\ d[k + 1] # 0
    BY <1>6, MarkersAre
  <1>8. k + 1 \in Nat /\ o < k + 1 /\ k + 1 <= Len(d) /\ k + 1 <= w
    BY <1>5, <1>7
  <1>9. l \in r..Len(Records(n))
    BY <1>2
  <1>10. d[k + 1] = 0
    BY <1>2, <1>3, <1>4, <1>5, <1>8, <1>9, Padding
  <1> QED
    BY <1>7, <1>10

\* The next block is where the scan finds the next marker.
BlockThere(n, q, o, b) ==
    /\ b = Records(n)[q].block /\ IsBlock(b) /\ o \in Nat
    /\ Holds(Content[n], o, StoredBlock(b)) /\ o + 4 <= Len(Content[n])
    /\ Len(StoredBlock(b)) \in Nat /\ o + Len(StoredBlock(b)) = Len(Upto(Recs(n), q))
    /\ Complete(n) => o + Len(StoredBlock(b)) <= Len(Content[n])

LEMMA BlockIsThere ==
    ASSUME NEW n \in FileName, NEW q \in 1..Len(Records(n)), Records(n)[q].block # NULL,
           NEW u, RecordAt(n, q, u)
    PROVE  BlockThere(n, q, u + Records(n)[q].pad, Records(n)[q].block)
  <1>1. FileRecords(n) /\ FileContent(n)
    BY RecordsAre, FileIs
  <1>2. PICK l \in Nat : l = Len(Records(n)) /\ l = Len(Recs(n)) /\ Recs(n) \in Seq(Seq(Byte))
    BY <1>1 DEF FileRecords
  <1>3. PICK b : b = Records(n)[q].block /\ Stored(Records(n)[q]) = StoredBlock(b) /\ IsBlock(b)
    BY DEF RecordAt, IsRecord, Stored
  <1>4. PICK p \in Nat : p = Records(n)[q].pad
    BY DEF RecordAt
  <1>5. PICK s \in Nat : s = Len(StoredBlock(b)) /\ s >= 4
    <2>1. PICK c, k : BlockParts(b, c, k)
      BY <1>3, PartsOfBlock
    <2>2. c \in Nat /\ k \in Nat /\ Len(StoredBlock(b)) = 88 + c + k
      BY <2>1 DEF BlockParts, Bytes
    <2> QED
      BY <2>2
  <1>6. PICK o \in Nat : o = u + p
    BY DEF RecordAt
  <1>7. Holds(Content[n], o, StoredBlock(b)) /\ Len(Upto(Recs(n), q)) = o + s
    BY <1>3, <1>4, <1>5, <1>6 DEF RecordAt
  <1>8. PICK w \in Nat : w = Len(Upto(Recs(n), l)) /\ o + s <= w
    <2>1. q \in 0..Len(Recs(n)) /\ l \in q..Len(Recs(n))
      BY <1>2
    <2> QED
      BY <1>2, <1>7, <2>1, UptoGrows
  <1>9. PICK e \in Nat, cut \in Nat : e = Len(Content[n]) /\ cut = Layout[n].cut /\ e = w - cut
    <2>1. Len(Content[n]) \in Nat
      BY <1>1 DEF FileContent
    <2> QED
      BY <1>1, <1>2, <1>8, <2>1 DEF FileContent
  <1>10. Complete(n) => o + s <= e
    BY <1>8, <1>9 DEF Complete
  <1>11. o + 4 <= e
    <2>1. CASE cut = 0
      BY <1>5, <1>8, <1>9, <2>1
    <2>2. CASE cut # 0 /\ q = l
      <3>1. Len(Upto(Recs(n), l - 1)) + Records(n)[l].pad + 4 <= e
        BY <1>1, <1>2, <1>9, <2>2 DEF FileContent
      <3> QED
        BY <1>4, <1>6, <2>2, <3>1 DEF RecordAt
    <2>3. CASE cut # 0 /\ q # l
      <3>1. PICK v \in Nat : v = Len(Upto(Recs(n), l - 1)) /\ o + s <= v
        <4>1. q \in 0..Len(Recs(n)) /\ l - 1 \in q..Len(Recs(n))
          BY <1>2, <2>3
        <4> QED
          BY <1>2, <1>7, <4>1, UptoGrows, ZenonT(60)
      <3>2. PICK y \in Nat : y = Records(n)[l].pad
        <4>1. l \in 1..Len(Records(n))
          BY <1>2, <2>3
        <4> QED
          BY <1>1, <4>1 DEF FileRecords, IsRecord
      <3>3. v + y + 4 <= e
        BY <1>1, <1>2, <1>9, <2>3, <3>1, <3>2 DEF FileContent
      <3> QED
        BY <1>5, <3>1, <3>3
    <2> QED
      BY <2>1, <2>2, <2>3
  <1> QED
    BY <1>3, <1>4, <1>5, <1>6, <1>7, <1>9, <1>10, <1>11 DEF BlockThere

LEMMA NextMarker ==
    ASSUME NEW n \in FileName, NEW r \in 0..Len(Records(n)), NEW q \in (r + 1)..Len(Records(n)),
           Records(n)[q].block # NULL,
           \A k \in (r + 1)..(q - 1) : Records(n)[k].block = NULL
    PROVE  \E o : /\ FirstMarker(Content[n], Len(Upto(Recs(n), r))) = {o}
                  /\ BlockThere(n, q, o, Records(n)[q].block)
  <1>1. FileRecords(n) /\ FileContent(n)
    BY RecordsAre, FileIs
  <1>2. PICK l \in Nat : l = Len(Records(n)) /\ l = Len(Recs(n)) /\ Recs(n) \in Seq(Seq(Byte))
    BY <1>1 DEF FileRecords
  <1>3. q \in 1..Len(Records(n)) /\ q - 1 \in r..Len(Records(n)) /\ r \in 0..Len(Recs(n))
    BY <1>2
  <1>4. PICK u \in Nat : RecordAt(n, q, u)
    <2>1. PICK u : RecordAt(n, q, u)
      BY <1>3, TheRecord
    <2> QED
      BY <2>1 DEF RecordAt
  <1>5. PICK p \in Nat : p = Records(n)[q].pad
    BY <1>4 DEF RecordAt
  <1>6. PICK o \in Nat : o = u + p
    OBVIOUS
  <1>7. BlockThere(n, q, o, Records(n)[q].block)
    BY <1>3, <1>4, <1>5, <1>6, BlockIsThere
  <1>8. PICK a \in Nat : a = Len(Upto(Recs(n), r)) /\ a <= u
    <2>1. q - 1 \in r..Len(Recs(n)) /\ u = Len(Upto(Recs(n), q - 1))
      BY <1>2, <1>3, <1>4 DEF RecordAt
    <2> QED
      BY <1>2, <1>3, <2>1, UptoGrows
  <1>9. PICK d \in Seq(Byte) : d = Content[n]
    BY <1>1 DEF FileContent
  <1>10. o \in a..(Len(d) - 4)
    <2>1. o + 4 <= Len(d) /\ Len(d) \in Nat
      BY <1>7, <1>9 DEF BlockThere
    <2> QED
      BY <1>6, <1>8, <2>1
  <1>11. Holds(d, o, Marker)
    <2>1. PICK b : b = Records(n)[q].block /\ IsBlock(b) /\ Holds(d, o, StoredBlock(b))
      BY <1>7, <1>9 DEF BlockThere
    <2>2. PICK c, k : BlockParts(b, c, k)
      BY <2>1, PartsOfBlock
    <2> QED
      BY <2>1, <2>2, BlockIsHeld DEF BlockHeld
  <1>12. ASSUME NEW j \in a..(o - 1) PROVE d[j + 1] = 0
    <2>1. j \in Nat /\ j + 1 <= o /\ o + 4 <= Len(d) /\ Len(d) \in Nat
      BY <1>10, <1>12
    <2>2. CASE j + 1 <= u
      <3>1. /\ j + 1 \in Nat /\ Len(Upto(Recs(n), r)) < j + 1 /\ j + 1 <= Len(Upto(Recs(n), q - 1))
            /\ j + 1 <= Len(Content[n])
        <4>1. u = Len(Upto(Recs(n), q - 1))
          BY <1>4 DEF RecordAt
        <4>2. a < j + 1 /\ j + 1 <= Len(d)
          BY <1>12, <2>1
        <4> QED
          BY <1>8, <1>9, <2>1, <2>2, <4>1, <4>2
      <3> QED
        BY <1>3, <1>9, <3>1, Padding
    <2>3. CASE j + 1 > u
      <3>1. PICK y \in 1..p : j + 1 = u + y /\ u + y <= Len(d)
        <4>1. (j + 1) - u \in 1..p /\ j + 1 = u + ((j + 1) - u) /\ j + 1 <= Len(d)
          BY <1>6, <2>1, <2>3
        <4> QED
          BY <4>1
      <3> QED
        BY <1>4, <1>5, <1>9, <3>1 DEF RecordAt
    <2> QED
      BY <2>1, <2>2, <2>3
  <1>13. FirstMarker(d, a) = {o}
    BY <1>10, <1>11, <1>12, MarkersAre
  <1> QED
    BY <1>7, <1>8, <1>9, <1>13

-----------------------------------------------------------------------------
(***************************************************************************)
(* The stored blocks, one file after the other.                            *)
(***************************************************************************)

Block == UNION {{Records(n)[k].block : k \in DOMAIN Records(n)} : n \in FileName}
Per(n) == [k \in DOMAIN Records(n) |-> OneOrNone(Records(n)[k].block)]
PerFile == [k \in DOMAIN names |-> IF names[k] = NULL THEN <<>> ELSE Blocks(names[k])]

FileBlocks(n) ==
    /\ Per(n) \in Seq(Seq(Block)) /\ Len(Per(n)) = Len(Records(n)) /\ Len(Records(n)) \in Nat
    /\ \A k \in 1..Len(Records(n)) : Per(n)[k] = OneOrNone(Records(n)[k].block)
    /\ Blocks(n) = FlattenSeq(Per(n)) /\ Blocks(n) \in Seq(Block)

LEMMA BlocksAre == ASSUME NEW n \in FileName PROVE FileBlocks(n)
  <1>1. PICK l \in Nat : l = Len(Records(n)) /\ DOMAIN Records(n) = 1..l
    BY RecordsAre DEF FileRecords
  <1>2. ASSUME NEW k \in 1..l PROVE OneOrNone(Records(n)[k].block) \in Seq(Block)
    <2>1. Records(n)[k].block \in Block
      BY <1>1 DEF Block
    <2> QED
      BY <2>1 DEF OneOrNone
  <1>3. Per(n) \in [1..l -> Seq(Block)] /\ \A k \in 1..l : Per(n)[k] = OneOrNone(Records(n)[k].block)
    BY <1>1, <1>2 DEF Per
  <1>4. Per(n) \in Seq(Seq(Block)) /\ Len(Per(n)) = l
    BY <1>3, SequenceIs
  <1>5. Blocks(n) = FlattenSeq(Per(n))
    BY Zenon DEF Blocks, Per, Records
  <1>6. FlattenSeq(Per(n)) \in Seq(Block)
    <2>1. Grows(Per(n), Block) /\ l \in 0..l
      BY <1>4, UptoIs
    <2> QED
      BY <1>4, <2>1 DEF Grows
  <1> QED
    BY <1>1, <1>3, <1>4, <1>5, <1>6 DEF FileBlocks

ListedBlocks ==
    /\ PerFile \in Seq(Seq(Block)) /\ Len(PerFile) = Len(names) /\ Len(names) \in Nat
    /\ \A k \in 1..Len(names) : PerFile[k] = IF names[k] = NULL THEN <<>> ELSE Blocks(names[k])
    /\ StoredBlocks = FlattenSeq(PerFile)

LEMMA StoredBlocksAre == ASSUME TypeOK PROVE ListedBlocks
  <1>1. PICK l \in Nat : l = Len(names) /\ DOMAIN names = 1..l /\ \A k \in 1..l : names[k] \in NameOrNull
    BY DEF TypeOK
  <1>2. ASSUME NEW k \in 1..l PROVE (IF names[k] = NULL THEN <<>> ELSE Blocks(names[k])) \in Seq(Block)
    <2>1. CASE names[k] = NULL
      BY <2>1
    <2>2. CASE names[k] # NULL
      <3>1. names[k] \in FileName
        BY <1>1, <2>2 DEF NameOrNull
      <3> QED
        BY <2>2, <3>1, BlocksAre DEF FileBlocks
    <2> QED
      BY <2>1, <2>2
  <1>3. /\ PerFile \in [1..l -> Seq(Block)]
        /\ \A k \in 1..l : PerFile[k] = IF names[k] = NULL THEN <<>> ELSE Blocks(names[k])
    BY <1>1, <1>2 DEF PerFile
  <1>4. PerFile \in Seq(Seq(Block)) /\ Len(PerFile) = l
    BY <1>3, SequenceIs
  <1>5. StoredBlocks = FlattenSeq(PerFile)
    BY Zenon DEF StoredBlocks, PerFile
  <1> QED
    BY <1>1, <1>3, <1>4, <1>5 DEF ListedBlocks

\* Records without a block add none.
LEMMA NoneBetween ==
    ASSUME NEW n \in FileName, NEW r \in 0..Len(Records(n)), NEW q \in r..Len(Records(n)),
           \A k \in (r + 1)..q : Records(n)[k].block = NULL
    PROVE  Len(Upto(Per(n), q)) = Len(Upto(Per(n), r)) /\ Len(Upto(Per(n), r)) \in Nat
  <1>1. PICK l \in Nat : l = Len(Records(n)) /\ l = Len(Per(n)) /\ Per(n) \in Seq(Seq(Block))
    BY BlocksAre DEF FileBlocks
  <1>2. PICK X : X = {k \in 0..(q - r) : Len(Upto(Per(n), r + k)) = Len(Upto(Per(n), r))}
    OBVIOUS
  <1>3. r \in Nat /\ q - r \in Nat /\ r + 0 = r /\ r + (q - r) = q
    BY <1>1
  <1>4. 0 \in X
    BY <1>2, <1>3
  <1>5. ASSUME NEW k \in 1..(q - r), k - 1 \in X PROVE k \in X
    <2>1. r + k \in (r + 1)..q /\ r + k \in 1..Len(Per(n)) /\ (r + k) - 1 = r + (k - 1) /\ k \in 0..(q - r)
      BY <1>1, <1>3
    <2>2. /\ Len(Upto(Per(n), (r + k) - 1)) \in Nat
          /\ Len(Upto(Per(n), r + k)) = Len(Upto(Per(n), (r + k) - 1)) + Len(Per(n)[r + k])
      BY <1>1, <2>1, PartsAre
    <2>3. Per(n)[r + k] = <<>>
      BY <1>1, <2>1, BlocksAre DEF FileBlocks, OneOrNone
    <2>4. Len(Upto(Per(n), r + k)) = Len(Upto(Per(n), (r + k) - 1))
      BY <2>2, <2>3
    <2> QED
      BY <1>2, <1>5, <2>1, <2>4
  <1>6. q - r \in X
    <2>1. \A k \in 0..(q - r) : k \in X
      BY <1>3, <1>4, <1>5, TurnByTurn
    <2> QED
      BY <1>3, <2>1
  <1>7. Len(Upto(Per(n), r)) \in Nat
    <2>1. r \in 0..Len(Per(n)) /\ r \in r..Len(Per(n))
      BY <1>1, <1>3
    <2> QED
      BY <1>1, <2>1, UptoGrows
  <1> QED
    BY <1>2, <1>3, <1>6, <1>7

\* The number of blocks before record r + 1 of the file k.
Before(k, n, r) == Len(Upto(PerFile, k - 1)) + Len(Upto(Per(n), r))

LEMMA NextStored ==
    ASSUME TypeOK, NEW k \in 1..Len(names), NEW n \in FileName, n = names[k],
           NEW r \in 0..Len(Records(n)), NEW q \in (r + 1)..Len(Records(n)), Records(n)[q].block # NULL,
           \A m \in (r + 1)..(q - 1) : Records(n)[m].block = NULL
    PROVE  /\ StoredBlocks[Before(k, n, r) + 1] = Records(n)[q].block
           /\ Before(k, n, q) = Before(k, n, r) + 1 /\ Before(k, n, r) \in Nat
  <1>1. ListedBlocks /\ FileBlocks(n)
    BY StoredBlocksAre, BlocksAre
  <1>2. PICK l \in Nat : l = Len(Records(n)) /\ l = Len(Per(n)) /\ Per(n) \in Seq(Seq(Block))
    BY <1>1 DEF FileBlocks
  <1>3. q \in 1..Len(Per(n)) /\ q - 1 \in r..Len(Records(n)) /\ q \in 1..Len(Records(n))
    BY <1>2
  <1>4. PICK a \in Nat : a = Len(Upto(Per(n), r)) /\ a = Len(Upto(Per(n), q - 1))
    BY <1>3, NoneBetween
  <1>5. PICK b : b = Records(n)[q].block /\ Per(n)[q] = <<b>>
    BY <1>1, <1>3 DEF FileBlocks, OneOrNone
  <1>6. Len(<<b>>) = 1 /\ <<b>>[1] = b /\ 1 \in 1..1
    OBVIOUS
  <1>7. /\ Len(Upto(Per(n), q)) = a + 1 /\ a + 1 <= Len(Blocks(n))
        /\ Blocks(n)[a + 1] = b
    <2>1. \A j \in 1..Len(Per(n)[q]) : FlattenSeq(Per(n))[Len(Upto(Per(n), q - 1)) + j] = Per(n)[q][j]
      <3>1. PICK seqs : seqs = Per(n)
        OBVIOUS
      <3>2. seqs \in Seq(Seq(Block)) /\ q \in 1..Len(seqs)
        BY <1>2, <1>3, <3>1
      <3>3. \A j \in 1..Len(seqs[q]) : FlattenSeq(seqs)[Len(Upto(seqs, q - 1)) + j] = seqs[q][j]
        BY <3>2, PartsAre
      <3> QED
        BY <3>1, <3>3, Zenon
    <2>2. /\ Len(Upto(Per(n), q)) = Len(Upto(Per(n), q - 1)) + Len(Per(n)[q])
          /\ Len(Upto(Per(n), q)) <= Len(FlattenSeq(Per(n)))
      BY <1>2, <1>3, PartsAre
    <2>3. Len(Upto(Per(n), q)) = a + 1 /\ FlattenSeq(Per(n))[a + 1] = b
      BY <1>4, <1>5, <1>6, <2>1, <2>2
    <2> QED
      BY <1>1, <2>2, <2>3 DEF FileBlocks
  <1>8. PerFile \in Seq(Seq(Block)) /\ k \in 1..Len(PerFile) /\ PerFile[k] = Blocks(n)
    <2>1. n # NULL
      BY FilesAssumption
    <2> QED
      BY <1>1, <2>1 DEF ListedBlocks
  <1>9. PICK c \in Nat : c = Len(Upto(PerFile, k - 1))
    BY <1>8, PartsAre
  <1>10. FlattenSeq(PerFile)[c + (a + 1)] = b
    <2>1. a + 1 \in 1..Len(PerFile[k])
      <3>1. Len(Blocks(n)) \in Nat
        BY <1>1 DEF FileBlocks
      <3> QED
        BY <1>7, <1>8, <3>1
    <2>2. \A j \in 1..Len(PerFile[k]) :
             FlattenSeq(PerFile)[Len(Upto(PerFile, k - 1)) + j] = PerFile[k][j]
      BY <1>8, PartsAre
    <2>3. FlattenSeq(PerFile)[c + (a + 1)] = PerFile[k][a + 1]
      BY <1>9, <2>1, <2>2
    <2> QED
      BY <1>7, <1>8, <2>3
  <1>11. c + (a + 1) = (c + a) + 1
    OBVIOUS
  <1>12. Before(k, n, r) = c + a /\ Before(k, n, q) = (c + a) + 1
    BY <1>4, <1>7, <1>9, <1>11 DEF Before
  <1> QED
    BY <1>1, <1>5, <1>10, <1>11, <1>12 DEF ListedBlocks

LEMMA FileStored ==
    ASSUME TypeOK, NEW k \in 1..Len(names), NEW n \in FileName, n = names[k],
           NEW r \in 0..Len(Records(n)),
           \A m \in (r + 1)..Len(Records(n)) : Records(n)[m].block = NULL
    PROVE  Before(k, n, r) = Len(Upto(PerFile, k))
  <1>1. ListedBlocks /\ FileBlocks(n)
    BY StoredBlocksAre, BlocksAre
  <1>2. PICK l \in Nat : l = Len(Records(n)) /\ l = Len(Per(n)) /\ Per(n) \in Seq(Seq(Block))
    BY <1>1 DEF FileBlocks
  <1>3. Len(Upto(Per(n), r)) = Len(Upto(Per(n), l))
    <2>1. l \in r..Len(Records(n))
      BY <1>2
    <2> QED
      BY <1>2, <2>1, NoneBetween
  <1>4. Upto(Per(n), l) = Blocks(n)
    <2>1. Grows(Per(n), Block)
      BY <1>2, UptoIs
    <2> QED
      BY <1>1, <1>2, <2>1 DEF Grows, FileBlocks
  <1>5. PerFile \in Seq(Seq(Block)) /\ k \in 1..Len(PerFile) /\ PerFile[k] = Blocks(n)
    <2>1. n # NULL
      BY FilesAssumption
    <2> QED
      BY <1>1, <2>1 DEF ListedBlocks
  <1>6. Len(Upto(PerFile, k)) = Len(Upto(PerFile, k - 1)) + Len(PerFile[k])
    BY <1>5, PartsAre
  <1> QED
    BY <1>3, <1>4, <1>5, <1>6 DEF Before

-----------------------------------------------------------------------------
(***************************************************************************)
(* The scan.                                                               *)
(***************************************************************************)

\* x is what the scan has made of the block b of the file n.
FoundAs(x, b, n) ==
    /\ IsBlock(b)
    /\ DumpBlockHeader(x.bh) = StoredHeader(b) /\ x.id = Sha256d(StoredHeader(b))
    /\ x.bh.transaction_count = Len(b.txs)
    /\ x.pos \in Nat /\ x.pos <= Len(Content[n]) /\ Holds(Content[n], x.pos, FlattenSeq(Sers(b)))
    /\ Complete(n) => x.pos + Len(FlattenSeq(Sers(b))) <= Len(Content[n])

\* The scan is between two records of the file k, at o, and c blocks have been found.
Progress(k, o, c) ==
    /\ k <= Len(names) + 1
    /\ k <= Len(names) /\ names[k] # NULL =>
          \E r \in 0..Len(Records(names[k])) :
             o = Len(Upto(Recs(names[k]), r)) /\ c = Before(k, names[k], r)
    /\ (k <= Len(names) => names[k] = NULL) => c = Len(Upto(PerFile, k - 1))

AllFound == \A k \in 1..Len(found) : FoundAs(found[k], StoredBlocks[k], names[found[k].filenum])

ScanInv ==
    /\ disk = Content
    /\ pc = "list" => file = 1 /\ off = 0
    /\ pc # "past" => AllFound
    /\ pc = "scan" => Progress(file, off, Len(found))
    /\ pc \in {"iterate", "block", "full", "done"} => Len(found) = Len(StoredBlocks)
    /\ pc = "past" => \E n \in dir : ~Complete(n)

LEMMA StartOfFile ==
    ASSUME TypeOK, NEW k \in Nat \ {0}, k <= Len(names) + 1, NEW c, c = Len(Upto(PerFile, k - 1))
    PROVE  Progress(k, 0, c)
  <1>1. ASSUME k <= Len(names), names[k] # NULL
        PROVE  \E r \in 0..Len(Records(names[k])) :
                  0 = Len(Upto(Recs(names[k]), r)) /\ c = Before(k, names[k], r)
    <2>1. PICK n \in FileName : n = names[k]
      BY <1>1 DEF TypeOK, NameOrNull
    <2>2. FileRecords(n) /\ FileBlocks(n)
      BY RecordsAre, BlocksAre
    <2>3. Len(Upto(Recs(n), 0)) = 0
      BY <2>2, FirstPart DEF FileRecords
    <2>4. Len(Upto(Per(n), 0)) = 0
      <3>1. Grows(Per(n), Block)
        BY <2>2, UptoIs DEF FileBlocks
      <3> QED
        BY <3>1 DEF Grows
    <2>5. c \in Nat
      <3>1. k \in 1..Len(PerFile) /\ PerFile \in Seq(Seq(Block))
        BY <1>1, StoredBlocksAre DEF ListedBlocks
      <3> QED
        BY <3>1, PartsAre
    <2>6. c = Before(k, n, 0)
      BY <2>4, <2>5 DEF Before
    <2>7. 0 \in 0..Len(Records(n))
      BY <2>2 DEF FileRecords
    <2> QED
      BY <2>1, <2>3, <2>6, <2>7
  <1> QED
    BY <1>1 DEF Progress

\* The next block of a file, if there is one.
LEMMA NextOrNone ==
    ASSUME NEW n \in FileName, NEW r \in 0..Len(Records(n))
    PROVE  \/ \A k \in (r + 1)..Len(Records(n)) : Records(n)[k].block = NULL
           \/ \E q \in (r + 1)..Len(Records(n)) :
                 /\ Records(n)[q].block # NULL
                 /\ \A k \in (r + 1)..(q - 1) : Records(n)[k].block = NULL
  <1>1. PICK l \in Nat : l = Len(Records(n))
    BY RecordsAre DEF FileRecords
  <1>2. PICK T : T = {k \in (r + 1)..l : Records(n)[k].block # NULL}
    OBVIOUS
  <1>3. T \in SUBSET Nat
    BY <1>1, <1>2
  <1>4. CASE T # {}
    <2>1. PICK q \in T : \A k \in T : q <= k
      BY <1>3, <1>4, LeastNatural
    <2>2. q \in (r + 1)..l /\ Records(n)[q].block # NULL
      BY <1>2, <2>1
    <2>3. ASSUME NEW k \in (r + 1)..(q - 1) PROVE Records(n)[k].block = NULL
      <3>1. k \in (r + 1)..l /\ ~(q <= k)
        BY <1>1, <2>2
      <3> QED
        BY <1>2, <2>1, <3>1
    <2> QED
      BY <1>1, <2>2, <2>3
  <1> QED
    BY <1>1, <1>2, <1>4

\* After the scan the blocks found stay as they are.
LEMMA ScanInvElsewhere ==
    ASSUME ScanInv, pc \in {"iterate", "block"}, pc' \in {"iterate", "block", "full", "done"},
           UNCHANGED <<names, disk, found, dir>>
    PROVE  ScanInv'
  <1>1. StoredBlocks' = StoredBlocks
    BY DEF StoredBlocks
  <1>2. AllFound'
    BY <1>1 DEF ScanInv, AllFound
  <1> QED
    BY <1>1, <1>2 DEF ScanInv

LEMMA ScanInvListing ==
    ASSUME IInv, ScanInv, ListEntry \/ ListDone
    PROVE  ScanInv'
  <1>1. /\ pc = "list" /\ TypeOK /\ found = <<>> /\ disk = Content /\ file = 1 /\ off = 0
        /\ pc' \in {"list", "duplicate", "scan"} /\ UNCHANGED <<found, disk, file, off>>
    BY DEF ListEntry, ListDone, IInv, FoundInv, ScanInv, fileVars, parseVars
  <1>2. AllFound'
    BY <1>1 DEF AllFound
  <1>3. CASE pc' # "scan"
    BY <1>1, <1>2, <1>3 DEF ScanInv
  <1>4. CASE pc' = "scan"
    <2>1. names' = names
      BY <1>1, <1>4 DEF ListEntry, ListDone
    <2>2. Len(Upto(PerFile, 1 - 1)) = 0
      <3>1. Grows(PerFile, Block)
        BY <1>1, StoredBlocksAre, UptoIs DEF ListedBlocks
      <3> QED
        BY <3>1 DEF Grows
    <2>3. Progress(1, 0, 0)
      <3>1. 1 \in Nat \ {0} /\ 1 <= Len(names) + 1
        BY <1>1, StoredBlocksAre DEF ListedBlocks
      <3> QED
        BY <1>1, <2>2, <3>1, StartOfFile
    <2>4. PerFile' = PerFile
      BY <2>1 DEF PerFile
    <2>5. Progress(1, 0, 0)'
      BY <2>1, <2>3, <2>4 DEF Progress, Before
    <2>6. file' = 1 /\ off' = 0 /\ Len(found') = 0
      BY <1>1
    <2>7. Progress(file, off, Len(found))'
      BY <2>5, <2>6, Zenon
    <2> QED
      BY <1>1, <1>2, <1>4, <2>7 DEF ScanInv
  <1> QED
    BY <1>3, <1>4

\* The scan of one file is over.
LEMMA ToTheNextFile ==
    ASSUME IInv, ScanInv, pc = "scan", file \in 1..Len(names),
           Len(found) = Len(Upto(PerFile, file)),
           UNCHANGED <<names, disk, found, dir, pc>>, NextFile
    PROVE  ScanInv'
  <1>1. file' = file + 1 /\ off' = 0 /\ (file + 1) - 1 = file /\ TypeOK
    BY DEF NextFile, IInv, TypeOK
  <1>2. Progress(file + 1, 0, Len(found))
    <2>1. file + 1 \in Nat \ {0} /\ file + 1 <= Len(names) + 1
      BY <1>1, StoredBlocksAre DEF ListedBlocks
    <2> QED
      BY <1>1, <2>1, StartOfFile
  <1>3. PerFile' = PerFile /\ StoredBlocks' = StoredBlocks
    BY DEF PerFile, StoredBlocks
  <1>4. Progress(file, off, Len(found))'
    BY <1>1, <1>2, <1>3 DEF Progress, Before
  <1>5. AllFound'
    BY <1>3 DEF ScanInv, AllFound
  <1> QED
    BY <1>4, <1>5 DEF ScanInv

LEMMA ScanInvSkip == ASSUME IInv, ScanInv, SkipHole PROVE ScanInv'
  <1>1. /\ pc = "scan" /\ file <= Len(names) /\ names[file] = NULL /\ NextFile
        /\ UNCHANGED <<names, disk, found, dir, pc>>
    BY DEF SkipHole, fileVars
  <1>2. file \in 1..Len(names) /\ ListedBlocks
    BY <1>1, StoredBlocksAre DEF IInv, TypeOK, ListedBlocks
  <1>3. PerFile \in Seq(Seq(Block)) /\ file \in 1..Len(PerFile) /\ PerFile[file] = <<>>
    BY <1>1, <1>2 DEF ListedBlocks
  <1>4. PICK c \in Nat : c = Len(Upto(PerFile, file - 1)) /\ Len(Upto(PerFile, file)) = c + Len(PerFile[file])
    BY <1>3, PartsAre
  <1>5. Len(Upto(PerFile, file)) = c
    BY <1>3, <1>4
  <1>6. Len(found) = c
    BY <1>1, <1>4 DEF ScanInv, Progress
  <1> QED
    BY <1>1, <1>2, <1>5, <1>6, ToTheNextFile

LEMMA ScanInvDone == ASSUME IInv, ScanInv, ScanDone PROVE ScanInv'
  <1>1. /\ pc = "scan" /\ file > Len(names) /\ pc' = "iterate"
        /\ UNCHANGED <<names, disk, found, dir>>
    BY DEF ScanDone, fileVars
  <1>2. ListedBlocks /\ file \in Nat \ {0}
    BY StoredBlocksAre DEF IInv, TypeOK
  <1>3. PICK l \in Nat : l = Len(names) /\ l = Len(PerFile) /\ PerFile \in Seq(Seq(Block))
    BY <1>2 DEF ListedBlocks
  <1>4. file = l + 1 /\ Len(found) = Len(Upto(PerFile, file - 1))
    BY <1>1, <1>2, <1>3 DEF ScanInv, Progress
  <1>5. Len(found) = Len(StoredBlocks)
    <2>1. Grows(PerFile, Block) /\ file - 1 = l
      BY <1>3, <1>4, UptoIs
    <2> QED
      BY <1>2, <1>3, <1>4, <2>1 DEF Grows, ListedBlocks
  <1>6. StoredBlocks' = StoredBlocks
    BY <1>1 DEF StoredBlocks
  <1>7. AllFound'
    BY <1>1, <1>6 DEF ScanInv, AllFound
  <1> QED
    BY <1>1, <1>5, <1>6, <1>7 DEF ScanInv

\* The file that is scanned is the one of its number.
LEMMA FileScanned ==
    ASSUME IInv, ScanInv, pc = "scan", file <= Len(names), names[file] # NULL, BlockFile(file)
    PROVE  /\ file \in 1..Len(names) /\ names[file] \in FileName /\ names[file] \in dir
           /\ disk[slot'[f']] = Content[names[file]]
           /\ \E r \in 0..Len(Records(names[file])) :
                 off = Len(Upto(Recs(names[file]), r)) /\ Len(found) = Before(file, names[file], r)
  <1>1. file \in 1..Len(names) /\ DOMAIN names = 1..Len(names) /\ TypeOK
    BY DEF IInv, TypeOK
  <1>2. names[file] \in FileName
    BY <1>1 DEF TypeOK, NameOrNull
  <1>3. names[file] \in dir
    <2>1. names[file] \in ListedNames
      BY <1>1 DEF ListedNames
    <2> QED
      BY <2>1 DEF IInv, ListInv
  <1>4. slot'[f'] = names[file]
    BY <1>1, BlockFileIs DEF IInv, RightFileOpen
  <1> QED
    BY <1>1, <1>2, <1>3, <1>4 DEF ScanInv, Progress

LEMMA ScanInvFileDone == ASSUME IInv, ScanInv, ScanFileDone PROVE ScanInv'
  <1>1. /\ pc = "scan" /\ file <= Len(names) /\ names[file] # NULL /\ BlockFile(file) /\ NextFile
        /\ UNCHANGED <<names, disk, found, dir, pc>> /\ FirstMarker(disk[slot'[f']], off) = {}
    BY DEF ScanFileDone, BlockFile
  <1>2. PICK n \in FileName : n = names[file] /\ file \in 1..Len(names) /\ disk[slot'[f']] = Content[n]
    BY <1>1, FileScanned
  <1>3. PICK r \in 0..Len(Records(n)) : off = Len(Upto(Recs(n), r)) /\ Len(found) = Before(file, n, r)
    BY <1>1, <1>2, FileScanned
  <1>4. FirstMarker(Content[n], Len(Upto(Recs(n), r))) = {}
    BY <1>1, <1>2, <1>3
  <1>5. \A k \in (r + 1)..Len(Records(n)) : Records(n)[k].block = NULL
    <2>1. ASSUME NEW q \in (r + 1)..Len(Records(n)), Records(n)[q].block # NULL,
                 \A k \in (r + 1)..(q - 1) : Records(n)[k].block = NULL
          PROVE  FALSE
      <3>1. PICK o : FirstMarker(Content[n], Len(Upto(Recs(n), r))) = {o}
        BY <2>1, NextMarker
      <3> QED
        BY <1>4, <3>1
    <2> QED
      BY <2>1, NextOrNone
  <1>6. Len(found) = Len(Upto(PerFile, file))
    BY <1>2, <1>3, <1>5, FileStored DEF IInv
  <1> QED
    BY <1>1, <1>2, <1>6, ToTheNextFile

LEMMA ScanInvBlock == ASSUME IInv, ScanInv, ScanBlock PROVE ScanInv'
  <1>1. /\ pc = "scan" /\ file <= Len(names) /\ names[file] # NULL /\ BlockFile(file)
        /\ UNCHANGED <<names, disk, dir, file>>
    BY DEF ScanBlock, BlockFile
  <1>2. PICK n \in FileName : n = names[file] /\ file \in 1..Len(names) /\ disk[slot'[f']] = Content[n] /\ n \in dir
    BY <1>1, FileScanned
  <1>3. PICK r \in 0..Len(Records(n)) : off = Len(Upto(Recs(n), r)) /\ Len(found) = Before(file, n, r)
    BY <1>1, <1>2, FileScanned
  <1>4. PICK d : d = Content[n] /\ d \in Seq(Byte)
    BY FileIs DEF FileContent
  <1>5. PICK o, pos, x :
          /\ o \in FirstMarker(d, off) /\ pos = o + 88 + VarLenIn(d, o + 88)
          /\ x = [filenum |-> file, pos |-> pos, bh |-> HeaderAt(d, o), id |-> Sha256d(Slice(d, o + 8, 80))]
          /\ found' = Append(found, x) /\ off' = o + 8 + HeaderAt(d, o).len
          /\ pc' = IF pos > Len(d) THEN "past" ELSE "scan"
    BY <1>1, <1>2, <1>4 DEF ScanBlock, SkipTransactions
  <1>6. PICK q \in (r + 1)..Len(Records(n)) :
          /\ Records(n)[q].block # NULL
          /\ \A k \in (r + 1)..(q - 1) : Records(n)[k].block = NULL
    <2>1. FirstMarker(Content[n], Len(Upto(Recs(n), r))) # {}
      BY <1>3, <1>4, <1>5
    <2> QED
      BY <2>1, NoMarker, NextOrNone
  <1>7. PICK b : b = Records(n)[q].block
    OBVIOUS
  <1>8. BlockThere(n, q, o, b)
    <2>1. PICK p : FirstMarker(Content[n], Len(Upto(Recs(n), r))) = {p} /\ BlockThere(n, q, p, b)
      BY <1>6, <1>7, NextMarker
    <2>2. o = p
      BY <1>3, <1>4, <1>5, <2>1
    <2> QED
      BY <2>1, <2>2
  <1>9. PICK s \in Nat, e \in Nat : s = Len(StoredBlock(b)) /\ e = Len(d)
    BY <1>4, <1>8 DEF BlockThere
  <1>10. /\ IsBlock(b) /\ o \in Nat /\ Holds(d, o, StoredBlock(b)) /\ o + s = Len(Upto(Recs(n), q))
         /\ Complete(n) => o + s <= e
    BY <1>4, <1>8, <1>9 DEF BlockThere
  <1>11. /\ StoredBlocks[Before(file, n, r) + 1] = b /\ Before(file, n, q) = Before(file, n, r) + 1
         /\ Before(file, n, r) \in Nat
    BY <1>2, <1>6, <1>7, NextStored DEF IInv
  <1>12. PICK m \in Nat : m = Len(found) /\ m = Before(file, n, r)
    BY <1>3, <1>11
  <1>13. /\ Len(found') = m + 1 /\ found'[m + 1] = x /\ \A k \in 1..m : found'[k] = found[k]
    <2>1. IsSequence(found) /\ found' = Append(found, x)
      BY <1>5 DEF IInv, TypeOK
    <2>2. /\ Len(Append(found, x)) = Len(found) + 1 /\ Append(found, x)[Len(found) + 1] = x
          /\ \A k \in 1..Len(found) : Append(found, x)[k] = found[k]
      BY <2>1, AppendTo
    <2> QED
      BY <1>12, <2>1, <2>2
  <1>14. StoredBlocks' = StoredBlocks /\ PerFile' = PerFile
    BY <1>1 DEF StoredBlocks, PerFile
  <1>15. disk' = Content
    BY <1>1 DEF ScanInv
  <1>16. PICK v \in Nat : v = VarLenIn(d, o + 88)
    <2>1. o + 88 \in Nat
      BY <1>10
    <2> QED
      BY <1>4, <2>1, VarIsNatural
  <1>17. CASE pos > e
    <2>1. pc' = "past"
      BY <1>5, <1>9, <1>17
    <2>2. ~Complete(n)
      <3>1. SUFFICES ASSUME Complete(n) PROVE FALSE
        OBVIOUS
      <3>2. o + Len(StoredBlock(b)) <= Len(d)
        BY <1>9, <1>10, <3>1
      <3>3. BlockRead(d, o, b, pos)
        BY <1>4, <1>5, <1>10, <3>2, BlockIsRead
      <3>4. pos <= e
        BY <1>9, <3>3 DEF BlockRead
      <3>5. pos \in Nat
        BY <3>3 DEF BlockRead
      <3> QED
        BY <1>17, <3>4, <3>5
    <2> QED
      BY <1>1, <1>2, <1>15, <2>1, <2>2 DEF ScanInv
  <1>18. CASE ~(pos > e)
    <2>1. pc' = "scan" /\ pos <= Len(d)
      <3>1. pos \in Nat
        BY <1>5, <1>10, <1>16
      <3> QED
        BY <1>5, <1>9, <1>18, <3>1
    <2>2. BlockRead(d, o, b, pos)
      BY <1>4, <1>5, <1>10, <2>1, BlockIsRead
    <2>3. FoundAs(x, b, n)
      <3>1. x.bh = HeaderAt(d, o) /\ x.id = Sha256d(Slice(d, o + 8, 80)) /\ x.pos = pos
        BY <1>5
      <3>2. Complete(n) => pos + Len(FlattenSeq(Sers(b))) <= Len(d)
        BY <1>9, <1>10, <2>2 DEF BlockRead
      <3> QED
        BY <1>4, <1>10, <2>2, <3>1, <3>2 DEF BlockRead, FoundAs
    <2>4. off' = Len(Upto(Recs(n), q))
      <3>1. PICK y \in Nat : y = HeaderAt(d, o).len /\ s = 8 + y
        BY <1>9, <2>2 DEF BlockRead
      <3>2. off' = o + 8 + y
        BY <1>5, <3>1
      <3>3. o \in Nat
        BY <1>10
      <3>4. o + 8 + y = o + s
        <4>1. s = 8 + y
          BY <3>1
        <4>2. o + 8 + y = o + (8 + y)
          BY <3>3
        <4> QED
          BY <4>1, <4>2, Zenon
      <3> QED
        BY <1>10, <3>2, <3>4
    <2>5. AllFound'
      <3>1. AllFound
        BY <1>1 DEF ScanInv
      <3>2. x.filenum = file /\ StoredBlocks[m + 1] = b
        BY <1>5, <1>11, <1>12
      <3>3. \A k \in 1..(m + 1) : k \in 1..m \/ k = m + 1
        OBVIOUS
      <3>4. \A k \in 1..m : FoundAs(found'[k], StoredBlocks[k], names[found'[k].filenum])
        BY <1>12, <1>13, <3>1 DEF AllFound
      <3>5. FoundAs(found'[m + 1], StoredBlocks[m + 1], names[found'[m + 1].filenum])
        BY <1>2, <1>13, <2>3, <3>2
      <3>6. \A k \in 1..(m + 1) : FoundAs(found'[k], StoredBlocks'[k], names'[found'[k].filenum])
        BY <1>1, <1>14, <3>3, <3>4, <3>5
      <3> QED
        BY <1>13, <3>6 DEF AllFound
    <2>6. Progress(file, off', Len(found'))
      <3>1. q \in 0..Len(Records(n)) /\ Len(found') = Before(file, n, q)
        BY <1>11, <1>12, <1>13
      <3>2. file <= Len(names) + 1
        BY <1>1 DEF ScanInv, Progress
      <3> QED
        BY <1>1, <1>2, <2>4, <3>1, <3>2 DEF Progress
    <2>7. Progress(file, off, Len(found))'
      BY <1>1, <1>14, <2>6 DEF Progress, Before
    <2> QED
      BY <1>15, <2>1, <2>5, <2>7 DEF ScanInv
  <1> QED
    BY <1>17, <1>18

-----------------------------------------------------------------------------
(***************************************************************************)
(* The transactions of a block.                                            *)
(***************************************************************************)

TxsRead == \A i \in 1..Len(txs) : IsTx(TxOf(current, i)) /\ TxRead(txs[i], TxOf(current, i))

\* The block b, whose transactions start at p: so many have been read, and *poff
\* is after them or in the next one.
InBlock(b, p) ==
    /\ Len(txs) <= Len(b.txs)
    /\ step = "idle" => off = p + Len(Upto(Sers(b), Len(txs)))
    /\ step # "idle" =>
          /\ Len(txs) < Len(b.txs) /\ start = p + Len(Upto(Sers(b), Len(txs)))
          /\ \E t : t = TxOf(current, Len(txs) + 1) /\ TxThere(t) /\ Stage(t)

TxsInv ==
    /\ IsSequence(txs) /\ TxsRead
    /\ pc \in {"list", "duplicate", "scan", "past"} => txs = <<>>
    /\ step = "idle" => items = 0
    /\ pc = "block" => \E b, p : b = BlockOf(current) /\ p = found[current].pos /\ InBlock(b, p)

\* The block at hand is one that the scan has found.
LEMMA BlockAtHand ==
    ASSUME IInv, ScanInv, NEW k \in DOMAIN found, pc # "past",
           NEW b, b = BlockOf(k), NEW n, n = names[found[k].filenum]
    PROVE  /\ FoundAs(found[k], b, n) /\ n \in FileName /\ n # NULL /\ Content[n] \in Seq(Byte)
           /\ found[k].filenum \in DOMAIN names
  <1>1. k \in 1..Len(found)
    BY DEF IInv, TypeOK, IsSequence
  <1>2. FoundAs(found[k], b, n)
    BY <1>1 DEF ScanInv, AllFound, BlockOf
  <1>3. found[k].filenum \in DOMAIN names /\ n # NULL
    BY DEF IInv, FoundInv
  <1>4. n \in FileName
    BY <1>3 DEF IInv, TypeOK, NameOrNull
  <1> QED
    BY <1>2, <1>3, <1>4, FileIs DEF FileContent

\* What a step outside of a transaction keeps.
LEMMA TxsReadKept ==
    ASSUME TxsInv, UNCHANGED <<names, txs, current>>
    PROVE  IsSequence(txs') /\ TxsRead'
  <1>1. StoredBlocks' = StoredBlocks
    BY DEF StoredBlocks
  <1> QED
    BY <1>1 DEF TxsInv, TxsRead, IsSequence, TxOf, BlockOf

LEMMA NothingRead ==
    ASSUME txs' = <<>>
    PROVE  IsSequence(txs') /\ TxsRead'
  <1>1. Len(txs') = 0 /\ IsSequence(txs')
    BY DEF IsSequence
  <1> QED
    BY <1>1 DEF TxsRead

LEMMA TxsInvBefore ==
    ASSUME IInv, TxsInv,
           ListEntry \/ ListDone \/ SkipHole \/ ScanBlock \/ ScanFileDone \/ ScanDone \/ NoBlocks \/ LeaveBlock
    PROVE  TxsInv'
  <1>1. CASE NoBlocks \/ LeaveBlock
    <2>1. UNCHANGED <<names, txs, current, step, items>> /\ pc' \in {"iterate", "done"}
      BY <1>1 DEF NoBlocks, LeaveBlock, parseVars
    <2>2. IsSequence(txs') /\ TxsRead'
      BY <2>1, TxsReadKept
    <2> QED
      BY <2>1, <2>2 DEF TxsInv
  <1>2. CASE ListEntry \/ ListDone \/ SkipHole \/ ScanBlock \/ ScanFileDone \/ ScanDone
    <2>1. /\ pc \in {"list", "scan"} /\ pc' \in {"list", "duplicate", "scan", "past", "iterate"}
          /\ UNCHANGED <<txs, step, items>>
      BY <1>2 DEF ListEntry, ListDone, SkipHole, ScanBlock, ScanFileDone, ScanDone, parseVars
    <2>2. txs' = <<>>
      BY <2>1 DEF TxsInv
    <2>3. IsSequence(txs') /\ TxsRead'
      BY <2>2, NothingRead
    <2> QED
      BY <2>1, <2>2, <2>3 DEF TxsInv
  <1> QED
    BY <1>1, <1>2

LEMMA TxsInvEnter == ASSUME IInv, ScanInv, TxsInv, EnterBlock PROVE TxsInv'
  <1>1. PICK k \in DOMAIN found :
          /\ pc = "iterate" /\ pc' \in {"full", "block"} /\ current' = k /\ off' = found[k].pos
          /\ txs' = <<>> /\ UNCHANGED <<names, found, step, items>>
    BY DEF EnterBlock
  <1>2. IsSequence(txs') /\ TxsRead' /\ Len(txs') = 0
    BY <1>1, NothingRead
  <1>3. step = "idle" /\ items = 0
    BY <1>1 DEF IInv, FoundInv, TxsInv
  <1>4. PICK b : b = BlockOf(k)
    OBVIOUS
  <1>5. IsBlock(b) /\ found[k].pos \in Nat
    BY <1>1, <1>4, BlockAtHand DEF FoundAs
  <1>6. BlockOf(current)' = b
    <2>1. StoredBlocks' = StoredBlocks
      BY <1>1 DEF StoredBlocks
    <2> QED
      BY <1>1, <1>4, <2>1 DEF BlockOf
  <1>7. Sers(b) \in Seq(Seq(Byte)) /\ Len(b.txs) \in Nat
    BY <1>5, SersAre
  <1>8. Len(Upto(Sers(b), 0)) = 0
    BY <1>7, FirstPart
  <1>9. PICK p \in Nat : p = found[k].pos
    BY <1>5
  <1>10. InBlock(b, p)'
    <2>1. off' = p + Len(Upto(Sers(b), Len(txs')))
      BY <1>1, <1>2, <1>8, <1>9
    <2> QED
      BY <1>1, <1>2, <1>3, <1>7, <2>1 DEF InBlock
  <1>11. p = found'[current'].pos
    BY <1>1, <1>9
  <1> QED
    BY <1>1, <1>2, <1>3, <1>6, <1>10, <1>11 DEF TxsInv

LEMMA NotIdle == ASSUME ReadTransaction PROVE step' # "idle"
  BY DEF ReadTransaction, PullVersion, PullInputCount, PullMarker, BadFlag, ReadInput, PullOutputCount,
         ReadOutput, HashBody, ReadWitnessField, ReadWitnessStackItem, SkipWitness, FinishTransaction, Goto

LEMMA TxsInvNext == ASSUME IInv, ScanInv, TxsInv, NextTransaction PROVE TxsInv'
  <1>1. /\ pc = "block" /\ step = "idle" /\ Len(txs) < found[current].bh.transaction_count
        /\ BlockFile(found[current].filenum) /\ step' = "version" /\ start' = off /\ contextOff' = off
        /\ off' = off /\ hashed' = <<>> /\ trans' = NoTrans
        /\ UNCHANGED <<names, items, pc, found, current, txs>>
    BY DEF NextTransaction, BeginTransaction, scanVars
  <1>2. PICK b, p : b = BlockOf(current) /\ p = found[current].pos /\ InBlock(b, p)
    BY <1>1 DEF TxsInv
  <1>3. PICK n : n = names[found[current].filenum]
    OBVIOUS
  <1>4. /\ FoundAs(found[current], b, n) /\ n # NULL /\ found[current].filenum \in DOMAIN names
        /\ Content[n] \in Seq(Byte)
    <2>1. current \in DOMAIN found
      BY <1>1 DEF IInv, FoundInv
    <2> QED
      BY <1>1, <1>2, <1>3, <2>1, BlockAtHand
  <1>5. Data' = Content[n]
    <2>1. slot'[f'] = n
      BY <1>1, <1>3, <1>4, BlockFileIs DEF IInv, RightFileOpen
    <2>2. disk' = disk
      BY <1>1 DEF BlockFile
    <2> QED
      BY <2>1, <2>2 DEF Data, ScanInv
  <1>6. PICK m \in Nat : m = Len(txs)
    BY DEF TxsInv, IsSequence
  <1>7. /\ IsBlock(b) /\ p \in Nat /\ Holds(Content[n], p, FlattenSeq(Sers(b))) /\ m < Len(b.txs)
    BY <1>1, <1>2, <1>4, <1>6 DEF FoundAs
  <1>8. /\ Sers(b) \in Seq(Seq(Byte)) /\ Len(Sers(b)) = Len(b.txs) /\ Len(b.txs) \in Nat
        /\ \A i \in 1..Len(b.txs) : IsTx(b.txs[i]) /\ Sers(b)[i] = Serialized(b.txs[i])
    BY <1>7, SersAre
  <1>9. m + 1 \in 1..Len(b.txs) /\ m + 1 \in 1..Len(Sers(b)) /\ (m + 1) - 1 = m
    BY <1>6, <1>7, <1>8
  <1>10. PICK t : t = TxOf(current, m + 1) /\ t = b.txs[m + 1] /\ IsTx(t) /\ Sers(b)[m + 1] = Serialized(t)
    BY <1>2, <1>8, <1>9 DEF TxOf
  <1>11. off = p + Len(Upto(Sers(b), m))
    BY <1>1, <1>2, <1>6 DEF InBlock
  <1>12. off \in Nat /\ Holds(Content[n], off, Serialized(t))
    <2>1. off = p + Len(Upto(Sers(b), (m + 1) - 1))
      BY <1>9, <1>11
    <2>2. off \in Nat /\ Holds(Content[n], off, Sers(b)[m + 1])
      BY <1>4, <1>7, <1>8, <1>9, <2>1, PartAt
    <2> QED
      BY <1>10, <2>2
  <1>13. TxThere(t)'
    BY <1>1, <1>4, <1>5, <1>10, <1>12 DEF TxThere
  <1>14. Stage(t)'
    <2>1. items = 0
      BY <1>1 DEF TxsInv
    <2>2. AtVersion(t)'
      BY <1>1, <2>1 DEF AtVersion
    <2> QED
      BY <1>1, <1>12, <2>2 DEF Stage
  <1>15. StoredBlocks' = StoredBlocks
    BY <1>1 DEF StoredBlocks
  <1>16. BlockOf(current)' = b /\ TxOf(current, Len(txs) + 1)' = t
    BY <1>1, <1>2, <1>6, <1>10, <1>15 DEF BlockOf, TxOf
  <1>17. InBlock(b, p)'
    BY <1>1, <1>6, <1>7, <1>8, <1>11, <1>13, <1>14, <1>16 DEF InBlock
  <1>18. IsSequence(txs') /\ TxsRead'
    BY <1>1, TxsReadKept
  <1> QED
    BY <1>1, <1>2, <1>16, <1>17, <1>18 DEF TxsInv

LEMMA TxsInvParse == ASSUME IInv, TxsInv, Parse PROVE TxsInv'
  <1>1. pc = "block" /\ ReadTransaction /\ UNCHANGED <<names, pc, found, current, txs>>
    BY DEF Parse, scanVars
  <1>2. step # "idle" /\ step' # "idle"
    BY <1>1, ParsingKeepsTheFile, NotIdle
  <1>3. PICK b, p : b = BlockOf(current) /\ p = found[current].pos /\ InBlock(b, p)
    BY <1>1 DEF TxsInv
  <1>4. PICK t : t = TxOf(current, Len(txs) + 1) /\ TxThere(t) /\ Stage(t)
    BY <1>2, <1>3 DEF InBlock
  <1>5. TxThere(t)' /\ Stage(t)'
    BY <1>1, <1>4, ReadStep
  <1>6. StoredBlocks' = StoredBlocks
    BY <1>1 DEF StoredBlocks
  <1>7. BlockOf(current)' = b /\ TxOf(current, Len(txs) + 1)' = t
    BY <1>1, <1>3, <1>4, <1>6 DEF BlockOf, TxOf
  <1>8. start' = start
    BY <1>1 DEF ReadTransaction, PullVersion, PullInputCount, PullMarker, BadFlag, ReadInput, PullOutputCount,
           ReadOutput, HashBody, ReadWitnessField, ReadWitnessStackItem, SkipWitness, FinishTransaction
  <1>9. InBlock(b, p)'
    BY <1>1, <1>2, <1>3, <1>5, <1>7, <1>8 DEF InBlock
  <1>10. IsSequence(txs') /\ TxsRead'
    BY <1>1, TxsReadKept
  <1> QED
    BY <1>1, <1>2, <1>3, <1>7, <1>9, <1>10 DEF TxsInv

LEMMA TxsInvRead == ASSUME IInv, ScanInv, TxsInv, TransactionRead PROVE TxsInv'
  <1>1. /\ pc = "block" /\ step = "read" /\ step' = "idle" /\ txs' = Append(txs, trans)
        /\ UNCHANGED <<names, off, items, pc, found, current>>
    BY DEF TransactionRead
  <1>2. PICK b, p : b = BlockOf(current) /\ p = found[current].pos /\ InBlock(b, p)
    BY <1>1 DEF TxsInv
  <1>3. PICK m \in Nat : m = Len(txs)
    BY DEF TxsInv, IsSequence
  <1>4. PICK t : t = TxOf(current, m + 1) /\ TxThere(t) /\ Stage(t)
    BY <1>1, <1>2, <1>3 DEF InBlock
  <1>5. /\ m < Len(b.txs) /\ start = p + Len(Upto(Sers(b), m))
    BY <1>1, <1>2, <1>3 DEF InBlock
  <1>6. IsTx(t) /\ items = 0 /\ off = start + Len(Serialized(t)) /\ TxRead(trans, t)
    BY <1>1, <1>4 DEF Stage, AtRead, TxThere
  <1>7. IsBlock(b) /\ p \in Nat
    <2>1. current \in DOMAIN found
      BY <1>1 DEF IInv, FoundInv
    <2> QED
      BY <1>1, <1>2, <2>1, BlockAtHand DEF FoundAs
  <1>8. /\ Sers(b) \in Seq(Seq(Byte)) /\ Len(Sers(b)) = Len(b.txs) /\ Len(b.txs) \in Nat
        /\ \A i \in 1..Len(b.txs) : Sers(b)[i] = Serialized(b.txs[i])
    BY <1>7, SersAre
  <1>9. m + 1 \in 1..Len(b.txs) /\ m + 1 \in 1..Len(Sers(b)) /\ (m + 1) - 1 = m
    BY <1>3, <1>5, <1>8
  <1>10. Sers(b)[m + 1] = Serialized(t)
    BY <1>2, <1>4, <1>8, <1>9 DEF TxOf
  <1>11. off = p + Len(Upto(Sers(b), m + 1))
    <2>1. /\ Len(Upto(Sers(b), (m + 1) - 1)) \in Nat /\ Len(Sers(b)[m + 1]) \in Nat
          /\ Len(Upto(Sers(b), m + 1)) = Len(Upto(Sers(b), (m + 1) - 1)) + Len(Sers(b)[m + 1])
      BY <1>8, <1>9, PartsAre
    <2>2. PICK u \in Nat, l \in Nat : u = Len(Upto(Sers(b), m)) /\ l = Len(Serialized(t))
      BY <1>9, <1>10, <2>1
    <2>3. Len(Upto(Sers(b), m + 1)) = u + l
      BY <1>9, <1>10, <2>1, <2>2
    <2>4. off = (p + u) + l
      BY <1>5, <1>6, <2>2
    <2>5. (p + u) + l = p + (u + l)
      BY <1>7, <2>2
    <2> QED
      BY <2>3, <2>4, <2>5
  <1>12. StoredBlocks' = StoredBlocks
    BY <1>1 DEF StoredBlocks
  <1>13. BlockOf(current)' = b /\ \A i : TxOf(current, i)' = TxOf(current, i)
    BY <1>1, <1>2, <1>12 DEF BlockOf, TxOf
  <1>14. /\ IsSequence(txs') /\ Len(txs') = m + 1 /\ txs'[m + 1] = trans
         /\ \A i \in 1..m : txs'[i] = txs[i]
    <2>1. IsSequence(txs)
      BY DEF TxsInv
    <2>2. /\ IsSequence(Append(txs, trans)) /\ Len(Append(txs, trans)) = Len(txs) + 1
          /\ Append(txs, trans)[Len(txs) + 1] = trans
          /\ \A i \in 1..Len(txs) : Append(txs, trans)[i] = txs[i]
      BY <2>1, AppendTo
    <2> QED
      BY <1>1, <1>3, <2>2
  <1>15. TxsRead'
    <2>1. \A i \in 1..m : IsTx(TxOf(current, i)) /\ TxRead(txs[i], TxOf(current, i))
      BY <1>3 DEF TxsInv, TxsRead
    <2>2. \A i \in 1..(m + 1) : i \in 1..m \/ i = m + 1
      BY <1>3
    <2>3. ASSUME NEW i \in 1..(m + 1) PROVE IsTx(TxOf(current, i)) /\ TxRead(txs'[i], TxOf(current, i))
      <3>1. CASE i \in 1..m
        BY <1>14, <2>1, <3>1
      <3>2. CASE i = m + 1
        BY <1>4, <1>6, <1>14, <3>2
      <3> QED
        BY <2>2, <3>1, <3>2
    <2>4. ASSUME NEW i \in 1..Len(txs')
          PROVE  /\ IsTx(StoredBlocks'[current'].txs[i])
                 /\ TxRead(txs'[i], StoredBlocks'[current'].txs[i])
      <3>1. TxOf(current, i) = StoredBlocks'[current'].txs[i] /\ i \in 1..(m + 1)
        BY <1>1, <1>12, <1>14 DEF TxOf, BlockOf
      <3> QED
        BY <2>3, <3>1
    <2> QED
      BY <2>4 DEF TxsRead, TxOf, BlockOf
  <1>16. InBlock(b, p)'
    <2>1. m + 1 <= Len(b.txs)
      BY <1>3, <1>5, <1>8
    <2> QED
      BY <1>1, <1>11, <1>14, <2>1 DEF InBlock
  <1> QED
    BY <1>1, <1>2, <1>6, <1>13, <1>14, <1>15, <1>16 DEF TxsInv

-----------------------------------------------------------------------------
(***************************************************************************)
(* The results about the bytes.                                            *)
(***************************************************************************)

ReadInv == IInv /\ ScanInv /\ TxsInv

LEMMA InitReadInv == Init => ReadInv
  <1> SUFFICES ASSUME Init PROVE ReadInv
    OBVIOUS
  <1>1. IInv
    BY InitIInv
  <1>2. pc = "list" /\ found = <<>> /\ txs = <<>> /\ items = 0 /\ disk = Content /\ file = 1 /\ off = 0
    BY DEF Init, FileInit, ParseInit
  <1>3. ScanInv
    BY <1>2 DEF ScanInv, AllFound
  <1>4. TxsInv
    <2>1. IsSequence(txs) /\ Len(txs) = 0
      BY <1>2 DEF IsSequence
    <2> QED
      BY <1>2, <2>1 DEF TxsInv, TxsRead
  <1> QED
    BY <1>1, <1>3, <1>4 DEF ReadInv

LEMMA StutterReadInv == ASSUME IInv, ScanInv, TxsInv, UNCHANGED vars PROVE ScanInv' /\ TxsInv'
  <1>1. /\ UNCHANGED <<names, disk, slot, f, step, off, start, contextOff, hashed, trans, items>>
        /\ UNCHANGED <<dir, pc, file, found, current, txs>>
    BY DEF vars, fileVars, parseVars, scanVars
  <1>2. PerFile' = PerFile /\ StoredBlocks' = StoredBlocks
    BY <1>1 DEF PerFile, StoredBlocks
  <1>3. ScanInv'
    <2>1. AllFound' = AllFound
      BY <1>1, <1>2 DEF AllFound
    <2>2. Progress(file, off, Len(found))' = Progress(file, off, Len(found))
      BY <1>1, <1>2 DEF Progress, Before
    <2> QED
      BY <1>1, <1>2, <2>1, <2>2 DEF ScanInv
  <1>4. IsSequence(txs') /\ TxsRead'
    BY <1>1, TxsReadKept
  <1>5. ASSUME pc = "block" PROVE \E b, p : b = BlockOf(current)' /\ p = found'[current'].pos /\ InBlock(b, p)'
    <2>1. PICK b, p : b = BlockOf(current) /\ p = found[current].pos /\ InBlock(b, p)
      BY <1>5 DEF TxsInv
    <2>2. Data' = Data
      BY <1>1 DEF Data
    <2>3. ASSUME NEW t, TxThere(t), Stage(t) PROVE TxThere(t)' /\ Stage(t)'
      <3>1. TxThere(t)'
        BY <1>1, <2>2, <2>3 DEF TxThere
      <3>2. InBody(t)' = InBody(t) /\ AfterBody(t)' = AfterBody(t) /\ OutputsRead(t)' = OutputsRead(t)
        BY <1>1 DEF InBody, AfterBody, InputsRead, OutputsRead, NoWitnessYet
      <3>3. AtVersion(t)' = AtVersion(t) /\ AtCount(t)' = AtCount(t) /\ AtInput(t)' = AtInput(t)
        BY <1>1, <3>2 DEF AtVersion, AtCount, AtInput
      <3>4. AtOutput(t)' = AtOutput(t) /\ AtLockTime(t)' = AtLockTime(t) /\ AtRead(t)' = AtRead(t)
        BY <1>1, <3>2 DEF AtOutput, AtLockTime, AtRead
      <3>5. AtWitness(t)' = AtWitness(t)
        BY <1>1, <3>2 DEF AtWitness, WitnessRead
      <3>6. Stage(t)'
        BY <1>1, <2>2, <2>3, <3>3, <3>4, <3>5 DEF Stage
      <3> QED
        BY <3>1, <3>6
    <2>4. InBlock(b, p)'
      <3>1. CASE step = "idle"
        BY <1>1, <2>1, <3>1 DEF InBlock
      <3>2. CASE step # "idle"
        <4>1. PICK t : t = TxOf(current, Len(txs) + 1) /\ TxThere(t) /\ Stage(t)
          BY <2>1, <3>2 DEF InBlock
        <4>2. t = TxOf(current, Len(txs) + 1)' /\ TxThere(t)' /\ Stage(t)'
          BY <1>1, <1>2, <2>3, <4>1 DEF TxOf, BlockOf
        <4> QED
          BY <1>1, <2>1, <3>2, <4>2 DEF InBlock
      <3> QED
        BY <3>1, <3>2
    <2> QED
      BY <1>1, <1>2, <2>1, <2>4 DEF BlockOf
  <1> QED
    BY <1>1, <1>3, <1>4, <1>5 DEF TxsInv

LEMMA KeepsReadInv == ASSUME ReadInv, [Next]_vars PROVE ReadInv'
  <1>1. IInv /\ ScanInv /\ TxsInv
    BY DEF ReadInv
  <1>2. IInv'
    BY <1>1, KeepsIInv
  <1>3. ScanInv' /\ TxsInv'
    <2>1. CASE Read
      <3>1. CASE ListEntry \/ ListDone \/ SkipHole \/ ScanBlock \/ ScanFileDone \/ ScanDone
        BY <1>1, <3>1, TxsInvBefore, ScanInvListing, ScanInvSkip, ScanInvBlock, ScanInvFileDone, ScanInvDone
      <3>2. CASE NoBlocks \/ LeaveBlock
        <4>1. /\ pc \in {"iterate", "block"} /\ pc' \in {"iterate", "done"}
              /\ UNCHANGED <<names, disk, found, dir>>
          BY <3>2 DEF NoBlocks, LeaveBlock, fileVars
        <4> QED
          BY <1>1, <3>2, <4>1, TxsInvBefore, ScanInvElsewhere
      <3>3. CASE EnterBlock
        <4>1. /\ pc \in {"iterate", "block"} /\ pc' \in {"full", "block"}
              /\ UNCHANGED <<names, disk, found, dir>>
          BY <3>3 DEF EnterBlock, fileVars
        <4> QED
          BY <1>1, <3>3, <4>1, TxsInvEnter, ScanInvElsewhere
      <3>4. CASE NextTransaction \/ Parse \/ TransactionRead
        <4>1. pc = "block" /\ pc' = "block" /\ UNCHANGED <<names, disk, found, dir>>
          BY <3>4 DEF NextTransaction, BeginTransaction, BlockFile, Parse, ReadTransaction, TransactionRead,
                      scanVars, fileVars
        <4> QED
          BY <1>1, <3>4, <4>1, TxsInvNext, TxsInvParse, TxsInvRead, ScanInvElsewhere
      <3> QED
        BY <2>1, <3>1, <3>2, <3>3, <3>4 DEF Read
    <2>2. CASE UNCHANGED vars
      BY <1>1, <2>2, StutterReadInv
    <2> QED
      BY <2>1, <2>2 DEF Next
  <1> QED
    BY <1>2, <1>3 DEF ReadInv

\* The inductive invariant of the bytes: between which records the scan is, what
\* the blocks found are, and how far into a transaction each step of its parser is.
THEOREM ByteInvariance == Spec => []ReadInv
  <1>1. ReadInv /\ [Next]_vars => ReadInv'
    BY KeepsReadInv
  <1> QED
    BY <1>1, InitReadInv, PTL DEF Spec

\* Every transaction is read as it was stored, the witness skipped to the byte,
\* whatever its fields and wherever it is: read_transaction computes txid over
\* the original serialisation and wtxid over the whole.
THEOREM ReadsTransactions == Spec => []TxExact
  <1>1. ASSUME ReadInv PROVE TxExact
    <2>1. SUFFICES ASSUME NEW i \in DOMAIN txs, NEW t, t = TxOf(current, i)
                   PROVE  /\ txs[i].segwit = (IF HasWitness(t) THEN 1 ELSE 0)
                          /\ txs[i].txid = Sha256d(Original(t)) /\ txs[i].wtxid = Sha256d(Serialized(t))
                          /\ txs[i].total_len = Len(Serialized(t)) /\ txs[i].non_swlen = Len(Original(t))
                          /\ \A k \in DOMAIN t.input :
                                HasWitness(t) => txs[i].input[k].num_witness = Len(t.input[k].witness)
      BY DEF TxExact
    <2>2. i \in 1..Len(txs)
      BY <1>1 DEF ReadInv, TxsInv, IsSequence
    <2>3. IsTx(t) /\ TxRead(txs[i], t)
      BY <1>1, <2>1, <2>2 DEF ReadInv, TxsInv, TxsRead
    <2>4. DOMAIN t.input = 1..Len(t.input)
      BY <2>3, SizedIs DEF IsTx
    <2> QED
      BY <2>3, <2>4 DEF TxRead, Bit
  <1> QED
    BY <1>1, ByteInvariance, PTL

\* What print_format prints for %tX has the txid as its hash: each field has been
\* read, and is printed, with its own width and byte order.
THEOREM DumpsTransactions == Spec => []DumpIsOriginal
  <1>1. ASSUME ReadInv PROVE DumpIsOriginal
    <2>1. SUFFICES ASSUME NEW i \in DOMAIN txs PROVE DumpTx(txs[i]) = Original(TxOf(current, i))
      BY DEF DumpIsOriginal
    <2>2. i \in 1..Len(txs)
      BY <1>1 DEF ReadInv, TxsInv, IsSequence
    <2> QED
      BY <1>1, <2>2 DEF ReadInv, TxsInv, TxsRead, TxRead
  <1> QED
    BY <1>1, ByteInvariance, PTL

LEMMA LeastOfTwo ==
    ASSUME NEW a \in Nat, NEW b \in Nat
    PROVE  Min({a, b}) = IF a <= b THEN a ELSE b
  <1>1. PICK m \in {a, b} : m = (IF a <= b THEN a ELSE b) /\ m <= a /\ m <= b
    OBVIOUS
  <1>2. \A x \in {a, b} : (\A y \in {a, b} : x <= y) => x = m
    BY <1>1
  <1>3. \A y \in {a, b} : m <= y
    BY <1>1
  <1> HIDE <1>1
  <1>4. Min({a, b}) = m
    BY <1>1, <1>2, <1>3 DEF Min
  <1> QED
    BY <1>1, <1>4

\* As far as there are any the bytes of d are those of s.
LEMMA PrefixHeld ==
    ASSUME NEW d \in Seq(Byte), NEW o \in Nat, o <= Len(d), NEW s \in Seq(Byte), Holds(d, o, s)
    PROVE  IsPrefix(SubSeq(d, o + 1, Min({o + Len(s), Len(d)})), s)
  <1>1. PICK l \in Nat, e \in Nat : l = Len(s) /\ e = Len(d)
    OBVIOUS
  <1>2. PICK h \in Nat : h = Min({o + l, e}) /\ h <= o + l /\ h <= e /\ o <= h
    <2>1. o + l \in Nat
      OBVIOUS
    <2>2. Min({o + l, e}) = IF o + l <= e THEN o + l ELSE e
      BY <2>1, LeastOfTwo
    <2> QED
      BY <1>1, <2>1, <2>2
  <1>3. PICK p : p = SubSeq(d, o + 1, h)
    OBVIOUS
  <1>4. PICK m \in Nat : h = o + m /\ m <= l
    <2>1. h - o \in Nat /\ h = o + (h - o) /\ h - o <= l
      BY <1>1, <1>2
    <2> QED
      BY <2>1
  <1>5. p \in Seq(Byte) /\ Len(p) = m /\ \A k \in 1..m : p[k] = d[o + k]
    <2>1. o + 1 \in Int /\ h \in Int /\ h - (o + 1) + 1 = m /\ (IF o + 1 <= h THEN m ELSE 0) = m
      BY <1>4
    <2>2. \A k \in (o + 1)..h : d[k] \in Byte
      BY <1>1, <1>2
    <2>3. p \in Seq(Byte) /\ Len(p) = m /\ \A k \in 1..m : p[k] = d[(o + 1) + k - 1]
      BY <1>3, <2>1, <2>2, SubSeqProperties
    <2>4. \A k \in 1..m : (o + 1) + k - 1 = o + k
      OBVIOUS
    <2> QED
      BY <2>3, <2>4
  <1>6. \A k \in 1..m : p[k] = s[k]
    <2> SUFFICES ASSUME NEW k \in 1..m PROVE p[k] = s[k]
      OBVIOUS
    <2>1. k \in 1..Len(s) /\ o + k <= Len(d)
      BY <1>1, <1>2, <1>4
    <2> QED
      BY <1>5, <2>1 DEF Holds
  <1>7. SubSeq(p, 1, m) = SubSeq(s, 1, m)
    <2>1. SubSeq(p, 1, m) \in Seq(Byte) /\ Len(SubSeq(p, 1, m)) = m /\ \A k \in 1..m : SubSeq(p, 1, m)[k] = p[k]
      BY <1>5
    <2>2. SubSeq(s, 1, m) \in Seq(Byte) /\ Len(SubSeq(s, 1, m)) = m /\ \A k \in 1..m : SubSeq(s, 1, m)[k] = s[k]
      BY <1>1, <1>4
    <2> QED
      BY <1>6, <2>1, <2>2, SeqEqual
  <1> QED
    BY <1>1, <1>2, <1>3, <1>4, <1>5, <1>7 DEF IsPrefix

\* The scan finds each stored block once, in the order of the files, with its
\* header, its id and the place of its transactions: what is between the blocks,
\* and markers within them, never mislead next_block_header_prefix.
THEOREM ScansTheFiles == Spec => []ScanExact
  <1>1. ASSUME ReadInv, pc \in {"iterate", "block", "done"}, NEW k \in DOMAIN found,
               NEW b, b = BlockOf(k), NEW d, d = disk[names[found[k].filenum]],
               NEW s, s = FlattenSeq([i \in DOMAIN b.txs |-> Serialized(TxOf(k, i))])
        PROVE  /\ DumpBlockHeader(found[k].bh) = StoredHeader(b)
               /\ found[k].id = Sha256d(StoredHeader(b))
               /\ found[k].bh.transaction_count = Len(b.txs)
               /\ found[k].pos + Len(s) <= Len(d) \/ ~Complete(names[found[k].filenum])
               /\ IsPrefix(SubSeq(d, found[k].pos + 1, Min({found[k].pos + Len(s), Len(d)})), s)
    <2>1. PICK n : n = names[found[k].filenum]
      OBVIOUS
    <2>2. FoundAs(found[k], b, n) /\ Content[n] \in Seq(Byte)
      BY <1>1, <2>1, BlockAtHand DEF ReadInv
    <2>3. d = Content[n]
      BY <1>1, <2>1 DEF ReadInv, ScanInv
    <2>4. s = FlattenSeq(Sers(b))
      BY <1>1, Zenon DEF Sers, TxOf
    <2>5. s \in Seq(Byte)
      BY <2>2, <2>4, SersAre DEF FoundAs
    <2>6. /\ found[k].pos \in Nat /\ found[k].pos <= Len(d) /\ Holds(d, found[k].pos, s)
          /\ Complete(n) => found[k].pos + Len(s) <= Len(d)
      BY <2>2, <2>3, <2>4 DEF FoundAs
    <2>7. IsPrefix(SubSeq(d, found[k].pos + 1, Min({found[k].pos + Len(s), Len(d)})), s)
      BY <2>2, <2>3, <2>5, <2>6, PrefixHeld
    <2> QED
      BY <2>1, <2>2, <2>6, <2>7 DEF FoundAs
  <1>2. ASSUME ReadInv, pc \in {"iterate", "block", "done"} PROVE Len(found) = Len(StoredBlocks)
    BY <1>2 DEF ReadInv, ScanInv
  <1>3. ReadInv => ScanExact
    BY <1>1, <1>2 DEF ScanExact
  <1> QED
    BY <1>3, ByteInvariance, PTL

-----------------------------------------------------------------------------
(***************************************************************************)
(* How much of the space a block takes.                                    *)
(***************************************************************************)

LEMMA Times ==
    ASSUME NEW a \in Nat, NEW c \in Nat, a <= c, NEW n \in Nat, NEW m \in Nat, n <= m
    PROVE  a * n \in Nat /\ a * n <= c * m
  <1>1. PICK i \in Nat, j \in Nat : c = a + i /\ m = n + j
    <2>1. c - a \in Nat /\ m - n \in Nat /\ c = a + (c - a) /\ m = n + (m - n)
      OBVIOUS
    <2> QED
      BY <2>1
  <1>2. \A x \in Nat, y \in Nat : x * y \in Nat
    OBVIOUS
  <1>3. a * n \in Nat /\ a * j \in Nat /\ i * n \in Nat /\ i * j \in Nat
    BY <1>1, <1>2
  <1>4. (a + i) * (n + j) = a * n + (a * j + (i * n + i * j))
    BY <1>1
  <1> QED
    BY <1>1, <1>3, <1>4

LEMMA Cancel ==
    ASSUME NEW a \in Nat, NEW b \in Nat, NEW x \in Nat, NEW y \in Nat, NEW z \in Nat, NEW w \in Nat,
           a + z <= b + y + w, y + w <= x + z
    PROVE  a <= b + x
  OBVIOUS

\* Where each of some sequences has c bytes at least, so has each of those that
\* are still to come.
LEMMA AtLeast ==
    ASSUME NEW seqs \in Seq(Seq(Byte)), NEW c \in Nat, \A i \in 1..Len(seqs) : Len(seqs[i]) >= c,
           NEW k \in 0..Len(seqs)
    PROVE  /\ Len(Upto(seqs, k)) \in Nat /\ Len(FlattenSeq(seqs)) \in Nat
           /\ Len(Upto(seqs, k)) + c * (Len(seqs) - k) <= Len(FlattenSeq(seqs))
  <1>1. PICK n \in Nat : n = Len(seqs)
    OBVIOUS
  <1>2. PICK u : u = [i \in 0..n |-> Len(Upto(seqs, i))]
    OBVIOUS
  <1>3. \A i \in 0..n : Upto(seqs, i) \in Seq(Byte)
    BY <1>1, UptoIs DEF Grows
  <1>4. u \in [0..n -> Nat]
    <2>1. \A s \in Seq(Byte) : Len(s) \in Nat
      OBVIOUS
    <2> QED
      BY <1>2, <1>3, <2>1
  <1>5. ASSUME NEW i \in 1..n PROVE u[i - 1] + c <= u[i]
    <2>1. Len(seqs[i]) >= c /\ Len(seqs[i]) \in Nat /\ Len(Upto(seqs, i)) = Len(Upto(seqs, i - 1)) + Len(seqs[i])
      BY <1>1, PartsAre
    <2>2. u[i] = Len(Upto(seqs, i)) /\ u[i - 1] = Len(Upto(seqs, i - 1)) /\ u[i - 1] \in Nat
      <3>1. i \in 0..n /\ i - 1 \in 0..n
        OBVIOUS
      <3> QED
        BY <1>2, <1>4, <3>1
    <2> QED
      BY <2>1, <2>2
  <1>6. u[n] = Len(FlattenSeq(seqs))
    <2>1. FlattenSeq(seqs) = Upto(seqs, n)
      BY <1>1, UptoIs DEF Grows
    <2>2. n \in 0..n
      OBVIOUS
    <2> QED
      BY <1>2, <2>1, <2>2
  <1>7. PICK X : X = {j \in 0..n : u[n - j] + c * j <= u[n]}
    OBVIOUS
  <1>8. 0 \in X
    BY <1>4, <1>7
  <1>9. ASSUME NEW j \in 1..n, j - 1 \in X PROVE j \in X
    <2>1. PICK i \in 1..n : i = n - (j - 1) /\ i - 1 = n - j
      OBVIOUS
    <2>2. PICK x \in Nat, y \in Nat, z \in Nat : x = u[i - 1] /\ y = u[i] /\ z = u[n]
      <3>1. i \in 0..n /\ i - 1 \in 0..n /\ n \in 0..n
        OBVIOUS
      <3> QED
        BY <1>4, <3>1
    <2>3. x + c <= y
      BY <1>5, <2>2
    <2>4. y + c * (j - 1) <= z
      BY <1>7, <1>9, <2>1, <2>2
    <2>5. c * j = c * (j - 1) + c /\ c * (j - 1) \in Nat
      <3>1. j - 1 \in Nat
        OBVIOUS
      <3> QED
        BY <3>1
    <2>6. x + c * j <= z
      BY <2>3, <2>4, <2>5
    <2> QED
      BY <1>7, <2>1, <2>2, <2>6
  <1>10. \A j \in 0..n : j \in X
    BY <1>8, <1>9, TurnByTurn
  <1>11. n - k \in 0..n /\ n - (n - k) = k /\ k \in 0..n /\ n \in 0..n
    BY <1>1
  <1>12. u[k] + c * (n - k) <= u[n]
    BY <1>7, <1>10, <1>11, Zenon
  <1>13. u[k] = Len(Upto(seqs, k)) /\ u[k] \in Nat /\ u[n] \in Nat
    BY <1>2, <1>4, <1>11
  <1> QED
    BY <1>1, <1>6, <1>12, <1>13

\* Of numbers with as many bytes the one with smaller bytes is smaller.
LEMMA NumAtMost ==
    ASSUME NEW a \in Seq(Byte), NEW b \in Seq(Byte), Len(a) = Len(b), \A i \in 1..Len(a) : a[i] <= b[i]
    PROVE  Num(a) \in Nat /\ Num(b) \in Nat /\ Num(a) <= Num(b)
  <1>1. PICK n \in Nat : n = Len(a)
    OBVIOUS
  <1>2. PICK s : Summed(s, a) /\ Num(a) = s[Len(a)]
    BY NumIs
  <1>3. PICK r : Summed(r, b) /\ Num(b) = r[Len(b)]
    BY NumIs
  <1>4. s \in [0..n -> Nat] /\ r \in [0..n -> Nat] /\ s[0] = 0 /\ r[0] = 0
    BY <1>1, <1>2, <1>3 DEF Summed
  <1>5. PICK X : X = {i \in 0..n : s[i] <= r[i]}
    OBVIOUS
  <1>6. 0 \in X
    BY <1>4, <1>5
  <1>7. ASSUME NEW i \in 1..n, i - 1 \in X PROVE i \in X
    <2>1. PICK k \in 1..n : k = n - i + 1
      OBVIOUS
    <2>2. s[i] = 256 * s[i - 1] + a[k] /\ r[i] = 256 * r[i - 1] + b[k]
      BY <1>1, <1>2, <1>3, <2>1 DEF Summed
    <2>3. a[k] <= b[k] /\ a[k] \in Nat /\ b[k] \in Nat
      <3>1. a[k] \in Byte /\ b[k] \in Byte /\ a[k] <= b[k]
        BY <1>1, <2>1
      <3>2. \A x \in Byte : x \in Nat
        BY DEF Byte
      <3> QED
        BY <3>1, <3>2
    <2>4. s[i - 1] \in Nat /\ r[i - 1] \in Nat /\ s[i - 1] <= r[i - 1]
      <3>1. i - 1 \in 0..n
        OBVIOUS
      <3> QED
        BY <1>4, <1>5, <1>7, <3>1
    <2>5. s[i] <= r[i]
      BY <2>2, <2>3, <2>4, SMTT(30)
    <2>6. i \in 0..n
      OBVIOUS
    <2> QED
      BY <1>5, <2>5, <2>6
  <1>8. \A i \in 0..n : i \in X
    BY <1>6, <1>7, TurnByTurn
  <1>9. n \in 0..n
    OBVIOUS
  <1> QED
    BY <1>1, <1>2, <1>3, <1>4, <1>5, <1>8, <1>9

\* Past the end of the file there are zeroes.
LEMMA NothingThere ==
    ASSUME NEW d \in Seq(Byte), NEW o \in Nat, o >= Len(d)
    PROVE  VarIn(d, o) = 0 /\ VarLenIn(d, o) = 1
  <1>1. Slice(d, o, 1)[1] = 0 /\ Len(Slice(d, o, 1)) = 1
    <2>1. PICK n \in Nat : n = 1
      OBVIOUS
    <2>2. PICK s : s = Slice(d, o, n)
      OBVIOUS
    <2>3. Len(s) = n /\ \A k \in 1..n : s[k] = IF o + k <= Len(d) THEN d[o + k] ELSE 0
      BY <2>2, SliceIs
    <2>4. s[1] = 0
      <3>1. 1 \in 1..n /\ ~(o + 1 <= Len(d))
        BY <2>1
      <3> QED
        BY <2>3, <3>1
    <2> QED
      BY <2>1, <2>2, <2>3, <2>4
  <1>2. VarLenIn(d, o) = 1
    BY <1>1 DEF VarLenIn, VarSize
  <1> QED
    BY <1>1, <1>2 DEF VarIn, VarValue

\* Even at the end of a file, where some of its bytes are missing, pull_varint
\* reads no more than what was written.
LEMMA VarAtMost ==
    ASSUME NEW d \in Seq(Byte), NEW o \in Nat, NEW n, Fits(8, n), Holds(d, o, CompactSize(n))
    PROVE  VarIn(d, o) \in Nat /\ n \in Nat /\ VarIn(d, o) <= n
  <1>1. n \in Nat
    BY DEF Fits
  <1>2. CASE o >= Len(d)
    BY <1>1, <1>2, NothingThere
  <1>3. CASE o < Len(d)
    <2>1. PICK b : b = CompactSize(n) /\ IsVarint(b, n)
      BY CompactSizeIs
    <2>2. PICK l \in Nat \ {0} : b \in Seq(Byte) /\ Len(b) = l /\ VarSize(b[1]) = l /\ VarValue(b) = n
      BY <2>1 DEF IsVarint
    <2>3. Slice(d, o, 1)[1] = b[1]
      <3>1. 1 \in 1..1 /\ 1 \in Nat /\ o + 1 <= Len(d) /\ 1 \in 1..Len(b)
        BY <1>3, <2>2
      <3>2. Slice(d, o, 1)[1] = d[o + 1]
        BY <3>1, SliceIs
      <3> QED
        BY <2>1, <3>1, <3>2 DEF Holds
    <2>4. VarLenIn(d, o) = l
      BY <2>2, <2>3 DEF VarLenIn
    <2>5. PICK s :
            /\ s = Slice(d, o, l) /\ s \in Seq(Byte) /\ Len(s) = l
            /\ \A k \in 1..l : s[k] = IF o + k <= Len(d) THEN d[o + k] ELSE 0
      <3>1. PICK s : s = Slice(d, o, l)
        OBVIOUS
      <3>2. s \in Seq(Byte) /\ Len(s) = l
        BY <3>1, SliceIs
      <3>3. \A k \in 1..l : s[k] = IF o + k <= Len(d) THEN d[o + k] ELSE 0
        BY <3>1, SliceIs, ZenonT(60)
      <3> QED
        BY <3>1, <3>2, <3>3
    <2>6. ASSUME NEW k \in 1..l PROVE s[k] <= b[k]
      <3>1. s[k] = IF o + k <= Len(d) THEN d[o + k] ELSE 0
        BY <2>5
      <3>2. o + k <= Len(d) => d[o + k] = b[k]
        BY <2>1, <2>2 DEF Holds
      <3>3. b[k] \in Nat
        <4>1. b[k] \in Byte
          BY <2>2
        <4>2. \A x \in Byte : x \in Nat
          BY DEF Byte
        <4> QED
          BY <4>1, <4>2
      <3> QED
        BY <3>1, <3>2, <3>3
    <2>7. VarIn(d, o) = VarValue(s) /\ VarIn(d, o) \in Nat
      BY <2>4, <2>5, VarIsNatural DEF VarIn
    <2>8. VarValue(s) <= VarValue(b)
      <3>1. CASE l = 1
        BY <2>2, <2>5, <2>6, <3>1 DEF VarValue
      <3>2. CASE l # 1
        <4>1. PICK x, y : x = Tail(s) /\ y = Tail(b)
          OBVIOUS
        <4>2. x \in Seq(Byte) /\ y \in Seq(Byte) /\ Len(x) = l - 1 /\ Len(y) = l - 1
          BY <2>2, <2>5, <3>2, <4>1
        <4>3. ASSUME NEW i \in 1..(l - 1) PROVE x[i] <= y[i]
          <5>1. x[i] = s[i + 1] /\ y[i] = b[i + 1] /\ i + 1 \in 1..l
            BY <2>2, <2>5, <3>2, <4>1
          <5> QED
            BY <2>6, <5>1
        <4>4. Num(x) <= Num(y)
          BY <4>2, <4>3, NumAtMost
        <4> QED
          BY <2>2, <2>5, <3>2, <4>1, <4>4 DEF VarValue
      <3> QED
        BY <3>1, <3>2
    <2> QED
      BY <1>1, <2>2, <2>7, <2>8
  <1> QED
    BY <1>1, <1>2, <1>3

LEMMA ScriptAtMost ==
    ASSUME NEW d \in Seq(Byte), NEW o \in Nat, NEW s, IsScript(s), Holds(d, o, Script(s))
    PROVE  VarIn(d, o) \in Nat /\ VarIn(d, o) <= Len(s) /\ Len(s) \in Nat /\ Len(s) < Len(Script(s))
  <1>1. PICK c : c = CompactSize(Len(s)) /\ c \in Seq(Byte) /\ s \in Seq(Byte) /\ Fits(8, Len(s))
    BY ScriptBytes DEF IsScript
  <1>2. Holds(d, o, c)
    <2>1. Holds(d, o, c \o s)
      BY <1>1 DEF Script
    <2> QED
      BY <1>1, <2>1, HoldsBoth
  <1>3. VarIn(d, o) \in Nat /\ Len(s) \in Nat /\ VarIn(d, o) <= Len(s)
    BY <1>1, <1>2, VarAtMost
  <1>4. Len(c) \in Nat \ {0} /\ Len(Script(s)) = Len(c) + Len(s)
    BY <1>1, ScriptBytes, CompactSizeBytes
  <1> QED
    BY <1>3, <1>4

\* Where the length of the script is in an input, and in an output.
LEMMA InputHeld ==
    ASSUME NEW d \in Seq(Byte), NEW o \in Nat, NEW i, IsIn(i), Holds(d, o, StoredIn(i))
    PROVE  /\ VarIn(d, o + 36) \in Nat /\ Len(StoredIn(i)) \in Nat
           /\ VarIn(d, o + 36) + 41 <= Len(StoredIn(i))
  <1>1. PICK h, x, q, c :
          h = i.txid /\ x = Le(4, i.index) /\ q = Le(4, i.sequence_number) /\ c = Script(i.script)
    OBVIOUS
  <1>2. Bytes(h, 32) /\ Bytes(x, 4) /\ Bytes(q, 4)
    BY <1>1, HashIs, FourAre DEF IsIn
  <1>3. PICK l \in Nat : Bytes(c, l) /\ l = Len(Script(i.script))
    BY <1>1, ScriptBytes DEF IsIn, Bytes
  <1>4. Bytes(h \o x, 36)
    <2>1. Bytes(h \o x, 32 + 4)
      BY <1>2, BytesJoin
    <2> QED
      BY <2>1
  <1>5. Bytes((h \o x) \o c, 36 + l)
    BY <1>3, <1>4, BytesJoin
  <1>6. StoredIn(i) = ((h \o x) \o c) \o q
    BY <1>1, Zenon DEF StoredIn
  <1>7. Bytes(StoredIn(i), (36 + l) + 4)
    <2>1. 36 + l \in Nat
      OBVIOUS
    <2> QED
      BY <1>2, <1>5, <1>6, <2>1, BytesJoin
  <1>8. Holds(d, o, ((h \o x) \o c) \o q)
    BY <1>6
  <1>9. Holds(d, o, (h \o x) \o c)
    BY <1>2, <1>5, <1>8, HoldsBoth DEF Bytes
  <1>10. Holds(d, o + 36, c)
    <2>1. Holds(d, o + Len(h \o x), c)
      BY <1>3, <1>4, <1>9, HoldsBoth DEF Bytes
    <2> QED
      BY <1>4, <2>1 DEF Bytes
  <1>11. PICK p \in Nat : p = o + 36
    OBVIOUS
  <1>12. VarIn(d, p) \in Nat /\ VarIn(d, p) < l
    <2>1. Holds(d, p, Script(i.script)) /\ IsScript(i.script)
      BY <1>1, <1>10, <1>11 DEF IsIn
    <2>2. VarIn(d, p) \in Nat /\ VarIn(d, p) <= Len(i.script) /\ Len(i.script) \in Nat /\ Len(i.script) < l
      BY <1>3, <2>1, ScriptAtMost
    <2> QED
      BY <2>2
  <1>13. Len(StoredIn(i)) = l + 40
    BY <1>7 DEF Bytes
  <1> QED
    BY <1>11, <1>12, <1>13

LEMMA OutputHeld ==
    ASSUME NEW d \in Seq(Byte), NEW o \in Nat, NEW x, IsOut(x), Holds(d, o, StoredOut(x))
    PROVE  /\ VarIn(d, o + 8) \in Nat /\ Len(StoredOut(x)) \in Nat
           /\ VarIn(d, o + 8) + 9 <= Len(StoredOut(x))
  <1>1. PICK a, c : a = Le(8, x.amount) /\ c = Script(x.script)
    OBVIOUS
  <1>2. Bytes(a, 8)
    BY <1>1, EightBytes DEF IsOut, Bytes
  <1>3. PICK l \in Nat : Bytes(c, l) /\ l = Len(Script(x.script))
    BY <1>1, ScriptBytes DEF IsOut, Bytes
  <1>4. StoredOut(x) = a \o c /\ Bytes(a \o c, 8 + l)
    BY <1>1, <1>2, <1>3, BytesJoin DEF StoredOut
  <1>5. Holds(d, o + 8, c)
    <2>1. Holds(d, o + Len(a), c)
      BY <1>2, <1>3, <1>4, HoldsBoth DEF Bytes
    <2> QED
      BY <1>2, <2>1 DEF Bytes
  <1>6. PICK p \in Nat : p = o + 8
    OBVIOUS
  <1>7. VarIn(d, p) \in Nat /\ VarIn(d, p) < l
    <2>1. Holds(d, p, Script(x.script)) /\ IsScript(x.script)
      BY <1>1, <1>5, <1>6 DEF IsOut
    <2>2. VarIn(d, p) \in Nat /\ VarIn(d, p) <= Len(x.script) /\ Len(x.script) \in Nat /\ Len(x.script) < l
      BY <1>3, <2>1, ScriptAtMost
    <2> QED
      BY <2>2
  <1>8. Len(StoredOut(x)) = l + 8
    BY <1>4 DEF Bytes
  <1> QED
    BY <1>6, <1>7, <1>8

\* What a transaction takes of the space, its own struct excepted, is at most this
\* for its inputs and their scripts, this for its outputs and theirs, and eight
\* bytes for each byte of its witnesses.
InNeed(t) == 39 * Len(t.input) + Len(FlattenSeq(Ins(t)))
OutNeed(t) == 15 * Len(t.output) + Len(FlattenSeq(Outs(t)))
Need(t) == InNeed(t) + OutNeed(t) + 8 * Len(WitnessBytes(t))

Needed(t) ==
    /\ InNeed(t) \in Nat /\ OutNeed(t) \in Nat /\ Len(WitnessBytes(t)) \in Nat
    /\ Need(t) \in Nat /\ InNeed(t) + OutNeed(t) <= Need(t) /\ InNeed(t) <= Need(t)
    /\ Len(t.input) \in Nat /\ Len(t.output) \in Nat
    /\ 41 * Len(t.input) <= Len(FlattenSeq(Ins(t))) /\ Len(FlattenSeq(Ins(t))) \in Nat
    /\ 9 * Len(t.output) <= Len(FlattenSeq(Outs(t))) /\ Len(FlattenSeq(Outs(t))) \in Nat
    /\ \A k \in 0..Len(t.input) :
          /\ Len(Upto(Ins(t), k)) \in Nat
          /\ 80 * Len(t.input) + Len(Upto(Ins(t), k)) <= InNeed(t) + 41 * k
    /\ \A k \in 0..Len(t.output) :
          /\ Len(Upto(Outs(t), k)) \in Nat
          /\ 24 * Len(t.output) + Len(Upto(Outs(t), k)) <= OutNeed(t) + 9 * k
    /\ Len(Upto(Ins(t), 0)) = 0 /\ Upto(Ins(t), Len(t.input)) = FlattenSeq(Ins(t))
    /\ Len(Upto(Outs(t), 0)) = 0 /\ Upto(Outs(t), Len(t.output)) = FlattenSeq(Outs(t))

LEMMA NeedIs == ASSUME NEW t, IsTx(t) PROVE Needed(t)
  <1>1. /\ Ins(t) \in Seq(Seq(Byte)) /\ Len(Ins(t)) = Len(t.input)
        /\ Outs(t) \in Seq(Seq(Byte)) /\ Len(Outs(t)) = Len(t.output)
        /\ DOMAIN t.input = 1..Len(t.input) /\ Len(t.input) \in Nat
        /\ DOMAIN t.output = 1..Len(t.output) /\ Len(t.output) \in Nat
    BY TxBytes
  <1>2. PICK d \in Seq(Byte) : Len(d) = 0
    <2>1. <<>> \in Seq(Byte) /\ Len(<<>>) = 0
      OBVIOUS
    <2> QED
      BY <2>1
  <1>3. \A s \in Seq(Byte) : Holds(d, 0, s)
    BY <1>2 DEF Holds
  <1>4. ASSUME NEW k \in 1..Len(Ins(t)) PROVE Len(Ins(t)[k]) >= 41
    <2>1. Ins(t)[k] = StoredIn(t.input[k]) /\ IsIn(t.input[k]) /\ StoredIn(t.input[k]) \in Seq(Byte)
      BY <1>1, StoredInBytes DEF Ins, IsTx
    <2>2. 0 \in Nat /\ Holds(d, 0, StoredIn(t.input[k]))
      BY <1>3, <2>1
    <2>3. /\ VarIn(d, 0 + 36) \in Nat /\ Len(StoredIn(t.input[k])) \in Nat
          /\ VarIn(d, 0 + 36) + 41 <= Len(StoredIn(t.input[k]))
      BY <2>1, <2>2, InputHeld
    <2> QED
      BY <2>1, <2>3
  <1>5. ASSUME NEW k \in 1..Len(Outs(t)) PROVE Len(Outs(t)[k]) >= 9
    <2>1. Outs(t)[k] = StoredOut(t.output[k]) /\ IsOut(t.output[k]) /\ StoredOut(t.output[k]) \in Seq(Byte)
      BY <1>1, StoredOutBytes DEF Outs, IsTx
    <2>2. 0 \in Nat /\ Holds(d, 0, StoredOut(t.output[k]))
      BY <1>3, <2>1
    <2>3. /\ VarIn(d, 0 + 8) \in Nat /\ Len(StoredOut(t.output[k])) \in Nat
          /\ VarIn(d, 0 + 8) + 9 <= Len(StoredOut(t.output[k]))
      BY <2>1, <2>2, OutputHeld
    <2> QED
      BY <2>1, <2>3
  <1>6. PICK n \in Nat, m \in Nat : n = Len(t.input) /\ m = Len(t.output)
    BY <1>1
  <1>7. ASSUME NEW k \in 0..n
        PROVE  /\ Len(Upto(Ins(t), k)) \in Nat /\ Len(FlattenSeq(Ins(t))) \in Nat
               /\ Len(Upto(Ins(t), k)) + 41 * (n - k) <= Len(FlattenSeq(Ins(t)))
    <2>1. PICK seqs : seqs = Ins(t)
      OBVIOUS
    <2>2. 41 \in Nat /\ seqs \in Seq(Seq(Byte)) /\ Len(seqs) = n /\ \A i \in 1..Len(seqs) : Len(seqs[i]) >= 41
      BY <1>1, <1>4, <1>6, <2>1
    <2> QED
      BY <2>1, <2>2, AtLeast
  <1>8. ASSUME NEW k \in 0..m
        PROVE  /\ Len(Upto(Outs(t), k)) \in Nat /\ Len(FlattenSeq(Outs(t))) \in Nat
               /\ Len(Upto(Outs(t), k)) + 9 * (m - k) <= Len(FlattenSeq(Outs(t)))
    <2>1. PICK seqs : seqs = Outs(t)
      OBVIOUS
    <2>2. 9 \in Nat /\ seqs \in Seq(Seq(Byte)) /\ Len(seqs) = m /\ \A i \in 1..Len(seqs) : Len(seqs[i]) >= 9
      BY <1>1, <1>5, <1>6, <2>1
    <2> QED
      BY <2>1, <2>2, AtLeast
  <1>9. PICK i \in Nat, o \in Nat : i = Len(FlattenSeq(Ins(t))) /\ o = Len(FlattenSeq(Outs(t)))
    BY <1>7, <1>8
  <1>10. Len(Upto(Ins(t), 0)) = 0 /\ Upto(Ins(t), n) = FlattenSeq(Ins(t))
    BY <1>1, <1>6, FirstPart
  <1>11. Len(Upto(Outs(t), 0)) = 0 /\ Upto(Outs(t), m) = FlattenSeq(Outs(t))
    BY <1>1, <1>6, FirstPart
  <1>12. 41 * n <= i /\ 9 * m <= o
    <2>1. 0 \in 0..n /\ 0 \in 0..m
      OBVIOUS
    <2>2. 0 + 41 * (n - 0) <= i /\ 0 + 9 * (m - 0) <= o
      BY <1>7, <1>8, <1>9, <1>10, <1>11, <2>1, Zenon
    <2> QED
      BY <2>2
  <1>13. InNeed(t) = 39 * n + i /\ OutNeed(t) = 15 * m + o
    BY <1>6, <1>9 DEF InNeed, OutNeed
  <1>14. InNeed(t) \in Nat /\ OutNeed(t) \in Nat
    BY <1>13
  <1>15. ASSUME NEW k \in 0..n
         PROVE  Len(Upto(Ins(t), k)) \in Nat /\ 80 * n + Len(Upto(Ins(t), k)) <= InNeed(t) + 41 * k
    <2>1. PICK u \in Nat : u = Len(Upto(Ins(t), k)) /\ u + 41 * (n - k) <= i
      BY <1>7, <1>9
    <2> QED
      BY <1>13, <2>1
  <1>16. ASSUME NEW k \in 0..m
         PROVE  Len(Upto(Outs(t), k)) \in Nat /\ 24 * m + Len(Upto(Outs(t), k)) <= OutNeed(t) + 9 * k
    <2>1. PICK u \in Nat : u = Len(Upto(Outs(t), k)) /\ u + 9 * (m - k) <= o
      BY <1>8, <1>9
    <2> QED
      BY <1>13, <2>1
  <1>17. Len(WitnessBytes(t)) \in Nat
    <2>1. \A s \in Seq(Byte) : Len(s) \in Nat
      OBVIOUS
    <2> QED
      BY <2>1, TxIsMeasured DEF TxMeasured
  <1>18. Need(t) \in Nat /\ InNeed(t) + OutNeed(t) <= Need(t) /\ InNeed(t) <= Need(t)
    <2>1. PICK x \in Nat, y \in Nat, w \in Nat : x = InNeed(t) /\ y = OutNeed(t) /\ w = Len(WitnessBytes(t))
      BY <1>14, <1>17
    <2>2. Need(t) = x + y + 8 * w
      BY <2>1 DEF Need
    <2> QED
      BY <2>1, <2>2
  <1> QED
    BY <1>6, <1>9, <1>10, <1>11, <1>12, <1>14, <1>15, <1>16, <1>17, <1>18 DEF Needed

\* That is not more than four or eight times the bytes of the transaction.
LEMMA NeedIsSmall ==
    ASSUME NEW t, IsTx(t), t.input # <<>>
    PROVE  /\ Need(t) \in Nat /\ Len(Serialized(t)) \in Nat /\ Len(Serialized(t)) >= 30
           /\ 120 + Need(t) <= 8 * Len(Serialized(t))
           /\ ~HasWitness(t) => 120 + Need(t) <= 4 * Len(Serialized(t))
  <1>1. Needed(t) /\ Ordered(t)
    BY NeedIs, PartsAreOrdered
  <1>2. PICK n \in Nat, m \in Nat, i \in Nat, o \in Nat, w \in Nat :
          /\ n = Len(t.input) /\ m = Len(t.output) /\ i = Len(FlattenSeq(Ins(t)))
          /\ o = Len(FlattenSeq(Outs(t))) /\ w = Len(WitnessBytes(t))
    BY <1>1 DEF Needed
  <1>3. 41 * n <= i /\ 9 * m <= o
    BY <1>1, <1>2 DEF Needed
  <1>4. n >= 1
    <2>1. t.input \in Seq({t.input[k] : k \in DOMAIN t.input})
      BY DEF IsTx, Sized, IsSequence
    <2>2. n # 0
      BY <1>2, <2>1
    <2> QED
      BY <2>2
  <1>5. Need(t) = (39 * n + i) + (15 * m + o) + 8 * w
    BY <1>2 DEF Need, InNeed, OutNeed
  <1>6. PICK a \in Nat \ {0}, c \in Nat \ {0} :
          a = Len(CompactSize(Len(t.input))) /\ c = Len(CompactSize(Len(t.output)))
    BY TxBytes, CompactSizeBytes
  <1>7. PICK l \in Nat : l = Len(Serialized(t)) /\ l = LockAt(t) + 4
    BY <1>1 DEF Ordered
  <1>8. PICK x \in Nat : x = BodyAt(t) /\ x >= 4
    BY <1>1 DEF Ordered
  <1>9. l = x + a + i + c + o + w + 4
    <2>1. InsAt(t) = x + a
      BY <1>6, <1>8 DEF InsAt
    <2>2. CountAt(t) = x + a + i
      BY <1>2, <2>1 DEF CountAt
    <2>3. OutsAt(t) = x + a + i + c
      BY <1>6, <2>2 DEF OutsAt
    <2>4. WitAt(t) = x + a + i + c + o
      BY <1>2, <2>3 DEF WitAt
    <2>5. LockAt(t) = x + a + i + c + o + w
      BY <1>2, <2>4 DEF LockAt
    <2> QED
      BY <1>7, <2>5
  <1>10. l >= 10 + i + o + w
    <2>1. a >= 1 /\ c >= 1
      OBVIOUS
    <2> QED
      BY <1>8, <1>9, <2>1, SMTT(30)
  <1>11. ASSUME ~HasWitness(t) PROVE w = 0
    BY <1>2, <1>11 DEF WitnessBytes
  <1>12. l >= 30 /\ Need(t) \in Nat
    BY <1>3, <1>4, <1>5, <1>10
  <1>13. 120 + Need(t) <= 8 * l
    BY <1>3, <1>4, <1>5, <1>10
  <1>14. w = 0 => 120 + Need(t) <= 4 * l
    BY <1>3, <1>4, <1>5, <1>10
  <1> QED
    BY <1>7, <1>11, <1>12, <1>13, <1>14

\* Where the transaction t starts, q bytes of the space are taken at most: so many
\* are at each step of it.
SpaceAt(t, q) ==
    /\ space \in Nat /\ space <= q + Need(t)
    /\ step \in {"version", "count"} => space <= q
    /\ step = "input" =>
          space + 41 * Len(trans.input) <= q + 80 * Len(t.input) + Len(Upto(Ins(t), Len(trans.input)))
    /\ step = "output" =>
          space + 9 * Len(trans.output) <=
              q + InNeed(t) + 24 * Len(t.output) + Len(Upto(Outs(t), Len(trans.output)))
    /\ step = "witness" => space + 8 * (start + WitAt(t)) <= q + InNeed(t) + OutNeed(t) + 8 * items + 8 * off

LEMMA SpaceStays ==
    ASSUME NEW t, NEW q \in Nat, SpaceAt(t, q), space' = space,
           step' \notin {"version", "input", "output", "witness"},
           step' = "count" => space <= q
    PROVE  SpaceAt(t, q)'
  BY DEF SpaceAt

\* The inputs have been counted: no more than there are.
LEMMA SpaceOfInputs ==
    ASSUME NEW t, IsTx(t), NEW q \in Nat, SpaceAt(t, q), step = "count", NEW v \in Nat, v <= Len(t.input),
           space' = space + InputSize * v, trans'.input = <<>>, Goto("input")
    PROVE  SpaceAt(t, q)'
  <1>1. Needed(t)
    BY NeedIs
  <1>2. PICK s \in Nat, n \in Nat, i \in Nat :
          s = space /\ n = Len(t.input) /\ i = InNeed(t) /\ s <= q /\ v <= n
    BY <1>1 DEF SpaceAt, Needed
  <1>3. InputSize * v \in Nat /\ InputSize * v <= 80 * n
    <2>1. InputSize \in Nat /\ InputSize <= 80 /\ 80 \in Nat
      BY SpaceAssumption, SizesAssumption
    <2> QED
      BY <1>2, <2>1, Times
  <1>4. PICK z \in Nat : z = InputSize * v /\ z <= 80 * n /\ space' = s + z
    BY <1>2, <1>3
  <1>5. Len(trans'.input) = 0 /\ Len(Upto(Ins(t), 0)) = 0 /\ 80 * n <= i
    <2>1. 0 \in 0..Len(t.input) /\ 0 \in Nat
      BY <1>2
    <2>2. 80 * n + Len(Upto(Ins(t), 0)) <= i + 41 * 0 /\ Len(Upto(Ins(t), 0)) = 0
      BY <1>1, <1>2, <2>1 DEF Needed
    <2>3. Len(trans'.input) = 0
      OBVIOUS
    <2> QED
      BY <1>2, <2>2, <2>3
  <1>6. space' <= q + Need(t) /\ space' \in Nat
    <2>1. Need(t) \in Nat /\ i <= Need(t)
      BY <1>1, <1>2 DEF Needed
    <2> QED
      BY <1>2, <1>4, <1>5, <2>1
  <1>7. space' + 41 * Len(trans'.input) <= q + 80 * Len(t.input) + Len(Upto(Ins(t), Len(trans'.input)))
    <2>1. space' <= q + 80 * n
      BY <1>2, <1>4
    <2> QED
      BY <1>2, <1>5, <1>6, <2>1
  <1>8. step' \in {"full", "past", "input"}
    BY DEF Goto
  <1> QED
    BY <1>6, <1>7, <1>8 DEF SpaceAt

LEMMA SpaceCount ==
    ASSUME NEW t, TxThere(t), Stage(t), NEW q \in Nat, SpaceAt(t, q), t.input # <<>>,
           PullInputCount \/ PullMarker
    PROVE  SpaceAt(t, q)'
  <1>1. PICK d : Placed(t, d)
    BY ThePlace
  <1>2. d = Data /\ d \in Seq(Byte) /\ start \in Nat /\ Ordered(t) /\ IsTx(t)
    BY <1>1 DEF Placed
  <1>3. AtCount(t) /\ step = "count"
    BY DEF Stage, PullInputCount, PullMarker
  <1>4. PICK o \in Nat : o = off /\ o = start + 4
    BY <1>2, <1>3 DEF AtCount
  <1>5. /\ Holds(d, start + BodyAt(t), CompactSize(Len(t.input)))
        /\ Fits(8, Len(t.input)) /\ Len(t.input) \in Nat /\ Len(t.input) # 0
    <2>1. t.input \in Seq({t.input[k] : k \in DOMAIN t.input})
      BY <1>2 DEF IsTx, Sized, IsSequence
    <2>2. Len(t.input) # 0
      BY <2>1
    <2> QED
      BY <1>1, <1>2, <2>2, TxBytes DEF Placed, TxHeld
  <1>6. trans.input = <<>> /\ DOMAIN trans = DOMAIN NoTrans
    BY <1>3 DEF AtCount
  <1>7. CASE HasWitness(t)
    <2>1. BodyAt(t) = 6
      BY <1>2, <1>7 DEF Ordered
    <2>2. Holds(d, o, <<0>>) /\ Holds(d, start + 5, <<1>>)
      BY <1>1, <1>4, <1>7, MarkHeld
    <2>3. VarIn(d, o) = 0 /\ VarLenIn(d, o) = 1
      <3>1. CASE o >= Len(d)
        BY <1>2, <3>1, NothingThere
      <3>2. CASE o < Len(d)
        <4>1. 0 \in Nat /\ 0 < 253 /\ o + 1 <= Len(d)
          BY <1>2, <3>2
        <4> QED
          BY <1>2, <2>2, <4>1, HoldsShort
      <3> QED
        BY <1>2, <3>1, <3>2
    <2>4. PullMarker /\ FlagAt = o + 1
      BY <1>2, <1>4, <2>3 DEF PullInputCount, Var, VarLen, FlagAt
    <2>5. PICK g \in Nat : g = o + 1 /\ g = start + 5
      BY <1>2, <1>4
    <2>6. VarIn(d, g) = 1
      BY <1>2, <2>4, <2>5 DEF PullMarker, Var
    <2>7. g < Len(d)
      <3>1. g >= Len(d) => VarIn(d, g) = 0
        BY <1>2, NothingThere
      <3>2. Len(d) \in Nat
        BY <1>2
      <3> QED
        BY <2>6, <3>1, <3>2
    <2>8. VarLenIn(d, g) = 1
      <3>1. 1 \in Nat /\ 1 < 253 /\ g + 1 <= Len(d)
        BY <1>2, <2>7
      <3> QED
        BY <1>2, <2>2, <2>5, <3>1, HoldsShort
    <2>9. PICK c \in Nat : c = g + 1 /\ c = start + BodyAt(t)
      BY <1>2, <2>1, <2>5
    <2>10. /\ space' = space + InputSize * VarIn(d, c) /\ Goto("input")
           /\ trans' = [trans EXCEPT !.segwit = 1, !.input_count = VarIn(d, c)]
      BY <1>2, <2>4, <2>5, <2>8, <2>9 DEF PullMarker, Var, VarLen
    <2>11. VarIn(d, c) \in Nat /\ VarIn(d, c) <= Len(t.input)
      BY <1>2, <1>5, <2>9, VarAtMost
    <2>12. trans'.input = <<>>
      BY <1>6, <2>10 DEF NoTrans
    <2> QED
      BY <1>2, <1>3, <2>10, <2>11, <2>12, SpaceOfInputs
  <1>8. CASE ~HasWitness(t)
    <2>1. o = start + BodyAt(t)
      BY <1>2, <1>4, <1>8 DEF Ordered
    <2>2. Holds(d, o, CompactSize(Len(t.input)))
      BY <1>5, <2>1
    <2>3. PullInputCount
      <3>1. SUFFICES ASSUME PullMarker PROVE FALSE
        OBVIOUS
      <3>2. PICK g : g = o + VarLenIn(d, o) /\ VarIn(d, o) = 0 /\ VarIn(d, g) = 1
        BY <1>2, <1>4, <3>1 DEF PullMarker, FlagAt, Var, VarLen
      <3>3. g \in Nat
        <4>1. VarLenIn(d, o) \in Nat
          BY <1>2, VarIsNatural
        <4> QED
          BY <3>2, <4>1
      <3>4. g >= Len(d) => VarIn(d, g) = 0
        BY <1>2, <3>3, NothingThere
      <3>5. g <= Len(d)
        <4>1. Len(d) \in Nat
          BY <1>2
        <4> QED
          BY <3>2, <3>3, <3>4, <4>1
      <3>6. VarIn(d, o) = Len(t.input)
        BY <1>2, <1>5, <2>2, <3>2, <3>5, HoldsVarint
      <3> QED
        BY <1>5, <3>2, <3>6
    <2>4. /\ space' = space + InputSize * VarIn(d, o) /\ Goto("input")
          /\ trans' = [trans EXCEPT !.segwit = 0, !.input_count = VarIn(d, o)]
      BY <1>2, <1>4, <2>3 DEF PullInputCount, Var
    <2>5. VarIn(d, o) \in Nat /\ VarIn(d, o) <= Len(t.input)
      BY <1>2, <1>5, <2>2, VarAtMost
    <2>6. trans'.input = <<>>
      BY <1>6, <2>4 DEF NoTrans
    <2> QED
      BY <1>2, <1>3, <2>4, <2>5, <2>6, SpaceOfInputs
  <1> QED
    BY <1>7, <1>8

LEMMA SpaceInput ==
    ASSUME NEW t, TxThere(t), Stage(t), NEW q \in Nat, SpaceAt(t, q), ReadInput
    PROVE  SpaceAt(t, q)'
  <1>1. PICK d : Placed(t, d)
    BY ThePlace
  <1>2. d = Data /\ d \in Seq(Byte) /\ start \in Nat /\ Ordered(t) /\ IsTx(t) /\ Needed(t)
    BY <1>1, NeedIs DEF Placed
  <1>3. /\ AtInput(t) /\ InBody(t) /\ InputsRead(t) /\ step = "input"
        /\ Len(trans.input) < trans.input_count /\ trans.input_count = Len(t.input)
    BY DEF Stage, ReadInput, AtInput, InBody
  <1>4. PICK n \in Nat, i \in Nat : n = Len(t.input) /\ i = InNeed(t)
    BY <1>2 DEF Needed
  <1>5. /\ IsSequence(trans.input) /\ Len(trans.input) \in Nat /\ Len(trans.input) < n
        /\ "input" \in DOMAIN trans
    BY <1>3, <1>4, AppendTo DEF InputsRead, InBody, NoTrans
  <1>6. PICK m \in 1..n : m = Len(trans.input) + 1 /\ m - 1 = Len(trans.input)
    BY <1>5
  <1>7. /\ Ins(t) \in Seq(Seq(Byte)) /\ Len(Ins(t)) = n /\ Ins(t)[m] = StoredIn(t.input[m])
        /\ IsIn(t.input[m])
    BY <1>2, <1>4, TxBytes DEF Ins, IsTx
  <1>8. PICK o \in Nat : o = start + InsAt(t)
    BY <1>2 DEF Ordered
  <1>9. off = o + Len(Upto(Ins(t), m - 1))
    BY <1>3, <1>6, <1>8 DEF AtInput
  <1>10. off \in Nat /\ Holds(d, off, Ins(t)[m])
    <2>1. Holds(d, o, FlattenSeq(Ins(t))) /\ m \in 1..Len(Ins(t))
      BY <1>1, <1>7, <1>8 DEF Placed, TxHeld
    <2> QED
      BY <1>2, <1>7, <1>9, <2>1, PartAt
  <1>11. PICK v \in Nat, l \in Nat : v = VarIn(d, off + 36) /\ l = Len(Ins(t)[m]) /\ v + 41 <= l
    <2>1. /\ VarIn(d, off + 36) \in Nat /\ Len(StoredIn(t.input[m])) \in Nat
          /\ VarIn(d, off + 36) + 41 <= Len(StoredIn(t.input[m]))
      BY <1>2, <1>7, <1>10, InputHeld
    <2> QED
      BY <1>7, <2>1
  <1>12. space' = space + v /\ Goto("input") /\ Len(trans'.input) = m
    <2>1. PICK r : trans' = [trans EXCEPT !.input = Append(@, r)]
      BY DEF ReadInput
    <2>2. trans'.input = Append(trans.input, r)
      BY <1>5, <2>1
    <2>3. Len(trans'.input) = m
      BY <1>5, <1>6, <2>2, AppendTo
    <2> QED
      BY <1>2, <1>11, <2>3 DEF ReadInput, Var
  <1>13. PICK u \in Nat, w \in Nat :
           u = Len(Upto(Ins(t), m - 1)) /\ w = Len(Upto(Ins(t), m)) /\ w = u + l
    <2>1. m \in 1..Len(Ins(t))
      BY <1>7
    <2>2. Len(Upto(Ins(t), m - 1)) \in Nat /\ Len(Upto(Ins(t), m)) = Len(Upto(Ins(t), m - 1)) + Len(Ins(t)[m])
      BY <1>7, <2>1, PartsAre
    <2>3. PICK u \in Nat : u = Len(Upto(Ins(t), m - 1))
      BY <2>2
    <2>4. Len(Upto(Ins(t), m)) = u + l
      BY <1>11, <2>2, <2>3
    <2>5. u + l \in Nat
      OBVIOUS
    <2> QED
      BY <2>3, <2>4, <2>5
  <1>14. PICK s \in Nat : s = space /\ s + 41 * (m - 1) <= q + 80 * n + u
    BY <1>3, <1>4, <1>6, <1>13 DEF SpaceAt
  <1>15. space' \in Nat /\ space' + 41 * m <= q + 80 * n + w
    <2>1. PICK a \in Nat : a = space' /\ a = s + v
      BY <1>12, <1>14
    <2>2. w = u + l /\ v + 41 <= l /\ s + 41 * (m - 1) <= q + 80 * n + u
      BY <1>11, <1>13, <1>14
    <2>3. a + 41 * m <= q + 80 * n + w
      BY <2>1, <2>2
    <2> QED
      BY <2>1, <2>3
  <1>16. 80 * n + w <= i + 41 * m
    <2>1. m \in 0..Len(t.input)
      BY <1>4
    <2> QED
      BY <1>2, <1>4, <1>13, <2>1 DEF Needed
  <1>17. space' <= q + Need(t)
    <2>1. PICK x \in Nat : x = Need(t) /\ i <= x
      BY <1>2, <1>4 DEF Needed
    <2>2. space' <= q + i
      <3>1. 80 * n \in Nat /\ 41 * m \in Nat
        OBVIOUS
      <3>2. PICK a, y, z : a = space' /\ y = 80 * n /\ z = 41 * m
        OBVIOUS
      <3>3. a \in Nat /\ y \in Nat /\ z \in Nat /\ a + z <= q + y + w /\ y + w <= i + z
        BY <1>15, <1>16, <3>1, <3>2, Zenon
      <3>4. a <= q + i
        BY <3>3, Cancel
      <3> QED
        BY <3>2, <3>4
    <2> QED
      BY <1>15, <2>1, <2>2
  <1>18. step' \in {"full", "past", "input"}
    BY <1>12 DEF Goto
  <1> QED
    BY <1>4, <1>12, <1>13, <1>15, <1>17, <1>18 DEF SpaceAt

LEMMA SpaceOutputCount ==
    ASSUME NEW t, TxThere(t), Stage(t), NEW q \in Nat, SpaceAt(t, q), PullOutputCount
    PROVE  SpaceAt(t, q)'
  <1>1. PICK d : Placed(t, d)
    BY ThePlace
  <1>2. d = Data /\ d \in Seq(Byte) /\ start \in Nat /\ Ordered(t) /\ IsTx(t) /\ Needed(t)
    BY <1>1, NeedIs DEF Placed
  <1>3. /\ AtInput(t) /\ step = "input" /\ Len(trans.input) = Len(t.input)
        /\ trans.output = <<>> /\ DOMAIN trans = DOMAIN NoTrans
    BY DEF Stage, PullOutputCount, AtInput, InBody
  <1>4. PICK n \in Nat, m \in Nat, i \in Nat, o \in Nat :
          n = Len(t.input) /\ m = Len(t.output) /\ i = InNeed(t) /\ o = OutNeed(t)
    BY <1>2 DEF Needed
  <1>5. PICK c : c = start + CountAt(t)
    OBVIOUS
  <1>6. off = c /\ c \in Nat /\ Holds(d, c, CompactSize(m)) /\ Fits(8, m)
    <2>1. off = start + InsAt(t) + Len(FlattenSeq(Ins(t)))
      BY <1>2, <1>3 DEF AtInput, Needed
    <2>2. CountAt(t) = InsAt(t) + Len(FlattenSeq(Ins(t)))
      BY DEF CountAt
    <2>3. Len(FlattenSeq(Ins(t))) \in Nat /\ InsAt(t) \in Nat
      BY <1>2 DEF Needed, Ordered
    <2>4. Holds(d, c, CompactSize(m)) /\ Fits(8, m)
      BY <1>1, <1>2, <1>4, <1>5, TxBytes DEF Placed, TxHeld
    <2> QED
      BY <1>2, <1>5, <2>1, <2>2, <2>3, <2>4
  <1>7. PICK v \in Nat : v = VarIn(d, c) /\ v <= m
    BY <1>2, <1>6, VarAtMost
  <1>8. /\ space' = space + OutputSize * v /\ Goto("output")
        /\ trans' = [trans EXCEPT !.output_count = v]
    BY <1>2, <1>6, <1>7 DEF PullOutputCount, Var
  <1>9. OutputSize * v \in Nat /\ OutputSize * v <= 24 * m
    <2>1. OutputSize \in Nat /\ OutputSize <= 24 /\ 24 \in Nat
      BY SpaceAssumption, SizesAssumption
    <2> QED
      BY <1>7, <2>1, Times
  <1>10. PICK z \in Nat : z = OutputSize * v /\ z <= 24 * m
    BY <1>9
  <1>11. PICK s \in Nat : s = space /\ s <= q + i
    <2>1. PICK u \in Nat : u = Len(Upto(Ins(t), n)) /\ 80 * n + u <= i + 41 * n
      <3>1. n \in 0..Len(t.input)
        BY <1>4
      <3> QED
        BY <1>2, <1>4, <3>1 DEF Needed
    <2>2. PICK s \in Nat : s = space /\ s + 41 * n <= q + 80 * n + u
      BY <1>3, <1>4, <2>1 DEF SpaceAt
    <2> QED
      BY <2>1, <2>2
  <1>12. Len(trans'.output) = 0 /\ Len(Upto(Outs(t), 0)) = 0 /\ 24 * m <= o
    <2>1. trans'.output = <<>>
      BY <1>3, <1>8 DEF NoTrans
    <2>2. 0 \in 0..Len(t.output)
      BY <1>4
    <2>3. 24 * m + Len(Upto(Outs(t), 0)) <= o + 9 * 0 /\ Len(Upto(Outs(t), 0)) = 0
      BY <1>2, <1>4, <2>2 DEF Needed
    <2> QED
      BY <1>4, <2>1, <2>3
  <1>13. space' \in Nat /\ space' <= q + i + 24 * m
    BY <1>8, <1>10, <1>11
  <1>14. space' <= q + Need(t)
    <2>1. PICK x \in Nat : x = Need(t) /\ i + o <= x
      BY <1>2, <1>4 DEF Needed
    <2> QED
      BY <1>12, <1>13, <2>1
  <1>15. space' + 9 * Len(trans'.output) <=
            q + InNeed(t) + 24 * Len(t.output) + Len(Upto(Outs(t), Len(trans'.output)))
    BY <1>4, <1>12, <1>13
  <1>16. step' \in {"full", "past", "output"}
    BY <1>8 DEF Goto
  <1> QED
    BY <1>13, <1>14, <1>15, <1>16 DEF SpaceAt

LEMMA SpaceOutput ==
    ASSUME NEW t, TxThere(t), Stage(t), NEW q \in Nat, SpaceAt(t, q), ReadOutput
    PROVE  SpaceAt(t, q)'
  <1>1. PICK d : Placed(t, d)
    BY ThePlace
  <1>2. d = Data /\ d \in Seq(Byte) /\ start \in Nat /\ Ordered(t) /\ IsTx(t) /\ Needed(t)
    BY <1>1, NeedIs DEF Placed
  <1>3. /\ AtOutput(t) /\ InBody(t) /\ OutputsRead(t) /\ step = "output"
        /\ Len(trans.output) < trans.output_count /\ trans.output_count = Len(t.output)
    BY DEF Stage, ReadOutput, AtOutput
  <1>4. PICK n \in Nat, i \in Nat, x \in Nat :
          n = Len(t.output) /\ i = InNeed(t) /\ x = OutNeed(t)
    BY <1>2 DEF Needed
  <1>5. /\ IsSequence(trans.output) /\ Len(trans.output) \in Nat /\ Len(trans.output) < n
        /\ "output" \in DOMAIN trans
    BY <1>3, <1>4, AppendTo DEF OutputsRead, InBody, NoTrans
  <1>6. PICK m \in 1..n : m = Len(trans.output) + 1 /\ m - 1 = Len(trans.output)
    BY <1>5
  <1>7. /\ Outs(t) \in Seq(Seq(Byte)) /\ Len(Outs(t)) = n /\ Outs(t)[m] = StoredOut(t.output[m])
        /\ IsOut(t.output[m])
    BY <1>2, <1>4, TxBytes DEF Outs, IsTx
  <1>8. PICK o \in Nat : o = start + OutsAt(t)
    BY <1>2 DEF Ordered
  <1>9. off = o + Len(Upto(Outs(t), m - 1))
    BY <1>3, <1>6, <1>8 DEF AtOutput
  <1>10. off \in Nat /\ Holds(d, off, Outs(t)[m])
    <2>1. Holds(d, o, FlattenSeq(Outs(t))) /\ m \in 1..Len(Outs(t))
      BY <1>1, <1>7, <1>8 DEF Placed, TxHeld
    <2> QED
      BY <1>2, <1>7, <1>9, <2>1, PartAt
  <1>11. PICK v \in Nat, l \in Nat : v = VarIn(d, off + 8) /\ l = Len(Outs(t)[m]) /\ v + 9 <= l
    <2>1. /\ VarIn(d, off + 8) \in Nat /\ Len(StoredOut(t.output[m])) \in Nat
          /\ VarIn(d, off + 8) + 9 <= Len(StoredOut(t.output[m]))
      BY <1>2, <1>7, <1>10, OutputHeld
    <2> QED
      BY <1>7, <2>1
  <1>12. space' = space + v /\ Goto("output") /\ Len(trans'.output) = m
    <2>1. PICK r : trans' = [trans EXCEPT !.output = Append(@, r)]
      BY DEF ReadOutput
    <2>2. trans'.output = Append(trans.output, r)
      BY <1>5, <2>1
    <2>3. Len(trans'.output) = m
      BY <1>5, <1>6, <2>2, AppendTo
    <2> QED
      BY <1>2, <1>11, <2>3 DEF ReadOutput, Var
  <1>13. PICK u \in Nat, w \in Nat :
           u = Len(Upto(Outs(t), m - 1)) /\ w = Len(Upto(Outs(t), m)) /\ w = u + l
    <2>1. m \in 1..Len(Outs(t))
      BY <1>7
    <2>2. /\ Len(Upto(Outs(t), m - 1)) \in Nat
          /\ Len(Upto(Outs(t), m)) = Len(Upto(Outs(t), m - 1)) + Len(Outs(t)[m])
      BY <1>7, <2>1, PartsAre
    <2>3. PICK u \in Nat : u = Len(Upto(Outs(t), m - 1))
      BY <2>2
    <2>4. Len(Upto(Outs(t), m)) = u + l
      BY <1>11, <2>2, <2>3
    <2>5. u + l \in Nat
      OBVIOUS
    <2> QED
      BY <2>3, <2>4, <2>5
  <1>14. PICK s \in Nat : s = space /\ s + 9 * (m - 1) <= q + i + 24 * n + u
    BY <1>3, <1>4, <1>6, <1>13 DEF SpaceAt
  <1>15. space' \in Nat /\ space' + 9 * m <= q + i + 24 * n + w
    <2>1. PICK a \in Nat : a = space' /\ a = s + v
      BY <1>12, <1>14
    <2>2. w = u + l /\ v + 9 <= l /\ s + 9 * (m - 1) <= q + i + 24 * n + u
      BY <1>11, <1>13, <1>14
    <2>3. a + 9 * m <= q + i + 24 * n + w
      BY <2>1, <2>2
    <2> QED
      BY <2>1, <2>3
  <1>16. 24 * n + w <= x + 9 * m
    <2>1. m \in 0..Len(t.output)
      BY <1>4
    <2> QED
      BY <1>2, <1>4, <1>13, <2>1 DEF Needed
  <1>17. space' <= q + Need(t)
    <2>1. PICK e \in Nat : e = Need(t) /\ i + x <= e
      BY <1>2, <1>4 DEF Needed
    <2>2. space' <= q + i + x
      <3>1. 24 * n \in Nat /\ 9 * m \in Nat /\ q + i \in Nat
        OBVIOUS
      <3>2. PICK a, b, y, z : a = space' /\ b = q + i /\ y = 24 * n /\ z = 9 * m
        OBVIOUS
      <3>3. /\ a \in Nat /\ b \in Nat /\ y \in Nat /\ z \in Nat
            /\ a + z <= b + y + w /\ y + w <= x + z
        BY <1>15, <1>16, <3>1, <3>2, Zenon
      <3>4. a <= b + x
        BY <3>3, Cancel
      <3> QED
        BY <3>2, <3>4
    <2> QED
      BY <1>15, <2>1, <2>2
  <1>18. step' \in {"full", "past", "output"}
    BY <1>12 DEF Goto
  <1> QED
    BY <1>4, <1>12, <1>13, <1>15, <1>17, <1>18 DEF SpaceAt

\* Each item of a stack has a byte at least.
LEMMA ItemsAtLeast ==
    ASSUME NEW w, IsStack(w)
    PROVE  /\ Len(w) \in Nat /\ Len(FlattenSeq(Items(w))) \in Nat
           /\ Len(w) <= Len(FlattenSeq(Items(w)))
           /\ \A k \in 0..Len(w) :
                 /\ Len(Upto(Items(w), k)) \in Nat
                 /\ Len(Upto(Items(w), k)) + (Len(w) - k) <= Len(FlattenSeq(Items(w)))
  <1>1. PICK n \in Nat, seqs \in Seq(Seq(Byte)) :
          n = Len(w) /\ seqs = Items(w) /\ Len(seqs) = n /\ DOMAIN w = 1..n
    <2>1. Len(w) \in Nat /\ Items(w) \in Seq(Seq(Byte)) /\ Len(Items(w)) = Len(w) /\ DOMAIN w = 1..Len(w)
      BY StackBytes
    <2> QED
      BY <2>1
  <1>2. ASSUME NEW i \in 1..n PROVE Len(seqs[i]) >= 1
    <2>1. IsScript(w[i]) /\ seqs[i] = Script(w[i])
      BY <1>1 DEF IsStack, Items
    <2>2. PICK c : c = CompactSize(Len(w[i])) /\ c \in Seq(Byte) /\ w[i] \in Seq(Byte)
                   /\ Len(c) \in Nat \ {0} /\ Len(Script(w[i])) = Len(c) + Len(w[i])
      BY <2>1, ScriptBytes, CompactSizeBytes DEF IsScript
    <2>3. Len(c) >= 1 /\ Len(c) \in Nat /\ Len(w[i]) \in Nat
      BY <2>2
    <2>4. Len(seqs[i]) = Len(c) + Len(w[i])
      BY <2>1, <2>2
    <2> QED
      BY <2>3, <2>4
  <1>3. PICK o \in Nat : o = 1
    OBVIOUS
  <1>4. ASSUME NEW k \in 0..n
        PROVE  /\ Len(Upto(seqs, k)) \in Nat /\ Len(FlattenSeq(seqs)) \in Nat
               /\ Len(Upto(seqs, k)) + (n - k) <= Len(FlattenSeq(seqs))
    <2>1. \A i \in 1..Len(seqs) : Len(seqs[i]) >= o
      BY <1>1, <1>2, <1>3
    <2>2. /\ Len(Upto(seqs, k)) \in Nat /\ Len(FlattenSeq(seqs)) \in Nat
          /\ Len(Upto(seqs, k)) + o * (Len(seqs) - k) <= Len(FlattenSeq(seqs))
      BY <1>1, <2>1, AtLeast
    <2>3. o * (Len(seqs) - k) = n - k
      BY <1>1, <1>3
    <2> QED
      BY <2>2, <2>3
  <1>5. Len(FlattenSeq(seqs)) \in Nat /\ n <= Len(FlattenSeq(seqs))
    <2>1. 0 \in 0..n /\ n - 0 = n
      OBVIOUS
    <2>2. PICK u \in Nat, e \in Nat : u = Len(Upto(seqs, 0)) /\ e = Len(FlattenSeq(seqs)) /\ u + (n - 0) <= e
      BY <1>4, <2>1
    <2> QED
      BY <2>2
  <1> QED
    BY <1>1, <1>4, <1>5

LEMMA WitnessRoom ==
    ASSUME NEW t, Needed(t), Ordered(t), start \in Nat
    PROVE  \E o \in Nat, b \in Nat, y \in Nat :
             /\ o = start + WitAt(t) /\ b = Len(WitnessBytes(t)) /\ o + b = start + LockAt(t)
             /\ y = InNeed(t) + OutNeed(t) /\ Need(t) = y + 8 * b
  <1>1. PICK i \in Nat, x \in Nat, b \in Nat, w \in Nat :
          i = InNeed(t) /\ x = OutNeed(t) /\ b = Len(WitnessBytes(t)) /\ w = WitAt(t)
    BY DEF Needed, Ordered
  <1>2. LockAt(t) = w + b /\ Need(t) = i + x + 8 * b
    BY <1>1 DEF LockAt, Need
  <1>3. i + x \in Nat /\ start + w \in Nat /\ (start + w) + b = start + (w + b)
    OBVIOUS
  <1> QED
    BY <1>1, <1>2, <1>3

LEMMA SpaceHashBody ==
    ASSUME NEW t, TxThere(t), Stage(t), NEW q \in Nat, SpaceAt(t, q), HashBody, items' = items
    PROVE  SpaceAt(t, q)'
  <1>1. PICK d : Placed(t, d)
    BY ThePlace
  <1>2. start \in Nat /\ Ordered(t) /\ IsTx(t) /\ Needed(t)
    BY <1>1, NeedIs DEF Placed
  <1>3. /\ AtOutput(t) /\ items = 0 /\ step = "output" /\ Len(trans.output) = Len(t.output)
        /\ space' = space /\ off' = off /\ start' = start /\ step' \in {"witness", "lockTime"}
    BY DEF Stage, HashBody, AtOutput, InBody
  <1>4. PICK n \in Nat, i \in Nat, x \in Nat, o \in Nat, a \in Nat :
          /\ n = Len(t.output) /\ i = InNeed(t) /\ x = OutNeed(t)
          /\ o = start + WitAt(t) /\ a = start + OutsAt(t)
    <2>1. start + WitAt(t) \in Nat /\ start + OutsAt(t) \in Nat
      BY <1>2 DEF Ordered
    <2> QED
      BY <1>2, <2>1 DEF Needed
  <1>5. PICK u \in Nat : u = Len(Upto(Outs(t), n)) /\ 24 * n + u <= x + 9 * n /\ o = a + u
    <2>1. n \in 0..Len(t.output)
      BY <1>4
    <2>2. Upto(Outs(t), n) = FlattenSeq(Outs(t))
      BY <1>2, <1>4 DEF Needed
    <2>3. PICK u \in Nat : u = Len(Upto(Outs(t), n)) /\ 24 * n + u <= x + 9 * n
      BY <1>2, <1>4, <2>1 DEF Needed
    <2>4. WitAt(t) = OutsAt(t) + u
      BY <2>2, <2>3 DEF WitAt
    <2>5. OutsAt(t) \in Nat
      BY <1>2 DEF Ordered
    <2>6. o = a + u
      BY <1>2, <1>4, <2>4, <2>5
    <2> QED
      BY <2>3, <2>6
  <1>6. off = o
    BY <1>3, <1>4, <1>5 DEF AtOutput
  <1>7. PICK s \in Nat : s = space /\ s + 9 * n <= q + i + 24 * n + u
    BY <1>3, <1>4, <1>5 DEF SpaceAt
  <1>8. s <= q + i + x
    BY <1>5, <1>7
  <1>9. space' + 8 * (start' + WitAt(t)) <= q + InNeed(t) + OutNeed(t) + 8 * items' + 8 * off'
    <2>1. s + 8 * o <= q + i + x + 8 * 0 + 8 * o
      BY <1>8
    <2> QED
      BY <1>3, <1>4, <1>6, <1>7, <2>1
  <1>10. space' \in Nat /\ space' <= q + Need(t)
    BY <1>3 DEF SpaceAt
  <1> QED
    BY <1>3, <1>9, <1>10 DEF SpaceAt

LEMMA SpaceWitnessField ==
    ASSUME NEW t, TxThere(t), Stage(t), NEW q \in Nat, SpaceAt(t, q), ReadWitnessField
    PROVE  SpaceAt(t, q)'
  <1>1. PICK d : Placed(t, d)
    BY ThePlace
  <1>2. d = Data /\ d \in Seq(Byte) /\ start \in Nat /\ Ordered(t) /\ IsTx(t) /\ Needed(t)
    BY <1>1, NeedIs DEF Placed
  <1>3. AfterBody(t) /\ HasWitness(t) /\ items = 0 /\ Unread # {} /\ AtWitness(t) /\ step = "witness"
    BY DEF Stage, AtWitness, ReadWitnessField
  <1>4. PICK j \in 0..Len(t.input) : WitnessRead(t, j)
    BY <1>3 DEF AtWitness
  <1>5. PICK m \in 1..Len(t.input) : m = j + 1
    BY <1>2, <1>3, <1>4, UnreadAre
  <1>6. /\ off' = off + VarLenIn(d, off) /\ items' = VarIn(d, off) /\ start' = start
        /\ space' = space + PointerSize * VarIn(d, off) /\ Goto("witness")
    BY <1>2 DEF ReadWitnessField, Var, VarLen
  <1>7. PICK w, p, c : StackAt(t, d, m, w, p, c)
    BY <1>1, <1>3, StackOf
  <1>8. off = p
    <2>1. Len(t.input) \in Nat /\ m - 1 = j
      BY <1>2, <1>5, TxBytes
    <2>2. off = start + WitAt(t) + Len(Upto(Wits(t), j))
      BY <1>1, <1>3, <1>4, StackDone
    <2> QED
      BY <1>7, <2>1, <2>2 DEF StackAt
  <1>9. /\ p \in Nat /\ c \in Nat /\ Fits(8, Len(w)) /\ Len(w) \in Nat /\ IsStack(w)
        /\ Holds(d, p, CompactSize(Len(w))) /\ Items(w) \in Seq(Seq(Byte)) /\ Len(Items(w)) = Len(w)
        /\ p + c + Len(FlattenSeq(Items(w))) <= start + LockAt(t) /\ Len(FlattenSeq(Items(w))) \in Nat
    BY <1>7 DEF StackAt
  <1>10. PICK v \in Nat : v = VarIn(d, p) /\ v <= Len(w)
    BY <1>2, <1>9, VarAtMost
  <1>11. Len(w) <= Len(FlattenSeq(Items(w)))
    BY <1>9, ItemsAtLeast
  <1>12. PICK o \in Nat, b \in Nat, y \in Nat :
           /\ o = start + WitAt(t) /\ b = Len(WitnessBytes(t)) /\ o + b = start + LockAt(t)
           /\ y = InNeed(t) + OutNeed(t) /\ Need(t) = y + 8 * b
    BY <1>2, WitnessRoom
  <1>13. p + v <= o + b
    <2>1. PICK n \in Nat, e \in Nat : n = Len(w) /\ e = Len(FlattenSeq(Items(w))) /\ n <= e
      BY <1>9, <1>11
    <2> QED
      BY <1>9, <1>10, <1>12, <2>1, SMTT(30)
  <1>14. PICK s \in Nat : s = space /\ s + 8 * o <= q + y + 8 * p
    <2>1. space \in Nat /\ space + 8 * (start + WitAt(t)) <= q + InNeed(t) + OutNeed(t) + 8 * items + 8 * off
      BY <1>3 DEF SpaceAt
    <2>2. PICK s \in Nat : s = space
      BY <2>1
    <2>3. PICK i \in Nat, x \in Nat : i = InNeed(t) /\ x = OutNeed(t) /\ y = i + x
      BY <1>2, <1>12 DEF Needed
    <2>4. s + 8 * o <= q + i + x + 8 * 0 + 8 * p
      BY <1>3, <1>8, <1>12, <2>1, <2>2, <2>3
    <2>5. s + 8 * o <= q + y + 8 * p
      BY <1>9, <2>3, <2>4, SMTT(30)
    <2> QED
      BY <2>2, <2>5
  <1>15. PICK r \in Nat : r = PointerSize * v /\ r <= 8 * v
    <2>1. PointerSize \in Nat /\ PointerSize <= 8 /\ 8 \in Nat
      BY SpaceAssumption, SizesAssumption
    <2> QED
      BY <1>10, <2>1, Times
  <1>16. space' = s + r /\ items' = v
    BY <1>6, <1>8, <1>10, <1>14, <1>15
  <1>17. space' \in Nat /\ space' <= q + Need(t)
    <2>1. s + r <= q + (y + 8 * b)
      BY <1>9, <1>13, <1>14, <1>15
    <2> QED
      BY <1>12, <1>16, <2>1
  <1>18. PICK g \in Nat : g = off' /\ g >= p
    <2>1. PICK l \in Nat : l = VarLenIn(d, p)
      BY <1>2, <1>9, VarIsNatural
    <2> QED
      BY <1>6, <1>8, <1>9, <2>1
  <1>19. space' + 8 * (start' + WitAt(t)) <= q + InNeed(t) + OutNeed(t) + 8 * items' + 8 * off'
    <2>1. s + r + 8 * o <= q + y + 8 * v + 8 * g
      BY <1>9, <1>14, <1>15, <1>18, SMTT(30)
    <2>2. PICK i \in Nat, x \in Nat : i = InNeed(t) /\ x = OutNeed(t) /\ y = i + x
      BY <1>2, <1>12 DEF Needed
    <2>3. s + r + 8 * o <= q + i + x + 8 * v + 8 * g
      BY <2>1, <2>2
    <2> QED
      BY <1>6, <1>12, <1>16, <1>18, <2>2, <2>3
  <1>20. step' \in {"full", "past", "witness"}
    BY <1>6 DEF Goto
  <1> QED
    BY <1>17, <1>19, <1>20 DEF SpaceAt

LEMMA SpaceStackItem ==
    ASSUME NEW t, TxThere(t), Stage(t), NEW q \in Nat, SpaceAt(t, q), ReadWitnessStackItem
    PROVE  SpaceAt(t, q)'
  <1>1. PICK d : Placed(t, d)
    BY ThePlace
  <1>2. d = Data /\ d \in Seq(Byte) /\ start \in Nat /\ Ordered(t) /\ IsTx(t) /\ Needed(t)
    BY <1>1, NeedIs DEF Placed
  <1>3. /\ AtWitness(t) /\ HasWitness(t) /\ items > 0 /\ step = "witness"
        /\ off' = off + VarLenIn(d, off) + VarIn(d, off) /\ items' = items - 1
        /\ start' = start /\ space' = space + VarIn(d, off) /\ Goto("witness")
    BY <1>2 DEF Stage, AtWitness, ReadWitnessStackItem, Var, VarLen
  <1>4. PICK j \in 0..Len(t.input) : WitnessRead(t, j)
    BY <1>3 DEF AtWitness
  <1>5. j \in 1..Len(t.input) /\ items \in Nat
    <2>1. j # 0 /\ items \in Nat
      BY <1>3, <1>4 DEF WitnessRead
    <2>2. Len(t.input) \in Nat
      BY <1>2, TxBytes
    <2> QED
      BY <2>1, <2>2
  <1>6. PICK w, p, c : StackAt(t, d, j, w, p, c)
    BY <1>1, <1>3, <1>5, StackOf
  <1>7. /\ p = start + WitAt(t) + Len(Upto(Wits(t), j - 1)) /\ c = Len(CompactSize(Len(w)))
        /\ w = t.input[j].witness
    BY <1>6 DEF StackAt
  <1>8. items <= Len(w) /\ off = p + c + Len(Upto(Items(w), Len(w) - items))
    BY <1>4, <1>5, <1>7 DEF WitnessRead
  <1>9. /\ p \in Nat /\ c \in Nat /\ Len(w) \in Nat /\ IsStack(w)
        /\ Holds(d, p + c, FlattenSeq(Items(w))) /\ Items(w) \in Seq(Seq(Byte)) /\ Len(Items(w)) = Len(w)
        /\ p + c + Len(FlattenSeq(Items(w))) <= start + LockAt(t)
    BY <1>6 DEF StackAt
  <1>10. PICK n \in Nat, k \in Nat : n = Len(w) /\ k = items /\ k > 0 /\ k <= n
    BY <1>3, <1>5, <1>8, <1>9
  <1>11. PICK i \in 1..n : i = n - k + 1 /\ i - 1 = n - k /\ n - i = k - 1
    <2>1. n - k + 1 \in 1..n /\ (n - k + 1) - 1 = n - k /\ n - (n - k + 1) = k - 1
      BY <1>10
    <2> QED
      BY <2>1
  <1>12. PICK o \in Nat : o = p + c
    BY <1>9
  <1>13. off = o + Len(Upto(Items(w), i - 1))
    BY <1>8, <1>10, <1>11, <1>12
  <1>14. Items(w)[i] = Script(w[i]) /\ IsScript(w[i])
    <2>1. DOMAIN w = 1..Len(w)
      BY <1>9, StackBytes
    <2> QED
      BY <1>9, <1>10, <2>1 DEF Items, IsStack
  <1>15. /\ off \in Nat /\ Holds(d, off, Items(w)[i]) /\ Len(Items(w)[i]) \in Nat
         /\ off + Len(Items(w)[i]) = o + Len(Upto(Items(w), i))
    <2>1. i \in 1..Len(Items(w)) /\ Holds(d, o, FlattenSeq(Items(w)))
      BY <1>9, <1>10, <1>12
    <2>2. d \in Seq(Byte) /\ Items(w) \in Seq(Seq(Byte))
      BY <1>2, <1>9
    <2> QED
      BY <1>13, <2>1, <2>2, PartAt, ZenonT(60)
  <1>16. PICK v \in Nat, l \in Nat : v = VarIn(d, off) /\ l = Len(Items(w)[i]) /\ v < l
    <2>1. /\ VarIn(d, off) \in Nat /\ VarIn(d, off) <= Len(w[i]) /\ Len(w[i]) \in Nat
          /\ Len(w[i]) < Len(Script(w[i]))
      BY <1>2, <1>14, <1>15, ScriptAtMost
    <2>2. PICK l \in Nat : l = Len(Items(w)[i])
      BY <1>15
    <2> QED
      BY <1>14, <2>1, <2>2
  <1>17. PICK u \in Nat, e \in Nat :
           u = Len(Upto(Items(w), i)) /\ e = Len(FlattenSeq(Items(w))) /\ u + (n - i) <= e
    <2>1. i \in 0..n
      OBVIOUS
    <2> QED
      BY <1>9, <1>10, <2>1, ItemsAtLeast
  <1>18. PICK a \in Nat, b \in Nat, y \in Nat :
           /\ a = start + WitAt(t) /\ b = Len(WitnessBytes(t)) /\ a + b = start + LockAt(t)
           /\ y = InNeed(t) + OutNeed(t) /\ Need(t) = y + 8 * b
    BY <1>2, WitnessRoom
  <1>19. PICK g \in Nat : g = off /\ g + l = o + u
    BY <1>15, <1>16, <1>17
  <1>20. g + v + k <= a + b
    <2>1. o + e <= a + b
      BY <1>9, <1>12, <1>17, <1>18
    <2>2. u + (k - 1) <= e
      BY <1>11, <1>17
    <2> QED
      BY <1>10, <1>16, <1>19, <2>1, <2>2
  <1>21. PICK s \in Nat : s = space /\ s + 8 * a <= q + y + 8 * k + 8 * g
    <2>1. space \in Nat /\ space + 8 * (start + WitAt(t)) <= q + InNeed(t) + OutNeed(t) + 8 * items + 8 * off
      BY <1>3 DEF SpaceAt
    <2>2. PICK s \in Nat : s = space
      BY <2>1
    <2>3. PICK h \in Nat, x \in Nat : h = InNeed(t) /\ x = OutNeed(t) /\ y = h + x
      BY <1>2, <1>18 DEF Needed
    <2>4. s + 8 * a <= q + h + x + 8 * k + 8 * g
      BY <1>10, <1>18, <1>19, <2>1, <2>2, <2>3
    <2>5. s + 8 * a <= q + y + 8 * k + 8 * g
      BY <2>3, <2>4
    <2> QED
      BY <2>2, <2>5
  <1>22. space' = s + v /\ items' = k - 1
    BY <1>3, <1>10, <1>16, <1>21
  <1>23. space' \in Nat /\ space' <= q + Need(t)
    <2>1. s + v <= q + (y + 8 * b)
      BY <1>20, <1>21
    <2> QED
      BY <1>18, <1>22, <2>1
  <1>24. PICK z \in Nat : z = off' /\ z >= g + v + 1
    <2>1. PICK r \in Nat \ {0} : r = VarLenIn(d, off)
      BY <1>2, <1>15, VarIsNatural
    <2>2. off' = g + r + v
      BY <1>3, <1>16, <1>19, <2>1
    <2> QED
      BY <2>1, <2>2
  <1>25. space' + 8 * (start' + WitAt(t)) <= q + InNeed(t) + OutNeed(t) + 8 * items' + 8 * off'
    <2>1. s + v + 8 * a <= q + y + 8 * (k - 1) + 8 * z
      <3>1. PICK h \in Nat : h = k - 1 /\ k = h + 1
        BY <1>10
      <3>2. s + 8 * a <= q + y + 8 * (h + 1) + 8 * g /\ g + v + 1 <= z
        BY <1>21, <1>24, <3>1
      <3>3. s + v + 8 * a <= q + y + 8 * h + 8 * z
        BY <3>2
      <3> QED
        BY <3>1, <3>3
    <2>2. PICK h \in Nat, x \in Nat : h = InNeed(t) /\ x = OutNeed(t) /\ y = h + x
      BY <1>2, <1>18 DEF Needed
    <2>3. s + v + 8 * a <= q + h + x + 8 * (k - 1) + 8 * z
      BY <2>1, <2>2
    <2> QED
      BY <1>3, <1>18, <1>22, <1>24, <2>2, <2>3
  <1>26. step' \in {"full", "past", "witness"}
    BY <1>3 DEF Goto
  <1> QED
    BY <1>23, <1>25, <1>26 DEF SpaceAt

LEMMA SpaceStep ==
    ASSUME NEW t, TxThere(t), Stage(t), NEW q \in Nat, SpaceAt(t, q), t.input # <<>>, ReadTransaction
    PROVE  SpaceAt(t, q)' /\ (step' = "full" => space' > SpaceSize)
  <1>1. step' = "full" => space' > SpaceSize
    BY DEF ReadTransaction, PullVersion, PullInputCount, PullMarker, BadFlag, ReadInput, PullOutputCount,
           ReadOutput, HashBody, ReadWitnessField, ReadWitnessStackItem, SkipWitness, FinishTransaction, Goto
  <1>2. CASE PullVersion
    <2>1. step = "version" /\ space' = space /\ step' \in {"full", "past", "count"}
      BY <1>2 DEF PullVersion, Goto
    <2> QED
      BY <1>1, <2>1, SpaceStays DEF SpaceAt
  <1>3. CASE PullInputCount \/ PullMarker
    BY <1>1, <1>3, SpaceCount
  <1>4. CASE BadFlag \/ SkipWitness \/ FinishTransaction
    <2>1. space' = space /\ step' \in {"full", "past", "badFlag", "lockTime", "read"}
      BY <1>4 DEF BadFlag, SkipWitness, FinishTransaction, Goto
    <2> QED
      BY <1>1, <2>1, SpaceStays
  <1>5. CASE ReadInput
    BY <1>1, <1>5, SpaceInput
  <1>6. CASE PullOutputCount
    BY <1>1, <1>6, SpaceOutputCount
  <1>7. CASE ReadOutput
    BY <1>1, <1>7, SpaceOutput
  <1>8. CASE HashBody /\ items' = items
    BY <1>1, <1>8, SpaceHashBody
  <1>9. CASE ReadWitnessField
    BY <1>1, <1>9, SpaceWitnessField
  <1>10. CASE ReadWitnessStackItem
    BY <1>1, <1>10, SpaceStackItem
  <1> QED
    BY <1>2, <1>3, <1>4, <1>5, <1>6, <1>7, <1>8, <1>9, <1>10 DEF ReadTransaction

\* What is taken at most where m transactions of a block have been read: the
\* structs of those that are left, and Weight bytes for each byte of the others.
Weight(b) == IF Segwit(b) THEN 8 ELSE 4
Charge(b, m) == 120 * (Len(b.txs) - m) + Weight(b) * Len(Upto(Sers(b), m))

HasInputs(b) == \A i \in DOMAIN b.txs : b.txs[i].input # <<>>

LEMMA ChargeIs ==
    ASSUME NEW b, IsBlock(b), HasInputs(b)
    PROVE  /\ Len(b.txs) \in Nat /\ Len(StoredBlock(b)) \in Nat
           /\ Charge(b, 0) = 120 * Len(b.txs)
           /\ \A m \in 0..Len(b.txs) :
                 Charge(b, m) \in Nat /\ Charge(b, m) < Weight(b) * Len(StoredBlock(b))
           /\ \A m \in 1..Len(b.txs) :
                 Need(b.txs[m]) \in Nat /\ Charge(b, m - 1) + Need(b.txs[m]) <= Charge(b, m)
  <1>1. PICK n \in Nat, seqs \in Seq(Seq(Byte)) :
          /\ n = Len(b.txs) /\ seqs = Sers(b) /\ Len(seqs) = n /\ DOMAIN b.txs = 1..n
          /\ \A i \in 1..n : IsTx(b.txs[i]) /\ seqs[i] = Serialized(b.txs[i])
    <2>1. /\ Sers(b) \in Seq(Seq(Byte)) /\ Len(Sers(b)) = Len(b.txs)
          /\ DOMAIN b.txs = 1..Len(b.txs) /\ Len(b.txs) \in Nat
          /\ \A i \in 1..Len(b.txs) : IsTx(b.txs[i]) /\ Sers(b)[i] = Serialized(b.txs[i])
      BY SersAre
    <2> QED
      BY <2>1
  <1>2. PICK w \in {4, 8} : w = Weight(b)
    BY DEF Weight
  <1>3. ASSUME NEW i \in 1..n
        PROVE  /\ Need(b.txs[i]) \in Nat /\ Len(seqs[i]) \in Nat /\ Len(seqs[i]) >= 30
               /\ 120 + Need(b.txs[i]) <= w * Len(seqs[i])
    <2>1. IsTx(b.txs[i]) /\ b.txs[i].input # <<>> /\ seqs[i] = Serialized(b.txs[i])
      BY <1>1 DEF HasInputs
    <2>2. PICK x, l : x = Need(b.txs[i]) /\ l = Len(seqs[i])
      OBVIOUS
    <2>3. /\ x \in Nat /\ l \in Nat /\ l >= 30 /\ 120 + x <= 8 * l
          /\ ~HasWitness(b.txs[i]) => 120 + x <= 4 * l
      BY <2>1, <2>2, NeedIsSmall
    <2>4. w = 8 \/ ~HasWitness(b.txs[i])
      BY <1>1, <1>2 DEF Weight, Segwit
    <2>5. w = 4 \/ w = 8
      OBVIOUS
    <2>6. 120 + x <= w * l
      BY <2>3, <2>4, <2>5
    <2> QED
      BY <2>2, <2>3, <2>6
  <1>4. PICK f0 \in Nat, s0 \in Nat : f0 = Len(FlattenSeq(seqs)) /\ s0 = Len(StoredBlock(b)) /\ f0 < s0
    <2>1. PICK c, k : BlockParts(b, c, k)
      BY PartsOfBlock
    <2>2. c \in Nat /\ k \in Nat /\ k = Len(FlattenSeq(seqs)) /\ Len(StoredBlock(b)) = 88 + c + k
      BY <1>1, <2>1 DEF BlockParts, Bytes
    <2>3. 88 + c + k \in Nat /\ k < 88 + c + k
      BY <2>2
    <2> QED
      BY <2>2, <2>3
  <1>5. ASSUME NEW m \in 0..n
        PROVE  /\ Len(Upto(seqs, m)) \in Nat /\ Len(Upto(seqs, m)) + 30 * (n - m) <= f0
               /\ Charge(b, m) = 120 * (n - m) + w * Len(Upto(seqs, m))
    <2>1. 30 \in Nat /\ \A i \in 1..Len(seqs) : Len(seqs[i]) >= 30
      BY <1>1, <1>3
    <2>2. /\ Len(Upto(seqs, m)) \in Nat
          /\ Len(Upto(seqs, m)) + 30 * (Len(seqs) - m) <= Len(FlattenSeq(seqs))
      BY <1>1, <2>1, AtLeast
    <2> QED
      BY <1>1, <1>2, <1>4, <2>2 DEF Charge
  <1>6. ASSUME NEW m \in 0..n PROVE Charge(b, m) \in Nat /\ Charge(b, m) < w * s0
    <2>1. PICK u \in Nat, k \in Nat : u = Len(Upto(seqs, m)) /\ k = n - m
      BY <1>5
    <2>2. Charge(b, m) = 120 * k + w * u /\ u + 30 * k <= f0
      BY <1>5, <2>1
    <2>3. w = 4 \/ w = 8
      OBVIOUS
    <2>4. 120 * k + w * u \in Nat /\ 120 * k + w * u < w * s0
      BY <1>4, <2>2, <2>3
    <2> QED
      BY <2>2, <2>4
  <1>7. Charge(b, 0) = 120 * n
    <2>1. Len(Upto(seqs, 0)) = 0
      BY FirstPart
    <2>2. 0 \in 0..n /\ n - 0 = n /\ w * 0 = 0
      OBVIOUS
    <2>3. Charge(b, 0) = 120 * (n - 0) + w * 0
      BY <1>5, <2>1, <2>2
    <2> QED
      BY <2>2, <2>3
  <1>8. ASSUME NEW m \in 1..n
        PROVE  Need(b.txs[m]) \in Nat /\ Charge(b, m - 1) + Need(b.txs[m]) <= Charge(b, m)
    <2>1. PICK x \in Nat, l \in Nat : x = Need(b.txs[m]) /\ l = Len(seqs[m]) /\ 120 + x <= w * l
      BY <1>3
    <2>2. PICK k \in Nat : k = n - m /\ n - (m - 1) = k + 1 /\ m \in 0..n /\ m - 1 \in 0..n
      <3>1. n - m \in Nat /\ n - (m - 1) = (n - m) + 1 /\ m \in 0..n /\ m - 1 \in 0..n
        OBVIOUS
      <3> QED
        BY <3>1
    <2>3. PICK u \in Nat : u = Len(Upto(seqs, m - 1)) /\ Len(Upto(seqs, m)) = u + l
      <3>1. m \in 1..Len(seqs)
        BY <1>1
      <3>2. /\ Len(Upto(seqs, m - 1)) \in Nat
            /\ Len(Upto(seqs, m)) = Len(Upto(seqs, m - 1)) + Len(seqs[m])
        BY <3>1, PartsAre
      <3> QED
        BY <2>1, <3>2
    <2>4. Charge(b, m - 1) = 120 * (k + 1) + w * u /\ Charge(b, m) = 120 * k + w * (u + l)
      BY <1>5, <2>2, <2>3
    <2>5. w = 4 \/ w = 8
      OBVIOUS
    <2>6. 120 * (k + 1) + w * u + x <= 120 * k + w * (u + l)
      <3>1. CASE w = 4
        <4>1. 120 + x <= 4 * l
          BY <2>1, <3>1
        <4>2. 120 * (k + 1) + 4 * u + x <= 120 * k + 4 * (u + l)
          BY <4>1
        <4> QED
          BY <3>1, <4>2
      <3>2. CASE w = 8
        <4>1. 120 + x <= 8 * l
          BY <2>1, <3>2
        <4>2. 120 * (k + 1) + 8 * u + x <= 120 * k + 8 * (u + l)
          BY <4>1
        <4> QED
          BY <3>2, <4>2
      <3> QED
        BY <2>5, <3>1, <3>2
    <2> QED
      BY <2>1, <2>4, <2>6
  <1> QED
    BY <1>1, <1>2, <1>4, <1>6, <1>7, <1>8

\* The space of the block at hand, where each of its transactions has an input.
SpaceInv ==
    LET b == BlockOf(current) IN
    HasInputs(b) =>
        /\ pc = "block" /\ step = "idle" => space \in Nat /\ space <= Charge(b, Len(txs))
        /\ pc = "block" /\ step # "idle" => SpaceAt(TxOf(current, Len(txs) + 1), Charge(b, Len(txs)))
        /\ step = "full" => space > SpaceSize
        /\ pc = "full" =>
              IsBlock(b) /\ space \in Nat /\ space > SpaceSize /\ space <= Charge(b, 0)

LEMMA SpaceInvElsewhere == ASSUME pc' \notin {"block", "full"}, FoundInv' PROVE SpaceInv'
  <1>1. step' # "full"
    BY DEF FoundInv
  <1> QED
    BY <1>1 DEF SpaceInv

LEMMA SpaceInvStutter == ASSUME SpaceInv, UNCHANGED vars PROVE SpaceInv'
  <1>1. UNCHANGED <<names, pc, current, txs, step, space, trans, start, items, off>>
    BY DEF vars, parseVars, scanVars
  <1>2. BlockOf(current)' = BlockOf(current)
    BY <1>1 DEF BlockOf, StoredBlocks
  <1>3. \A t, q : SpaceAt(t, q) => SpaceAt(t, q)'
    BY <1>1 DEF SpaceAt
  <1> QED
    BY <1>1, <1>2, <1>3 DEF SpaceInv, TxOf

LEMMA SpaceInvEnter == ASSUME ReadInv, EnterBlock PROVE SpaceInv'
  <1>1. PICK k \in DOMAIN found :
          /\ pc = "iterate" /\ current' = k /\ txs' = <<>> /\ names' = names /\ step' = step
          /\ space' = SpaceAtBlock + TransactionSize * found[k].bh.transaction_count
          /\ pc' = IF space' > SpaceSize THEN "full" ELSE "block"
    BY DEF EnterBlock
  <1>2. PICK b : b = BlockOf(k)
    OBVIOUS
  <1>3. IsBlock(b) /\ found[k].bh.transaction_count = Len(b.txs)
    <2>1. PICK n : n = names[found[k].filenum]
      OBVIOUS
    <2> QED
      BY <1>1, <1>2, <2>1, BlockAtHand DEF ReadInv, FoundAs
  <1>4. BlockOf(current)' = b
    BY <1>1, <1>2 DEF BlockOf, StoredBlocks
  <1>5. step' = "idle" /\ Len(txs') = 0
    BY <1>1 DEF ReadInv, IInv, FoundInv
  <1>6. ASSUME HasInputs(b) PROVE space' \in Nat /\ space' <= Charge(b, 0)
    <2>1. PICK n \in Nat : n = Len(b.txs) /\ Charge(b, 0) = 120 * n
      BY <1>3, <1>6, ChargeIs
    <2>2. TransactionSize * n \in Nat /\ TransactionSize * n <= 120 * n
      <3>1. TransactionSize \in Nat /\ TransactionSize <= 120 /\ 120 \in Nat
        BY SpaceAssumption, SizesAssumption
      <3> QED
        BY <3>1, Times
    <2>3. space' = 0 + TransactionSize * n
      BY <1>1, <1>3, <2>1 DEF SpaceAtBlock
    <2> QED
      BY <2>1, <2>2, <2>3
  <1>7. pc' = "full" => space' > SpaceSize
    BY <1>1
  <1> QED
    BY <1>3, <1>4, <1>5, <1>6, <1>7 DEF SpaceInv

\* A transaction of the block at hand is begun, read on, or done.
LEMMA SpaceInvBlock ==
    ASSUME ReadInv, SpaceInv, NextTransaction \/ Parse \/ TransactionRead
    PROVE  SpaceInv'
  <1>1. pc = "block" /\ pc' = "block" /\ UNCHANGED <<names, current, found>>
    BY DEF NextTransaction, BeginTransaction, BlockFile, Parse, ReadTransaction, TransactionRead,
           scanVars, fileVars
  <1>2. PICK b : b = BlockOf(current) /\ b = BlockOf(current)'
    BY <1>1 DEF BlockOf, StoredBlocks
  <1>3. SUFFICES ASSUME HasInputs(b), NEW v, v = b.txs[Len(txs') + 1], NEW c, c = Charge(b, Len(txs'))
                 PROVE  /\ step' = "idle" => space' \in Nat /\ space' <= c
                        /\ step' # "idle" => SpaceAt(v, c)'
                        /\ step' = "full" => space' > SpaceSize
    <2>1. PICK v, c : v = b.txs[Len(txs') + 1] /\ c = Charge(b, Len(txs'))
      OBVIOUS
    <2>2. TxOf(current, Len(txs) + 1)' = v /\ Charge(b, Len(txs))' = c
      BY <1>2, <2>1, Zenon DEF TxOf, Charge, Weight
    <2>3. SpaceAt(v, c)' => SpaceAt(TxOf(current, Len(txs) + 1), Charge(b, Len(txs)))'
      BY <2>2 DEF SpaceAt
    <2> QED
      BY <1>1, <1>2, <2>1, <2>2, <2>3 DEF SpaceInv
  <1>4. PICK m \in Nat : m = Len(txs)
    BY DEF ReadInv, TxsInv, IsSequence
  <1>5. IsBlock(b) /\ found[current].bh.transaction_count = Len(b.txs) /\ Len(b.txs) \in Nat
    <2>1. PICK n : n = names[found[current].filenum]
      OBVIOUS
    <2>2. current \in DOMAIN found
      BY <1>1 DEF ReadInv, IInv, FoundInv
    <2>3. FoundAs(found[current], b, n)
      BY <1>1, <1>2, <2>1, <2>2, BlockAtHand DEF ReadInv
    <2> QED
      BY <2>3, SersAre DEF FoundAs
  <1>6. PICK t, q : t = b.txs[m + 1] /\ q = Charge(b, m)
    OBVIOUS
  <1>7. ASSUME m < Len(b.txs)
        PROVE  /\ q \in Nat /\ t.input # <<>> /\ IsTx(t) /\ Need(t) \in Nat
               /\ Charge(b, m + 1) \in Nat /\ q + Need(t) <= Charge(b, m + 1)
    <2>1. m \in 0..Len(b.txs) /\ m + 1 \in 1..Len(b.txs) /\ m + 1 \in 0..Len(b.txs) /\ (m + 1) - 1 = m
      BY <1>5, <1>7
    <2>2. IsTx(t) /\ t.input # <<>>
      BY <1>3, <1>5, <1>6, <2>1, SersAre DEF HasInputs
    <2>3. q \in Nat /\ Charge(b, m + 1) \in Nat
      BY <1>3, <1>5, <1>6, <2>1, ChargeIs
    <2>4. Need(b.txs[m + 1]) \in Nat /\ Charge(b, (m + 1) - 1) + Need(b.txs[m + 1]) <= Charge(b, m + 1)
      BY <1>3, <1>5, <2>1, ChargeIs
    <2> QED
      BY <1>6, <2>1, <2>2, <2>3, <2>4
  <1>8. CASE NextTransaction
    <2>1. step = "idle" /\ m < Len(b.txs) /\ step' = "version" /\ space' = space /\ txs' = txs
      BY <1>4, <1>5, <1>8 DEF NextTransaction, BeginTransaction, scanVars
    <2>2. space \in Nat /\ space <= q
      BY <1>1, <1>2, <1>3, <1>4, <1>6, <2>1 DEF SpaceInv
    <2>3. SpaceAt(t, q)'
      <3>1. space' \in Nat /\ space' <= q /\ space' <= q + Need(t)
        BY <1>7, <2>1, <2>2
      <3> QED
        BY <2>1, <3>1 DEF SpaceAt
    <2> QED
      BY <1>3, <1>4, <1>6, <2>1, <2>3
  <1>9. CASE Parse
    <2>1. ReadTransaction /\ txs' = txs /\ step # "idle" /\ step' # "idle"
      BY <1>1, <1>9, ParsingKeepsTheFile, NotIdle DEF Parse, scanVars
    <2>2. PICK p : InBlock(b, p)
      BY <1>1, <1>2 DEF ReadInv, TxsInv
    <2>3. m < Len(b.txs) /\ TxThere(t) /\ Stage(t) /\ t = TxOf(current, Len(txs) + 1)
      BY <1>2, <1>4, <1>6, <2>1, <2>2 DEF InBlock, TxOf
    <2>4. SpaceAt(t, q)
      BY <1>1, <1>2, <1>3, <1>4, <1>6, <2>1, <2>3 DEF SpaceInv
    <2>5. SpaceAt(t, q)' /\ (step' = "full" => space' > SpaceSize)
      BY <1>7, <2>1, <2>3, <2>4, SpaceStep
    <2> QED
      BY <1>3, <1>4, <1>6, <2>1, <2>5
  <1>10. CASE TransactionRead
    <2>1. step = "read" /\ step' = "idle" /\ space' = space /\ txs' = Append(txs, trans)
      BY <1>10 DEF TransactionRead
    <2>2. PICK p : InBlock(b, p)
      BY <1>1, <1>2 DEF ReadInv, TxsInv
    <2>3. m < Len(b.txs) /\ t = TxOf(current, Len(txs) + 1)
      BY <1>2, <1>4, <1>6, <2>1, <2>2 DEF InBlock, TxOf
    <2>4. SpaceAt(t, q)
      BY <1>1, <1>2, <1>3, <1>4, <1>6, <2>1, <2>3 DEF SpaceInv
    <2>5. space \in Nat /\ space <= Charge(b, m + 1)
      <3>1. PICK s \in Nat, x \in Nat, e \in Nat : s = space /\ x = Need(t) /\ e = Charge(b, m + 1)
        BY <1>7, <2>3, <2>4 DEF SpaceAt
      <3>2. s <= q + x /\ q + x <= e /\ q \in Nat
        BY <1>7, <2>3, <2>4, <3>1 DEF SpaceAt
      <3>3. s <= e
        BY <3>2
      <3> QED
        BY <3>1, <3>3
    <2>6. Len(txs') = m + 1
      <3>1. IsSequence(txs)
        BY DEF ReadInv, TxsInv
      <3> QED
        BY <1>4, <2>1, <3>1, AppendTo
    <2> QED
      BY <1>3, <1>6, <2>1, <2>5, <2>6
  <1> QED
    BY <1>8, <1>9, <1>10

LEMMA KeepsSpaceInv == ASSUME ReadInv, SpaceInv, [Next]_vars PROVE SpaceInv'
  <1>1. FoundInv'
    BY KeepsReadInv DEF ReadInv, IInv
  <1>2. CASE Read
    <2>1. CASE ListEntry \/ ListDone \/ SkipHole \/ ScanBlock \/ ScanFileDone \/ ScanDone \/ LeaveBlock \/ NoBlocks
      <3>1. pc' \notin {"block", "full"}
        BY <2>1 DEF ListEntry, ListDone, SkipHole, ScanBlock, ScanFileDone, ScanDone, LeaveBlock, NoBlocks
      <3> QED
        BY <1>1, <3>1, SpaceInvElsewhere
    <2>2. CASE EnterBlock
      BY <2>2, SpaceInvEnter
    <2>3. CASE NextTransaction \/ Parse \/ TransactionRead
      BY <2>3, SpaceInvBlock
    <2> QED
      BY <1>2, <2>1, <2>2, <2>3 DEF Read
  <1>3. CASE UNCHANGED vars
    BY <1>3, SpaceInvStutter
  <1> QED
    BY <1>2, <1>3 DEF Next

\* The space is only too small for a large block: the arrays, the scripts and the
\* copied witnesses of its transactions, which are freed for the next block, take
\* less than four bytes for each of its bytes, eight if there are witnesses.
THEOREM SpaceIsEnough == Spec => []SpaceSuffices
  <1>1. Init => SpaceInv
    <2>1. Init => pc = "list" /\ step = "idle"
      BY DEF Init, ParseInit
    <2> QED
      BY <2>1 DEF SpaceInv
  <1>2. ReadInv /\ SpaceInv /\ [Next]_vars => SpaceInv'
    BY KeepsSpaceInv
  <1>3. ASSUME ReadInv, SpaceInv PROVE SpaceSuffices
    <2>1. PICK b : b = BlockOf(current)
      OBVIOUS
    <2>2. SUFFICES ASSUME step = "full" \/ pc = "full", HasInputs(b)
                   PROVE  Weight(b) * Len(StoredBlock(b)) > SpaceSize
      BY <2>1 DEF SpaceSuffices, HasInputs, Weight, TxOf
    <2>3. ASSUME IsBlock(b), NEW m \in 0..Len(b.txs), space \in Nat, space > SpaceSize,
                 space <= Charge(b, m)
          PROVE  Weight(b) * Len(StoredBlock(b)) > SpaceSize
      <3>1. PICK c \in Nat, s \in Nat : c = Charge(b, m) /\ s = space
        BY <2>2, <2>3, ChargeIs
      <3>2. PICK x \in Nat : x = Weight(b) * Len(StoredBlock(b)) /\ c < x
        <4>1. Weight(b) * Len(StoredBlock(b)) \in Nat
          BY <2>2, <2>3, ChargeIs DEF Weight
        <4> QED
          BY <2>2, <2>3, <3>1, <4>1, ChargeIs
      <3>3. SpaceSize \in Nat
        BY SpaceAssumption
      <3> QED
        BY <2>3, <3>1, <3>2, <3>3
    <2>4. CASE pc = "full"
      <3>1. IsBlock(b) /\ space \in Nat /\ space > SpaceSize /\ space <= Charge(b, 0)
        BY <1>3, <2>1, <2>2, <2>4 DEF SpaceInv
      <3>2. 0 \in 0..Len(b.txs)
        BY <3>1, SersAre
      <3> QED
        BY <2>3, <3>1, <3>2
    <2>5. CASE step = "full"
      <3>1. pc = "block" /\ current \in DOMAIN found
        BY <1>3, <2>5 DEF ReadInv, IInv, FoundInv
      <3>2. PICK m \in Nat : m = Len(txs)
        BY <1>3 DEF ReadInv, TxsInv, IsSequence
      <3>3. IsBlock(b) /\ Len(b.txs) \in Nat
        <4>1. PICK n : n = names[found[current].filenum]
          OBVIOUS
        <4>2. FoundAs(found[current], b, n)
          BY <1>3, <2>1, <3>1, <4>1, BlockAtHand DEF ReadInv
        <4> QED
          BY <4>2, SersAre DEF FoundAs
      <3>4. m < Len(b.txs)
        BY <1>3, <2>1, <2>5, <3>1, <3>2 DEF ReadInv, TxsInv, InBlock
      <3>5. space > SpaceSize /\ SpaceAt(b.txs[m + 1], Charge(b, m))
        BY <1>3, <2>1, <2>2, <2>5, <3>1, <3>2 DEF SpaceInv, TxOf
      <3>6. m \in 0..Len(b.txs) /\ m + 1 \in 1..Len(b.txs) /\ m + 1 \in 0..Len(b.txs) /\ (m + 1) - 1 = m
        BY <3>3, <3>4
      <3>7. PICK q \in Nat, x \in Nat, e \in Nat :
              q = Charge(b, m) /\ x = Need(b.txs[m + 1]) /\ e = Charge(b, m + 1) /\ q + x <= e
        <4>1. Charge(b, m) \in Nat /\ Charge(b, m + 1) \in Nat
          BY <2>2, <3>3, <3>6, ChargeIs
        <4>2. Need(b.txs[m + 1]) \in Nat /\ Charge(b, (m + 1) - 1) + Need(b.txs[m + 1]) <= Charge(b, m + 1)
          BY <2>2, <3>3, <3>6, ChargeIs
        <4> QED
          BY <3>6, <4>1, <4>2
      <3>8. space \in Nat /\ space <= q + x
        BY <3>5, <3>7 DEF SpaceAt
      <3>9. space <= Charge(b, m + 1)
        BY <3>7, <3>8
      <3> QED
        BY <2>3, <3>3, <3>5, <3>6, <3>8, <3>9
    <2> QED
      BY <2>2, <2>4, <2>5
  <1> QED
    BY <1>1, <1>2, <1>3, ByteInvariance, PTL DEF Spec

\* The scan stops only at the end of a file that is not whole, the parser only at
\* such an end, at a transaction without an input, or in a block too large for the
\* space: no other block, however its bytes are, makes either give up.
THEOREM GivesUpForAReason == Spec => []EndsForAReason
  <1>1. ASSUME ReadInv, step # "idle"
        PROVE  \E b, p, t, n :
                  /\ b = BlockOf(current) /\ p = found[current].pos /\ n = slot[f]
                  /\ t = TxOf(current, Len(txs) + 1) /\ TxThere(t) /\ Stage(t)
                  /\ Len(txs) < Len(b.txs) /\ start = p + Len(Upto(Sers(b), Len(txs)))
                  /\ FoundAs(found[current], b, n) /\ Content[n] \in Seq(Byte) /\ Data = Content[n]
    <2>1. pc = "block" /\ current \in DOMAIN found
      BY <1>1 DEF ReadInv, IInv, FoundInv
    <2>2. PICK b, p : b = BlockOf(current) /\ p = found[current].pos /\ InBlock(b, p)
      BY <1>1, <2>1 DEF ReadInv, TxsInv
    <2>3. PICK n : n = slot[f] /\ n = names[found[current].filenum]
      BY <1>1, <2>1 DEF ReadInv, IInv, RightFileOpen
    <2>4. FoundAs(found[current], b, n) /\ Content[n] \in Seq(Byte)
      BY <1>1, <2>1, <2>2, <2>3, BlockAtHand DEF ReadInv
    <2>5. Data = Content[n]
      BY <1>1, <2>3 DEF ReadInv, ScanInv, Data
    <2> QED
      BY <1>1, <2>2, <2>3, <2>4, <2>5 DEF InBlock
  <1>2. ASSUME ReadInv, step = "past" PROVE ~Complete(slot[f])
    <2>1. PICK b, p, t, n :
            /\ b = BlockOf(current) /\ p = found[current].pos /\ n = slot[f]
            /\ t = TxOf(current, Len(txs) + 1) /\ TxThere(t) /\ Stage(t)
            /\ Len(txs) < Len(b.txs) /\ start = p + Len(Upto(Sers(b), Len(txs)))
            /\ FoundAs(found[current], b, n) /\ Content[n] \in Seq(Byte) /\ Data = Content[n]
      BY <1>1, <1>2
    <2>2. start + Len(Serialized(t)) > Len(Content[n])
      BY <1>2, <2>1 DEF Stage
    <2>3. /\ IsBlock(b) /\ p \in Nat /\ Holds(Content[n], p, FlattenSeq(Sers(b)))
          /\ Complete(n) => p + Len(FlattenSeq(Sers(b))) <= Len(Content[n])
      BY <2>1 DEF FoundAs
    <2>4. PICK m \in Nat : m = Len(txs)
      BY <1>2 DEF ReadInv, TxsInv, IsSequence
    <2>5. /\ Sers(b) \in Seq(Seq(Byte)) /\ Len(Sers(b)) = Len(b.txs) /\ Len(b.txs) \in Nat
          /\ \A i \in 1..Len(b.txs) : Sers(b)[i] = Serialized(b.txs[i])
      BY <2>3, SersAre
    <2>6. m + 1 \in 1..Len(b.txs) /\ m + 1 \in 1..Len(Sers(b)) /\ (m + 1) - 1 = m
      BY <2>1, <2>4, <2>5
    <2>7. Sers(b)[m + 1] = Serialized(t)
      BY <2>1, <2>4, <2>5, <2>6 DEF TxOf
    <2>8. start + Len(Sers(b)[m + 1]) <= p + Len(FlattenSeq(Sers(b)))
      <3>1. start = p + Len(Upto(Sers(b), (m + 1) - 1))
        BY <2>1, <2>4, <2>6
      <3> QED
        BY <2>1, <2>3, <2>5, <2>6, <3>1, PartAt
    <2>9. Len(Sers(b)[m + 1]) \in Nat /\ Len(FlattenSeq(Sers(b))) \in Nat /\ start \in Nat
      BY <2>1, <2>3, <2>5, <2>6, PartsAre, SersAre DEF TxThere
    <2>10. ~(p + Len(FlattenSeq(Sers(b))) <= Len(Content[n]))
      <3>1. PICK x \in Nat : x = start + Len(Sers(b)[m + 1])
        BY <2>9
      <3>2. PICK y \in Nat : y = p + Len(FlattenSeq(Sers(b)))
        BY <2>3, <2>9
      <3>3. PICK e \in Nat : e = Len(Content[n])
        <4>1. Content[n] \in Seq(Byte)
          BY <2>1
        <4> QED
          BY <4>1
      <3>4. x > e /\ x <= y
        BY <2>2, <2>7, <2>8, <3>1, <3>2, <3>3
      <3> QED
        BY <3>2, <3>3, <3>4
    <2> QED
      BY <2>1, <2>3, <2>10
  <1>3. ASSUME ReadInv, step = "badFlag" PROVE TxOf(current, Len(txs) + 1).input = <<>>
    <2>1. PICK t : t = TxOf(current, Len(txs) + 1) /\ Stage(t)
      BY <1>1, <1>3
    <2> QED
      BY <1>3, <2>1 DEF Stage
  <1>4. ReadInv /\ pc = "past" => \E n \in dir : ~Complete(n)
    BY DEF ReadInv, ScanInv
  <1>5. ReadInv /\ SpaceSuffices => EndsForAReason
    BY <1>2, <1>3, <1>4 DEF EndsForAReason
  <1> QED
    BY <1>5, ByteInvariance, SpaceIsEnough, PTL
=============================================================================
