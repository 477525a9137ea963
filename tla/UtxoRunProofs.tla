---------------------------- MODULE UtxoRunProofs ----------------------------
(***************************************************************************)
(* Proofs about UtxoRun, for any set of processes, block tree, options and *)
(* number of runs.                                                         *)
(*                                                                         *)
(* The map of unspent outputs is compared with a count over the places of  *)
(* the chain. One transaction moves the count by one place, so that no     *)
(* induction over the chain is needed: the invariant carries it.           *)
(***************************************************************************)
EXTENDS UtxoRun, FiniteSetTheorems, TLAPS

FileType == [entries : [OutPoint -> Nat], torn : BOOLEAN]

\* The type of every variable.
TypeOK ==
    /\ atomicSave \in DOMAIN Runs
    /\ cache \in [Block -> FileType \cup {NoFile}]
    /\ started \in Nat
    /\ pc \in [Proc -> {"idle", "load", "walk", "save", "tx", "report", "next", "exit", "unknown"}]
    /\ run \in [Proc -> RunType]
    /\ pos \in [Proc -> Nat \ {0}]
    /\ tx \in [Proc -> Nat \ {0}]
    /\ pending \in [Proc -> BOOLEAN]
    /\ needsFee \in [Proc -> BOOLEAN]
    /\ utxos \in [Proc -> [OutPoint -> Nat]]
    /\ saving \in [Proc -> [OutPoint -> Nat]]
    /\ iterated \in [Proc -> Nat]
    /\ reports \in [Proc -> Seq(Block)]

\* Where a process is in its chain.
PlaceInv(p) ==
    /\ pc[p] # "idle" => run[p] \in Runs[atomicSave]
    /\ pos[p] <= Len(Chain(p)) + 1
    /\ pc[p] \in {"save", "tx", "report", "next"} => pos[p] <= Len(Chain(p))
    /\ pc[p] \in {"idle", "load", "walk", "save"} => tx[p] = 1
    /\ pc[p] = "tx" => tx[p] <= Len(Tx[Here(p)]) + 1
    /\ pc[p] \in {"report", "next"} => tx[p] = Len(Tx[Here(p)]) + 1
    /\ pc[p] \in {"idle", "load"} =>
          /\ pos[p] = 1 /\ pending[p] /\ iterated[p] = 0 /\ reports[p] = <<>>
          /\ utxos[p] = NoUtxos
    /\ pc[p] = "load" => needsFee[p] = run[p].needs
    /\ needsFee[p] => run[p].needs

\* The map is exact where it is maintained; before that, once it has been loaded
\* from the file of the block to start at, it is what it must be there.
MapInv(p) ==
    atomicSave =>
        /\ pc[p] \notin {"save", "unknown"}
        /\ run[p].needs /\ pc[p] \in {"walk", "tx", "report", "next"} =>
              /\ needsFee[p] => utxos[p] = Unspent(Chain(p), pos[p], tx[p])
              /\ ~needsFee[p] =>
                    /\ pending[p] /\ run[p].cached /\ pc[p] = "walk"
                    /\ \A k \in DOMAIN Chain(p) :
                          Chain(p)[k] = run[p].start => utxos[p] = Unspent(Chain(p), k, 1)

\* How many blocks from s on are done.
DoneFrom(p, s) == pos[p] - s + (IF pc[p] \in {"report", "next"} THEN 1 ELSE 0)

ReportedFrom(p, s) == [j \in 1..(iterated[p] \div Period) |-> Chain(p)[s + j * Period - 1]]

\* The start is still to come, or utxofn has been called for every Period-th of
\* the blocks since.
ReportInv(p) ==
    /\ ~run[p].utxofn => reports[p] = <<>>
    /\ pending[p] =>
          /\ iterated[p] = 0 /\ reports[p] = <<>>
          /\ \A s \in DOMAIN Chain(p) : Chain(p)[s] = run[p].start =>
                pos[p] <= s /\ (pc[p] \in {"tx", "report", "next"} => pos[p] < s)
    /\ ~pending[p] =>
          \E s \in DOMAIN Chain(p) :
              /\ Chain(p)[s] = run[p].start
              /\ s <= pos[p]
              /\ run[p].utxofn =>
                    /\ iterated[p] = DoneFrom(p, s)
                    /\ reports[p] = ReportedFrom(p, s)

PInv(p) == PlaceInv(p) /\ MapInv(p) /\ ReportInv(p)

ProcInv == \A p \in Proc : PInv(p)

\* A file that is being written has one writer, and it is not the one that somebody
\* finds torn and deletes.
WriterInv ==
    \A p \in Proc : pc[p] = "save" =>
        /\ cache[Here(p)] # NoFile
        /\ ~cache[Here(p)].torn
        /\ \A q \in Proc \ {p} : pc[q] = "save" => Here(q) # Here(p)

WholeInv == \A b \in Block : atomicSave /\ cache[b] # NoFile => ~cache[b].torn

IInv ==
    /\ TypeOK
    /\ ProcInv
    /\ WriterInv
    /\ WholeInv
    /\ CacheExact

-----------------------------------------------------------------------------
(***************************************************************************)
(* The reference. Created and Spent are the places that it counts.         *)
(***************************************************************************)
TxAt(c, x) == Tx[c[x[1]]][x[2]]
Created(c, S, o) == {x \in S : o \in Added(TxAt(c, x))}
Spent(c, S, o) == {x \in S : o \in ToSet(TxAt(c, x).ins)}

LEMMA UnspentIs ==
    ASSUME NEW c, NEW k, NEW i
    PROVE  Unspent(c, k, i) =
              [o \in OutPoint |-> Cardinality(Created(c, Before(c, k, i), o))
                                      - Cardinality(Spent(c, Before(c, k, i), o))]
  <1>1. ASSUME NEW t, NEW o
        PROVE  (\E j \in DOMAIN t.outs : t.outs[j] /\ o = <<t.id, j>>) <=> o \in Added(t)
    BY DEF Added
  <1>2. ASSUME NEW o
        PROVE  {x \in Before(c, k, i) : \E j \in DOMAIN TxAt(c, x).outs :
                   TxAt(c, x).outs[j] /\ o = <<TxAt(c, x).id, j>>}
               = Created(c, Before(c, k, i), o)
    BY <1>1 DEF Created
  <1> QED
    BY <1>2 DEF Unspent, TxAt, Spent

\* The places before a place.
LEMMA BeforeIs ==
    ASSUME NEW c \in Seq(Block), NEW k \in Nat, NEW i, NEW x
    PROVE  x \in Before(c, k, i) <=>
              \E j \in DOMAIN c : \E n \in DOMAIN Tx[c[j]] :
                  x = <<j, n>> /\ j <= k /\ (j < k \/ n < i)
  BY DEF Before

LEMMA BeforeFinite ==
    ASSUME NEW c \in Seq(Block), NEW k \in Nat, NEW i
    PROVE  IsFiniteSet(Before(c, k, i))
  <1> DEFINE J == 1..k \cap DOMAIN c
             P(j) == {<<j, n>> : n \in {m \in DOMAIN Tx[c[j]] : j < k \/ m < i}}
             f == [j \in J |-> P(j)]
             S == {P(j) : j \in J}
  <1>1. IsFiniteSet(J)
    BY FS_Interval, FS_Subset, J \in SUBSET (1..k)
  <1>2. f \in Surjection(J, S)
    BY DEF Surjection
  <1>3. IsFiniteSet(S)
    BY <1>1, <1>2, FS_Surjection
  <1>4. ASSUME NEW j \in J
        PROVE  IsFiniteSet(P(j))
    <2>1. c[j] \in Block /\ Tx[c[j]] \in Seq(TxType)
      BY RunAssumption
    <2>2. PICK n \in Nat : DOMAIN Tx[c[j]] = 1..n
      BY <2>1
    <2>3. IsFiniteSet(1..n)
      BY FS_Interval
    <2>4. IsFiniteSet({j} \X DOMAIN Tx[c[j]])
      BY <2>2, <2>3, FS_Product, FS_Singleton
    <2>5. P(j) \in SUBSET ({j} \X DOMAIN Tx[c[j]])
      OBVIOUS
    <2> QED
      BY <2>4, <2>5, FS_Subset
  <1>5. \A T \in S : IsFiniteSet(T)
    BY <1>4
  <1>6. IsFiniteSet(UNION S)
    BY <1>3, <1>5, FS_UNION
  <1> QED
    BY <1>6 DEF Before

LEMMA BeforeFirst ==
    ASSUME NEW c \in Seq(Block)
    PROVE  Before(c, 1, 1) = {}
  <1> SUFFICES ASSUME NEW x \in Before(c, 1, 1) PROVE FALSE
    OBVIOUS
  <1>1. PICK j \in DOMAIN c : \E n \in DOMAIN Tx[c[j]] : j <= 1 /\ (j < 1 \/ n < 1)
    BY BeforeIs
  <1>2. Tx[c[j]] \in Seq(TxType) /\ j \in 1..Len(c)
    BY RunAssumption
  <1> QED
    BY <1>1, <1>2

LEMMA BeforeNextTx ==
    ASSUME NEW c \in Seq(Block), NEW k \in DOMAIN c, NEW i \in DOMAIN Tx[c[k]]
    PROVE  /\ Before(c, k, i + 1) = Before(c, k, i) \cup {<<k, i>>}
           /\ <<k, i>> \notin Before(c, k, i)
  <1>1. k \in Nat /\ i \in Nat
    BY RunAssumption
  <1>2. ASSUME NEW j \in DOMAIN c
        PROVE  j \in Nat /\ \A n \in DOMAIN Tx[c[j]] : n \in Nat
    BY RunAssumption
  <1>3. ASSUME NEW x
        PROVE  x \in Before(c, k, i + 1) <=> x \in Before(c, k, i) \/ x = <<k, i>>
    <2>1. x \in Before(c, k, i) <=>
              \E j \in DOMAIN c : \E n \in DOMAIN Tx[c[j]] :
                  x = <<j, n>> /\ j <= k /\ (j < k \/ n < i)
      BY <1>1, BeforeIs
    <2>2. x \in Before(c, k, i + 1) <=>
              \E j \in DOMAIN c : \E n \in DOMAIN Tx[c[j]] :
                  x = <<j, n>> /\ j <= k /\ (j < k \/ n < i + 1)
      BY <1>1, BeforeIs
    <2>3. ASSUME NEW j \in DOMAIN c, NEW n \in DOMAIN Tx[c[j]]
          PROVE  j <= k /\ (j < k \/ n < i + 1) <=>
                     (j <= k /\ (j < k \/ n < i)) \/ (j = k /\ n = i)
      <3>1. j \in Nat /\ n \in Nat
        BY <1>2
      <3> QED
        BY <1>1, <3>1
    <2>4. ASSUME x \in Before(c, k, i + 1)
          PROVE  x \in Before(c, k, i) \/ x = <<k, i>>
      BY <2>1, <2>2, <2>3, <2>4
    <2>5. ASSUME x \in Before(c, k, i)
          PROVE  x \in Before(c, k, i + 1)
      BY <2>1, <2>2, <2>3, <2>5
    <2>6. <<k, i>> \in Before(c, k, i + 1)
      BY <1>1, BeforeIs
    <2> QED
      BY <2>4, <2>5, <2>6
  <1>4. <<k, i>> \notin Before(c, k, i)
    BY <1>1, <1>2, BeforeIs
  <1> QED
    BY <1>3, <1>4

LEMMA BeforeNextBlock ==
    ASSUME NEW c \in Seq(Block), NEW k \in DOMAIN c
    PROVE  Before(c, k + 1, 1) = Before(c, k, Len(Tx[c[k]]) + 1)
  <1>1. k \in Nat /\ k + 1 \in Nat
    OBVIOUS
  <1>2. ASSUME NEW j \in DOMAIN c
        PROVE  /\ j \in Nat
               /\ \A n \in DOMAIN Tx[c[j]] : n \in Nat \ {0} /\ n <= Len(Tx[c[j]])
               /\ Len(Tx[c[j]]) \in Nat
    BY RunAssumption
  <1>3. ASSUME NEW x
        PROVE  x \in Before(c, k + 1, 1) <=> x \in Before(c, k, Len(Tx[c[k]]) + 1)
    <2>1. x \in Before(c, k + 1, 1) <=>
              \E j \in DOMAIN c : \E n \in DOMAIN Tx[c[j]] :
                  x = <<j, n>> /\ j <= k + 1 /\ (j < k + 1 \/ n < 1)
      BY <1>1, BeforeIs
    <2>2. x \in Before(c, k, Len(Tx[c[k]]) + 1) <=>
              \E j \in DOMAIN c : \E n \in DOMAIN Tx[c[j]] :
                  x = <<j, n>> /\ j <= k /\ (j < k \/ n < Len(Tx[c[k]]) + 1)
      BY <1>1, BeforeIs
    <2>3. ASSUME NEW j \in DOMAIN c, NEW n \in DOMAIN Tx[c[j]]
          PROVE  j <= k + 1 /\ (j < k + 1 \/ n < 1) <=>
                     j <= k /\ (j < k \/ n < Len(Tx[c[k]]) + 1)
      BY <1>1, <1>2
    <2> QED
      BY <2>1, <2>2, <2>3
  <1> QED
    BY <1>3

\* One more element moves a count by one or not at all.
LEMMA CountStep ==
    ASSUME NEW S, IsFiniteSet(S), NEW x, x \notin S, NEW A, NEW B,
           A \subseteq S, B \in {A, A \cup {x}}
    PROVE  /\ Cardinality(A) \in Nat /\ Cardinality(B) \in Nat
           /\ Cardinality(B) = Cardinality(A) + (IF B = A THEN 0 ELSE 1)
  <1>1. IsFiniteSet(A) /\ x \notin A
    BY FS_Subset
  <1>2. Cardinality(A) \in Nat
    BY <1>1, FS_CardinalityType
  <1>3. Cardinality(A \cup {x}) = Cardinality(A) + 1
    BY <1>1, FS_AddElement
  <1>4. CASE B = A
    BY <1>2, <1>4
  <1>5. CASE B = A \cup {x}
    <2>1. B # A
      BY <1>1, <1>5
    <2> QED
      BY <1>2, <1>3, <1>5, <2>1
  <1> QED
    BY <1>4, <1>5

LEMMA UnspentFirst ==
    ASSUME NEW c \in Seq(Block)
    PROVE  Unspent(c, 1, 1) = NoUtxos
  <1>1. ASSUME NEW o
        PROVE  Created(c, {}, o) = {} /\ Spent(c, {}, o) = {}
    BY DEF Created, Spent
  <1>2. Cardinality({}) - Cardinality({}) = 0
    BY FS_EmptySet
  <1>3. Unspent(c, 1, 1) = [o \in OutPoint |-> Cardinality({}) - Cardinality({})]
    BY <1>1, BeforeFirst, UnspentIs
  <1> QED
    BY <1>2, <1>3 DEF NoUtxos

\* A transaction takes what it spends and adds what it creates.
LEMMA UnspentNextTx ==
    ASSUME NEW c \in Seq(Block), NEW k \in DOMAIN c, NEW i \in DOMAIN Tx[c[k]],
           NEW t, t = Tx[c[k]][i]
    PROVE  /\ Unspent(c, k, i) \in [OutPoint -> Int]
           /\ Unspent(c, k, i + 1) =
                 [o \in OutPoint |-> Unspent(c, k, i)[o]
                     - (IF o \in ToSet(t.ins) THEN 1 ELSE 0)
                     + (IF o \in Added(t) THEN 1 ELSE 0)]
  <1> DEFINE S == Before(c, k, i)
             x == <<k, i>>
  <1>1. k \in Nat /\ i \in Nat
    BY RunAssumption
  <1>2. IsFiniteSet(S) /\ x \notin S /\ Before(c, k, i + 1) = S \cup {x}
    BY <1>1, BeforeFinite, BeforeNextTx
  <1>3. TxAt(c, x) = t
    BY DEF TxAt
  <1>4. ASSUME NEW o
        PROVE  /\ Created(c, S \cup {x}, o) =
                      IF o \in Added(t) THEN Created(c, S, o) \cup {x} ELSE Created(c, S, o)
               /\ Spent(c, S \cup {x}, o) =
                      IF o \in ToSet(t.ins) THEN Spent(c, S, o) \cup {x} ELSE Spent(c, S, o)
               /\ Created(c, S, o) \subseteq S /\ Spent(c, S, o) \subseteq S
    BY <1>3 DEF Created, Spent
  <1>5. ASSUME NEW o
        PROVE  /\ Cardinality(Created(c, S, o)) \in Nat
               /\ Cardinality(Created(c, S \cup {x}, o)) =
                      Cardinality(Created(c, S, o)) + (IF o \in Added(t) THEN 1 ELSE 0)
    <2> DEFINE A == Created(c, S, o)
               B == Created(c, S \cup {x}, o)
    <2>1. A \subseteq S /\ B \in {A, A \cup {x}} /\ (o \in Added(t) <=> B # A)
      BY <1>2, <1>4
    <2> HIDE DEF A, B, S, x
    <2>2. Cardinality(A) \in Nat /\ Cardinality(B) = Cardinality(A) + (IF B = A THEN 0 ELSE 1)
      BY <1>2, <2>1, CountStep
    <2> QED
      BY <2>1, <2>2 DEF A, B
  <1>6. ASSUME NEW o
        PROVE  /\ Cardinality(Spent(c, S, o)) \in Nat
               /\ Cardinality(Spent(c, S \cup {x}, o)) =
                      Cardinality(Spent(c, S, o)) + (IF o \in ToSet(t.ins) THEN 1 ELSE 0)
    <2> DEFINE A == Spent(c, S, o)
               B == Spent(c, S \cup {x}, o)
    <2>1. A \subseteq S /\ B \in {A, A \cup {x}} /\ (o \in ToSet(t.ins) <=> B # A)
      BY <1>2, <1>4
    <2> HIDE DEF A, B, S, x
    <2>2. Cardinality(A) \in Nat /\ Cardinality(B) = Cardinality(A) + (IF B = A THEN 0 ELSE 1)
      BY <1>2, <2>1, CountStep
    <2> QED
      BY <2>1, <2>2 DEF A, B
  <1>7. /\ Unspent(c, k, i) =
              [o \in OutPoint |-> Cardinality(Created(c, S, o)) - Cardinality(Spent(c, S, o))]
        /\ Unspent(c, k, i + 1) =
              [o \in OutPoint |-> Cardinality(Created(c, S \cup {x}, o))
                                      - Cardinality(Spent(c, S \cup {x}, o))]
    BY <1>2, UnspentIs
  <1> HIDE DEF S, x
  <1>8. Unspent(c, k, i) \in [OutPoint -> Int]
    BY <1>5, <1>6, <1>7
  <1>9. ASSUME NEW o \in OutPoint
        PROVE  Unspent(c, k, i + 1)[o] = Unspent(c, k, i)[o]
                     - (IF o \in ToSet(t.ins) THEN 1 ELSE 0)
                     + (IF o \in Added(t) THEN 1 ELSE 0)
    <2> DEFINE made == Cardinality(Created(c, S, o))
               used == Cardinality(Spent(c, S, o))
               newMade == Cardinality(Created(c, S \cup {x}, o))
               newUsed == Cardinality(Spent(c, S \cup {x}, o))
    <2>1. Unspent(c, k, i)[o] = made - used /\ Unspent(c, k, i + 1)[o] = newMade - newUsed
      BY <1>7
    <2>2. made \in Nat /\ newMade = made + (IF o \in Added(t) THEN 1 ELSE 0)
      BY <1>5
    <2>3. used \in Nat /\ newUsed = used + (IF o \in ToSet(t.ins) THEN 1 ELSE 0)
      BY <1>6
    <2> HIDE DEF made, used, newMade, newUsed
    <2> QED
      BY <2>1, <2>2, <2>3
  <1> QED
    BY <1>7, <1>8, <1>9

LEMMA UnspentNextBlock ==
    ASSUME NEW c \in Seq(Block), NEW k \in DOMAIN c
    PROVE  Unspent(c, k + 1, 1) = Unspent(c, k, Len(Tx[c[k]]) + 1)
  BY BeforeNextBlock, UnspentIs

\* What is unspent before a block depends on the blocks before only.
LEMMA UnspentPrefix ==
    ASSUME NEW c \in Seq(Block), NEW d \in Seq(Block),
           NEW k \in DOMAIN c \cap DOMAIN d, \A j \in 1..k : c[j] = d[j]
    PROVE  Unspent(c, k, 1) = Unspent(d, k, 1)
  <1>1. k \in 1..Len(c) /\ k \in 1..Len(d)
    OBVIOUS
  <1>3. Before(c, k, 1) = Before(d, k, 1)
    BY <1>1 DEF Before
  <1>4. ASSUME NEW x \in Before(c, k, 1) PROVE TxAt(c, x) = TxAt(d, x)
    <2>1. PICK j \in DOMAIN c : \E n \in DOMAIN Tx[c[j]] : x = <<j, n>> /\ j <= k
      BY <1>1, BeforeIs
    <2>2. x[1] \in 1..k
      BY <2>1
    <2> QED
      BY <2>2 DEF TxAt
  <1>5. ASSUME NEW o
        PROVE  /\ Created(c, Before(c, k, 1), o) = Created(d, Before(d, k, 1), o)
               /\ Spent(c, Before(c, k, 1), o) = Spent(d, Before(d, k, 1), o)
    BY <1>3, <1>4 DEF Created, Spent
  <1> QED
    BY <1>5, UnspentIs

-----------------------------------------------------------------------------
(***************************************************************************)
(* What the assumptions say of a run, and what a step leaves alone.        *)
(***************************************************************************)

LEMMA RunFacts ==
    ASSUME NEW a \in DOMAIN Runs, NEW r \in Runs[a]
    PROVE  /\ r \in RunType
           /\ r.chain \in Seq(Block) /\ Len(r.chain) \in Nat
           /\ DOMAIN r.chain = 1..Len(r.chain)
           /\ r.needs => r.perTx
           /\ r.utxofn => r.needs
           /\ \A k, j \in DOMAIN r.chain : r.chain[k] = r.chain[j] => k = j
  <1>1. r \in RunType
    BY RunAssumption
  <1>2. r.chain \in Seq(Block) /\ Len(r.chain) \in Nat /\ DOMAIN r.chain = 1..Len(r.chain)
    BY <1>1 DEF RunType
  <1>3. r \in UNION {Runs[b] : b \in DOMAIN Runs}
    OBVIOUS
  <1>4. (r.needs => r.perTx) /\ (r.utxofn => r.needs)
    BY <1>3, RunAssumption
  <1>5. \A k, j \in DOMAIN r.chain : r.chain[k] = r.chain[j] => k = j
    BY ChainAssumption
  <1> QED
    BY <1>1, <1>2, <1>4, <1>5

\* What consensus says of the transaction a process is at.
LEMMA SpendsUnspent ==
    ASSUME NEW a \in DOMAIN Runs, NEW r \in Runs[a],
           NEW k \in DOMAIN r.chain, NEW i \in DOMAIN Tx[r.chain[k]],
           NEW t, t = Tx[r.chain[k]][i]
    PROVE  /\ \A o \in OutPoint : o \in ToSet(t.ins) <=> o \in Released(t, i)
           /\ \A o \in Released(t, i) : o \in OutPoint /\ Unspent(r.chain, k, i)[o] > 0
  <1>1. i \in Nat \ {0}
    BY RunAssumption, RunFacts
  <1>2. i = 1 => ToSet(t.ins) \cap OutPoint = {}
    BY ChainAssumption
  <1>3. i > 1 => \A o \in ToSet(t.ins) : o \in OutPoint /\ Unspent(r.chain, k, i)[o] > 0
    BY ChainAssumption
  <1>4. CASE i = 1
    BY <1>2, <1>4 DEF Released
  <1>5. CASE i > 1
    BY <1>3, <1>5 DEF Released
  <1> QED
    BY <1>1, <1>4, <1>5

\* Two runs that have a block in common agree on what is unspent before it.
LEMMA SameBlockSameUnspent ==
    ASSUME NEW a \in DOMAIN Runs, NEW r \in Runs[a], NEW s \in Runs[a],
           NEW k \in DOMAIN r.chain, NEW j \in DOMAIN s.chain, r.chain[k] = s.chain[j]
    PROVE  Unspent(r.chain, k, 1) = Unspent(s.chain, j, 1)
  <1>1. k = j /\ \A m \in 1..k : r.chain[m] = s.chain[m]
    BY ChainAssumption
  <1>2. r.chain \in Seq(Block) /\ s.chain \in Seq(Block)
    BY RunFacts
  <1> QED
    BY <1>1, <1>2, UnspentPrefix

LEMMA AnyRunType ==
    ASSUME TypeOK
    PROVE  AnyRun \in RunType /\ AnyRun.chain \in Seq(Block)
  <1>1. \E r \in UNION {Runs[a] : a \in DOMAIN Runs} : TRUE
    BY RunAssumption DEF TypeOK
  <1>2. AnyRun \in UNION {Runs[a] : a \in DOMAIN Runs}
    BY <1>1 DEF AnyRun
  <1>3. AnyRun \in RunType
    BY <1>2, RunAssumption
  <1> QED
    BY <1>3 DEF RunType

\* A step of another process leaves q as it is.
Same(q) ==
    /\ atomicSave' = atomicSave
    /\ pc'[q] = pc[q] /\ run'[q] = run[q] /\ pos'[q] = pos[q] /\ tx'[q] = tx[q]
    /\ pending'[q] = pending[q] /\ needsFee'[q] = needsFee[q]
    /\ utxos'[q] = utxos[q] /\ saving'[q] = saving[q]
    /\ iterated'[q] = iterated[q] /\ reports'[q] = reports[q]

LEMMA FramePInv ==
    ASSUME NEW q, PInv(q), Same(q)
    PROVE  PInv(q)'
  <1>1. Chain(q)' = Chain(q) /\ Here(q)' = Here(q)
    BY DEF Same, Chain, Here
  <1>2. PlaceInv(q)'
    BY <1>1 DEF PInv, PlaceInv, Same
  <1>3. MapInv(q)'
    BY <1>1 DEF PInv, MapInv, Same
  <1>4. ReportInv(q)'
    BY <1>1 DEF PInv, ReportInv, Same, DoneFrom, ReportedFrom
  <1> QED
    BY <1>2, <1>3, <1>4 DEF PInv

LEMMA InitIInv == Init => IInv
  <1> SUFFICES ASSUME Init PROVE IInv
    OBVIOUS
  <1> USE DEF Init
  <1>1. NoUtxos \in [OutPoint -> Nat]
    BY DEF NoUtxos
  <1>2. AnyRun \in RunType /\ AnyRun.chain \in Seq(Block)
    <2>1. \E r \in UNION {Runs[a] : a \in DOMAIN Runs} : TRUE
      BY RunAssumption
    <2>2. AnyRun \in UNION {Runs[a] : a \in DOMAIN Runs}
      BY <2>1 DEF AnyRun
    <2>3. AnyRun \in RunType
      BY <2>2, RunAssumption
    <2> QED
      BY <2>3 DEF RunType
  <1>3. TypeOK
    BY <1>1, <1>2 DEF TypeOK
  <1>4. ASSUME NEW p \in Proc
        PROVE  PInv(p)
    <2>1. Chain(p) \in Seq(Block) /\ Len(Chain(p)) \in Nat /\ DOMAIN Chain(p) = 1..Len(Chain(p))
      BY <1>2 DEF Chain
    <2> QED
      BY <2>1 DEF PInv, PlaceInv, MapInv, ReportInv
  <1> QED
    BY <1>3, <1>4 DEF IInv, ProcInv, WriterInv, WholeInv, CacheExact

-----------------------------------------------------------------------------
(***************************************************************************)
(* One lemma per action: the types, the other processes, its own place,    *)
(* map and reports.                                                        *)
(***************************************************************************)

LEMMA ProcFacts ==
    ASSUME TypeOK, NEW p \in Proc, PInv(p)
    PROVE  /\ run[p] \in RunType
           /\ Chain(p) \in Seq(Block) /\ Len(Chain(p)) \in Nat
           /\ DOMAIN Chain(p) = 1..Len(Chain(p))
           /\ pos[p] \in Nat \ {0} /\ tx[p] \in Nat \ {0} /\ iterated[p] \in Nat
           /\ pos[p] <= Len(Chain(p)) =>
                 /\ pos[p] \in DOMAIN Chain(p)
                 /\ Here(p) \in Block
                 /\ Len(Tx[Here(p)]) \in Nat
                 /\ DOMAIN Tx[Here(p)] = 1..Len(Tx[Here(p)])
           /\ pc[p] # "idle" =>
                 /\ run[p] \in Runs[atomicSave]
                 /\ run[p].needs => run[p].perTx
                 /\ run[p].utxofn => run[p].needs
                 /\ \A k, j \in DOMAIN Chain(p) : Chain(p)[k] = Chain(p)[j] => k = j
  <1>1. run[p] \in RunType /\ pos[p] \in Nat \ {0} /\ tx[p] \in Nat \ {0} /\ iterated[p] \in Nat
    BY DEF TypeOK
  <1>2. Chain(p) \in Seq(Block) /\ Len(Chain(p)) \in Nat /\ DOMAIN Chain(p) = 1..Len(Chain(p))
    BY <1>1 DEF RunType, Chain
  <1>3. ASSUME pos[p] <= Len(Chain(p))
        PROVE  /\ pos[p] \in DOMAIN Chain(p)
               /\ Here(p) \in Block
               /\ Len(Tx[Here(p)]) \in Nat
               /\ DOMAIN Tx[Here(p)] = 1..Len(Tx[Here(p)])
    <2>1. pos[p] \in DOMAIN Chain(p)
      BY <1>1, <1>2, <1>3
    <2>2. Here(p) \in Block
      BY <1>2, <2>1 DEF Here
    <2>3. Tx[Here(p)] \in Seq(TxType)
      BY <2>2, RunAssumption
    <2> QED
      BY <2>1, <2>2, <2>3
  <1>4. ASSUME pc[p] # "idle"
        PROVE  /\ run[p] \in Runs[atomicSave]
               /\ run[p].needs => run[p].perTx
               /\ run[p].utxofn => run[p].needs
               /\ \A k, j \in DOMAIN Chain(p) : Chain(p)[k] = Chain(p)[j] => k = j
    <2>1. run[p] \in Runs[atomicSave] /\ atomicSave \in DOMAIN Runs
      BY <1>4 DEF TypeOK, PInv, PlaceInv
    <2> QED
      BY <2>1, RunFacts DEF Chain
  <1> QED
    BY <1>1, <1>2, <1>3, <1>4

LEMMA StartRunStep ==
    ASSUME IInv, NEW p \in Proc, StartRun(p)
    PROVE  TypeOK' /\ (\A q \in Proc \ {p} : Same(q)) /\ PInv(p)'
  <1>1. PICK r \in Runs[atomicSave] :
           /\ run' = [run EXCEPT ![p] = r]
           /\ needsFee' = [needsFee EXCEPT ![p] = r.needs]
    BY DEF StartRun
  <1>2. r \in RunType /\ Len(r.chain) \in Nat /\ DOMAIN r.chain = 1..Len(r.chain)
    BY RunFacts DEF IInv, TypeOK
  <1>3. r.needs \in BOOLEAN
    BY <1>2 DEF RunType
  <1>4. TypeOK'
    BY <1>1, <1>2, <1>3 DEF IInv, TypeOK, StartRun
  <1>5. \A q \in Proc \ {p} : Same(q)
    BY <1>1 DEF IInv, TypeOK, StartRun, Same
  <1>6. /\ pc'[p] = "load" /\ run'[p] = r /\ needsFee'[p] = r.needs /\ atomicSave' = atomicSave
        /\ pos'[p] = pos[p] /\ tx'[p] = tx[p] /\ pending'[p] = pending[p] /\ utxos'[p] = utxos[p]
        /\ iterated'[p] = iterated[p] /\ reports'[p] = reports[p]
    BY <1>1 DEF IInv, TypeOK, StartRun
  <1>7. /\ pos[p] = 1 /\ pending[p] /\ iterated[p] = 0 /\ reports[p] = <<>>
        /\ utxos[p] = NoUtxos /\ tx[p] = 1
    BY DEF IInv, ProcInv, PInv, PlaceInv, StartRun
  <1>8. Chain(p)' = r.chain
    BY <1>6 DEF Chain
  <1> QED
    BY <1>2, <1>4, <1>5, <1>6, <1>7, <1>8 DEF PInv, PlaceInv, MapInv, ReportInv

LEMMA LoadCacheStep ==
    ASSUME IInv, NEW p \in Proc, LoadCache(p)
    PROVE  TypeOK' /\ (\A q \in Proc \ {p} : Same(q)) /\ PInv(p)'
  <1> DEFINE b == run[p].start
             f == cache[b]
  <1>1. TypeOK /\ PInv(p)
    BY DEF IInv, ProcInv
  <1>2. /\ run[p] \in Runs[atomicSave] /\ run[p] \in RunType
        /\ Chain(p) \in Seq(Block) /\ DOMAIN Chain(p) = 1..Len(Chain(p)) /\ Len(Chain(p)) \in Nat
    BY <1>1, ProcFacts DEF LoadCache
  <1>3. b \in Block
    BY <1>2 DEF RunType
  <1>4. f # NoFile => f \in FileType /\ f.torn \in BOOLEAN /\ f.entries \in [OutPoint -> Nat]
    BY <1>1, <1>3 DEF TypeOK, FileType
  <1>5. TypeOK'
    <2>1. CASE UNCHANGED <<cache, needsFee, utxos>>
      BY <1>1, <2>1 DEF TypeOK, LoadCache
    <2>2. CASE /\ f # NoFile
               /\ utxos' = [utxos EXCEPT ![p] = Loaded(f)]
               /\ needsFee' = [needsFee EXCEPT ![p] = f.torn]
               /\ cache' = IF f.torn THEN [cache EXCEPT ![b] = NoFile] ELSE cache
      <3>1. utxos' \in [Proc -> [OutPoint -> Nat]] /\ needsFee' \in [Proc -> BOOLEAN]
        BY <1>1, <1>4, <2>2 DEF TypeOK, Loaded
      <3>2. cache' \in [Block -> FileType \cup {NoFile}]
        BY <1>1, <1>3, <2>2 DEF TypeOK
      <3> QED
        BY <1>1, <3>1, <3>2 DEF TypeOK, LoadCache
    <2> QED
      BY <2>1, <2>2 DEF LoadCache
  <1>6. \A q \in Proc \ {p} : Same(q)
    BY <1>1 DEF TypeOK, LoadCache, Same
  <1>7. /\ pc[p] = "load" /\ pc'[p] = "walk" /\ atomicSave' = atomicSave /\ run'[p] = run[p]
        /\ pos'[p] = pos[p] /\ tx'[p] = tx[p] /\ pending'[p] = pending[p]
        /\ iterated'[p] = iterated[p] /\ reports'[p] = reports[p]
    BY <1>1 DEF TypeOK, LoadCache
  <1>8. \/ needsFee'[p] = needsFee[p] /\ utxos'[p] = utxos[p]
        \/ /\ run[p].cached /\ run[p].needs /\ f # NoFile
           /\ utxos'[p] = f.entries /\ needsFee'[p] = f.torn
    BY <1>1 DEF TypeOK, LoadCache, Loaded
  <1>9. /\ pos[p] = 1 /\ pending[p] /\ iterated[p] = 0 /\ reports[p] = <<>>
        /\ utxos[p] = NoUtxos /\ tx[p] = 1 /\ needsFee[p] = run[p].needs
    BY <1>1, <1>7 DEF PInv, PlaceInv
  <1>10. Chain(p)' = Chain(p)
    BY <1>7 DEF Chain
  <1>11. PlaceInv(p)' /\ ReportInv(p)'
    BY <1>2, <1>7, <1>8, <1>9, <1>10 DEF PlaceInv, ReportInv
  <1>12. MapInv(p)'
    <2> SUFFICES ASSUME atomicSave, run[p].needs
                 PROVE  /\ needsFee'[p] => utxos'[p] = Unspent(Chain(p), 1, 1)
                        /\ ~needsFee'[p] =>
                              /\ run[p].cached
                              /\ \A k \in DOMAIN Chain(p) : Chain(p)[k] = run[p].start =>
                                    utxos'[p] = Unspent(Chain(p), k, 1)
      BY <1>7, <1>9, <1>10 DEF MapInv
    <2>1. CASE needsFee'[p] = needsFee[p] /\ utxos'[p] = utxos[p]
      BY <1>2, <1>9, <2>1, UnspentFirst
    <2>2. CASE /\ run[p].cached /\ f # NoFile
               /\ utxos'[p] = f.entries /\ needsFee'[p] = f.torn
      <3>1. ~f.torn
        BY <1>3, <2>2 DEF IInv, WholeInv
      <3>2. ASSUME NEW k \in DOMAIN Chain(p), Chain(p)[k] = run[p].start
            PROVE  f.entries = Unspent(Chain(p), k, 1)
        <4>1. f = [entries |-> Unspent(Chain(p), k, 1), torn |-> FALSE]
          BY <1>2, <1>3, <2>2, <3>2 DEF IInv, CacheExact, Chain
        <4> QED
          BY <4>1
      <3> QED
        BY <2>2, <3>1, <3>2
    <2> QED
      BY <1>8, <2>1, <2>2
  <1> QED
    BY <1>5, <1>6, <1>11, <1>12 DEF PInv

LEMMA ReachStartStep ==
    ASSUME IInv, NEW p \in Proc, ReachStart(p)
    PROVE  TypeOK' /\ (\A q \in Proc \ {p} : Same(q)) /\ PInv(p)'
  <1>1. TypeOK /\ PInv(p)
    BY DEF IInv, ProcInv
  <1>2. /\ run[p] \in Runs[atomicSave] /\ run[p] \in RunType
        /\ Chain(p) \in Seq(Block) /\ DOMAIN Chain(p) = 1..Len(Chain(p)) /\ Len(Chain(p)) \in Nat
        /\ pos[p] \in DOMAIN Chain(p) /\ Here(p) \in Block /\ iterated[p] \in Nat
        /\ run[p].utxofn => run[p].needs
    BY <1>1, ProcFacts DEF ReachStart, AtStart
  <1>3. FeeAtStart(p) \in BOOLEAN
    BY <1>1, <1>2 DEF FeeAtStart, TypeOK, RunType
  <1>4. TypeOK'
    <2>1. /\ UNCHANGED <<atomicSave, started, run, pos, tx, utxos, iterated, reports>>
          /\ pending' \in [Proc -> BOOLEAN] /\ needsFee' \in [Proc -> BOOLEAN]
      BY <1>1, <1>3 DEF TypeOK, ReachStart
    <2>2. [entries |-> utxos[p], torn |-> FALSE] \in FileType
      BY <1>1 DEF TypeOK, FileType
    <2>3. NoUtxos \in [OutPoint -> Nat]
      BY DEF NoUtxos
    <2>4. [entries |-> NoUtxos, torn |-> FALSE] \in FileType
      BY <2>3 DEF FileType
    <2>5. cache' \in [Block -> FileType \cup {NoFile}]
      BY <1>1, <1>2, <2>2, <2>4 DEF TypeOK, ReachStart
    <2>6. saving' \in [Proc -> [OutPoint -> Nat]]
      BY <1>1 DEF TypeOK, ReachStart
    <2>7. pc' = pc \/ pc' = [pc EXCEPT ![p] = "save"]
      BY DEF ReachStart
    <2>8. pc' \in [Proc -> {"idle", "load", "walk", "save", "tx", "report", "next", "exit", "unknown"}]
      BY <1>1, <2>7 DEF TypeOK
    <2> QED
      BY <1>1, <2>1, <2>5, <2>6, <2>8 DEF TypeOK
  <1>5. \A q \in Proc \ {p} : Same(q)
    BY <1>1 DEF TypeOK, ReachStart, Same
  <1>6. /\ pc[p] = "walk" /\ atomicSave' = atomicSave /\ run'[p] = run[p]
        /\ pos'[p] = pos[p] /\ tx'[p] = tx[p] /\ utxos'[p] = utxos[p]
        /\ iterated'[p] = iterated[p] /\ reports'[p] = reports[p]
        /\ pending[p] /\ ~pending'[p] /\ needsFee'[p] = FeeAtStart(p)
        /\ pc'[p] \in {"walk", "save"} /\ (atomicSave => pc'[p] = "walk")
        /\ Chain(p)[pos[p]] = run[p].start
    BY <1>1 DEF TypeOK, ReachStart, AtStart, Here
  <1>7. Chain(p)' = Chain(p)
    BY <1>6 DEF Chain
  <1>8. PlaceInv(p)'
    <2>1. tx[p] = 1 /\ (FeeAtStart(p) => run[p].needs)
      BY <1>1, <1>6 DEF PInv, PlaceInv, FeeAtStart
    <2> QED
      BY <1>2, <1>6, <1>7, <2>1 DEF PlaceInv
  <1>9. MapInv(p)'
    <2> SUFFICES ASSUME atomicSave, run[p].needs
                 PROVE  /\ needsFee'[p]
                        /\ utxos'[p] = Unspent(Chain(p), pos[p], tx[p])
      BY <1>6, <1>7 DEF MapInv
    <2>1. tx[p] = 1
      BY <1>1, <1>6 DEF PInv, PlaceInv
    <2> QED
      BY <1>1, <1>2, <1>6, <2>1 DEF PInv, MapInv, FeeAtStart
  <1>10. ReportInv(p)'
    <2>1. iterated[p] = 0 /\ reports[p] = <<>>
      BY <1>1, <1>6 DEF PInv, ReportInv
    <2>2. 0 \div Period = 0
      BY UtxoOptionAssumption
    <2>3. ReportedFrom(p, pos[p])' = <<>>
      BY <1>6, <2>1, <2>2 DEF ReportedFrom
    <2>4. DoneFrom(p, pos[p])' = 0
      BY <1>2, <1>6 DEF DoneFrom
    <2> QED
      BY <1>2, <1>6, <1>7, <2>1, <2>3, <2>4 DEF ReportInv
  <1> QED
    BY <1>4, <1>5, <1>8, <1>9, <1>10 DEF PInv

LEMMA SaveEntryStep ==
    ASSUME IInv, NEW p \in Proc, SaveEntry(p)
    PROVE  TypeOK' /\ (\A q \in Proc \ {p} : Same(q)) /\ PInv(p)'
  <1>1. TypeOK /\ PInv(p) /\ pc[p] = "save"
    BY DEF IInv, ProcInv, SaveEntry
  <1>2. Here(p) \in Block
    BY <1>1, ProcFacts DEF PInv, PlaceInv
  <1>3. cache[Here(p)] \in FileType
    BY <1>1, <1>2 DEF IInv, WriterInv, TypeOK
  <1>4. PICK o \in OutPoint :
           /\ saving[p][o] > 0
           /\ saving' = [saving EXCEPT ![p][o] = @ - 1]
           /\ cache' = [cache EXCEPT ![Here(p)].entries[o] = @ + 1]
    BY DEF SaveEntry
  <1>5. saving' \in [Proc -> [OutPoint -> Nat]]
    <2>1. saving[p] \in [OutPoint -> Nat]
      BY <1>1 DEF TypeOK
    <2>2. saving[p][o] - 1 \in Nat
      BY <1>4, <2>1
    <2>3. [saving[p] EXCEPT ![o] = @ - 1] \in [OutPoint -> Nat]
      BY <2>1, <2>2
    <2> QED
      BY <1>1, <1>4, <2>3 DEF TypeOK
  <1>6. cache' \in [Block -> FileType \cup {NoFile}]
    <2> DEFINE e == cache[Here(p)].entries
    <2>1. e \in [OutPoint -> Nat]
      BY <1>3 DEF FileType
    <2>2. [e EXCEPT ![o] = @ + 1] \in [OutPoint -> Nat]
      BY <2>1
    <2>3. [cache[Here(p)] EXCEPT !.entries[o] = @ + 1] \in FileType
      BY <1>3, <2>2 DEF FileType
    <2> QED
      BY <1>1, <1>2, <1>4, <2>3 DEF TypeOK
  <1>7. TypeOK'
    BY <1>1, <1>5, <1>6 DEF TypeOK, SaveEntry
  <1>8. \A q \in Proc \ {p} : Same(q)
    BY <1>1, <1>4 DEF TypeOK, SaveEntry, Same
  <1>9. PInv(p)'
    <2>1. UNCHANGED <<atomicSave, pc, run, pos, tx, pending, needsFee, utxos, iterated, reports>>
      BY DEF SaveEntry
    <2>2. Chain(p)' = Chain(p) /\ Here(p)' = Here(p)
      BY <2>1 DEF Chain, Here
    <2>3. PlaceInv(p)' /\ MapInv(p)'
      BY <1>1, <2>1, <2>2 DEF PInv, PlaceInv, MapInv
    <2>4. ASSUME NEW s
          PROVE  DoneFrom(p, s)' = DoneFrom(p, s) /\ ReportedFrom(p, s)' = ReportedFrom(p, s)
      BY <2>1, <2>2 DEF DoneFrom, ReportedFrom
    <2>5. ReportInv(p)'
      BY <1>1, <2>1, <2>2, <2>4 DEF PInv, ReportInv
    <2> QED
      BY <2>3, <2>5 DEF PInv
  <1> QED
    BY <1>7, <1>8, <1>9

\* The steps that only take a process from one label to another.
LEMMA LabelStep ==
    ASSUME IInv, NEW p \in Proc, SaveDone(p) \/ ShortWrite(p) \/ Finish(p)
    PROVE  TypeOK' /\ (\A q \in Proc \ {p} : Same(q)) /\ PInv(p)'
  <1>1. TypeOK /\ PInv(p)
    BY DEF IInv, ProcInv
  <1>2. /\ atomicSave' = atomicSave /\ started' = started
        /\ UNCHANGED <<run, pos, tx, pending, needsFee, utxos, saving, iterated, reports>>
        /\ \/ pc[p] = "save" /\ pc' = [pc EXCEPT ![p] = "walk"]
           \/ pc[p] = "save" /\ pc' = [pc EXCEPT ![p] = "exit"]
           \/ pc[p] = "walk" /\ pc' = [pc EXCEPT ![p] = "exit"]
    BY DEF SaveDone, ShortWrite, Finish, procVars
  <1>3. cache' \in [Block -> FileType \cup {NoFile}]
    <2>1. CASE cache' = cache
      BY <1>1, <2>1 DEF TypeOK
    <2>2. CASE ShortWrite(p)
      <3>1. pc[p] = "save" /\ Here(p) \in Block
        BY <1>1, <2>2, ProcFacts DEF ShortWrite, PInv, PlaceInv
      <3>2. cache[Here(p)] \in FileType
        BY <1>1, <3>1 DEF IInv, WriterInv, TypeOK
      <3>3. [cache[Here(p)] EXCEPT !.torn = TRUE] \in FileType
        BY <3>2 DEF FileType
      <3> QED
        BY <1>1, <2>2, <3>1, <3>3 DEF TypeOK, ShortWrite
    <2> QED
      BY <2>1, <2>2 DEF SaveDone, Finish
  <1>4. TypeOK'
    BY <1>1, <1>2, <1>3 DEF TypeOK
  <1>5. \A q \in Proc \ {p} : Same(q)
    BY <1>1, <1>2 DEF TypeOK, Same
  <1>6. pc'[p] \in {"walk", "exit"} /\ pc[p] \in {"save", "walk"} /\ (pc[p] = "save" => ~atomicSave)
    BY <1>1, <1>2 DEF TypeOK, PInv, MapInv
  <1>7. Chain(p)' = Chain(p)
    BY <1>2 DEF Chain
  <1>8. PlaceInv(p)' /\ MapInv(p)'
    BY <1>1, <1>2, <1>6, <1>7 DEF PInv, PlaceInv, MapInv
  <1>9. ReportInv(p)'
    <2>1. ASSUME NEW s
          PROVE  DoneFrom(p, s)' = DoneFrom(p, s) /\ ReportedFrom(p, s)' = ReportedFrom(p, s)
      BY <1>2, <1>6, <1>7 DEF DoneFrom, ReportedFrom
    <2> QED
      BY <1>1, <1>2, <1>6, <1>7, <2>1 DEF PInv, ReportInv
  <1> QED
    BY <1>4, <1>5, <1>8, <1>9 DEF PInv

LEMMA EnterBlockStep ==
    ASSUME IInv, NEW p \in Proc, EnterBlock(p)
    PROVE  TypeOK' /\ (\A q \in Proc \ {p} : Same(q)) /\ PInv(p)'
  <1>1. TypeOK /\ PInv(p)
    BY DEF IInv, ProcInv
  <1>2. /\ run[p] \in RunType /\ run[p] \in Runs[atomicSave]
        /\ DOMAIN Chain(p) = 1..Len(Chain(p)) /\ Len(Chain(p)) \in Nat
        /\ pos[p] \in DOMAIN Chain(p) /\ Len(Tx[Here(p)]) \in Nat /\ pos[p] \in Nat \ {0}
        /\ run[p].needs => run[p].perTx
        /\ run[p].utxofn => run[p].needs
    BY <1>1, ProcFacts DEF EnterBlock
  <1>3. TypeOK'
    <2>1. CASE Skips(p)
      <3>1. pos' = [pos EXCEPT ![p] = pos[p] + 1] /\ pos[p] + 1 \in Nat \ {0}
        BY <1>1, <1>2, <2>1 DEF TypeOK, EnterBlock
      <3>2. pos' \in [Proc -> Nat \ {0}]
        BY <1>1, <3>1 DEF TypeOK
      <3> QED
        BY <1>1, <2>1, <3>2 DEF TypeOK, EnterBlock
    <2>2. CASE ~Skips(p)
      BY <1>1, <2>2 DEF TypeOK, EnterBlock
    <2> QED
      BY <2>1, <2>2
  <1>4. \A q \in Proc \ {p} : Same(q)
    BY <1>1 DEF TypeOK, EnterBlock, Same
  <1>5. /\ pc[p] = "walk" /\ ~AtStart(p) /\ pos[p] <= Len(Chain(p))
        /\ UNCHANGED <<atomicSave, run, tx, pending, needsFee, utxos, iterated, reports>>
        /\ \/ Skips(p) /\ pos'[p] = pos[p] + 1 /\ pc'[p] = "walk"
           \/ ~Skips(p) /\ pos'[p] = pos[p] /\ pc'[p] = "tx"
    BY <1>1 DEF TypeOK, EnterBlock
  <1>6. Chain(p)' = Chain(p)
    BY <1>5 DEF Chain
  <1>7. tx[p] = 1
    BY <1>1, <1>5 DEF PInv, PlaceInv
  <1>8. PlaceInv(p)'
    <2>1. pos'[p] = pos[p] => Here(p)' = Here(p)
      BY <1>5, <1>6 DEF Here
    <2> QED
      BY <1>1, <1>2, <1>5, <1>6, <1>7, <2>1 DEF PInv, PlaceInv
  <1>9. MapInv(p)'
    BY <1>1, <1>2, <1>5, <1>6 DEF PInv, MapInv, Skips
  <1>10. ReportInv(p)'
    <2>1. CASE pending[p]
      <3>1. Chain(p)[pos[p]] # run[p].start
        BY <1>5, <2>1 DEF AtStart, Here
      <3>2. ASSUME NEW s \in DOMAIN Chain(p), Chain(p)[s] = run[p].start
            PROVE  pos'[p] <= s /\ (pc'[p] = "tx" => pos'[p] < s)
        <4>1. pos[p] <= s /\ pos[p] # s /\ s \in Nat
          BY <1>1, <1>2, <2>1, <3>1, <3>2 DEF PInv, ReportInv
        <4> QED
          BY <1>2, <1>5, <4>1
      <3> QED
        BY <1>1, <1>5, <1>6, <2>1, <3>2 DEF PInv, ReportInv
    <2>2. CASE ~pending[p]
      <3>1. PICK s \in DOMAIN Chain(p) :
               /\ Chain(p)[s] = run[p].start
               /\ s <= pos[p]
               /\ run[p].utxofn =>
                     iterated[p] = DoneFrom(p, s) /\ reports[p] = ReportedFrom(p, s)
        BY <1>1, <2>2 DEF PInv, ReportInv
      <3>2. s <= pos'[p]
        BY <1>2, <1>5, <3>1
      <3>3. run[p].utxofn => pos'[p] = pos[p] /\ pc'[p] = "tx"
        BY <1>2, <1>5, <2>2 DEF Skips
      <3>4. ReportedFrom(p, s)' = ReportedFrom(p, s)
        BY <1>5, <1>6 DEF ReportedFrom
      <3>5. run[p].utxofn => DoneFrom(p, s)' = DoneFrom(p, s)
        BY <1>5, <3>3 DEF DoneFrom
      <3> QED
        BY <1>1, <1>5, <1>6, <2>2, <3>1, <3>2, <3>4, <3>5 DEF PInv, ReportInv
    <2> QED
      BY <1>1, <2>1, <2>2 DEF TypeOK
  <1> QED
    BY <1>3, <1>4, <1>8, <1>9, <1>10 DEF PInv

LEMMA DoTxStep ==
    ASSUME IInv, NEW p \in Proc, DoTx(p)
    PROVE  TypeOK' /\ (\A q \in Proc \ {p} : Same(q)) /\ PInv(p)'
  <1> DEFINE i == tx[p]
             k == pos[p]
             t == Tx[Here(p)][i]
             After == [o \in OutPoint |-> utxos[p][o] - (IF o \in Released(t, i) THEN 1 ELSE 0)
                                                      + (IF o \in Added(t) THEN 1 ELSE 0)]
  <1>1. TypeOK /\ PInv(p) /\ pc[p] = "tx" /\ i <= Len(Tx[Here(p)])
    BY DEF IInv, ProcInv, DoTx
  <1>2. k <= Len(Chain(p))
    BY <1>1 DEF PInv, PlaceInv
  <1>3. /\ run[p] \in Runs[atomicSave] /\ atomicSave \in DOMAIN Runs
        /\ DOMAIN Chain(p) = 1..Len(Chain(p)) /\ Len(Chain(p)) \in Nat
        /\ k \in DOMAIN Chain(p) /\ Len(Tx[Here(p)]) \in Nat
        /\ DOMAIN Tx[Here(p)] = 1..Len(Tx[Here(p)])
        /\ i \in DOMAIN Tx[Here(p)] /\ i \in Nat /\ Chain(p) \in Seq(Block)
    BY <1>1, <1>2, ProcFacts DEF TypeOK
  <1>4. utxos[p] \in [OutPoint -> Nat]
    BY <1>1 DEF TypeOK
  <1>5. /\ UNCHANGED <<atomicSave, cache, started, run, pos, pending, needsFee, saving,
                       iterated, reports>>
        /\ \/ /\ needsFee[p]
              /\ \A o \in Released(t, i) : o \in OutPoint /\ utxos[p][o] > 0
              /\ utxos' = [utxos EXCEPT ![p] = After]
              /\ tx' = [tx EXCEPT ![p] = i + 1]
              /\ pc' = pc
           \/ /\ needsFee[p]
              /\ \E o \in Released(t, i) : o \notin OutPoint \/ utxos[p][o] = 0
              /\ pc' = [pc EXCEPT ![p] = "unknown"]
              /\ UNCHANGED <<utxos, tx>>
           \/ /\ ~needsFee[p]
              /\ tx' = [tx EXCEPT ![p] = i + 1]
              /\ UNCHANGED <<utxos, pc>>
    BY <1>1 DEF DoTx, TypeOK
  <1>6. (\A o \in Released(t, i) : o \in OutPoint /\ utxos[p][o] > 0)
            => After \in [OutPoint -> Nat]
    BY <1>4
  <1> HIDE DEF After
  <1>7. TypeOK'
    <2>1. utxos' \in [Proc -> [OutPoint -> Nat]]
      BY <1>1, <1>5, <1>6 DEF TypeOK
    <2>2. tx' \in [Proc -> Nat \ {0}]
      BY <1>1, <1>3, <1>5 DEF TypeOK
    <2> QED
      BY <1>1, <1>5, <2>1, <2>2 DEF TypeOK
  <1>8. \A q \in Proc \ {p} : Same(q)
    BY <1>1, <1>5 DEF TypeOK, Same
  <1>9. Chain(p)' = Chain(p) /\ Here(p)' = Here(p)
    BY <1>5 DEF Chain, Here
  <1>10. /\ \/ tx'[p] = i + 1 /\ pc'[p] = "tx"
            \/ tx'[p] = i /\ pc'[p] = "unknown" /\ utxos'[p] = utxos[p]
         /\ needsFee[p] /\ tx'[p] = i + 1 => utxos'[p] = After
    BY <1>1, <1>3, <1>5 DEF TypeOK
  <1>11. PlaceInv(p)'
    BY <1>1, <1>3, <1>5, <1>9, <1>10 DEF PInv, PlaceInv
  <1>12. MapInv(p)'
    <2> SUFFICES ASSUME atomicSave PROVE MapInv(p)'
      BY <1>5 DEF MapInv
    <2>1. CASE ~needsFee[p]
      <3>1. pc'[p] = "tx" /\ utxos' = utxos
        BY <1>1, <1>5, <2>1
      <3>2. ~run[p].needs
        BY <1>1, <2>1 DEF PInv, MapInv
      <3> QED
        BY <1>5, <3>1, <3>2 DEF MapInv
    <2>2. CASE needsFee[p]
      <3>1. utxos[p] = Unspent(Chain(p), k, i) /\ run[p].needs
        BY <1>1, <2>2 DEF PInv, MapInv, PlaceInv
      <3>2. /\ \A o \in OutPoint : o \in ToSet(t.ins) <=> o \in Released(t, i)
            /\ \A o \in Released(t, i) : o \in OutPoint /\ utxos[p][o] > 0
        <4>1. /\ k \in DOMAIN run[p].chain /\ i \in DOMAIN Tx[run[p].chain[k]]
              /\ t = Tx[run[p].chain[k]][i]
          BY <1>3 DEF Chain, Here
        <4>2. utxos[p] = Unspent(run[p].chain, k, i)
          BY <3>1 DEF Chain
        <4> HIDE DEF t, k, i
        <4>3. /\ \A o \in OutPoint : o \in ToSet(t.ins) <=> o \in Released(t, i)
              /\ \A o \in Released(t, i) : o \in OutPoint /\ Unspent(run[p].chain, k, i)[o] > 0
          BY <1>3, <4>1, SpendsUnspent
        <4> QED
          BY <4>2, <4>3
      <3>3. Unspent(Chain(p), k, i + 1) = After
        <4>1. Unspent(Chain(p), k, i + 1) =
                 [o \in OutPoint |-> utxos[p][o]
                     - (IF o \in ToSet(t.ins) THEN 1 ELSE 0)
                     + (IF o \in Added(t) THEN 1 ELSE 0)]
          <5>1. i \in DOMAIN Tx[Chain(p)[k]] /\ t = Tx[Chain(p)[k]][i]
            BY <1>3 DEF Here
          <5>2. /\ Chain(p) \in Seq(Block) /\ k \in DOMAIN Chain(p)
                /\ utxos[p] = Unspent(Chain(p), k, i)
            BY <1>3, <3>1
          <5> HIDE DEF t, k, i
          <5> QED
            BY <5>1, <5>2, UnspentNextTx
        <4> QED
          BY <3>2, <4>1 DEF After
      <3>4. ~ \E o \in Released(t, i) : o \notin OutPoint \/ utxos[p][o] = 0
        BY <1>4, <3>2
      <3>5. tx'[p] = i + 1 /\ pc'[p] = "tx" /\ utxos'[p] = After
        BY <1>1, <1>3, <1>5, <2>2, <3>4 DEF TypeOK
      <3> QED
        BY <1>5, <1>9, <2>2, <3>3, <3>5 DEF MapInv
    <2> QED
      BY <2>1, <2>2
  <1>13. ReportInv(p)'
    <2>1. ASSUME NEW s
          PROVE  DoneFrom(p, s)' = DoneFrom(p, s) /\ ReportedFrom(p, s)' = ReportedFrom(p, s)
      BY <1>1, <1>5, <1>9, <1>10 DEF DoneFrom, ReportedFrom
    <2> QED
      BY <1>1, <1>5, <1>9, <1>10, <2>1 DEF PInv, ReportInv
  <1> QED
    BY <1>7, <1>8, <1>11, <1>12, <1>13 DEF PInv

\* One more block: one more report, or as many as before.
LEMMA DivStep ==
    ASSUME NEW n \in Nat, NEW d \in Nat \ {0}
    PROVE  /\ n \div d \in Nat
           /\ (n + 1) % d = 0 => /\ (n + 1) \div d = n \div d + 1
                                 /\ ((n + 1) \div d) * d = n + 1
           /\ (n + 1) % d # 0 => (n + 1) \div d = n \div d
  <1> DEFINE q == n \div d
             r == n % d
             q1 == (n + 1) \div d
             r1 == (n + 1) % d
  <1>1. q \in Nat /\ r \in 0..(d - 1) /\ n = d * q + r
    OBVIOUS
  <1>2. q1 \in Nat /\ r1 \in 0..(d - 1) /\ n + 1 = d * q1 + r1
    OBVIOUS
  <1> HIDE DEF q, r, q1, r1
  <1>3. d * (q1 - q) = r + 1 - r1
    BY <1>1, <1>2
  <1>4. r + 1 - r1 <= d /\ r + 1 - r1 > -d
    BY <1>1, <1>2
  <1>5. q1 - q <= 1
    <2>1. ASSUME q1 - q >= 2 PROVE FALSE
      <3>1. d * (q1 - q) >= d * 2
        BY <1>1, <1>2, <2>1
      <3> QED
        BY <1>1, <1>2, <1>3, <1>4, <3>1
    <2> QED
      BY <1>1, <1>2, <2>1
  <1>6. q1 - q >= 0
    <2>1. ASSUME q1 - q <= -1 PROVE FALSE
      <3>1. d * (q1 - q) <= d * (-1)
        BY <1>1, <1>2, <2>1
      <3> QED
        BY <1>1, <1>2, <1>3, <1>4, <3>1
    <2> QED
      BY <1>1, <1>2, <2>1
  <1>7. CASE q1 = q
    <2>1. r1 = r + 1
      BY <1>1, <1>2, <1>3, <1>7
    <2> QED
      BY <1>1, <1>7, <2>1 DEF q, r1, q1
  <1>8. CASE q1 = q + 1
    <2>1. r1 = r + 1 - d
      BY <1>1, <1>2, <1>3, <1>8
    <2>2. r1 = 0
      BY <1>1, <1>2, <2>1
    <2>3. q1 * d = n + 1
      BY <1>2, <2>2
    <2> QED
      BY <1>1, <1>8, <2>2, <2>3 DEF q, r1, q1
  <1> QED
    BY <1>1, <1>2, <1>5, <1>6, <1>7, <1>8

LEMMA EndBlockStep ==
    ASSUME IInv, NEW p \in Proc, EndBlock(p)
    PROVE  TypeOK' /\ (\A q \in Proc \ {p} : Same(q)) /\ PInv(p)'
  <1> DEFINE n == IteratedAfter(p)
  <1>1. TypeOK /\ PInv(p) /\ pc[p] = "tx" /\ tx[p] > Len(Tx[Here(p)])
    BY DEF IInv, ProcInv, EndBlock
  <1>2. pos[p] <= Len(Chain(p)) /\ tx[p] <= Len(Tx[Here(p)]) + 1
    BY <1>1 DEF PInv, PlaceInv
  <1>3. /\ run[p] \in Runs[atomicSave] /\ Chain(p) \in Seq(Block)
        /\ DOMAIN Chain(p) = 1..Len(Chain(p)) /\ Len(Chain(p)) \in Nat
        /\ pos[p] \in DOMAIN Chain(p) /\ pos[p] \in Nat \ {0} /\ Len(Tx[Here(p)]) \in Nat
        /\ Here(p) \in Block /\ tx[p] \in Nat /\ iterated[p] \in Nat
        /\ Here(p) = Chain(p)[pos[p]]
    BY <1>1, <1>2, ProcFacts DEF Here
  <1>4. n \in Nat /\ n = IF pending[p] THEN iterated[p] ELSE iterated[p] + 1
    BY <1>3 DEF IteratedAfter
  <1>5. UNCHANGED <<atomicSave, cache, started, run, pos, tx, pending, needsFee, utxos, saving>>
    BY DEF EndBlock
  <1>6. \/ /\ ~pending[p] /\ run[p].utxofn /\ n % Period = 0
           /\ reports' = [reports EXCEPT ![p] = Append(reports[p], Here(p))]
           /\ pc' = [pc EXCEPT ![p] = "report"]
        \/ /\ pending[p] \/ ~run[p].utxofn \/ n % Period # 0
           /\ pc' = [pc EXCEPT ![p] = "next"]
           /\ reports' = reports
    BY <1>1 DEF EndBlock, TypeOK
  <1>7. iterated' = [iterated EXCEPT ![p] = n]
    BY DEF EndBlock
  <1> HIDE DEF n
  <1>8. TypeOK'
    <2>1. reports[p] \in Seq(Block)
      BY <1>1 DEF TypeOK
    <2>2. Append(reports[p], Here(p)) \in Seq(Block)
      BY <1>3, <2>1
    <2>3. reports' \in [Proc -> Seq(Block)]
      BY <1>1, <1>6, <2>2 DEF TypeOK
    <2>4. iterated' \in [Proc -> Nat]
      BY <1>1, <1>4, <1>7 DEF TypeOK
    <2>5. pc' \in [Proc -> {"idle", "load", "walk", "save", "tx", "report", "next", "exit", "unknown"}]
      BY <1>1, <1>6 DEF TypeOK
    <2> QED
      BY <1>1, <1>5, <2>3, <2>4, <2>5 DEF TypeOK
  <1>9. \A q \in Proc \ {p} : Same(q)
    BY <1>1, <1>5, <1>6, <1>7 DEF TypeOK, Same
  <1>10. Chain(p)' = Chain(p) /\ Here(p)' = Here(p)
    BY <1>5 DEF Chain, Here
  <1>11. pc'[p] \in {"report", "next"} /\ iterated'[p] = n
    BY <1>1, <1>6, <1>7 DEF TypeOK
  <1>12. PlaceInv(p)'
    BY <1>1, <1>2, <1>3, <1>5, <1>10, <1>11 DEF PInv, PlaceInv
  <1>13. MapInv(p)'
    BY <1>1, <1>5, <1>10, <1>11 DEF PInv, MapInv
  <1>14. ReportInv(p)'
    <2>1. CASE pending[p]
      <3>1. reports'[p] = reports[p] /\ iterated'[p] = iterated[p]
        BY <1>4, <1>6, <1>11, <2>1
      <3> QED
        BY <1>1, <1>5, <1>10, <1>11, <2>1, <3>1 DEF PInv, ReportInv
    <2>2. CASE ~pending[p]
      <3>1. PICK s \in DOMAIN Chain(p) :
               /\ Chain(p)[s] = run[p].start
               /\ s <= pos[p]
               /\ run[p].utxofn =>
                     iterated[p] = DoneFrom(p, s) /\ reports[p] = ReportedFrom(p, s)
        BY <1>1, <2>2 DEF PInv, ReportInv
      <3>2. n = iterated[p] + 1
        BY <1>4, <2>2
      <3>3. run[p].utxofn => iterated'[p] = DoneFrom(p, s)'
        BY <1>1, <1>3, <1>5, <1>11, <3>1, <3>2 DEF DoneFrom
      <3>4. ASSUME run[p].utxofn
            PROVE  reports'[p] = ReportedFrom(p, s)'
        <4>1. CASE n % Period = 0
          <5> DEFINE m == iterated[p] \div Period
          <5>1. m \in Nat /\ n \div Period = m + 1 /\ (m + 1) * Period = n
            BY <1>3, <3>2, <4>1, DivStep, UtxoOptionAssumption
          <5>2. reports'[p] = Append(reports[p], Chain(p)[pos[p]])
            BY <1>1, <1>3, <1>6, <2>2, <3>4, <4>1 DEF TypeOK
          <5>3. reports[p] = [j \in 1..m |-> Chain(p)[s + j * Period - 1]]
            BY <3>1, <3>4 DEF ReportedFrom
          <5>4. s + (m + 1) * Period - 1 = pos[p]
            BY <1>1, <1>3, <3>1, <3>2, <3>4, <5>1 DEF DoneFrom
          <5>5. ReportedFrom(p, s)' = [j \in 1..(m + 1) |-> Chain(p)[s + j * Period - 1]]
            BY <1>10, <1>11, <5>1 DEF ReportedFrom
          <5>6. reports[p] \in Seq(Block) /\ Len(reports[p]) = m
            <6>1. reports[p] \in Seq(Block)
              BY <1>1 DEF TypeOK
            <6>2. DOMAIN reports[p] = 1..m
              BY <5>3
            <6> HIDE DEF m
            <6>3. DOMAIN reports[p] = 1..Len(reports[p]) /\ Len(reports[p]) \in Nat
              BY <6>1
            <6> QED
              BY <5>1, <6>1, <6>2, <6>3
          <5> HIDE DEF m
          <5>7. Append(reports[p], Chain(p)[pos[p]]) =
                    [j \in 1..(m + 1) |-> Chain(p)[s + j * Period - 1]]
            BY <5>1, <5>3, <5>4, <5>6
          <5> QED
            BY <5>2, <5>5, <5>7
        <4>2. CASE n % Period # 0
          <5>1. n \div Period = iterated[p] \div Period
            BY <1>3, <3>2, <4>2, DivStep, UtxoOptionAssumption
          <5>2. reports'[p] = reports[p]
            BY <1>6, <4>2
          <5> QED
            BY <1>10, <1>11, <3>1, <3>4, <5>1, <5>2 DEF ReportedFrom
        <4> QED
          BY <4>1, <4>2
      <3>5. ~run[p].utxofn => reports'[p] = <<>>
        BY <1>1, <1>6 DEF PInv, ReportInv
      <3> QED
        BY <1>5, <1>10, <2>2, <3>1, <3>3, <3>4, <3>5 DEF ReportInv
    <2> QED
      BY <1>1, <2>1, <2>2 DEF TypeOK
  <1> QED
    BY <1>8, <1>9, <1>12, <1>13, <1>14 DEF PInv

LEMMA NextBlockStep ==
    ASSUME IInv, NEW p \in Proc, NextBlock(p)
    PROVE  TypeOK' /\ (\A q \in Proc \ {p} : Same(q)) /\ PInv(p)'
  <1>1. TypeOK /\ PInv(p) /\ pc[p] \in {"report", "next"}
    BY DEF IInv, ProcInv, NextBlock
  <1>2. pos[p] <= Len(Chain(p)) /\ tx[p] = Len(Tx[Here(p)]) + 1
    BY <1>1 DEF PInv, PlaceInv
  <1>3. /\ Chain(p) \in Seq(Block)
        /\ DOMAIN Chain(p) = 1..Len(Chain(p)) /\ Len(Chain(p)) \in Nat
        /\ pos[p] \in DOMAIN Chain(p) /\ pos[p] \in Nat \ {0}
        /\ Here(p) = Chain(p)[pos[p]] /\ pos[p] + 1 \in Nat \ {0}
    BY <1>1, <1>2, ProcFacts DEF Here
  <1>4. /\ UNCHANGED <<atomicSave, cache, started, run, pending, needsFee, utxos, saving,
                       iterated, reports>>
        /\ pc' = [pc EXCEPT ![p] = "walk"]
        /\ pos' = [pos EXCEPT ![p] = pos[p] + 1]
        /\ tx' = [tx EXCEPT ![p] = 1]
    BY <1>1 DEF NextBlock, TypeOK
  <1>5. TypeOK'
    BY <1>1, <1>3, <1>4 DEF TypeOK
  <1>6. \A q \in Proc \ {p} : Same(q)
    BY <1>1, <1>4 DEF TypeOK, Same
  <1>7. pc'[p] = "walk" /\ pos'[p] = pos[p] + 1 /\ tx'[p] = 1 /\ Chain(p)' = Chain(p)
    BY <1>1, <1>4 DEF TypeOK, Chain
  <1>8. PlaceInv(p)'
    BY <1>1, <1>2, <1>3, <1>4, <1>7 DEF PInv, PlaceInv
  <1>9. MapInv(p)'
    <2>1. Unspent(Chain(p), pos[p] + 1, 1) = Unspent(Chain(p), pos[p], tx[p])
      BY <1>2, <1>3, UnspentNextBlock
    <2> QED
      BY <1>1, <1>4, <1>7, <2>1 DEF PInv, MapInv
  <1>10. ReportInv(p)'
    <2>1. CASE pending[p]
      <3>1. \A s \in DOMAIN Chain(p) : Chain(p)[s] = run[p].start => pos[p] + 1 <= s
        BY <1>1, <1>3, <2>1 DEF PInv, ReportInv
      <3> QED
        BY <1>1, <1>4, <1>7, <2>1, <3>1 DEF PInv, ReportInv
    <2>2. CASE ~pending[p]
      <3>1. PICK s \in DOMAIN Chain(p) :
               /\ Chain(p)[s] = run[p].start
               /\ s <= pos[p]
               /\ run[p].utxofn =>
                     iterated[p] = DoneFrom(p, s) /\ reports[p] = ReportedFrom(p, s)
        BY <1>1, <2>2 DEF PInv, ReportInv
      <3>2. DoneFrom(p, s)' = DoneFrom(p, s) /\ s <= pos'[p]
        BY <1>1, <1>3, <1>7, <3>1 DEF DoneFrom
      <3>3. ReportedFrom(p, s)' = ReportedFrom(p, s)
        BY <1>4, <1>7 DEF ReportedFrom
      <3> QED
        BY <1>1, <1>4, <1>7, <2>2, <3>1, <3>2, <3>3 DEF PInv, ReportInv
    <2> QED
      BY <1>1, <2>1, <2>2 DEF TypeOK
  <1> QED
    BY <1>5, <1>6, <1>8, <1>9, <1>10 DEF PInv

LEMMA LeaveStep ==
    ASSUME IInv, NEW p \in Proc, Leave(p)
    PROVE  TypeOK' /\ (\A q \in Proc \ {p} : Same(q)) /\ PInv(p)'
  <1>1. TypeOK /\ PInv(p)
    BY DEF IInv, ProcInv
  <1>2. /\ AnyRun \in RunType /\ Len(AnyRun.chain) \in Nat
        /\ DOMAIN AnyRun.chain = 1..Len(AnyRun.chain)
    BY <1>1, AnyRunType
  <1>3. NoUtxos \in [OutPoint -> Nat] /\ <<>> \in Seq(Block)
    BY DEF NoUtxos
  <1>4. TypeOK'
    BY <1>1, <1>2, <1>3 DEF TypeOK, Leave
  <1>5. \A q \in Proc \ {p} : Same(q)
    BY <1>1 DEF TypeOK, Leave, Same
  <1>6. /\ pc'[p] = "idle" /\ run'[p] = AnyRun /\ pos'[p] = 1 /\ tx'[p] = 1 /\ pending'[p]
        /\ needsFee'[p] = FALSE /\ utxos'[p] = NoUtxos /\ iterated'[p] = 0 /\ reports'[p] = <<>>
    BY <1>1 DEF TypeOK, Leave
  <1>7. Chain(p)' = AnyRun.chain
    BY <1>6 DEF Chain
  <1> QED
    BY <1>2, <1>4, <1>5, <1>6, <1>7 DEF PInv, PlaceInv, MapInv, ReportInv

-----------------------------------------------------------------------------
(***************************************************************************)
(* The cache directory.                                                    *)
(***************************************************************************)

\* A step that leaves the files alone, and starts no writer.
LEMMA FilesUnchanged ==
    ASSUME IInv, NEW p \in Proc, cache' = cache, atomicSave' = atomicSave,
           \A q \in Proc \ {p} : Same(q),
           pc'[p] = "save" => Same(p)
    PROVE  WriterInv' /\ WholeInv' /\ CacheExact'
  <1>1. ASSUME NEW q \in Proc, pc'[q] = "save"
        PROVE  pc[q] = "save" /\ Here(q)' = Here(q)
    BY <1>1 DEF Same, Here, Chain
  <1>2. WriterInv'
    BY <1>1 DEF IInv, WriterInv
  <1>3. WholeInv' /\ CacheExact'
    BY DEF IInv, WholeInv, CacheExact
  <1> QED
    BY <1>2, <1>3

\* A step that changes the file of the block b only, and nobody writes that one.
LEMMA OneFileChanged ==
    ASSUME IInv, NEW p \in Proc, NEW b \in Block, NEW f,
           cache' = [cache EXCEPT ![b] = f], atomicSave' = atomicSave,
           \A q \in Proc \ {p} : Same(q) /\ (pc[q] = "save" => Here(q) # b),
           pc'[p] = "save" => Here(p)' = b /\ f # NoFile /\ ~f.torn,
           atomicSave /\ f # NoFile =>
                 /\ ~f.torn
                 /\ \A r \in Runs[atomicSave] : \A k \in DOMAIN r.chain : r.chain[k] = b =>
                       f = [entries |-> Unspent(r.chain, k, 1), torn |-> FALSE]
    PROVE  WriterInv' /\ WholeInv' /\ CacheExact'
  <1>1. cache'[b] = f /\ \A c \in Block \ {b} : cache'[c] = cache[c]
    BY DEF IInv, TypeOK
  <1>2. ASSUME NEW q \in Proc \ {p}, pc'[q] = "save"
        PROVE  pc[q] = "save" /\ Here(q)' = Here(q) /\ Here(q) # b /\ Here(q) \in Block
    <2>1. pc[q] = "save" /\ Here(q)' = Here(q) /\ Here(q) # b
      BY <1>2 DEF Same, Here, Chain
    <2>2. PInv(q) /\ TypeOK
      BY DEF IInv, ProcInv
    <2> QED
      BY <2>1, <2>2, ProcFacts DEF PInv, PlaceInv
  <1>3. WriterInv'
    <2> SUFFICES ASSUME NEW q \in Proc, pc'[q] = "save"
                 PROVE  /\ cache'[Here(q)'] # NoFile
                        /\ ~cache'[Here(q)'].torn
                        /\ \A z \in Proc \ {q} : pc'[z] = "save" => Here(z)' # Here(q)'
      BY DEF WriterInv
    <2>1. CASE q = p
      BY <1>1, <1>2, <2>1
    <2>2. CASE q # p
      BY <1>1, <1>2, <2>2 DEF IInv, WriterInv
    <2> QED
      BY <2>1, <2>2
  <1>4. WholeInv'
    BY <1>1 DEF IInv, WholeInv
  <1>5. CacheExact'
    <2> SUFFICES ASSUME NEW c \in Block, atomicSave, cache'[c] # NoFile,
                        NEW r \in Runs[atomicSave], NEW k \in DOMAIN r.chain, r.chain[k] = c
                 PROVE  cache'[c] = [entries |-> Unspent(r.chain, k, 1), torn |-> FALSE]
      BY DEF CacheExact
    <2>1. CASE c = b
      BY <1>1, <2>1
    <2>2. CASE c # b
      BY <1>1, <2>2 DEF IInv, CacheExact
    <2> QED
      BY <2>1, <2>2
  <1> QED
    BY <1>3, <1>4, <1>5

LEMMA LoadCacheFiles ==
    ASSUME IInv, NEW p \in Proc, LoadCache(p), \A q \in Proc \ {p} : Same(q)
    PROVE  WriterInv' /\ WholeInv' /\ CacheExact'
  <1> DEFINE b == run[p].start
  <1>1. atomicSave' = atomicSave /\ pc'[p] # "save"
    BY DEF LoadCache, IInv, TypeOK
  <1>2. CASE cache' = cache
    BY <1>1, <1>2, FilesUnchanged
  <1>3. CASE cache[b] # NoFile /\ cache[b].torn /\ cache' = [cache EXCEPT ![b] = NoFile]
    <2>1. b \in Block
      BY DEF IInv, TypeOK, RunType
    <2>2. ~atomicSave
      BY <1>3, <2>1 DEF IInv, WholeInv
    <2>3. \A q \in Proc \ {p} : Same(q) /\ (pc[q] = "save" => Here(q) # b)
      BY <1>3 DEF IInv, WriterInv
    <2>4. cache' = [cache EXCEPT ![b] = NoFile]
      BY <1>3
    <2> HIDE DEF b
    <2> QED
      BY <1>1, <2>1, <2>2, <2>3, <2>4, OneFileChanged
  <1> QED
    BY <1>2, <1>3 DEF LoadCache

LEMMA ReachStartFiles ==
    ASSUME IInv, NEW p \in Proc, ReachStart(p), \A q \in Proc \ {p} : Same(q)
    PROVE  WriterInv' /\ WholeInv' /\ CacheExact'
  <1>1. TypeOK /\ PInv(p) /\ pc[p] = "walk" /\ pos[p] <= Len(Chain(p)) /\ atomicSave' = atomicSave
    BY DEF IInv, ProcInv, ReachStart, AtStart
  <1>2. run[p] \in Runs[atomicSave] /\ pos[p] \in DOMAIN Chain(p) /\ Here(p) \in Block
    BY <1>1, ProcFacts
  <1>3. CASE ~Saves(p)
    <2>1. cache' = cache /\ pc'[p] # "save"
      BY <1>1, <1>3 DEF ReachStart
    <2> QED
      BY <1>1, <2>1, FilesUnchanged
  <1>4. CASE Saves(p)
    <2>1. cache[Here(p)] = NoFile /\ run[p].needs /\ needsFee[p]
      BY <1>4 DEF Saves
    <2>2. \A q \in Proc \ {p} : pc[q] = "save" => Here(q) # Here(p)
      BY <2>1 DEF IInv, WriterInv
    <2>3. CASE atomicSave
      <3> DEFINE f == [entries |-> utxos[p], torn |-> FALSE]
      <3>1. cache' = [cache EXCEPT ![Here(p)] = f] /\ pc'[p] # "save" /\ ~f.torn
        BY <1>1, <1>4, <2>3 DEF ReachStart
      <3>2. utxos[p] = Unspent(Chain(p), pos[p], 1)
        BY <1>1, <2>1, <2>3 DEF PInv, MapInv, PlaceInv
      <3>3. ASSUME NEW r \in Runs[atomicSave], NEW k \in DOMAIN r.chain, r.chain[k] = Here(p)
            PROVE  f = [entries |-> Unspent(r.chain, k, 1), torn |-> FALSE]
        <4>1. Unspent(r.chain, k, 1) = Unspent(Chain(p), pos[p], 1)
          BY <1>1, <1>2, <3>3, SameBlockSameUnspent DEF Chain, Here, TypeOK
        <4> QED
          BY <3>2, <4>1
      <3> HIDE DEF f
      <3> QED
        BY <1>1, <1>2, <2>2, <3>1, <3>3, OneFileChanged
    <2>4. CASE ~atomicSave
      <3> DEFINE f == [entries |-> NoUtxos, torn |-> FALSE]
      <3>1. cache' = [cache EXCEPT ![Here(p)] = f] /\ ~f.torn /\ f # NoFile
        <4>1. f \in [entries : [OutPoint -> Nat], torn : BOOLEAN]
          BY DEF NoUtxos
        <4> QED
          BY <1>4, <2>4, <4>1, UtxoOptionAssumption DEF ReachStart
      <3>2. Here(p)' = Here(p)
        BY DEF ReachStart, Here, Chain
      <3> HIDE DEF f
      <3> QED
        BY <1>1, <1>2, <2>2, <2>4, <3>1, <3>2, OneFileChanged
    <2> QED
      BY <1>1, <2>3, <2>4 DEF TypeOK
  <1> QED
    BY <1>3, <1>4

\* The two steps of a writer.
LEMMA WriterFiles ==
    ASSUME IInv, NEW p \in Proc, SaveEntry(p) \/ ShortWrite(p), \A q \in Proc \ {p} : Same(q)
    PROVE  WriterInv' /\ WholeInv' /\ CacheExact'
  <1>1. TypeOK /\ PInv(p) /\ pc[p] = "save" /\ atomicSave' = atomicSave
    BY DEF IInv, ProcInv, SaveEntry, ShortWrite
  <1>2. ~atomicSave
    BY <1>1 DEF PInv, MapInv
  <1>3. Here(p) \in Block
    BY <1>1, ProcFacts DEF PInv, PlaceInv
  <1>4. /\ cache[Here(p)] # NoFile /\ ~cache[Here(p)].torn
        /\ \A q \in Proc \ {p} : pc[q] = "save" => Here(q) # Here(p)
    BY <1>1 DEF IInv, WriterInv
  <1>5. cache[Here(p)] \in FileType
    BY <1>1, <1>3, <1>4 DEF TypeOK
  <1>6. Here(p)' = Here(p)
    BY DEF SaveEntry, ShortWrite, procVars, Here, Chain
  <1>7. CASE SaveEntry(p)
    <2>1. PICK o \in OutPoint : cache' = [cache EXCEPT ![Here(p)].entries[o] = @ + 1]
      BY <1>7 DEF SaveEntry
    <2> DEFINE f == [cache[Here(p)] EXCEPT !.entries[o] = @ + 1]
    <2>2. cache' = [cache EXCEPT ![Here(p)] = f]
      BY <2>1
    <2>3. f \in FileType /\ f.torn = cache[Here(p)].torn
      <3> DEFINE e == cache[Here(p)].entries
      <3>1. e \in [OutPoint -> Nat]
        BY <1>5 DEF FileType
      <3>2. [e EXCEPT ![o] = @ + 1] \in [OutPoint -> Nat]
        BY <3>1
      <3> QED
        BY <1>5, <3>2 DEF FileType
    <2>4. f # NoFile /\ ~f.torn
      BY <1>4, <2>3, UtxoOptionAssumption DEF FileType
    <2> HIDE DEF f
    <2> QED
      BY <1>1, <1>2, <1>3, <1>4, <1>6, <2>2, <2>4, OneFileChanged
  <1>8. CASE ShortWrite(p)
    <2> DEFINE f == [cache[Here(p)] EXCEPT !.torn = TRUE]
    <2>1. cache' = [cache EXCEPT ![Here(p)] = f] /\ pc'[p] # "save"
      BY <1>1, <1>8 DEF ShortWrite, TypeOK
    <2> HIDE DEF f
    <2> QED
      BY <1>1, <1>2, <1>3, <1>4, <2>1, OneFileChanged
  <1> QED
    BY <1>7, <1>8

-----------------------------------------------------------------------------
(***************************************************************************)
(* The invariant and what follows from it.                                 *)
(***************************************************************************)

LEMMA NextIInv == IInv /\ [Next]_vars => IInv'
  <1> SUFFICES ASSUME IInv, [Next]_vars PROVE IInv'
    OBVIOUS
  <1>1. CASE UNCHANGED vars
    <2>1. UNCHANGED <<atomicSave, cache, started, pc, run, pos, tx, pending, needsFee,
                      utxos, saving, iterated, reports>>
      BY <1>1 DEF vars, procVars
    <2>2. TypeOK'
      BY <2>1 DEF IInv, TypeOK
    <2>3. \A q \in Proc : Same(q)
      BY <2>1 DEF Same
    <2>4. ProcInv'
      BY <2>3, FramePInv DEF IInv, ProcInv
    <2>5. WriterInv'
      BY <2>1 DEF IInv, WriterInv, Here, Chain
    <2>6. WholeInv' /\ CacheExact'
      BY <2>1 DEF IInv, WholeInv, CacheExact
    <2> QED
      BY <2>2, <2>4, <2>5, <2>6 DEF IInv
  <1>2. ASSUME NEW p \in Proc, StartRun(p) \/ Step(p) \/ Crash(p)
        PROVE  IInv'
    <2>1. SUFFICES /\ TypeOK' /\ (\A q \in Proc \ {p} : Same(q)) /\ PInv(p)'
                   /\ WriterInv' /\ WholeInv' /\ CacheExact'
      <3>1. ASSUME \A q \in Proc \ {p} : Same(q)
            PROVE  \A q \in Proc \ {p} : PInv(q)'
        BY <3>1, FramePInv DEF IInv, ProcInv
      <3> QED
        BY <3>1 DEF IInv, ProcInv
    <2>2. CASE StartRun(p)
      <3>1. cache' = cache /\ atomicSave' = atomicSave /\ pc'[p] # "save"
        BY <2>2 DEF StartRun, IInv, TypeOK
      <3> QED
        BY <2>2, <3>1, StartRunStep, FilesUnchanged
    <2>3. CASE LoadCache(p)
      BY <2>3, LoadCacheStep, LoadCacheFiles
    <2>4. CASE ReachStart(p)
      BY <2>4, ReachStartStep, ReachStartFiles
    <2>5. CASE SaveEntry(p)
      BY <2>5, SaveEntryStep, WriterFiles
    <2>6. CASE ShortWrite(p)
      BY <2>6, LabelStep, WriterFiles
    <2>7. CASE SaveDone(p) \/ Finish(p)
      <3>1. cache' = cache /\ atomicSave' = atomicSave /\ pc'[p] # "save"
        BY <2>7 DEF SaveDone, Finish, IInv, TypeOK
      <3> QED
        BY <2>7, <3>1, LabelStep, FilesUnchanged
    <2>8. CASE EnterBlock(p)
      <3>1. cache' = cache /\ atomicSave' = atomicSave /\ pc'[p] # "save"
        BY <2>8 DEF EnterBlock, IInv, TypeOK
      <3> QED
        BY <2>8, <3>1, EnterBlockStep, FilesUnchanged
    <2>9. CASE DoTx(p)
      <3>1. cache' = cache /\ atomicSave' = atomicSave /\ pc'[p] # "save"
        BY <2>9 DEF DoTx, IInv, TypeOK
      <3> QED
        BY <2>9, <3>1, DoTxStep, FilesUnchanged
    <2>10. CASE EndBlock(p)
      <3>1. cache' = cache /\ atomicSave' = atomicSave /\ pc'[p] # "save"
        BY <2>10 DEF EndBlock, IInv, TypeOK
      <3> QED
        BY <2>10, <3>1, EndBlockStep, FilesUnchanged
    <2>11. CASE NextBlock(p)
      <3>1. cache' = cache /\ atomicSave' = atomicSave /\ pc'[p] # "save"
        BY <2>11 DEF NextBlock, IInv, TypeOK
      <3> QED
        BY <2>11, <3>1, NextBlockStep, FilesUnchanged
    <2>12. CASE Leave(p)
      <3>1. cache' = cache /\ atomicSave' = atomicSave /\ pc'[p] # "save"
        BY <2>12 DEF Leave, IInv, TypeOK
      <3> QED
        BY <2>12, <3>1, LeaveStep, FilesUnchanged
    <2> QED
      BY <1>2, <2>2, <2>3, <2>4, <2>5, <2>6, <2>7, <2>8, <2>9, <2>10, <2>11, <2>12
      DEF Step, Exit, Crash
  <1> QED
    BY <1>1, <1>2 DEF Next

\* The inductive invariant holds in every reachable state.
THEOREM Invariance == Spec => []IInv
  <1> QED
    BY InitIInv, NextIInv, PTL DEF Spec

\* Whatever runs have been there and are there now, killed or not, with cache files
\* written whole: the map of unspent outputs that the callbacks of iterate() look
\* inputs up in, and that utxofn is called for, is that of the chain at this point.
THEOREM UtxoMapExact == Spec => []UtxoExact
  <1>1. IInv => UtxoExact
    <2> SUFFICES ASSUME IInv, NEW p \in Proc,
                        atomicSave, pc[p] \in {"walk", "tx", "report", "next"}, run[p].needs,
                        ~pending[p] \/ needsFee[p] \/ AtStart(p)
                 PROVE  utxos[p] = Unspent(Chain(p), pos[p], tx[p])
      BY DEF UtxoExact
    <2>1. TypeOK /\ PInv(p)
      BY DEF IInv, ProcInv
    <2>2. CASE needsFee[p]
      BY <2>1, <2>2 DEF PInv, MapInv
    <2>3. CASE ~needsFee[p]
      <3>1. AtStart(p) /\ pc[p] = "walk"
        BY <2>1, <2>3 DEF PInv, MapInv
      <3>2. pos[p] \in DOMAIN Chain(p) /\ Chain(p)[pos[p]] = run[p].start /\ tx[p] = 1
        BY <2>1, <3>1, ProcFacts DEF AtStart, Here, PInv, PlaceInv
      <3> QED
        BY <2>1, <2>3, <3>2 DEF PInv, MapInv
    <2> QED
      BY <2>2, <2>3
  <1> QED
    BY <1>1, Invariance, PTL

\* A cache file written whole is the map before its block on every chain with that
\* block: read_utxo_cache never gives a run on one fork the outputs of another.
THEOREM CacheFilesExact == Spec => []CacheExact
  <1>1. IInv => CacheExact
    BY DEF IInv
  <1> QED
    BY <1>1, Invariance, PTL

\* A run that ends has called utxofn for every utxo_period-th block from the start
\* on, in order, whatever the cache held.
THEOREM ReportsInOrder == Spec => []ReportsExact
  <1>1. IInv => ReportsExact
    <2> SUFFICES ASSUME IInv, NEW p \in Proc, pc[p] = "exit", pos[p] > Len(Chain(p))
                 PROVE  IF run[p].utxofn /\ run[p].start \in ToSet(Chain(p))
                        THEN \E s \in DOMAIN Chain(p) :
                                /\ Chain(p)[s] = run[p].start
                                /\ reports[p] = ReportsDue(Chain(p), s)
                        ELSE reports[p] = <<>>
      BY DEF ReportsExact
    <2>1. TypeOK /\ PInv(p)
      BY DEF IInv, ProcInv
    <2>2. /\ DOMAIN Chain(p) = 1..Len(Chain(p)) /\ Len(Chain(p)) \in Nat
          /\ pos[p] \in Nat /\ pos[p] = Len(Chain(p)) + 1
      BY <2>1, ProcFacts DEF PInv, PlaceInv
    <2>3. run[p].start \in ToSet(Chain(p)) <=>
              \E s \in DOMAIN Chain(p) : Chain(p)[s] = run[p].start
      BY DEF ToSet
    <2>4. CASE pending[p]
      BY <2>1, <2>2, <2>3, <2>4 DEF PInv, ReportInv
    <2>5. CASE ~pending[p]
      <3>1. PICK s \in DOMAIN Chain(p) :
               /\ Chain(p)[s] = run[p].start
               /\ run[p].utxofn =>
                     iterated[p] = DoneFrom(p, s) /\ reports[p] = ReportedFrom(p, s)
        BY <2>1, <2>5 DEF PInv, ReportInv
      <3>2. DoneFrom(p, s) = Len(Chain(p)) - s + 1
        BY <2>2, <3>1 DEF DoneFrom
      <3>3. run[p].utxofn => reports[p] = ReportsDue(Chain(p), s)
        BY <3>1, <3>2 DEF ReportedFrom, ReportsDue
      <3>4. ~run[p].utxofn => reports[p] = <<>>
        BY <2>1 DEF PInv, ReportInv
      <3> QED
        BY <2>3, <3>1, <3>3, <3>4
    <2> QED
      BY <2>1, <2>4, <2>5 DEF TypeOK
  <1> QED
    BY <1>1, Invariance, PTL

\* No run on a chain that consensus accepts gives up in release_utxo with
\* "Unknown utxo", if the files were written whole.
THEOREM NoUnknownUtxo == Spec => [](atomicSave => \A p \in Proc : pc[p] # "unknown")
  <1>1. IInv => (atomicSave => \A p \in Proc : pc[p] # "unknown")
    BY DEF IInv, ProcInv, PInv, MapInv
  <1> QED
    BY <1>1, Invariance, PTL

\* O_EXCL gives each cache file one writer, and the file that read_utxo_cache
\* unlinks is not one that somebody is still writing.
THEOREM OneWriter == Spec => []WriterInv
  <1>1. IInv => WriterInv
    BY DEF IInv
  <1> QED
    BY <1>1, Invariance, PTL
=============================================================================
