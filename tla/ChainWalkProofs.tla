-------------------------- MODULE ChainWalkProofs --------------------------
(***************************************************************************)
(* Proofs about BlockIndex and ChainWalk, for any set of records, tree of  *)
(* blocks and options: first the table, then the chain that is walked.     *)
(***************************************************************************)
EXTENDS ChainWalk, NaturalLemmas, FiniteSetTheorems

-----------------------------------------------------------------------------
(***************************************************************************)
(* BlockIndex.                                                             *)
(*                                                                         *)
(* The two loops of set_height are followed without induction over the     *)
(* chain. PathBack(S) and PathForward(S) say what a set S of structs must  *)
(* be like to hold the path that the walk has marked with next, and        *)
(* Dead(D) what a set of structs must be like never to get a height: it is *)
(* closed under "previous block". The invariant says that such sets exist. *)
(***************************************************************************)

\* A struct is read once; read from the files it has no height, read from the
\* cache it is the only one with its id.
UnreadInv ==
    /\ \A r \in unread : map[IdOf[r]] # r
    /\ source = "files" => \A r \in unread : ~Known(r)
    /\ source = "cache" =>
          \A r \in unread : /\ map[IdOf[r]] = NULL
                            /\ \A q \in unread : IdOf[q] = IdOf[r] => q = r

GenesisInv ==
    /\ \A r \in Live : PrevHash(r) = Zero => Known(r)
    /\ genesis # NULL => /\ genesis \in Live
                         /\ PrevHash(genesis) = Zero
                         /\ height[genesis] = 0

PhaseInv ==
    /\ pc \in {"back", "forward"} <=> caller # "none"
    /\ caller = "none" => cur = NULL
    /\ pc = "back" => cur # NULL
    /\ pc = "indexed" => todo = {}

\* Visiting: set_heights_and_best has started.
Visiting == pc \in {"best", "indexed"} \/ caller = "best"

\* S holds the blocks without a height from cur up to target.
OnPath(S) ==
    /\ S \subseteq Live
    /\ \A r \in S : ~Known(r)
    /\ cur \in S /\ target \in S
    /\ \A r \in S \ {target} : next[r] \in S /\ PrevHash(next[r]) = IdOf[r]

PathBack(S) ==
    /\ OnPath(S)
    /\ \A r \in S \ {cur} : Get(map, PrevHash(r)) \in S

PathForward(S) ==
    /\ prev \in Live /\ Known(prev)
    /\ \/ cur = NULL /\ prev = target /\ S = {}
       \/ OnPath(S) /\ PrevHash(cur) = IdOf[prev] /\ next[target] = NULL

\* No block of D has a chain to genesis.
Dead(D) ==
    /\ D \subseteq Live
    /\ \A r \in D : /\ ~Known(r)
                    /\ PrevHash(r) # Zero
                    /\ Get(map, PrevHash(r)) \in D \cup {NULL}

\* The blocks already visited have a height or are dead.
VisitedInv(D) == \A r \in Live \ todo : Known(r) \/ r \in D \/ r = target

WalkInv ==
    \E S, D \in SUBSET Rec :
        /\ Dead(D)
        /\ pc = "back" => PathBack(S) /\ (cur \in D \/ S \cap D = {})
        /\ pc = "forward" => PathForward(S) /\ S \cap D = {}
        /\ Visiting => VisitedInv(D)

\* The blocks already visited are no higher than best, or than the block the
\* walk forward has come to: target will be compared with best.
BestInv ==
    Visiting =>
        /\ todo \subseteq Live
        /\ best \in Live /\ Known(best)
        /\ \A r \in Live \ todo :
              \/ height[r] <= height[best]
              \/ pc = "forward" /\ height[r] <= height[prev]

\* Outside set_height nobody is the target of a walk.
TargetInv == caller = "none" => target = NULL

IInv ==
    /\ TypeOK
    /\ UnreadInv
    /\ GenesisInv
    /\ PhaseInv
    /\ TargetInv
    /\ HeightsLinked
    /\ WalkInv
    /\ BestInv

-----------------------------------------------------------------------------
(***************************************************************************)
(* The table.                                                              *)
(***************************************************************************)

\* A block is not its own previous block.
LEMMA NotOwnParent ==
    ASSUME TypeOK, NEW r \in Rec
    PROVE  PrevHash(r) # IdOf[r]
  <1>1. parent \in Topologies /\ IdOf[r] \in Hash
    BY RecordAssumption DEF TypeOK
  <1>2. parent[IdOf[r]] # Zero => Rank[parent[IdOf[r]]] < Rank[IdOf[r]]
    BY <1>1, TopologyAssumption
  <1>3. Zero \notin Hash /\ Rank \in [Hash -> Nat]
    BY TopologyAssumption
  <1> QED
    BY <1>1, <1>2, <1>3 DEF PrevHash

\* What a lookup in the table returns.
LEMMA GetIsLive ==
    ASSUME TypeOK, NEW h
    PROVE  /\ Get(map, h) \in Live \cup {NULL}
           /\ Get(map, h) # NULL => h \in Hash /\ IdOf[Get(map, h)] = h
           /\ \A r \in Live : IdOf[r] = h => Get(map, h) = r
  BY RecordAssumption DEF TypeOK, Get, Live

\* A block of the table with a height has its previous block there with one,
\* unless it is a genesis block or the previous block is still in the cache.
LEMMA KnownParent ==
    ASSUME TypeOK, UnreadInv, HeightsLinked,
           NEW r \in Pool, Known(r), PrevHash(r) # Zero
    PROVE  \E p \in Pool : /\ IdOf[p] = PrevHash(r)
                           /\ Known(p)
                           /\ height[r] = height[p] + 1
  BY DEF HeightsLinked, HasHeight

\* Two structs of the pool with the same id are the same.
LEMMA PoolInjective ==
    ASSUME TypeOK, UnreadInv, NEW r \in Pool, NEW q \in Pool, IdOf[r] = IdOf[q]
    PROVE  r = q
  BY RecordAssumption DEF TypeOK, UnreadInv, Pool, Live

\* add_block puts r in the place of the struct with its id.
LEMMA ReplaceLive ==
    ASSUME TypeOK, NEW r \in Rec, Replace(r)
    PROVE  /\ map' \in [Hash -> Rec \cup {NULL}]
           /\ \A h \in Hash : map'[h] # NULL => IdOf[map'[h]] = h
           /\ Live' = {x \in Live : IdOf[x] # IdOf[r]} \cup {r}
           /\ \A h : h # IdOf[r] => Get(map', h) = Get(map, h)
           /\ Get(map', PrevHash(r)) = Get(map, PrevHash(r))
  <1>1. map' = [map EXCEPT ![IdOf[r]] = r] /\ IdOf[r] \in Hash
    BY RecordAssumption DEF Replace
  <1>2. map' \in [Hash -> Rec \cup {NULL}]
    BY <1>1 DEF TypeOK
  <1>3. \A h \in Hash : map'[h] # NULL => IdOf[map'[h]] = h
    BY <1>1 DEF TypeOK
  <1>4. Live' = {x \in Live : IdOf[x] # IdOf[r]} \cup {r}
    BY <1>1, RecordAssumption DEF TypeOK, Live
  <1>5. \A h : h # IdOf[r] => Get(map', h) = Get(map, h)
    BY <1>1 DEF TypeOK, Get
  <1> QED
    BY <1>2, <1>3, <1>4, <1>5, NotOwnParent

\* A struct that comes with a height, from the cache, finds its previous block
\* with a height or does not find it: add_block calls set_height only for
\* structs without one.
LEMMA MissIsUnknown ==
    ASSUME TypeOK, UnreadInv, HeightsLinked, NEW r \in Rec, Replace(r),
           Get(map, PrevHash(r)) # NULL, ~Known(Get(map, PrevHash(r)))
    PROVE  ~Known(r)
  <1> DEFINE p == Get(map, PrevHash(r))
  <1>1. r \in unread
    BY DEF Replace
  <1> SUFFICES ASSUME Known(r) PROVE FALSE
    OBVIOUS
  <1>2. source = "cache"
    BY <1>1 DEF UnreadInv, TypeOK
  <1>3. r \in Pool /\ p \in Pool /\ IdOf[p] = PrevHash(r)
    BY <1>1, <1>2, GetIsLive DEF Pool
  <1>4. PrevHash(r) # Zero
    BY <1>3, TopologyAssumption, GetIsLive
  <1>5. PICK q \in Pool : IdOf[q] = PrevHash(r) /\ Known(q)
    BY <1>3, <1>4, KnownParent
  <1>6. q = p
    BY <1>3, <1>5, PoolInjective
  <1> QED
    BY <1>5, <1>6

-----------------------------------------------------------------------------
(***************************************************************************)
(* add_block.                                                              *)
(***************************************************************************)

\* The heights stay linked if every known block is still there, perhaps as
\* another struct, and every height is an old one or linked anew.
LEMMA LinkedCarried ==
    ASSUME parent' = parent,
           \A p \in Pool : Known(p) =>
               \E q \in Pool' : /\ IdOf[q] = IdOf[p]
                                /\ Known(q)'
                                /\ height'[q] = height[p],
           \A x \in Pool' : Known(x)' =>
               HasHeight(x)' \/ (HasHeight(x) /\ height'[x] = height[x])
    PROVE  HeightsLinked'
  <1> SUFFICES ASSUME NEW x \in Pool', Known(x)', HasHeight(x), height'[x] = height[x]
               PROVE  HasHeight(x)'
    BY DEF HeightsLinked
  <1>1. CASE PrevHash(x) = Zero /\ height[x] = 0
    BY <1>1 DEF HasHeight, PrevHash
  <1>2. CASE \E p \in Pool : /\ IdOf[p] = PrevHash(x)
                             /\ Known(p)
                             /\ height[x] = height[p] + 1
    <2>1. PICK p \in Pool : IdOf[p] = PrevHash(x) /\ Known(p) /\ height[x] = height[p] + 1
      BY <1>2
    <2>2. PICK q \in Pool' : IdOf[q] = IdOf[p] /\ Known(q)' /\ height'[q] = height[p]
      BY <2>1
    <2> QED
      BY <2>1, <2>2 DEF HasHeight, PrevHash
  <1> QED
    BY <1>1, <1>2 DEF HasHeight

\* The unread structs after add_block(r).
LEMMA ReadUnread ==
    ASSUME TypeOK, UnreadInv, NEW r \in Rec, Replace(r),
           unread' \subseteq unread \ {r},
           \A x \in Rec : x # r => height'[x] = height[x]
    PROVE  UnreadInv'
  <1>1. IdOf[r] \in Hash /\ r \in unread /\ source' = source
    BY RecordAssumption DEF Replace
  <1>2. \A x \in unread' : map'[IdOf[x]] # x
    BY <1>1, RecordAssumption DEF TypeOK, UnreadInv, Replace
  <1>3. source' = "files" => \A x \in unread' : ~Known(x)'
    BY <1>1 DEF TypeOK, UnreadInv, Known
  <1>4. ASSUME source' = "cache", NEW x \in unread'
        PROVE  map'[IdOf[x]] = NULL /\ \A q \in unread' : IdOf[q] = IdOf[x] => q = x
    <2>1. IdOf[x] # IdOf[r] /\ IdOf[x] \in Hash
      BY <1>1, <1>4, RecordAssumption DEF TypeOK, UnreadInv
    <2> QED
      BY <1>1, <1>4, <2>1 DEF TypeOK, UnreadInv, Replace
  <1> QED
    BY <1>2, <1>3, <1>4 DEF UnreadInv

\* A read that changes no height but r's, and r's by the rules of add_block,
\* keeps the heights linked and those of the known blocks as they are.
LEMMA ReadHeights ==
    ASSUME TypeOK, UnreadInv, HeightsLinked, NEW r \in Rec, Replace(r),
           height' \in [Rec -> Nat \cup {-1}],
           unread' \subseteq unread \ {r},
           source = "cache" => unread' = unread \ {r},
           \A x \in Rec : x # r => height'[x] = height[x],
           LET p == Get(map, PrevHash(r)) IN
           \/ PrevHash(r) = Zero /\ height'[r] = 0
           \/ p # NULL /\ Known(p) /\ height'[r] = height[p] + 1
           \/ /\ PrevHash(r) # Zero
              /\ p = NULL \/ ~Known(p)
              /\ height'[r] = height[r]
    PROVE  /\ HeightsLinked'
           /\ \A x \in Rec : Known(x) => height'[x] = height[x]
  <1> DEFINE p == Get(map, PrevHash(r))
  <1> DEFINE FromGenesis == PrevHash(r) = Zero /\ height'[r] = 0
             FromParent == p # NULL /\ Known(p) /\ height'[r] = height[p] + 1
             Nothing == PrevHash(r) # Zero /\ (p = NULL \/ ~Known(p)) /\ height'[r] = height[r]
  <1>0. FromGenesis \/ FromParent \/ Nothing
    OBVIOUS
  <1>1. /\ r \in unread /\ parent' = parent /\ source' = source
        /\ map' = [map EXCEPT ![IdOf[r]] = r] /\ IdOf[r] \in Hash
    BY RecordAssumption DEF Replace
  <1>2. p # NULL => p \in Live /\ IdOf[p] = PrevHash(r) /\ PrevHash(r) # Zero
    BY GetIsLive, TopologyAssumption
  <1>3. /\ Live' = {x \in Live : IdOf[x] # IdOf[r]} \cup {r}
        /\ r \notin Live
    BY <1>1, ReplaceLive DEF UnreadInv, Live
  <1>4. \A q \in Pool : IdOf[q] = PrevHash(r) /\ p # NULL => q = p
    BY <1>2, PoolInjective DEF Pool
  \* A struct that already has r's height: r itself, or the one it replaces.
  <1>5. ASSUME NEW x \in Pool, Known(x), IdOf[x] = IdOf[r],
               source = "files" => x \in Live
        PROVE  FromGenesis \/ FromParent => height'[r] = height[x]
    <2>1. PrevHash(x) = PrevHash(r)
      BY <1>5 DEF PrevHash
    <2>2. CASE FromGenesis
      <3>1. \A q \in Rec : IdOf[q] # PrevHash(x)
        BY <2>1, <2>2, TopologyAssumption, RecordAssumption
      <3>2. HasHeight(x)
        BY <1>5 DEF HeightsLinked
      <3>3. Pool \subseteq Rec
        BY DEF Pool, Live, TypeOK
      <3> QED
        BY <2>2, <3>1, <3>2, <3>3 DEF HasHeight
    <2>3. CASE FromParent
      <3>1. PrevHash(x) # Zero
        BY <1>2, <2>1, <2>3
      <3>2. PICK q \in Pool : IdOf[q] = PrevHash(x) /\ Known(q) /\ height[x] = height[q] + 1
        BY <1>5, <3>1, KnownParent
      <3> QED
        BY <1>4, <2>1, <2>3, <3>2
    <2> QED
      BY <2>2, <2>3
  <1>6. \A x \in Rec : Known(x) => height'[x] = height[x]
    <2> SUFFICES ASSUME Known(r) PROVE height'[r] = height[r]
      OBVIOUS
    <2>1. source = "cache" /\ r \in Pool
      BY <1>1 DEF UnreadInv, TypeOK, Pool
    <2> QED
      BY <1>0, <1>5, <2>1
  <1>7. CASE source = "cache"
    <2>1. Live' = Live \cup {r} /\ Pool' = Pool /\ r \in Pool
      <3>1. map[IdOf[r]] = NULL
        BY <1>1, <1>7 DEF UnreadInv
      <3>2. \A x \in Live : IdOf[x] # IdOf[r]
        BY <3>1, RecordAssumption DEF Live
      <3> QED
        BY <1>1, <1>3, <1>7, <3>2 DEF Pool
    <2>2. Pool \subseteq Rec
      BY DEF Pool, Live, TypeOK
    <2>3. \A x \in Pool' : Known(x)' =>
             HasHeight(x)' \/ (HasHeight(x) /\ height'[x] = height[x])
      <3> SUFFICES ASSUME NEW x \in Pool', Known(x)', ~Known(x)
                   PROVE  HasHeight(x)'
        BY <1>6, <2>1, <2>2 DEF HeightsLinked
      <3>1. x = r
        BY <2>1, <2>2 DEF Known
      <3>2. FromGenesis \/ FromParent
        BY <1>0, <3>1 DEF Known
      <3>3. CASE FromGenesis
        BY <1>1, <3>1, <3>3 DEF HasHeight, PrevHash
      <3>4. CASE FromParent
        <4>1. p \in Pool' /\ height'[p] = height[p] /\ height'[p] # -1
          BY <1>2, <1>6, <2>1, <2>2, <3>4 DEF Pool, Known
        <4> QED
          BY <1>1, <1>2, <3>1, <3>4, <4>1 DEF HasHeight, PrevHash, Known
      <3> QED
        BY <3>2, <3>3, <3>4
    <2> QED
      BY <1>1, <1>6, <2>1, <2>2, <2>3, LinkedCarried DEF Known
  <1>8. CASE source = "files"
    <2>1. Pool = Live /\ Pool' = Live' /\ ~Known(r) /\ Live \subseteq Rec
      BY <1>1, <1>8 DEF Pool, UnreadInv, Live
    <2>2. \A x \in Live : IdOf[x] # IdOf[r] => height'[x] = height[x] /\ x \in Live'
      BY <1>3, <2>1
    <2>3. ASSUME NEW x \in Pool, Known(x)
          PROVE  \E q \in Pool' : IdOf[q] = IdOf[x] /\ Known(q)' /\ height'[q] = height[x]
      <3>1. CASE IdOf[x] # IdOf[r]
        BY <2>1, <2>2, <2>3, <3>1 DEF Known
      <3>2. CASE IdOf[x] = IdOf[r]
        <4>1. FromGenesis \/ FromParent
          <5> SUFFICES ASSUME Nothing PROVE FALSE
            BY <1>0
          <5>1. PrevHash(x) = PrevHash(r)
            BY <3>2 DEF PrevHash
          <5>2. PICK q \in Pool : IdOf[q] = PrevHash(x) /\ Known(q)
            BY <2>3, <5>1, KnownParent
          <5>3. q = p
            BY <2>1, <5>1, <5>2, GetIsLive, RecordAssumption
          <5> QED
            BY <2>1, <5>2, <5>3, RecordAssumption
        <4>2. height'[r] = height[x]
          BY <1>5, <2>1, <2>3, <3>2, <4>1
        <4> QED
          BY <1>3, <2>1, <2>3, <3>2, <4>2 DEF Known
      <3> QED
        BY <3>1, <3>2
    <2>4. ASSUME NEW x \in Pool', Known(x)'
          PROVE  HasHeight(x)' \/ (HasHeight(x) /\ height'[x] = height[x])
      <3>1. CASE x # r
        BY <1>3, <2>1, <2>2, <2>4, <3>1 DEF HeightsLinked, Known
      <3>2. CASE x = r
        <4>1. FromGenesis \/ FromParent
          BY <1>0, <2>1, <2>4, <3>2 DEF Known
        <4>2. CASE FromGenesis
          BY <1>1, <3>2, <4>2 DEF HasHeight, PrevHash
        <4>3. CASE FromParent
          <5>1. IdOf[p] # IdOf[r]
            BY <1>2, <4>3, NotOwnParent
          <5>2. p \in Pool' /\ height'[p] = height[p] /\ height'[p] # -1
            BY <1>2, <2>1, <2>2, <4>3, <5>1 DEF Known
          <5> QED
            BY <1>1, <1>2, <3>2, <4>3, <5>2 DEF HasHeight, PrevHash, Known
        <4> QED
          BY <4>1, <4>2, <4>3
      <3> QED
        BY <3>1, <3>2
    <2> QED
      BY <1>1, <1>6, <2>3, <2>4, LinkedCarried
  <1>9. source = "cache" \/ source = "files"
    BY DEF TypeOK
  <1> QED
    BY <1>6, <1>7, <1>8, <1>9

\* What HeightsStable says of a step.
KeepsHeights == \A r \in Rec : Known(r) => height'[r] = height[r]

\* Between two blocks of the scan there is no walk to say anything about.
LEMMA ReadingWalkInv ==
    ASSUME pc' = "read", caller' = "none", target' = NULL, cur' = NULL
    PROVE  PhaseInv' /\ TargetInv' /\ WalkInv' /\ BestInv'
  <1>1. PhaseInv' /\ TargetInv' /\ BestInv'
    BY DEF PhaseInv, TargetInv, BestInv, Visiting
  <1>2. WalkInv'
    <2>1. {} \in SUBSET Rec /\ Dead({})'
      BY DEF Dead
    <2> QED
      BY <2>1 DEF WalkInv, Visiting
  <1> QED
    BY <1>1, <1>2

\* The table after a read has its genesis block with a height.
LEMMA ReadGenesis ==
    ASSUME TypeOK, GenesisInv, NEW r \in Rec, Replace(r),
           \A x \in Rec : Known(x) => height'[x] = height[x],
           \/ PrevHash(r) = Zero /\ height'[r] = 0 /\ genesis' = r
           \/ PrevHash(r) # Zero /\ genesis' = genesis
    PROVE  GenesisInv'
  <1>1. parent' = parent /\ Live' = {x \in Live : IdOf[x] # IdOf[r]} \cup {r}
    BY ReplaceLive DEF Replace
  <1>2. ASSUME NEW x \in Live', PrevHash(x)' = Zero
        PROVE  Known(x)'
    <2>1. CASE x = r
      BY <1>1, <1>2, <2>1 DEF PrevHash, Known
    <2>2. CASE x \in Live
      BY <1>1, <1>2, <2>2 DEF PrevHash, Known, GenesisInv, Live
    <2> QED
      BY <1>1, <2>1, <2>2
  <1>3. ASSUME genesis' # NULL
        PROVE  genesis' \in Live' /\ PrevHash(genesis)' = Zero /\ height'[genesis'] = 0
    <2>1. CASE genesis' = r /\ PrevHash(r) = Zero /\ height'[r] = 0
      BY <1>1, <2>1 DEF PrevHash
    <2>2. CASE genesis' = genesis /\ PrevHash(r) # Zero
      <3>1. genesis \in Live /\ PrevHash(genesis) = Zero /\ height[genesis] = 0
        BY <1>3, <2>2 DEF GenesisInv
      <3>2. IdOf[genesis] # IdOf[r]
        BY <2>2, <3>1 DEF PrevHash
      <3> QED
        BY <1>1, <2>2, <3>1, <3>2 DEF PrevHash, Known, Live
    <2> QED
      BY <2>1, <2>2
  <1> QED
    BY <1>2, <1>3 DEF GenesisInv

\* Adding a genesis block keeps the invariant.
LEMMA AddGenesisStep ==
    ASSUME IInv, NEW r \in Rec, AddGenesis(r)
    PROVE  IInv' /\ KeepsHeights
  <1> USE DEF IInv, AddGenesis
  <1>1. pc = "read" /\ caller = "none" /\ target = NULL /\ cur = NULL
    BY DEF Replace, PhaseInv, TargetInv
  <1>2. height' \in [Rec -> Nat \cup {-1}] /\ height'[r] = 0
        /\ \A x \in Rec : x # r => height'[x] = height[x]
    BY DEF TypeOK
  <1>3. unread' \subseteq unread \ {r} /\ (source = "cache" => unread' = unread \ {r})
    BY DEF UnreadAfter, StopsAt
  <1>4. TypeOK'
    BY <1>2, <1>3, ReplaceLive DEF TypeOK, Replace, bestVars, walkVars
  <1>5. UnreadInv'
    BY <1>2, <1>3, ReadUnread
  <1>6. HeightsLinked' /\ \A x \in Rec : Known(x) => height'[x] = height[x]
    BY <1>2, <1>3, ReadHeights
  <1>7. GenesisInv'
    BY <1>2, <1>6, ReadGenesis
  <1>8. PhaseInv' /\ TargetInv' /\ WalkInv' /\ BestInv'
    <2>1. pc' = "read" /\ caller' = "none" /\ target' = NULL /\ cur' = NULL
      BY <1>1 DEF walkVars
    <2> QED
      BY <2>1, ReadingWalkInv
  <1> QED
    BY <1>4, <1>5, <1>6, <1>7, <1>8 DEF KeepsHeights

\* So does adding a block above one of known height.
LEMMA AddAboveStep ==
    ASSUME IInv, NEW r \in Rec, AddAbove(r)
    PROVE  IInv' /\ KeepsHeights
  <1> DEFINE p == Get(map, PrevHash(r))
  <1> USE DEF IInv
  <1>1. pc = "read" /\ caller = "none" /\ target = NULL /\ cur = NULL /\ Replace(r)
    BY DEF AddAbove, Replace, PhaseInv, TargetInv
  <1>2. Get(map', PrevHash(r)) = p
    BY <1>1, ReplaceLive
  <1>3. /\ p # NULL /\ Known(p)
        /\ height' = [height EXCEPT ![r] = height[p] + 1]
        /\ misses' = 0
        /\ unread' = UnreadAfter(unread \ {r}, height[p] + 1)
        /\ UNCHANGED <<genesis, next, pc, walkVars>>
    BY <1>2 DEF AddAbove, HeightUnder
  <1>4. p \in Rec /\ PrevHash(r) # Zero
    BY <1>3, GetIsLive, TopologyAssumption DEF Live
  <1>5. height' \in [Rec -> Nat \cup {-1}] /\ height'[r] = height[p] + 1
        /\ \A x \in Rec : x # r => height'[x] = height[x]
    BY <1>3, <1>4 DEF TypeOK, Known
  <1>6. unread' \subseteq unread \ {r} /\ (source = "cache" => unread' = unread \ {r})
    BY <1>3 DEF UnreadAfter, StopsAt
  <1>7. TypeOK'
    BY <1>1, <1>3, <1>5, <1>6, ReplaceLive DEF TypeOK, Replace, bestVars, walkVars
  <1>8. UnreadInv'
    BY <1>1, <1>5, <1>6, ReadUnread
  <1>9. HeightsLinked' /\ \A x \in Rec : Known(x) => height'[x] = height[x]
    BY <1>1, <1>3, <1>5, <1>6, ReadHeights
  <1>10. GenesisInv'
    BY <1>1, <1>3, <1>4, <1>9, ReadGenesis
  <1>11. PhaseInv' /\ TargetInv' /\ WalkInv' /\ BestInv'
    <2>1. pc' = "read" /\ caller' = "none" /\ target' = NULL /\ cur' = NULL
      BY <1>1, <1>3 DEF walkVars
    <2> QED
      BY <2>1, ReadingWalkInv
  <1> QED
    BY <1>7, <1>8, <1>9, <1>10, <1>11 DEF KeepsHeights

\* So does adding a block whose previous block is not in the table.
LEMMA AddOrphanStep ==
    ASSUME IInv, NEW r \in Rec, AddOrphan(r)
    PROVE  IInv' /\ KeepsHeights
  <1> USE DEF IInv
  <1>1. pc = "read" /\ caller = "none" /\ target = NULL /\ cur = NULL /\ Replace(r)
    BY DEF AddOrphan, Replace, PhaseInv, TargetInv
  <1>2. /\ PrevHash(r) # Zero
        /\ Get(map, PrevHash(r)) = NULL
        /\ unread' = unread \ {r}
        /\ UNCHANGED <<genesis, height, next, misses, pc, walkVars>>
    BY <1>1, ReplaceLive DEF AddOrphan
  <1>3. TypeOK'
    BY <1>1, <1>2, ReplaceLive DEF TypeOK, Replace, bestVars, walkVars
  <1>4. UnreadInv'
    BY <1>1, <1>2, ReadUnread
  <1>5. HeightsLinked' /\ \A x \in Rec : Known(x) => height'[x] = height[x]
    BY <1>1, <1>2, ReadHeights DEF TypeOK
  <1>6. GenesisInv'
    BY <1>1, <1>2, ReadGenesis
  <1>7. PhaseInv' /\ TargetInv' /\ WalkInv' /\ BestInv'
    <2>1. pc' = "read" /\ caller' = "none" /\ target' = NULL /\ cur' = NULL
      BY <1>1, <1>2 DEF walkVars
    <2> QED
      BY <2>1, ReadingWalkInv
  <1> QED
    BY <1>3, <1>4, <1>5, <1>6, <1>7 DEF KeepsHeights

\* So does a miss: the walk of set_height that it may start begins with the path
\* that holds the new block alone.
LEMMA AddMissStep ==
    ASSUME IInv, NEW r \in Rec, AddMiss(r)
    PROVE  IInv' /\ KeepsHeights
  <1> DEFINE p == Get(map, PrevHash(r))
  <1> USE DEF IInv
  <1>1. pc = "read" /\ caller = "none" /\ target = NULL /\ cur = NULL /\ Replace(r)
    BY DEF AddMiss, Replace, PhaseInv, TargetInv
  <1>2. /\ p # NULL /\ ~Known(p)
        /\ unread' = unread \ {r}
        /\ UNCHANGED <<genesis, height, next>>
    BY <1>1, ReplaceLive DEF AddMiss
  <1>3. PrevHash(r) # Zero
    BY <1>2, GetIsLive, TopologyAssumption
  <1>4. TypeOK'
    <2>1. \/ UNCHANGED <<pc, walkVars>>
          \/ /\ pc' = "back" /\ caller' = "add"
             /\ target' = r /\ cur' = r /\ prev' = NULL
      BY DEF AddMiss
    <2>2. /\ pc' \in {"read", "back"} /\ caller' \in {"none", "add"}
          /\ target' \in Rec \cup {NULL} /\ cur' \in Pointer
          /\ prev' \in Rec \cup {NULL}
      BY <1>1, <2>1 DEF TypeOK, walkVars, Pointer
    <2>3. misses' \in Nat
      BY DEF AddMiss, TypeOK
    <2> QED
      BY <1>1, <1>2, <2>2, <2>3, ReplaceLive DEF TypeOK, Replace, bestVars
  <1>5. UnreadInv'
    BY <1>1, <1>2, ReadUnread
  <1>6. HeightsLinked' /\ \A x \in Rec : Known(x) => height'[x] = height[x]
    BY <1>1, <1>2, <1>3, ReadHeights DEF TypeOK
  <1>7. GenesisInv'
    BY <1>1, <1>2, <1>3, ReadGenesis
  <1>8. PhaseInv' /\ TargetInv' /\ WalkInv' /\ BestInv'
    <2>1. CASE UNCHANGED <<pc, walkVars>>
      <3>1. pc' = "read" /\ caller' = "none" /\ target' = NULL /\ cur' = NULL
        BY <1>1, <2>1 DEF walkVars
      <3> QED
        BY <3>1, ReadingWalkInv
    <2>2. CASE pc' = "back" /\ caller' = "add" /\ target' = r /\ cur' = r
      <3>1. PhaseInv' /\ TargetInv' /\ BestInv'
        BY <2>2, RecordAssumption DEF PhaseInv, TargetInv, BestInv, Visiting
      <3>2. ~Known(r)'
        BY <1>1, <1>2, MissIsUnknown DEF Known
      <3>3. r \in Live'
        BY <1>1, ReplaceLive
      <3>4. Dead({})' /\ PathBack({r})'
        BY <2>2, <3>2, <3>3 DEF Dead, PathBack, OnPath
      <3>5. WalkInv'
        BY <2>2, <3>4 DEF WalkInv, Visiting
      <3> QED
        BY <3>1, <3>5
    <2> QED
      BY <2>1, <2>2 DEF AddMiss
  <1> QED
    BY <1>4, <1>5, <1>6, <1>7, <1>8 DEF KeepsHeights

-----------------------------------------------------------------------------
(***************************************************************************)
(* set_height.                                                             *)
(***************************************************************************)

\* What holds of the table goes on holding while it is left alone.
LEMMA TableUnchanged ==
    ASSUME UnreadInv, GenesisInv, HeightsLinked,
           UNCHANGED <<parent, source, unread, map, genesis, height>>
    PROVE  UnreadInv' /\ GenesisInv' /\ HeightsLinked' /\ KeepsHeights
  <1>1. UnreadInv' /\ GenesisInv' /\ KeepsHeights
    BY DEF UnreadInv, GenesisInv, KeepsHeights, Live, PrevHash, Known
  <1>2. HeightsLinked'
    BY DEF HeightsLinked, HasHeight, Pool, Live, PrevHash, Known
  <1> QED
    BY <1>1, <1>2

\* A turn of set_height's first loop adds the previous block to the path. If the
\* path began at a dead block it stays so.
LEMMA StepBackStep ==
    ASSUME IInv, StepBack
    PROVE  IInv' /\ KeepsHeights
  <1> USE DEF IInv
  <1>0. PICK p : p = Get(map, PrevHash(cur))
    OBVIOUS
  <1>1. /\ pc = "back" /\ pc' = "back" /\ p # NULL /\ ~Known(p)
        /\ next' = [next EXCEPT ![p] = cur]
        /\ cur' = p
        /\ UNCHANGED <<parent, blockEnd, source, unread, map, genesis, misses>>
        /\ UNCHANGED <<height, caller, target, prev, todo, best>>
    BY <1>0 DEF StepBack, scanVars, bestVars
  <1>2. PICK S, D \in SUBSET Rec :
          /\ Dead(D)
          /\ PathBack(S) /\ (cur \in D \/ S \cap D = {})
          /\ Visiting => VisitedInv(D)
    BY <1>1 DEF WalkInv
  <1>3. p \in Live /\ p \in Rec /\ IdOf[p] = PrevHash(cur) /\ cur \in Rec
    BY <1>0, <1>1, <1>2, GetIsLive DEF PathBack, OnPath, Live
  <1>4. TypeOK'
    BY <1>1, <1>3 DEF TypeOK, Pointer
  <1>5. UnreadInv' /\ GenesisInv' /\ HeightsLinked' /\ KeepsHeights
    BY <1>1, TableUnchanged
  <1>6. PhaseInv' /\ TargetInv' /\ BestInv'
    BY <1>1, <1>3, RecordAssumption
    DEF PhaseInv, TargetInv, BestInv, Visiting, Live, Known
  <1>7. WalkInv'
    <2> DEFINE T == S \cup {p}
    <2>1. OnPath(T)'
      <3>1. T \subseteq Live' /\ (\A r \in T : ~Known(r)') /\ p \in T /\ target \in T
        BY <1>1, <1>2, <1>3 DEF PathBack, OnPath, Live, Known
      <3>2. ASSUME NEW r \in T, r # target
            PROVE  next'[r] \in T /\ PrevHash(next'[r]) = IdOf[r]
        <4>1. CASE r = p
          BY <1>1, <1>2, <1>3, <4>1 DEF PathBack, OnPath, PrevHash, TypeOK
        <4>2. CASE r # p
          BY <1>1, <1>2, <1>3, <3>2, <4>2 DEF PathBack, OnPath, PrevHash, TypeOK
        <4> QED
          BY <4>1, <4>2
      <3> QED
        BY <1>1, <3>1, <3>2 DEF OnPath, PrevHash
    <2>2. PathBack(T)'
      BY <1>0, <1>1, <1>2, <2>1 DEF PathBack, PrevHash
    <2>3. Dead(D)'
      BY <1>1, <1>2 DEF Dead, Live, Known, PrevHash
    <2>4. p \in D \/ T \cap D = {}
      BY <1>0, <1>1, <1>2 DEF Dead
    <2>5. Visiting' => VisitedInv(D)'
      BY <1>1, <1>2 DEF Visiting, VisitedInv, Live, Known
    <2>6. T \in SUBSET Rec
      BY <1>3
    <2> QED
      BY <1>1, <2>2, <2>3, <2>4, <2>5, <2>6 DEF WalkInv
  <1> QED
    BY <1>4, <1>5, <1>6, <1>7

\* The last turn of the first loop meets a known height: nothing on the path was
\* dead, and the walk forward starts on the whole path.
LEMMA TurnStep ==
    ASSUME IInv, Turn
    PROVE  IInv' /\ KeepsHeights
  <1> DEFINE p == Get(map, PrevHash(cur))
  <1> USE DEF IInv
  <1>1. /\ pc = "back" /\ pc' = "forward" /\ p # NULL /\ Known(p)
        /\ next' = [next EXCEPT ![p] = cur, ![target] = NULL]
        /\ prev' = p
        /\ UNCHANGED <<parent, blockEnd, source, unread, map, genesis, misses>>
        /\ UNCHANGED <<height, caller, target, cur, todo, best>>
    BY DEF Turn, scanVars, bestVars
  <1>2. PICK S, D \in SUBSET Rec :
          /\ Dead(D)
          /\ PathBack(S) /\ (cur \in D \/ S \cap D = {})
          /\ Visiting => VisitedInv(D)
    BY <1>1 DEF WalkInv
  <1>3. p \in Live /\ p \in Rec /\ IdOf[p] = PrevHash(cur) /\ cur \in Rec
    BY <1>1, <1>2, GetIsLive DEF PathBack, OnPath, Live
  <1>4. p \notin S /\ target \in S /\ target \in Rec
    BY <1>1, <1>2 DEF PathBack, OnPath
  <1>5. TypeOK'
    BY <1>1, <1>3 DEF TypeOK, Pointer
  <1>6. UnreadInv' /\ GenesisInv' /\ HeightsLinked' /\ KeepsHeights
    BY <1>1, TableUnchanged
  <1>7. PhaseInv' /\ TargetInv' /\ BestInv'
    BY <1>1, <1>3 DEF PhaseInv, TargetInv, BestInv, Visiting, Live, Known
  <1>8. WalkInv'
    <2>1. /\ next'[target] = NULL
          /\ \A r \in S \ {target} : next'[r] = next[r]
      BY <1>1, <1>3, <1>4 DEF TypeOK
    <2>2. OnPath(S)'
      BY <1>1, <1>2, <2>1 DEF PathBack, OnPath, Live, Known, PrevHash
    <2>3. PathForward(S)'
      BY <1>1, <1>3, <2>1, <2>2 DEF PathForward, Live, Known, PrevHash
    <2>4. S \cap D = {}
      BY <1>1, <1>2 DEF Dead
    <2>5. Dead(D)' /\ (Visiting' => VisitedInv(D)')
      BY <1>1, <1>2 DEF Dead, Visiting, VisitedInv, Live, Known, PrevHash
    <2> QED
      BY <1>1, <2>3, <2>4, <2>5 DEF WalkInv
  <1> QED
    BY <1>5, <1>6, <1>7, <1>8

\* A turn of the second loop takes one block off the path and gives it the height
\* of a child of the block before.
LEMMA StepForwardStep ==
    ASSUME IInv, StepForward
    PROVE  IInv' /\ KeepsHeights
  <1> USE DEF IInv
  <1>1. /\ pc = "forward" /\ cur \in Rec
        /\ height' = [height EXCEPT ![cur] = height[prev] + 1]
        /\ prev' = cur
        /\ cur' = next[cur]
        /\ UNCHANGED <<parent, blockEnd, source, unread, map, genesis, misses>>
        /\ UNCHANGED <<next, pc, caller, target, todo, best>>
    BY DEF StepForward, HeightUnder, scanVars, bestVars
  <1>2. PICK S, D \in SUBSET Rec :
          /\ Dead(D)
          /\ PathForward(S) /\ S \cap D = {}
          /\ Visiting => VisitedInv(D)
    BY <1>1 DEF WalkInv
  <1>3. /\ OnPath(S) /\ PrevHash(cur) = IdOf[prev] /\ next[target] = NULL
        /\ prev \in Live /\ prev \in Rec /\ Known(prev)
    BY <1>1, <1>2, RecordAssumption DEF PathForward, Live
  <1>4. /\ cur \in Live /\ ~Known(cur) /\ cur \in S /\ cur # prev
        /\ target \in S /\ target \in Rec
    BY <1>3 DEF OnPath, Live
  <1>5. /\ height[prev] \in Nat
        /\ height'[cur] = height[prev] + 1
        /\ height' \in [Rec -> Nat \cup {-1}]
        /\ \A r \in Rec : r # cur => height'[r] = height[r]
    BY <1>1, <1>3 DEF TypeOK, Known
  <1>6. TypeOK'
    BY <1>1, <1>5 DEF TypeOK, Pointer
  <1>7. KeepsHeights
    BY <1>4, <1>5 DEF KeepsHeights
  <1>8. UnreadInv'
    <2>1. cur \notin unread
      BY <1>4 DEF UnreadInv, Live
    <2> QED
      BY <1>1, <1>5, <2>1 DEF UnreadInv, Known, TypeOK
  <1>9. GenesisInv'
    <2>1. genesis # NULL => genesis \in Rec /\ genesis # cur
      BY <1>4 DEF GenesisInv, Known, Live
    <2>2. \A r \in Live : Known(r) => height'[r] # -1
      BY <1>7 DEF KeepsHeights, Known, Live
    <2> QED
      BY <1>1, <1>5, <2>1, <2>2 DEF GenesisInv, Known, Live, PrevHash
  <1>10. HeightsLinked'
    <2>1. Pool' = Pool /\ Pool \subseteq Rec
      BY <1>1 DEF Pool, Live, TypeOK
    <2>2. \A x \in Pool : Known(x) => height'[x] = height[x] /\ Known(x)'
      BY <1>7, <2>1 DEF KeepsHeights, Known
    <2>3. PICK c : c = cur
      OBVIOUS
    <2>4. HasHeight(c)'
      <3>1. prev \in Pool'
        BY <1>3, <2>1 DEF Pool
      <3>2. height'[prev] = height[prev] /\ height'[prev] # -1
        BY <1>3, <1>4, <1>5 DEF Known
      <3>3. \E q \in Pool' : /\ IdOf[q] = parent[IdOf[c]]
                             /\ height'[q] # -1
                             /\ height'[c] = height'[q] + 1
        BY <1>3, <1>5, <2>3, <3>1, <3>2 DEF PrevHash
      <3> QED
        BY <1>1, <3>3 DEF HasHeight, PrevHash, Known
    <2>5. ASSUME NEW x \in Pool', Known(x)'
          PROVE  HasHeight(x)' \/ (HasHeight(x) /\ height'[x] = height[x])
      <3>1. CASE x = c
        BY <2>4, <3>1
      <3>2. CASE x # c
        BY <1>5, <2>1, <2>3, <2>5, <3>2 DEF HeightsLinked, Known
      <3> QED
        BY <3>1, <3>2
    <2> QED
      BY <1>1, <2>1, <2>2, <2>5, LinkedCarried
  <1>11. PhaseInv' /\ TargetInv'
    BY <1>1 DEF PhaseInv, TargetInv
  <1>12. BestInv'
    <2> SUFFICES ASSUME Visiting
                 PROVE  /\ todo \subseteq Live
                        /\ best \in Live /\ Known(best)'
                        /\ \A r \in Live \ todo : \/ height'[r] <= height'[best]
                                                  \/ height'[r] <= height'[prev']
      BY <1>1 DEF BestInv, Visiting, Live
    <2>1. /\ todo \subseteq Live
          /\ best \in Live /\ best \in Rec /\ Known(best) /\ height'[best] = height[best]
      BY <1>7 DEF BestInv, KeepsHeights, Live
    <2>2. ASSUME NEW r \in Live \ todo
          PROVE  height'[r] <= height'[best] \/ height'[r] <= height'[prev']
      <3>1. r \in Rec /\ height[r] \in Int
        BY DEF Live, TypeOK
      <3>2. CASE r = cur
        BY <1>1, <1>5, <3>2
      <3>3. CASE r # cur
        <4>1. height[r] <= height[best] \/ height[r] <= height[prev]
          BY <2>2 DEF BestInv
        <4> QED
          BY <1>1, <1>5, <2>1, <3>1, <3>3, <4>1
      <3> QED
        BY <3>2, <3>3
    <2> QED
      BY <1>1, <2>1, <2>2 DEF Known
  <1>13. WalkInv'
    <2>1. PICK c, t : c = cur /\ t = target
      OBVIOUS
    <2> DEFINE T == IF c = t THEN {} ELSE S \ {c}
    <2>2. T \in SUBSET Rec /\ T \cap D = {}
      BY <1>2
    <2>3. c \notin D /\ Dead(D)'
      <3>1. c \notin D
        BY <1>2, <1>4, <2>1
      <3> QED
        BY <1>1, <1>2, <1>5, <2>1, <3>1 DEF Dead, Live, Known, PrevHash
    <2>4. Visiting' => VisitedInv(D)'
      BY <1>1, <1>2, <1>7 DEF Visiting, VisitedInv, KeepsHeights, Live, Known
    <2>5. PathForward(T)'
      <3>1. prev' \in Live' /\ Known(prev)'
        BY <1>1, <1>4, <1>5 DEF Live, Known
      <3>2. CASE c = t
        BY <1>1, <1>3, <2>1, <3>1, <3>2 DEF PathForward
      <3>3. CASE c # t
        <4>1. /\ next[c] \in S /\ PrevHash(next[c]) = IdOf[c]
              /\ next[c] # c
          <5>1. next[c] \in S /\ PrevHash(next[c]) = IdOf[c]
            BY <1>3, <1>4, <2>1, <3>3 DEF OnPath
          <5> QED
            BY <1>2, <5>1, NotOwnParent
        <4>2. ASSUME NEW r \in T, r # t
              PROVE  next[r] \in T /\ PrevHash(next[r]) = IdOf[r]
          <5>1. next[r] \in S /\ PrevHash(next[r]) = IdOf[r]
            BY <1>3, <2>1, <3>3, <4>2 DEF OnPath
          <5>2. r \in Live /\ ~Known(r)
            BY <1>3, <3>3 DEF OnPath
          <5>3. IdOf[r] # IdOf[prev]
            BY <1>3, <5>2 DEF Live
          <5>4. next[r] # c
            BY <1>3, <2>1, <5>1, <5>3
          <5> QED
            BY <3>3, <5>1, <5>4
        <4>3. OnPath(T)'
          <5>1. T \subseteq Live' /\ \A r \in T : height'[r] = -1
            BY <1>1, <1>2, <1>3, <1>5, <2>1, <3>3 DEF OnPath, Live, Known
          <5>2. cur' \in T /\ target' \in T
            BY <1>1, <1>4, <2>1, <3>3, <4>1
          <5> QED
            BY <1>1, <2>1, <4>2, <5>1, <5>2 DEF OnPath, Known, PrevHash
        <4> QED
          BY <1>1, <1>3, <2>1, <3>1, <4>1, <4>3 DEF PathForward, PrevHash
      <3> QED
        BY <3>2, <3>3
    <2> QED
      BY <1>1, <2>2, <2>3, <2>4, <2>5 DEF WalkInv
  <1> QED
    BY <1>6, <1>7, <1>8, <1>9, <1>10, <1>11, <1>12, <1>13

\* set_height returns to add_block.
LEMMA ReturnToAddStep ==
    ASSUME IInv, ReturnToAdd
    PROVE  IInv' /\ KeepsHeights
  <1> USE DEF IInv
  <1>1. /\ pc' = "read" /\ caller' = "none"
        /\ target' = NULL /\ cur' = NULL /\ prev' = NULL
        /\ misses' \in {0, misses}
        /\ unread' = unread \/ (source = "files" /\ unread' = {})
        /\ UNCHANGED <<parent, blockEnd, source, map, genesis, height, next, todo, best>>
    BY DEF ReturnToAdd, Return, UnreadAfter, StopsAt, bestVars
  <1>2. TypeOK'
    BY <1>1 DEF TypeOK, Pointer
  <1>3. UnreadInv' /\ GenesisInv' /\ KeepsHeights
    BY <1>1 DEF UnreadInv, GenesisInv, KeepsHeights, Live, PrevHash, Known
  <1>4. HeightsLinked'
    <2>1. Pool' = Pool
      BY <1>1 DEF Pool, Live
    <2> QED
      BY <1>1, <2>1 DEF HeightsLinked, HasHeight, PrevHash, Known
  <1> QED
    BY <1>1, <1>2, <1>3, <1>4, ReadingWalkInv

\* set_height returns to set_heights_and_best: its target has a height and is
\* compared with best, or the whole path is dead.
LEMMA ReturnToBestStep ==
    ASSUME IInv, ReturnToBest
    PROVE  IInv' /\ KeepsHeights
  <1> USE DEF IInv
  <1>1. /\ caller = "best" /\ pc' = "best" /\ caller' = "none"
        /\ target' = NULL /\ cur' = NULL /\ prev' = NULL
        /\ best' = BetterOf(best, target)
        /\ \/ pc = "forward" /\ cur = NULL
           \/ pc = "back" /\ Get(map, PrevHash(cur)) = NULL
        /\ UNCHANGED <<parent, blockEnd, source, unread, map, genesis, misses>>
        /\ UNCHANGED <<height, next, todo>>
    BY DEF ReturnToBest, Return, scanVars
  <1>2. PICK S, D \in SUBSET Rec :
          /\ Dead(D)
          /\ pc = "back" => PathBack(S) /\ (cur \in D \/ S \cap D = {})
          /\ pc = "forward" => PathForward(S) /\ S \cap D = {}
          /\ VisitedInv(D)
    BY <1>1 DEF WalkInv, Visiting
  <1>3. /\ target \in Live
        /\ pc = "forward" => Known(target) /\ prev = target
        /\ pc = "back" => ~Known(target)
    <2>1. CASE pc = "forward"
      BY <1>1, <1>2, <2>1, RecordAssumption DEF PathForward, OnPath
    <2>2. CASE pc = "back"
      BY <1>1, <1>2, <2>2 DEF PathBack, OnPath
    <2> QED
      BY <1>1, <2>1, <2>2
  <1>4. best \in Live /\ Known(best)
    BY <1>1 DEF BestInv, Visiting
  <1>5. /\ best' \in {best, target} /\ best' \in Live
        /\ Known(best')
        /\ height[best] <= height[best']
        /\ height[target] <= height[best']
    BY <1>1, <1>3, <1>4 DEF BetterOf, TypeOK, Known, Live
  <1>6. TypeOK'
    BY <1>1, <1>5 DEF TypeOK, Pointer, Live
  <1>7. UnreadInv' /\ GenesisInv' /\ HeightsLinked' /\ KeepsHeights
    BY <1>1, TableUnchanged
  <1>8. PhaseInv' /\ TargetInv'
    BY <1>1 DEF PhaseInv, TargetInv
  <1>9. BestInv'
    <2>1. \A r \in Live \ todo : height[r] <= height[best']
      <3> SUFFICES ASSUME NEW r \in Live \ todo PROVE height[r] <= height[best']
        OBVIOUS
      <3>1. height[r] <= height[best] \/ height[r] <= height[target]
        BY <1>1, <1>3 DEF BestInv, Visiting
      <3>2. /\ height[r] \in Int /\ height[best] \in Int
            /\ height[target] \in Int /\ height[best'] \in Int
        BY <1>3, <1>4, <1>5 DEF TypeOK, Live
      <3> QED
        BY <1>5, <3>1, <3>2
    <2> QED
      BY <1>1, <1>5, <2>1 DEF BestInv, Visiting, Live, Known
  <1>10. WalkInv'
    <2>1. CASE pc = "forward"
      <3>1. Dead(D)' /\ VisitedInv(D)'
        BY <1>1, <1>2, <1>3, <2>1 DEF Dead, VisitedInv, Live, Known, PrevHash
      <3> QED
        BY <1>1, <3>1 DEF WalkInv
    <2>2. CASE pc = "back"
      <3> DEFINE E == D \cup S
      <3>1. /\ E \in SUBSET Rec /\ PathBack(S) /\ target \in S
            /\ Get(map, PrevHash(cur)) = NULL
        BY <1>1, <1>2, <2>2 DEF PathBack, OnPath
      <3>2. Dead(E)
        <4>1. E \subseteq Live /\ \A r \in E : ~Known(r)
          BY <1>2, <3>1 DEF PathBack, OnPath, Dead
        <4>2. \A r \in E : PrevHash(r) # Zero
          BY <4>1 DEF GenesisInv
        <4>3. \A r \in E : Get(map, PrevHash(r)) \in E \cup {NULL}
          BY <1>2, <3>1 DEF PathBack, Dead
        <4> QED
          BY <4>1, <4>2, <4>3 DEF Dead
      <3>3. Dead(E)' /\ VisitedInv(E)'
        BY <1>1, <1>2, <3>1, <3>2 DEF Dead, VisitedInv, Live, Known, PrevHash
      <3> HIDE DEF E
      <3> QED
        BY <1>1, <3>1, <3>3 DEF WalkInv
    <2> QED
      BY <1>1, <2>1, <2>2
  <1> QED
    BY <1>6, <1>7, <1>8, <1>9, <1>10

-----------------------------------------------------------------------------
(***************************************************************************)
(* The end of the scan, a later process, and set_heights_and_best.         *)
(***************************************************************************)

\* The scan ends; the visits start with every block still to visit.
LEMMA FinishScanStep ==
    ASSUME IInv, FinishScan
    PROVE  IInv' /\ KeepsHeights
  <1> USE DEF IInv
  <1>1. /\ pc = "read"
        /\ \/ pc' = "failed" /\ UNCHANGED <<best, todo>>
           \/ genesis # NULL /\ pc' = "best" /\ best' = genesis /\ todo' = Live
        /\ UNCHANGED <<parent, blockEnd, source, unread, map, genesis, misses>>
        /\ UNCHANGED <<height, next, caller, target, cur, prev>>
    BY DEF FinishScan, scanVars, walkVars, bestVars
  <1>2. caller = "none" /\ target = NULL /\ cur = NULL
    BY <1>1 DEF PhaseInv, TargetInv
  <1>3. TypeOK'
    BY <1>1 DEF TypeOK, Live
  <1>4. UnreadInv' /\ GenesisInv' /\ HeightsLinked' /\ KeepsHeights
    BY <1>1, TableUnchanged
  <1>5. PhaseInv' /\ TargetInv'
    BY <1>1, <1>2 DEF PhaseInv, TargetInv
  <1>6. BestInv'
    BY <1>1, <1>2 DEF BestInv, Visiting, GenesisInv, Live, Known
  <1>7. WalkInv'
    <2>1. {} \in SUBSET Rec /\ Dead({})'
      BY DEF Dead
    <2>2. Visiting' => VisitedInv({})'
      BY <1>1, <1>2 DEF Visiting, VisitedInv, Live
    <2> QED
      BY <1>1, <2>1, <2>2 DEF WalkInv
  <1> QED
    BY <1>3, <1>4, <1>5, <1>6, <1>7

\* Another process reads what this one has written to the block cache.
LEMMA RestartFromCacheStep ==
    ASSUME IInv, RestartFromCache
    PROVE  IInv' /\ KeepsHeights
  <1> USE DEF IInv
  <1>1. /\ pc = "read" /\ source = "files" /\ source' = "cache" /\ blockEnd' \in Ends
        /\ unread' = Live
        /\ map' = [h \in Hash |-> NULL]
        /\ next' = [r \in Rec |-> Junk]
        /\ genesis' = NULL /\ misses' = 0
        /\ UNCHANGED <<parent, height, pc, caller, target, cur, prev, todo, best>>
    BY DEF RestartFromCache, walkVars, bestVars
  <1>2. caller = "none" /\ target = NULL /\ cur = NULL
    BY <1>1 DEF PhaseInv, TargetInv
  <1>3. TypeOK'
    BY <1>1 DEF TypeOK, Live, Pointer
  <1>4. Live' = {} /\ Pool' = Live /\ Pool = Live
    BY <1>1, RecordAssumption DEF Live, Pool
  <1>5. UnreadInv'
    BY <1>1, RecordAssumption DEF UnreadInv, Live
  <1>6. GenesisInv' /\ KeepsHeights
    BY <1>1, <1>4 DEF GenesisInv, KeepsHeights
  <1>7. HeightsLinked'
    BY <1>1, <1>4 DEF HeightsLinked, HasHeight, PrevHash, Known
  <1>8. PhaseInv' /\ TargetInv' /\ WalkInv' /\ BestInv'
    BY <1>1, <1>2, ReadingWalkInv
  <1> QED
    BY <1>3, <1>5, <1>6, <1>7, <1>8

\* A visit to a block that has a height compares it with best.
LEMMA VisitKnownStep ==
    ASSUME IInv, NEW r \in Rec, VisitKnown(r)
    PROVE  IInv' /\ KeepsHeights
  <1> USE DEF IInv
  <1>1. /\ pc = "best" /\ r \in todo /\ Known(r)
        /\ todo' = todo \ {r}
        /\ best' = BetterOf(best, r)
        /\ UNCHANGED <<parent, blockEnd, source, unread, map, genesis, misses>>
        /\ UNCHANGED <<height, next, pc, caller, target, cur, prev>>
    BY DEF VisitKnown, scanVars, walkVars
  <1>2. /\ best \in Live /\ Known(best)
        /\ \A q \in Live \ todo : height[q] <= height[best]
    BY <1>1 DEF BestInv, Visiting
  <1>3. /\ best' \in {best, r}
        /\ height[best] <= height[best'] /\ height[r] <= height[best']
    BY <1>1, <1>2 DEF BetterOf, TypeOK, Live
  <1>4. TypeOK'
    BY <1>1, <1>3 DEF TypeOK
  <1>5. UnreadInv' /\ GenesisInv' /\ HeightsLinked' /\ KeepsHeights
    BY <1>1, TableUnchanged
  <1>6. PhaseInv' /\ TargetInv'
    BY <1>1 DEF PhaseInv, TargetInv
  <1>7. BestInv'
    <2>1. todo \subseteq Live /\ best' \in Live /\ Known(best)'
      BY <1>1, <1>2, <1>3 DEF BestInv, Visiting, Known
    <2>2. ASSUME NEW q \in Live \ todo' PROVE height[q] <= height[best']
      <3>1. height[q] <= height[best] \/ height[q] <= height[best']
        BY <1>1, <1>2, <1>3, <2>2
      <3>2. height[q] \in Int /\ height[best] \in Int /\ height[best'] \in Int
        BY <1>2, <2>1, <2>2 DEF TypeOK, Live
      <3> QED
        BY <1>3, <3>1, <3>2
    <2> QED
      BY <1>1, <2>1, <2>2 DEF BestInv, Live
  <1>8. WalkInv'
    <2>1. PICK D \in SUBSET Rec : Dead(D) /\ VisitedInv(D)
      BY <1>1 DEF WalkInv, Visiting
    <2>2. Dead(D)' /\ VisitedInv(D)'
      BY <1>1, <2>1 DEF Dead, VisitedInv, Live, Known, PrevHash
    <2> QED
      BY <1>1, <2>2 DEF WalkInv
  <1> QED
    BY <1>4, <1>5, <1>6, <1>7, <1>8

\* A visit to a block without a height starts a walk from it.
LEMMA VisitUnknownStep ==
    ASSUME IInv, NEW r \in Rec, VisitUnknown(r)
    PROVE  IInv' /\ KeepsHeights
  <1> USE DEF IInv
  <1>1. /\ pc = "best" /\ r \in todo /\ ~Known(r)
        /\ todo' = todo \ {r}
        /\ pc' = "back" /\ caller' = "best"
        /\ target' = r /\ cur' = r /\ prev' = NULL
        /\ UNCHANGED <<parent, blockEnd, source, unread, map, genesis, misses>>
        /\ UNCHANGED <<height, next, best>>
    BY DEF VisitUnknown, scanVars
  <1>2. /\ todo \subseteq Live /\ best \in Live /\ Known(best)
        /\ \A q \in Live \ todo : height[q] <= height[best]
    BY <1>1 DEF BestInv, Visiting
  <1>3. TypeOK'
    BY <1>1 DEF TypeOK, Pointer
  <1>4. UnreadInv' /\ GenesisInv' /\ HeightsLinked' /\ KeepsHeights
    BY <1>1, TableUnchanged
  <1>5. PhaseInv' /\ TargetInv'
    BY <1>1, RecordAssumption DEF PhaseInv, TargetInv
  <1>6. BestInv'
    <2>1. height[r] <= height[best]
      BY <1>1, <1>2 DEF TypeOK, Known, Live
    <2> QED
      BY <1>1, <1>2, <2>1 DEF BestInv, Live, Known
  <1>7. WalkInv'
    <2>1. PICK D \in SUBSET Rec : Dead(D) /\ VisitedInv(D)
      BY <1>1 DEF WalkInv, Visiting
    <2>2. Dead(D)'
      BY <1>1, <2>1 DEF Dead, Live, Known, PrevHash
    <2>3. VisitedInv(D)'
      <3>1. caller = "none" /\ target = NULL
        BY <1>1 DEF PhaseInv, TargetInv
      <3> QED
        BY <1>1, <2>1, <3>1, RecordAssumption DEF VisitedInv, Live, Known
    <2>4. PathBack({r})'
      BY <1>1, <1>2 DEF PathBack, OnPath, Live, Known
    <2> QED
      BY <1>1, <2>2, <2>3, <2>4 DEF WalkInv
  <1> QED
    BY <1>3, <1>4, <1>5, <1>6, <1>7

\* The visits are over.
LEMMA FinishVisitStep ==
    ASSUME IInv, FinishVisit
    PROVE  IInv' /\ KeepsHeights
  <1> USE DEF IInv
  <1>1. /\ pc = "best" /\ todo = {} /\ pc' = "indexed"
        /\ UNCHANGED <<parent, blockEnd, source, unread, map, genesis, misses>>
        /\ UNCHANGED <<height, next, caller, target, cur, prev, todo, best>>
    BY DEF FinishVisit, scanVars, walkVars, bestVars
  <1>2. TypeOK'
    BY <1>1 DEF TypeOK
  <1>3. UnreadInv' /\ GenesisInv' /\ HeightsLinked' /\ KeepsHeights
    BY <1>1, TableUnchanged
  <1>4. PhaseInv' /\ TargetInv' /\ BestInv'
    BY <1>1 DEF PhaseInv, TargetInv, BestInv, Visiting, Live, Known
  <1>5. WalkInv'
    <2>1. PICK D \in SUBSET Rec : Dead(D) /\ VisitedInv(D)
      BY <1>1 DEF WalkInv, Visiting
    <2>2. Dead(D)' /\ VisitedInv(D)'
      BY <1>1, <2>1 DEF Dead, VisitedInv, Live, Known, PrevHash
    <2> QED
      BY <1>1, <2>2 DEF WalkInv
  <1> QED
    BY <1>2, <1>3, <1>4, <1>5

-----------------------------------------------------------------------------
(***************************************************************************)
(* The invariant and what follows from it.                                 *)
(***************************************************************************)

\* The invariant holds at the start.
LEMMA InitIInv == Init => IInv
  <1> SUFFICES ASSUME Init PROVE IInv
    OBVIOUS
  <1> USE DEF Init
  <1>1. Live = {} /\ Pool = {}
    BY RecordAssumption DEF Live, Pool
  <1>2. TypeOK
    BY DEF TypeOK, Pointer
  <1>3. UnreadInv /\ GenesisInv
    BY <1>1, RecordAssumption DEF UnreadInv, GenesisInv, Known
  <1>4. HeightsLinked
    BY <1>1 DEF HeightsLinked
  <1>5. PhaseInv /\ TargetInv /\ BestInv
    BY DEF PhaseInv, TargetInv, BestInv, Visiting
  <1>6. WalkInv
    <2>1. {} \in SUBSET Rec /\ Dead({})
      BY DEF Dead
    <2> QED
      BY <2>1 DEF WalkInv, Visiting
  <1> QED
    BY <1>2, <1>3, <1>4, <1>5, <1>6 DEF IInv

\* A step that changes nothing keeps it.
LEMMA StutterIInv ==
    ASSUME IInv, UNCHANGED vars
    PROVE  IInv' /\ KeepsHeights
  <1>1. /\ UNCHANGED <<parent, blockEnd, source, unread, map, genesis, misses>>
        /\ UNCHANGED <<height, next, pc, caller, target, cur, prev, todo, best>>
    BY DEF vars, scanVars, walkVars, bestVars
  <1>2. TypeOK'
    BY <1>1 DEF IInv, TypeOK
  <1>3. UnreadInv' /\ GenesisInv' /\ HeightsLinked' /\ KeepsHeights
    BY <1>1, TableUnchanged DEF IInv
  <1>4. PhaseInv' /\ TargetInv' /\ BestInv'
    BY <1>1 DEF IInv, PhaseInv, TargetInv, BestInv, Visiting, Live, Known
  <1>5. WalkInv'
    <2>1. PICK S \in SUBSET Rec, D \in SUBSET Rec :
             /\ Dead(D)
             /\ pc = "back" => PathBack(S) /\ (cur \in D \/ S \cap D = {})
             /\ pc = "forward" => PathForward(S) /\ S \cap D = {}
             /\ Visiting => VisitedInv(D)
      BY DEF IInv, WalkInv
    <2>2. Dead(D)' = Dead(D)
      BY <1>1 DEF Dead, Live, Known, PrevHash
    <2>3. OnPath(S)' = OnPath(S)
      BY <1>1 DEF OnPath, Live, Known, PrevHash
    <2>4. PathBack(S)' = PathBack(S)
      BY <1>1, <2>3 DEF PathBack, PrevHash
    <2>5. PathForward(S)' = PathForward(S)
      BY <1>1, <2>3 DEF PathForward, Live, Known, PrevHash
    <2>6. VisitedInv(D)' = VisitedInv(D) /\ Visiting' = Visiting
      BY <1>1 DEF VisitedInv, Visiting, Live, Known
    <2> QED
      BY <1>1, <2>1, <2>2, <2>4, <2>5, <2>6 DEF WalkInv
  <1> QED
    BY <1>2, <1>3, <1>4, <1>5 DEF IInv

\* Every step keeps it.
LEMMA NextIInv ==
    ASSUME IInv, [Next]_vars
    PROVE  IInv' /\ KeepsHeights
  <1>1. CASE ReadBlock
    BY <1>1, AddGenesisStep, AddAboveStep, AddMissStep, AddOrphanStep DEF ReadBlock
  <1>2. CASE SetHeight
    BY <1>2, StepBackStep, TurnStep, StepForwardStep, ReturnToAddStep, ReturnToBestStep
    DEF SetHeight
  <1>3. CASE FinishScan
    BY <1>3, FinishScanStep
  <1>4. CASE RestartFromCache
    BY <1>4, RestartFromCacheStep
  <1>5. CASE SetHeightsAndBest
    BY <1>5, VisitKnownStep, VisitUnknownStep, FinishVisitStep DEF SetHeightsAndBest
  <1>6. CASE UNCHANGED vars
    BY <1>6, StutterIInv
  <1> QED
    BY <1>1, <1>2, <1>3, <1>4, <1>5, <1>6 DEF Next, IndexNext, IndexDone

\* The inductive invariant holds in every reachable state.
THEOREM Invariance == Spec => []IInv
  <1>1. Init => IInv
    BY InitIInv
  <1>2. IInv /\ [Next]_vars => IInv'
    BY NextIInv
  <1> QED
    BY <1>1, <1>2, PTL DEF Spec

\* Every variable keeps its type, and the table maps an id to its own struct.
THEOREM TypeCorrect == Spec => []TypeOK
  <1>1. IInv => TypeOK
    BY DEF IInv
  <1> QED
    BY <1>1, Invariance, PTL

\* A height that add_block or set_height has given is the distance to genesis,
\* for any order of the records and with any duplicates among them.
THEOREM HeightsAreLinked == Spec => []HeightsLinked
  <1>1. IInv => HeightsLinked
    BY DEF IInv
  <1> QED
    BY <1>1, Invariance, PTL

\* set_height reads no next pointer that it has not just written.
THEOREM NoWildPointers == Spec => []NoWildPointer
  <1>1. IInv => NoWildPointer
    <2> SUFFICES ASSUME IInv, cur = Junk PROVE FALSE
      BY DEF NoWildPointer
    <2>1. pc = "back" \/ pc = "forward"
      BY RecordAssumption DEF IInv, PhaseInv
    <2>2. PICK S \in SUBSET Rec : cur \in S \/ cur = NULL
      BY <2>1 DEF IInv, WalkInv, PathBack, PathForward, OnPath
    <2> QED
      BY <2>2, RecordAssumption
  <1> QED
    BY <1>1, Invariance, PTL

\* At the end the blocks without a height are dead.
LEMMA IndexIsComplete == IInv => HeightsComplete
  <1> SUFFICES ASSUME IInv, pc = "indexed", NEW r \in Live, ~Known(r)
               PROVE  /\ PrevHash(r) # Zero
                      /\ \A p \in Live : IdOf[p] = PrevHash(r) => ~Known(p)
    BY DEF HeightsComplete
  <1>1. todo = {} /\ target = NULL
    BY DEF IInv, PhaseInv, TargetInv
  <1>2. PICK D \in SUBSET Rec : Dead(D) /\ VisitedInv(D)
    BY DEF IInv, WalkInv, Visiting
  <1>3. r \in D
    BY <1>1, <1>2, RecordAssumption DEF VisitedInv, Live
  <1>4. ASSUME NEW p \in Live, IdOf[p] = PrevHash(r) PROVE ~Known(p)
    <2>1. Get(map, PrevHash(r)) = p
      BY <1>4, GetIsLive DEF IInv
    <2> QED
      BY <1>2, <1>3, <2>1, RecordAssumption DEF Dead, Live
  <1> QED
    BY <1>2, <1>3, <1>4 DEF Dead

\* At the end of set_heights_and_best only blocks without a chain to genesis
\* are left without a height.
THEOREM HeightsAreComplete == Spec => []HeightsComplete
  BY IndexIsComplete, Invariance, PTL

\* The best block is the highest block of the table.
THEOREM BestIsTheHighest == Spec => []BestIsHighest
  <1>1. IInv => BestIsHighest
    BY DEF IInv, BestInv, PhaseInv, BestIsHighest, Visiting
  <1> QED
    BY <1>1, Invariance, PTL

\* A height is set once: no later step, in this process or in one that reads
\* the cache, changes it.
THEOREM HeightsAreStable == Spec => HeightsStable
  <1>1. IInv /\ [Next]_vars => [\A r \in Rec : Known(r) => height'[r] = height[r]]_vars
    BY NextIInv DEF KeepsHeights
  <1> QED
    BY <1>1, Invariance, PTL DEF Spec, HeightsStable

-----------------------------------------------------------------------------
(***************************************************************************)
(* ChainWalk.                                                              *)
(*                                                                         *)
(* The invariant of the index says what the table is like when the loops   *)
(* of iterate begin.  No induction follows next along the chain: Chain(C)  *)
(* says what a set C of blocks must be like for next to lead through all   *)
(* of it to best, and each loop keeps such a set.                          *)
(***************************************************************************)

IndexLabels == {"read", "back", "forward", "best", "indexed"}
ChainLabels == {"seekEnd", "chooseStart", "seekStart", "walk", "done"}
Labels == IndexLabels \cup {"setStart", "link"} \cup ChainLabels \cup {"failed", "wild"}

\* The type of every variable that the loops read.
WalkTypeOK ==
    /\ parent \in Topologies /\ blockEnd \in Ends
    /\ map \in [Hash -> Rec \cup {NULL}]
    /\ \A h \in Hash : map[h] # NULL => IdOf[map[h]] = h
    /\ height \in [Rec -> Nat \cup {-1}]
    /\ next \in [Rec -> Pointer]
    /\ genesis \in Rec \cup {NULL} /\ best \in Rec \cup {NULL}
    /\ pc \in Labels
    /\ tip \in Hash \cup {Zero} /\ startHash \in Hash \cup {Zero} /\ blockStart \in Nat
    /\ start \in Rec \cup {NULL} /\ link \in Rec \cup {NULL} /\ walker \in Pointer
    /\ visited \in Seq(Rec) /\ emitted \in Seq(Rec)
    /\ pc = "link" => walker \in Rec \cup {NULL}

\* Before the index is ready: its own invariant, and nothing of iterate's.
IndexPart ==
    pc \in IndexLabels =>
        /\ IInv
        /\ Visiting => unread = {} /\ genesis # NULL
        /\ tip = Zero /\ startHash = Zero /\ blockStart = 0
        /\ walker = NULL /\ visited = <<>> /\ emitted = <<>>

\* Whoever wrote a next, it leads to a child.
NextLinked ==
    /\ \A r \in Rec : next[r] \in Rec => PrevHash(next[r]) = IdOf[r]
    /\ pc = "link" /\ walker \in Rec /\ link \in Rec => PrevHash(link) = IdOf[walker]

EmittedLinked ==
    /\ emitted # <<>> => pc \in {"walk", "done", "wild"}
    /\ pc = "walk" /\ emitted # <<>> => start = NULL
    /\ pc = "walk" /\ emitted # <<>> /\ walker \in Rec => PrevHash(walker) = IdOf[Last(emitted)]

PrevBlock(r) == Get(map, PrevHash(r))

\* The table that the index has left, in which a block has a height if and only if
\* its chain leads to genesis.
TableInv ==
    /\ genesis \in Live /\ height[genesis] = 0 /\ PrevHash(genesis) = Zero
    /\ \A r \in Live \ {genesis} :
          /\ Known(r) <=> PrevBlock(r) # NULL /\ Known(PrevBlock(r))
          /\ Known(r) => height[r] = height[PrevBlock(r)] + 1

\* C is a chain that next leads through up to best.
Chain(C) ==
    /\ C \subseteq Live
    /\ best \in C /\ next[best] = NULL
    /\ \A r \in C : Known(r) /\ height[r] <= height[best]
    /\ \A r \in C \ {best} : next[r] \in C /\ PrevHash(next[r]) = IdOf[r]
    /\ \A r, q \in C : height[r] = height[q] => r = q

InAnc(C) == \A r \in C : IdOf[r] \in Anc[IdOf[best]]

TopInv ==
    /\ best \in Live /\ Known(best) /\ IsTop(best)

\* What link_blocks has linked so far.
LinkInv(C) ==
    /\ walker \in Live \cup {NULL}
    /\ C = {} => walker = best /\ link = NULL
    /\ C # {} => /\ Chain(C) /\ InAnc(C)
                 /\ link \in C /\ PrevBlock(link) = walker
                 /\ \A r \in C : height[link] <= height[r]

HashStart == IF startHash = Zero THEN genesis ELSE map[startHash]

\* A loop that looks for a height has not passed it.
SeekInv(C) ==
    /\ pc = "seekEnd" => /\ walker \in C /\ blockEnd # NoEnd /\ height[walker] <= blockEnd
                         /\ TopInv /\ InAnc(C)
    /\ pc = "chooseStart" => walker = genesis
    /\ pc = "seekStart" => walker \in C /\ blockStart # 0 /\ height[walker] <= blockStart
    /\ pc # "seekEnd" => IsLast(best)
    /\ pc \in {"seekEnd", "chooseStart"} => blockStart = 0

\* The main loop goes through C from genesis on.
VisitInv(C) ==
    /\ \A i \in DOMAIN visited : visited[i] \in C /\ height[visited[i]] = i - 1
    /\ \A i \in 1..(Len(visited) - 1) : PrevHash(visited[i + 1]) = IdOf[visited[i]]
    /\ pc \in {"walk", "done"} =>
          walker = IF visited = <<>> THEN genesis ELSE next[visited[Len(visited)]]
    /\ pc \notin {"walk", "done"} => visited = <<>>
    /\ pc = "done" => walker = NULL

IsStart(b, C) ==
    IF blockStart # 0 THEN b \in C /\ height[b] = blockStart ELSE b = HashStart

\* The callbacks have been handed what came after the start.
EmitInv(C) ==
    /\ startHash # Zero => map[startHash] # NULL
    /\ pc \in {"seekEnd", "chooseStart", "seekStart"} => start = HashStart
    /\ pc \in {"walk", "done"} /\ start # NULL =>
          IsStart(start, C) /\ emitted = <<>> /\ \A i \in DOMAIN visited : ~StartIsAt(i)
    /\ pc \in {"walk", "done"} /\ start = NULL =>
          \E s \in DOMAIN visited :
              /\ StartIsAt(s)
              /\ Len(emitted) = Len(visited) - s + 1
              /\ \A k \in DOMAIN emitted : emitted[k] = visited[s + k - 1]
    /\ pc \notin {"walk", "done"} => emitted = <<>>

Gaveup ==
    \/ genesis = NULL
    \/ tip # Zero /\ map[tip] = NULL
    \/ startHash # Zero /\ map[startHash] = NULL
    \/ blockEnd # NoEnd /\ best # NULL /\ height[best] < blockEnd
    \/ best # NULL /\ height[best] < blockStart

\* All this as long as the chain asked for leads to genesis.
ChainPart ==
    TipConnected =>
        /\ pc = "setStart" => TopInv /\ visited = <<>> /\ emitted = <<>> /\ blockStart = 0
        /\ pc = "link" =>
              /\ TopInv /\ visited = <<>> /\ emitted = <<>> /\ blockStart = 0
              /\ start = HashStart /\ (startHash # Zero => map[startHash] # NULL)
              /\ \E C \in SUBSET Rec : LinkInv(C)
        /\ pc \in ChainLabels =>
              \E C \in SUBSET Rec :
                  Chain(C) /\ genesis \in C /\ SeekInv(C) /\ VisitInv(C) /\ EmitInv(C)
        /\ pc # "wild" /\ walker # Junk
        /\ pc = "failed" => Gaveup

CInv ==
    /\ WalkTypeOK
    /\ IndexPart
    /\ NextLinked
    /\ EmittedLinked
    /\ pc \notin {"read", "back", "forward", "best", "failed"} => TableInv
    /\ ChainPart

-----------------------------------------------------------------------------
(***************************************************************************)
(* The blocks before a block.  Anc is recursive; that a function with this *)
(* property exists is shown with the least set that has h and, with a      *)
(* block, the one before it.                                               *)
(***************************************************************************)
Closed(S) == \A x \in S : parent[x] \in Hash => parent[x] \in S

LEMMA AncIs ==
    ASSUME NEW h \in Hash
    PROVE  Anc[h] = {h} \cup (IF parent[h] \in Hash THEN Anc[parent[h]] ELSE {})
  <1> DEFINE A == [g \in Hash |-> {x \in Hash : \A S \in SUBSET Hash : g \in S /\ Closed(S) => x \in S}]
             Step(f, g) == {g} \cup (IF parent[g] \in Hash THEN f[parent[g]] ELSE {})
  <1>1. ASSUME NEW g \in Hash
        PROVE  g \in A[g] /\ Closed(A[g]) /\ A[g] \subseteq Hash
    BY DEF Closed
  <1>2. ASSUME NEW g \in Hash, NEW S \in SUBSET Hash, g \in S, Closed(S)
        PROVE  A[g] \subseteq S
    BY <1>2
  <1>3. ASSUME NEW g \in Hash
        PROVE  A[g] = Step(A, g)
    <2> HIDE DEF A
    <2>1. Step(A, g) \subseteq A[g]
      <3>1. parent[g] \in Hash => parent[g] \in A[g]
        BY <1>1 DEF Closed
      <3>2. parent[g] \in Hash => A[parent[g]] \subseteq A[g]
        BY <1>1, <1>2, <3>1
      <3> QED
        BY <1>1, <3>2
    <2>2. Closed(Step(A, g)) /\ g \in Step(A, g) /\ Step(A, g) \subseteq Hash
      BY <1>1 DEF Closed
    <2>3. A[g] \subseteq Step(A, g)
      BY <1>2, <2>2
    <2> QED
      BY <2>1, <2>3
  <1>4. A = [g \in Hash |-> Step(A, g)]
    BY <1>3
  <1> HIDE DEF A
  <1>5. \E f : f = [g \in Hash |-> Step(f, g)]
    BY <1>4
  <1>6. Anc = [g \in Hash |-> Step(Anc, g)]
    BY <1>5 DEF Anc
  <1> QED
    BY <1>6

LEMMA AncSame == parent' = parent => Anc' = Anc
  BY DEF Anc

\* A header commits to an older block, so that a set of blocks has one whose
\* previous block is not in the set.
LEMMA OldestBlock ==
    ASSUME parent \in Topologies, NEW B \in SUBSET Hash, B # {}
    PROVE  \E h \in B : parent[h] \notin B
  <1>1. PICK h \in B : \A g \in B : Rank[h] <= Rank[g]
    <2> DEFINE T == {Rank[g] : g \in B}
    <2>1. T \in SUBSET Nat /\ T # {}
      BY TopologyAssumption
    <2>2. \E n \in T : \A m \in T : n <= m
      <3> HIDE DEF T
      <3> QED
        BY <2>1, LeastNatural
    <2> QED
      BY <2>2
  <1>2. parent[h] # Zero => Rank[parent[h]] < Rank[h]
    BY TopologyAssumption
  <1>3. Rank[h] \in Nat /\ \A g \in B : Rank[g] \in Nat /\ g # Zero
    BY TopologyAssumption
  <1> QED
    BY <1>1, <1>2, <1>3

LEMMA AncClosed ==
    ASSUME parent \in Topologies, NEW h \in Hash
    PROVE  Closed(Anc[h]) /\ h \in Anc[h]
  <1> DEFINE B == {g \in Hash : ~Closed(Anc[g])}
  <1>1. SUFFICES ASSUME B # {} PROVE FALSE
    BY AncIs
  <1>2. PICK g \in B : parent[g] \notin B
    BY <1>1, OldestBlock
  <1>3. parent[g] \in Hash => Closed(Anc[parent[g]]) /\ parent[g] \in Anc[parent[g]]
    BY <1>2, AncIs
  <1>4. Closed({g} \cup (IF parent[g] \in Hash THEN Anc[parent[g]] ELSE {}))
    BY <1>3 DEF Closed
  <1>5. Anc[g] = {g} \cup (IF parent[g] \in Hash THEN Anc[parent[g]] ELSE {})
    BY AncIs
  <1> QED
    BY <1>4, <1>5

-----------------------------------------------------------------------------
(***************************************************************************)
(* The index.                                                              *)
(***************************************************************************)
LEMMA InitCInv == WalkInit => CInv
  <1> SUFFICES ASSUME WalkInit PROVE CInv
    OBVIOUS
  <1>1. IInv
    BY InitIInv DEF WalkInit
  <1>2. pc = "read" /\ next = [r \in Rec |-> Junk] /\ emitted = <<>> /\ visited = <<>> /\ caller = "none"
    BY DEF WalkInit, Init
  <1>3. WalkTypeOK
    BY <1>1, <1>2 DEF WalkInit, Init, IInv, TypeOK, WalkTypeOK, Labels, IndexLabels
  <1>4. IndexPart
    BY <1>1, <1>2 DEF WalkInit, IndexPart, Visiting
  <1>5. NextLinked
    BY <1>2, RecordAssumption DEF NextLinked
  <1>6. ChainPart
    BY <1>2, RecordAssumption DEF WalkInit, ChainPart, ChainLabels
  <1> QED
    BY <1>2, <1>3, <1>4, <1>5, <1>6 DEF CInv, EmittedLinked

\* What the index hands over: its genesis block is the only one, and the blocks
\* with a height are those whose previous block has one.
LEMMA IndexedTable ==
    ASSUME IInv, pc = "indexed", unread = {}, genesis # NULL
    PROVE  TableInv /\ best \in Live /\ Known(best) /\ \A r \in Live : height[r] <= height[best]
  <1>1. TypeOK /\ Pool = Live
    BY DEF IInv, Pool
  <1>2. genesis \in Live /\ height[genesis] = 0 /\ PrevHash(genesis) = Zero
    BY DEF IInv, GenesisInv
  <1>3. best \in Live /\ Known(best) /\ \A r \in Live : height[r] <= height[best]
    BY DEF IInv, BestInv, PhaseInv, Visiting
  <1>4. \A r \in Live : ~Known(r) =>
            PrevHash(r) # Zero /\ \A p \in Live : IdOf[p] = PrevHash(r) => ~Known(p)
    BY IndexIsComplete DEF HeightsComplete
  <1>5. ASSUME NEW r \in Live \ {genesis}
        PROVE  PrevHash(r) # Zero
    <2>1. r \in Rec /\ genesis \in Rec /\ parent \in Topologies /\ map[IdOf[r]] = r /\ map[IdOf[genesis]] = genesis
      BY <1>1, <1>2 DEF Live, TypeOK
    <2> QED
      BY <1>2, <2>1, GenesisAssumption DEF PrevHash
  <1>6. ASSUME NEW r \in Live \ {genesis}
        PROVE  /\ Known(r) <=> PrevBlock(r) # NULL /\ Known(PrevBlock(r))
               /\ Known(r) => height[r] = height[PrevBlock(r)] + 1
    <2>1. PrevBlock(r) \in Live \cup {NULL} /\ (PrevBlock(r) # NULL => IdOf[PrevBlock(r)] = PrevHash(r))
          /\ \A p \in Live : IdOf[p] = PrevHash(r) => PrevBlock(r) = p
      BY <1>1, GetIsLive DEF PrevBlock
    <2>2. Known(r) => \E p \in Live : IdOf[p] = PrevHash(r) /\ Known(p) /\ height[r] = height[p] + 1
      BY <1>1, <1>5 DEF IInv, HeightsLinked, HasHeight
    <2>3. \A p \in Live : p # NULL
      BY RecordAssumption DEF Live
    <2>4. CASE Known(r)
      BY <2>1, <2>2, <2>3, <2>4
    <2>5. CASE ~Known(r)
      BY <1>4, <2>1, <2>5
    <2> QED
      BY <2>4, <2>5
  <1> QED
    BY <1>2, <1>3, <1>6 DEF TableInv

LEMMA IndexStep == ASSUME CInv, Index PROVE CInv'
  <1>1. /\ IInv /\ IndexNext /\ pc \in {"read", "back", "forward", "best"}
        /\ UNCHANGED <<optionVars, start, loopVars>>
    <2>1. IndexNext /\ UNCHANGED <<optionVars, start, loopVars>>
      BY DEF Index
    <2>2. pc \in {"read", "back", "forward", "best"}
      BY <2>1 DEF IndexNext, ReadBlock, SetHeight, FinishScan, RestartFromCache, SetHeightsAndBest,
         AddGenesis, AddAbove, AddMiss, AddOrphan, Replace, StepBack, Turn, StepForward,
         ReturnToAdd, ReturnToBest, FinishVisit, VisitKnown, VisitUnknown
    <2> QED
      BY <2>1, <2>2 DEF CInv, IndexPart, IndexLabels
  <1>2. IInv'
    BY <1>1, NextIInv DEF Next
  <1>3. /\ tip = Zero /\ startHash = Zero /\ blockStart = 0
        /\ walker = NULL /\ visited = <<>> /\ emitted = <<>>
        /\ Visiting => unread = {} /\ genesis # NULL
    BY <1>1 DEF CInv, IndexPart, IndexLabels
  <1>4. /\ tip' = Zero /\ startHash' = Zero /\ blockStart' = 0
        /\ walker' = NULL /\ visited' = <<>> /\ emitted' = <<>>
    BY <1>1, <1>3 DEF optionVars, loopVars
  <1>5. WalkTypeOK'
    <2>1. TypeOK'
      BY <1>2 DEF IInv
    <2>2. pc' \in Labels
      BY <2>1 DEF TypeOK, Labels, IndexLabels
    <2> QED
      BY <1>1, <2>1, <2>2 DEF CInv, TypeOK, WalkTypeOK, optionVars, loopVars
  <1>6. Visiting' => unread' = {} /\ genesis' # NULL
    <2>1. pc = "read" => caller = "none" /\ ~Visiting
      BY <1>1 DEF IInv, PhaseInv, Visiting
    <2>2. CASE ReadBlock
      <3>1. pc = "read" /\ ((pc' = "read" /\ caller' = caller) \/ (pc' = "back" /\ caller' = "add"))
        BY <2>2 DEF ReadBlock, AddGenesis, AddAbove, AddMiss, AddOrphan, Replace, walkVars
      <3> QED
        BY <2>1, <3>1 DEF Visiting
    <2>3. CASE StepBack \/ Turn \/ StepForward
      <3>1. UNCHANGED <<unread, genesis, caller>> /\ pc \in {"back", "forward"} /\ pc' \in {"back", "forward"}
        BY <2>3 DEF StepBack, Turn, StepForward, scanVars
      <3> QED
        BY <1>3, <3>1 DEF Visiting
    <2>4. CASE ReturnToAdd
      BY <2>4 DEF ReturnToAdd, Return, Visiting
    <2>5. CASE ReturnToBest \/ SetHeightsAndBest
      <3>1. UNCHANGED <<unread, genesis>> /\ Visiting
        BY <2>5 DEF ReturnToBest, SetHeightsAndBest, FinishVisit, VisitKnown, VisitUnknown, scanVars, Visiting
      <3> QED
        BY <1>3, <3>1
    <2>6. CASE FinishScan
      <3>1. unread' = {} /\ genesis' = genesis /\ caller' = caller /\ pc = "read"
            /\ (genesis = NULL => pc' = "failed")
        BY <2>6 DEF FinishScan, scanVars, walkVars
      <3> QED
        BY <2>1, <3>1 DEF Visiting
    <2>7. CASE RestartFromCache
      <3>1. pc' = pc /\ caller' = caller /\ pc = "read"
        BY <2>7 DEF RestartFromCache, walkVars
      <3> QED
        BY <2>1, <3>1 DEF Visiting
    <2> QED
      BY <1>1, <2>2, <2>3, <2>4, <2>5, <2>6, <2>7 DEF IndexNext, SetHeight
  <1>7. IndexPart'
    BY <1>2, <1>4, <1>6 DEF IndexPart
  <1>8. NextLinked'
    <2>1. NextLinked /\ TypeOK /\ next \in [Rec -> Pointer]
      BY <1>1 DEF CInv, IInv, TypeOK
    <2>2. CASE StepBack \/ Turn
      <3>1. PICK p \in Rec : p = Get(map, PrevHash(cur)) /\ pc = "back"
        BY <1>1, <2>1, <2>2, GetIsLive DEF StepBack, Turn, Live
      <3>2. cur \in Rec
        BY <1>1, <3>1 DEF IInv, WalkInv, PathBack, OnPath
      <3>3. IdOf[p] = PrevHash(cur)
        BY <2>1, <3>1, GetIsLive, RecordAssumption
      <3>4. parent' = parent /\ \A r \in Rec : next'[r] \in {next[r], NULL} \/ (r = p /\ next'[r] = cur)
        BY <2>1, <2>2, <3>1 DEF StepBack, Turn
      <3>5. pc' # "link"
        BY <1>2 DEF IInv, TypeOK
      <3> QED
        BY <2>1, <3>2, <3>3, <3>4, <3>5, RecordAssumption DEF NextLinked, PrevHash
    <2>3. CASE RestartFromCache
      BY <1>2, <2>3, RecordAssumption DEF RestartFromCache, NextLinked, IInv, TypeOK
    <2>4. CASE ~(StepBack \/ Turn \/ RestartFromCache)
      <3>1. parent' = parent /\ next' = next
        BY <1>1, <2>4 DEF IndexNext, ReadBlock, SetHeight, FinishScan, SetHeightsAndBest,
           AddGenesis, AddAbove, AddMiss, AddOrphan, Replace, StepForward,
           ReturnToAdd, ReturnToBest, FinishVisit, VisitKnown, VisitUnknown
      <3>2. pc' # "link"
        BY <1>2 DEF IInv, TypeOK
      <3> QED
        BY <2>1, <3>1, <3>2 DEF NextLinked, PrevHash
    <2> QED
      BY <2>2, <2>3, <2>4
  <1>9. pc' \notin {"read", "back", "forward", "best", "failed"} => TableInv'
    <2>1. pc' \in {"read", "back", "forward", "best", "indexed", "failed"}
      BY <1>2 DEF IInv, TypeOK
    <2>2. pc' = "indexed" => unread' = {} /\ genesis' # NULL
      BY <1>6 DEF Visiting
    <2>3. (IInv /\ pc = "indexed" /\ unread = {} /\ genesis # NULL => TableInv)'
      BY IndexedTable, PTL
    <2> QED
      BY <1>2, <2>1, <2>2, <2>3
  <1>10. ChainPart'
    <2>1. pc' \in {"read", "back", "forward", "best", "indexed", "failed"} /\ walker' # Junk
      BY <1>2, <1>4, RecordAssumption DEF IInv, TypeOK
    <2>2. pc' = "failed" => genesis' = NULL
      BY <1>1 DEF IndexNext, ReadBlock, SetHeight, FinishScan, RestartFromCache, SetHeightsAndBest,
         AddGenesis, AddAbove, AddMiss, AddOrphan, Replace, StepBack, Turn, StepForward,
         ReturnToAdd, ReturnToBest, FinishVisit, VisitKnown, VisitUnknown, scanVars
    <2> QED
      BY <2>1, <2>2 DEF ChainPart, ChainLabels, Gaveup
  <1> QED
    BY <1>4, <1>5, <1>7, <1>8, <1>9, <1>10 DEF CInv, EmittedLinked

-----------------------------------------------------------------------------
(***************************************************************************)
(* What the loops of iterate leave alone.                                  *)
(***************************************************************************)
LEMMA TableKept ==
    ASSUME UNCHANGED indexVars
    PROVE  /\ UNCHANGED <<parent, map, genesis, blockEnd, height>>
           /\ Live' = Live /\ Anc' = Anc
           /\ \A r : Known(r)' = Known(r) /\ PrevHash(r)' = PrevHash(r) /\ PrevBlock(r)' = PrevBlock(r)
           /\ TableInv' = TableInv
  <1>1. UNCHANGED <<parent, map, genesis, blockEnd, height>>
    BY DEF indexVars, scanVars
  <1>2. Live' = Live
    BY <1>1 DEF Live
  <1>3. \A r : Known(r)' = Known(r)
    BY <1>1 DEF Known
  <1>4. \A r : PrevHash(r)' = PrevHash(r)
    BY <1>1 DEF PrevHash
  <1>5. \A r : PrevBlock(r)' = PrevBlock(r)
    BY <1>1, <1>4 DEF PrevBlock, Get
  <1>6. TableInv' = TableInv
    BY <1>1, <1>2, <1>3, <1>4, <1>5 DEF TableInv
  <1> QED
    BY <1>1, <1>2, <1>3, <1>4, <1>5, <1>6, AncSame

LEMMA TypeStep == ASSUME CInv, Iterate PROVE WalkTypeOK'
  <1>1. WalkTypeOK /\ NULL \in Pointer /\ Rec \subseteq Pointer
    BY DEF CInv, Pointer
  <1>2. UNCHANGED indexVars
    BY DEF Iterate, SetBlockchainEnd, SetBlockchainStart, LinkBlock, LinkDone, SeekEnd, FoundEnd,
       ChooseStart, SeekStart, FoundStart, Visit, VisitDone, FollowJunk, Seek
  <1>3. UNCHANGED <<parent, map, genesis, blockEnd, height>>
    BY <1>2, TableKept
  <1>4. CASE SetBlockchainEnd
    BY <1>1, <1>3, <1>4, WalkAssumption DEF SetBlockchainEnd, WalkTypeOK, Labels, IndexLabels, loopVars
  <1>5. CASE SetBlockchainStart
    BY <1>1, <1>3, <1>5, WalkAssumption DEF SetBlockchainStart, WalkTypeOK, Labels, IndexLabels
  <1>6. CASE LinkBlock
    <2>1. next' \in [Rec -> Pointer] /\ link' \in Rec \cup {NULL}
      BY <1>1, <1>6 DEF LinkBlock, WalkTypeOK, NextOf, Pointer
    <2>2. walker' \in Rec \cup {NULL} /\ walker' \in Pointer
      BY <1>1, <1>6 DEF LinkBlock, WalkTypeOK, Get, Pointer
    <2> QED
      BY <1>1, <1>3, <1>6, <2>1, <2>2 DEF LinkBlock, WalkTypeOK, optionVars
  <1>7. CASE LinkDone
    BY <1>1, <1>3, <1>7 DEF LinkDone, WalkTypeOK, Labels, ChainLabels, optionVars
  <1>8. CASE SeekEnd \/ SeekStart
    <2>1. walker \in Rec /\ walker' = next[walker] /\ pc' \in {pc, "failed"} /\ pc \in {"seekEnd", "seekStart"}
      BY <1>8 DEF SeekEnd, SeekStart, Seek
    <2>2. walker' \in Pointer
      BY <1>1, <2>1 DEF WalkTypeOK
    <2>3. UNCHANGED <<next, best, optionVars, start, link, visited, emitted>>
      BY <1>8 DEF SeekEnd, SeekStart, Seek
    <2> QED
      BY <1>1, <1>3, <2>1, <2>2, <2>3 DEF WalkTypeOK, Labels, optionVars
  <1>9. CASE FoundEnd
    <2>1. next' \in [Rec -> Pointer] /\ best' \in Rec /\ walker' \in Pointer
      BY <1>1, <1>9 DEF FoundEnd, WalkTypeOK
    <2> QED
      BY <1>1, <1>3, <1>9, <2>1 DEF FoundEnd, WalkTypeOK, Labels, ChainLabels, optionVars
  <1>10. CASE ChooseStart
    BY <1>1, <1>3, <1>10, WalkAssumption DEF ChooseStart, WalkTypeOK, Labels, ChainLabels, loopVars
  <1>11. CASE FoundStart
    BY <1>1, <1>3, <1>11 DEF FoundStart, WalkTypeOK, Labels, ChainLabels, optionVars
  <1>12. CASE Visit
    <2>1. walker \in Rec /\ walker' \in Pointer /\ start' \in Rec \cup {NULL}
      BY <1>1, <1>12 DEF Visit, WalkTypeOK, StartAfterVisit
    <2>2. visited' \in Seq(Rec) /\ emitted' \in Seq(Rec)
      BY <1>1, <1>12, <2>1 DEF Visit, WalkTypeOK
    <2>3. UNCHANGED <<next, best, pc, optionVars, link>>
      BY <1>12 DEF Visit
    <2> QED
      BY <1>1, <1>3, <2>1, <2>2, <2>3, <1>12 DEF WalkTypeOK, optionVars, Visit
  <1>13. CASE VisitDone \/ FollowJunk
    <2>1. UNCHANGED <<next, best, optionVars, start, loopVars>> /\ pc' \in {"done", "wild"}
      BY <1>13 DEF VisitDone, FollowJunk
    <2> QED
      BY <1>1, <1>3, <2>1 DEF WalkTypeOK, Labels, ChainLabels, loopVars, optionVars
  <1> QED
    BY <1>4, <1>5, <1>6, <1>7, <1>8, <1>9, <1>10, <1>11, <1>12, <1>13 DEF Iterate

\* Where the loops are, and what they do not touch.
LEMMA IterateFrame ==
    ASSUME Iterate
    PROVE  /\ UNCHANGED indexVars
           /\ pc \notin {"read", "back", "forward", "best", "failed", "done", "wild"}
           /\ pc' \notin IndexLabels
           /\ pc' = "link" => pc \in {"setStart", "link"}
           /\ LinkBlock \/ FoundEnd \/ next' = next
  BY DEF Iterate, SetBlockchainEnd, SetBlockchainStart, LinkBlock, LinkDone, SeekEnd, FoundEnd,
     ChooseStart, SeekStart, FoundStart, Visit, VisitDone, FollowJunk, Seek, IndexLabels

LEMMA NextLinkedStep == ASSUME CInv, Iterate PROVE NextLinked'
  <1>1. NextLinked /\ WalkTypeOK
    BY DEF CInv
  <1>2. UNCHANGED <<parent, map>> /\ \A r : PrevHash(r)' = PrevHash(r)
    BY IterateFrame, TableKept
  <1>3. CASE LinkBlock
    <2>1. walker \in Rec /\ link \in Rec \cup {NULL}
      BY <1>1, <1>3 DEF LinkBlock, WalkTypeOK
    <2>2. \A r \in Rec : next'[r] = IF r = walker THEN link ELSE next[r]
      BY <1>1, <1>3 DEF LinkBlock, NextOf, WalkTypeOK
    <2>3. link \in Rec => PrevHash(link) = IdOf[walker]
      BY <1>1, <1>3, <2>1 DEF LinkBlock, NextLinked
    <2>4. link' = walker /\ walker' = PrevBlock(walker)
      BY <1>3 DEF LinkBlock, PrevBlock
    <2>5. walker' \in Rec => IdOf[walker'] = PrevHash(walker)
      BY <1>1, <2>4, RecordAssumption DEF PrevBlock, Get, WalkTypeOK
    <2> QED
      BY <1>1, <1>2, <2>1, <2>2, <2>3, <2>4, <2>5, RecordAssumption DEF NextLinked, WalkTypeOK
  <1>4. CASE FoundEnd
    BY <1>1, <1>2, <1>4, RecordAssumption DEF NextLinked, WalkTypeOK, FoundEnd
  <1>5. CASE next' = next /\ ~LinkBlock
    <2>1. pc' = "link" => link' = NULL
      BY <1>5 DEF Iterate, SetBlockchainEnd, SetBlockchainStart, LinkDone, SeekEnd, FoundEnd,
         ChooseStart, SeekStart, FoundStart, Visit, VisitDone, FollowJunk, Seek
    <2> QED
      BY <1>1, <1>2, <1>5, <2>1, RecordAssumption DEF NextLinked
  <1> QED
    BY <1>3, <1>4, <1>5, IterateFrame

LEMMA EmittedLinkedStep == ASSUME CInv, Iterate PROVE EmittedLinked'
  <1>1. NextLinked /\ WalkTypeOK /\ EmittedLinked
    BY DEF CInv
  <1>2. UNCHANGED <<parent, map>> /\ \A r : PrevHash(r)' = PrevHash(r)
    BY IterateFrame, TableKept
  <1>3. CASE Visit
    <2>1. walker \in Rec /\ walker' = next[walker] /\ pc = "walk" /\ pc' = pc
          /\ emitted' = IF start' = NULL THEN Append(emitted, walker) ELSE emitted
      BY <1>3 DEF Visit
    <2>2. CASE start' = NULL
      <3>1. Last(emitted') = walker
        BY <1>1, <2>1, <2>2 DEF WalkTypeOK, Last
      <3> QED
        BY <1>1, <1>2, <2>1, <2>2, <3>1 DEF EmittedLinked, NextLinked
    <2>3. CASE start' # NULL
      <3>1. start # NULL
        BY <1>3, <2>3 DEF Visit, StartAfterVisit
      <3>2. emitted' = <<>>
        BY <1>1, <2>1, <2>3, <3>1 DEF EmittedLinked
      <3> QED
        BY <3>2 DEF EmittedLinked
    <2> QED
      BY <2>2, <2>3
  <1>4. CASE ~Visit
    <2>1. emitted' = emitted
      BY <1>4 DEF Iterate, SetBlockchainEnd, SetBlockchainStart, LinkBlock, LinkDone, SeekEnd, FoundEnd,
         ChooseStart, SeekStart, FoundStart, VisitDone, FollowJunk, Seek, loopVars
    <2>2. pc = "walk" => pc' \in {"done", "wild"}
      BY <1>4 DEF Iterate, SetBlockchainEnd, SetBlockchainStart, LinkBlock, LinkDone, SeekEnd, FoundEnd,
         ChooseStart, SeekStart, FoundStart, VisitDone, FollowJunk, Seek
    <2> QED
      BY <1>1, <2>1, <2>2, IterateFrame DEF EmittedLinked
  <1> QED
    BY <1>3, <1>4

-----------------------------------------------------------------------------
(***************************************************************************)
(* Chains.                                                                 *)
(***************************************************************************)
LEMMA PrevBlockIsLive ==
    ASSUME WalkTypeOK, NEW r \in Rec
    PROVE  /\ PrevBlock(r) \in Live \cup {NULL}
           /\ PrevBlock(r) # NULL => IdOf[PrevBlock(r)] = PrevHash(r)
           /\ \A p \in Live : IdOf[p] = PrevHash(r) => PrevBlock(r) = p
           /\ PrevHash(r) = Zero => PrevBlock(r) = NULL
  BY RecordAssumption, TopologyAssumption DEF WalkTypeOK, PrevBlock, Get, Live

\* The next of a block on the chain is one higher.
LEMMA ChainNext ==
    ASSUME WalkTypeOK, TableInv, NEW C \in SUBSET Rec, Chain(C), NEW r \in C, r # best
    PROVE  /\ next[r] \in C /\ next[r] # NULL /\ next[r] # Junk
           /\ PrevHash(next[r]) = IdOf[r]
           /\ height[next[r]] = height[r] + 1
  <1>1. /\ next[r] \in C /\ next[r] \in Live /\ next[r] \in Rec /\ r \in Live /\ r \in Rec
        /\ PrevHash(next[r]) = IdOf[r] /\ Known(next[r])
    BY DEF Chain, Live
  <1>2. IdOf[r] # Zero
    BY <1>1, RecordAssumption, TopologyAssumption
  <1>3. PrevBlock(next[r]) = r /\ next[r] # genesis
    BY <1>1, <1>2, PrevBlockIsLive DEF TableInv
  <1> QED
    BY <1>1, <1>3, RecordAssumption DEF TableInv

\* A step that changes neither the table nor next and best keeps the chain.
LEMMA ChainKept ==
    ASSUME UNCHANGED indexVars, next' = next, best' = best, NEW C
    PROVE  Chain(C)' = Chain(C) /\ InAnc(C)' = InAnc(C)
  <1>1. /\ UNCHANGED <<parent, map, genesis, blockEnd, height>>
        /\ Live' = Live /\ Anc' = Anc
        /\ \A r : Known(r)' = Known(r) /\ PrevHash(r)' = PrevHash(r)
    BY TableKept
  <1> QED
    BY <1>1 DEF Chain, InAnc

LEMMA TopKept ==
    ASSUME UNCHANGED indexVars, tip' = tip
    PROVE  /\ \A r : IsTop(r)' = IsTop(r) /\ IsLast(r)' = IsLast(r)
           /\ best' = best => TopInv' = TopInv
           /\ TipConnected' = TipConnected
  <1>1. /\ UNCHANGED <<parent, map, genesis, blockEnd, height>>
        /\ Live' = Live /\ Anc' = Anc
        /\ \A r : Known(r)' = Known(r)
    BY TableKept
  <1>2. \A r : IsTop(r)' = IsTop(r)
    BY <1>1 DEF IsTop
  <1>3. \A r : IsLast(r)' = IsLast(r)
    BY <1>1, <1>2 DEF IsLast, IsAtHeight
  <1>4. best' = best => TopInv' = TopInv
    BY <1>1, <1>2 DEF TopInv
  <1>5. TipConnected' = TipConnected
    BY <1>1 DEF TipConnected
  <1> QED
    BY <1>2, <1>3, <1>4, <1>5

LEMMA NULLIsNone == NULL \notin Rec /\ Junk \notin Rec /\ NULL # Junk /\ NULL \notin Live
  BY RecordAssumption DEF Live

-----------------------------------------------------------------------------
(***************************************************************************)
(* The steps of iterate, one by one.                                       *)
(***************************************************************************)
LEMMA SetBlockchainEndStep == ASSUME CInv, SetBlockchainEnd PROVE ChainPart'
  <1>1. /\ pc = "indexed" /\ UNCHANGED <<indexVars, next, startHash, blockStart, start, loopVars>>
        /\ tip' \in Tips
        /\ best' = IF tip' = Zero THEN best ELSE map[tip']
        /\ pc' = IF best' = NULL THEN "failed" ELSE "setStart"
    BY DEF SetBlockchainEnd
  <1>2. /\ WalkTypeOK /\ IInv /\ unread = {} /\ genesis # NULL
        /\ blockStart = 0 /\ walker = NULL /\ visited = <<>> /\ emitted = <<>>
    BY <1>1 DEF CInv, IndexPart, IndexLabels, Visiting
  <1>3. best \in Live /\ Known(best) /\ \A r \in Live : height[r] <= height[best]
    BY <1>1, <1>2, IndexedTable
  <1>4. /\ UNCHANGED <<parent, map, genesis, blockEnd, height>>
        /\ Live' = Live
        /\ \A r : Known(r)' = Known(r)
    BY <1>1, TableKept
  <1>5. UNCHANGED <<blockStart, walker, visited, emitted>>
    BY <1>1 DEF loopVars
  <1>6. CASE tip' = Zero
    <2>1. best' = best /\ pc' = "setStart"
      BY <1>1, <1>3, <1>6, NULLIsNone
    <2>2. TopInv'
      BY <1>3, <1>4, <1>6, <2>1 DEF TopInv, IsTop
    <2> QED
      BY <1>2, <1>5, <2>1, <2>2, NULLIsNone DEF ChainPart, ChainLabels
  <1>7. CASE tip' # Zero /\ best' = NULL
    BY <1>1, <1>2, <1>4, <1>5, <1>7, NULLIsNone DEF ChainPart, ChainLabels, Gaveup
  <1>8. CASE tip' # Zero /\ best' # NULL
    <2>1. SUFFICES ASSUME TipConnected' PROVE ChainPart'
      BY DEF ChainPart
    <2>2. tip' \in Hash /\ best' = map[tip'] /\ pc' = "setStart"
      BY <1>1, <1>8, WalkAssumption
    <2>3. best' \in Live
      BY <1>2, <1>8, <2>2 DEF WalkTypeOK, Live
    <2>4. Known(best)'
      BY <1>4, <1>8, <2>1, <2>2 DEF TipConnected
    <2>5. TopInv'
      BY <1>4, <1>8, <2>2, <2>3, <2>4 DEF TopInv, IsTop
    <2> QED
      BY <1>2, <1>5, <2>2, <2>5, NULLIsNone DEF ChainPart, ChainLabels
  <1> QED
    BY <1>6, <1>7, <1>8

LEMMA SetBlockchainStartStep == ASSUME CInv, SetBlockchainStart, TipConnected PROVE ChainPart'
  <1>1. /\ pc = "setStart" /\ UNCHANGED <<indexVars, next, best, tip, blockStart, visited, emitted>>
        /\ startHash' \in StartHashes
        /\ start' = IF startHash' = Zero THEN genesis ELSE map[startHash']
        /\ pc' = IF start' = NULL THEN "failed" ELSE "link"
        /\ walker' = best /\ link' = NULL
    BY DEF SetBlockchainStart
  <1>2. TopInv /\ visited = <<>> /\ emitted = <<>> /\ blockStart = 0 /\ TableInv
    BY <1>1 DEF CInv, ChainPart
  <1>3. TopInv' /\ UNCHANGED <<map, genesis>> /\ Live' = Live
    BY <1>1, <1>2, TopKept, TableKept
  <1>4. start' = HashStart'
    BY <1>1, <1>3 DEF HashStart
  <1>5. walker' \in Live /\ walker' # NULL /\ walker' # Junk /\ genesis # NULL
    BY <1>1, <1>2, NULLIsNone DEF TopInv, TableInv, Live
  <1>6. CASE start' = NULL
    <2>1. startHash' # Zero /\ map'[startHash'] = NULL
      BY <1>1, <1>3, <1>5, <1>6
    <2> QED
      BY <1>1, <1>5, <1>6, <2>1 DEF ChainPart, ChainLabels, Gaveup
  <1>7. CASE start' # NULL
    <2>1. LinkInv({})'
      BY <1>1, <1>3, <1>5 DEF LinkInv
    <2>2. startHash' # Zero => map'[startHash'] # NULL
      BY <1>1, <1>3, <1>7
    <2> QED
      BY <1>1, <1>2, <1>3, <1>4, <1>5, <1>7, <2>1, <2>2 DEF ChainPart, ChainLabels
  <1> QED
    BY <1>6, <1>7

LEMMA LinkBlockStep == ASSUME CInv, LinkBlock, TipConnected PROVE ChainPart'
  <1>1. /\ pc = "link" /\ pc' = "link" /\ walker # NULL
        /\ UNCHANGED <<indexVars, best, tip, startHash, blockStart, start, visited, emitted>>
        /\ next' = NextOf(walker, link) /\ link' = walker /\ walker' = PrevBlock(walker)
    BY DEF LinkBlock, optionVars, PrevBlock
  <1>2. WalkTypeOK /\ TableInv
    BY <1>1 DEF CInv
  <1>3. /\ TopInv /\ visited = <<>> /\ emitted = <<>> /\ blockStart = 0
        /\ start = HashStart /\ (startHash # Zero => map[startHash] # NULL)
    BY <1>1 DEF CInv, ChainPart
  <1>4. PICK C \in SUBSET Rec : LinkInv(C)
    BY <1>1 DEF CInv, ChainPart
  <1>5. /\ UNCHANGED <<parent, map, genesis, blockEnd, height>>
        /\ Live' = Live /\ Anc' = Anc
        /\ \A r : Known(r)' = Known(r) /\ PrevHash(r)' = PrevHash(r) /\ PrevBlock(r)' = PrevBlock(r)
    BY <1>1, TableKept
  <1>6. walker \in Live /\ walker \in Rec /\ walker' \in Live \cup {NULL}
    BY <1>1, <1>2, <1>4, PrevBlockIsLive DEF LinkInv, Live
  <1>7. \A r \in Rec : next'[r] = IF r = walker THEN link ELSE next[r]
    BY <1>1, <1>2 DEF NextOf, WalkTypeOK
  <1>d. PICK D \in SUBSET Rec : D = C \cup {walker}
    BY <1>6
  <1>8. LinkInv(D)'
    <2>1. CASE C = {}
      <3>1. D = {best} /\ walker = best /\ link = NULL
        BY <1>d, <1>4, <2>1 DEF LinkInv
      <3>2. best' = best /\ best \in Live /\ Known(best) /\ next'[best] = NULL
        BY <1>1, <1>3, <1>6, <1>7, <3>1 DEF TopInv
      <3>3. height[best] \in Int /\ IdOf[best] \in Hash
        BY <1>2, <1>6, <3>1, RecordAssumption DEF WalkTypeOK
      <3>4. Chain(D)'
        BY <1>5, <3>1, <3>2, <3>3 DEF Chain
      <3>5. InAnc(D)'
        BY <1>2, <1>5, <3>1, <3>2, <3>3, AncClosed DEF InAnc, WalkTypeOK
      <3>6. link' = best /\ PrevBlock(link)' = walker'
        BY <1>1, <1>5, <3>1
      <3>7. \A r \in D : height'[link'] <= height'[r]
        BY <1>5, <3>1, <3>3, <3>6
      <3> QED
        BY <1>5, <1>6, <3>1, <3>4, <3>5, <3>6, <3>7 DEF LinkInv
    <2>2. CASE C # {}
      <3>1. /\ Chain(C) /\ InAnc(C) /\ link \in C /\ PrevBlock(link) = walker
            /\ \A r \in C : height[link] <= height[r]
        BY <1>4, <2>2 DEF LinkInv
      <3>2. link \in Live /\ link \in Rec /\ Known(link)
        BY <3>1 DEF Chain, Live
      <3>3. Known(walker) /\ height[link] = height[walker] + 1
        <4>1. link # genesis
          BY <1>1, <1>2, <3>1, <3>2, PrevBlockIsLive DEF TableInv
        <4> QED
          BY <1>2, <3>1, <3>2, <4>1 DEF TableInv
      <3>4. /\ IdOf[walker] = PrevHash(link)
            /\ \A r \in C : r \in Rec /\ height[r] \in Int
            /\ height[walker] \in Int
        BY <1>1, <1>2, <1>6, <3>1, <3>2, PrevBlockIsLive DEF WalkTypeOK
      <3>5. walker \notin C
        BY <3>1, <3>3, <3>4
      <3>6. \A r \in C : next'[r] = next[r]
        BY <1>7, <3>4, <3>5
      <3>7. next'[walker] = link
        BY <1>6, <1>7
      <3>8. best' = best /\ best \in C
        BY <1>1, <3>1 DEF Chain
      <3>9. Chain(D)'
        <4>1. D \subseteq Live' /\ best' \in D /\ next'[best'] = NULL
          BY <1>d, <1>5, <1>6, <3>1, <3>6, <3>8 DEF Chain
        <4>2. \A r \in D : Known(r)' /\ height'[r] <= height'[best']
          BY <1>d, <1>5, <3>1, <3>3, <3>4, <3>8 DEF Chain
        <4>3. \A r \in D \ {best'} : next'[r] \in D /\ PrevHash(next[r])' = IdOf[r]
          BY <1>d, <1>5, <3>1, <3>4, <3>6, <3>7, <3>8 DEF Chain
        <4>4. \A r, q \in D : height'[r] = height'[q] => r = q
          BY <1>d, <1>5, <3>1, <3>3, <3>4 DEF Chain
        <4> QED
          BY <4>1, <4>2, <4>3, <4>4 DEF Chain
      <3>10. InAnc(D)'
        <4>1. IdOf[link] \in Anc[IdOf[best]] /\ IdOf[best] \in Hash /\ IdOf[walker] \in Hash
          BY <1>6, <3>1, <3>4, <3>8, RecordAssumption DEF InAnc
        <4>2. Closed(Anc[IdOf[best]])
          BY <1>2, <4>1, AncClosed DEF WalkTypeOK
        <4>3. IdOf[walker] \in Anc[IdOf[best]]
          BY <3>4, <4>1, <4>2 DEF Closed, PrevHash
        <4> QED
          BY <1>d, <1>5, <3>1, <3>8, <4>3 DEF InAnc
      <3>11. \A r \in D : height'[link'] <= height'[r]
        BY <1>d, <1>1, <1>5, <3>1, <3>3, <3>4
      <3>12. link' \in D /\ PrevBlock(link)' = walker'
        BY <1>d, <1>1, <1>5
      <3> QED
        BY <1>5, <1>6, <3>9, <3>10, <3>11, <3>12 DEF LinkInv
    <2> QED
      BY <2>1, <2>2
  <1>9. TopInv'
    BY <1>1, <1>3, TopKept
  <1>10. start' = HashStart' /\ (startHash' # Zero => map'[startHash'] # NULL) /\ walker' # Junk
    BY <1>1, <1>3, <1>5, <1>6, NULLIsNone DEF HashStart, Live
  <1> QED
    BY <1>1, <1>3, <1>8, <1>9, <1>10 DEF ChainPart, ChainLabels

LEMMA LinkDoneStep == ASSUME CInv, LinkDone, TipConnected PROVE ChainPart'
  <1>1. /\ pc = "link" /\ walker = NULL /\ walker' = genesis
        /\ pc' = IF blockEnd = NoEnd THEN "chooseStart" ELSE "seekEnd"
        /\ UNCHANGED <<indexVars, next, best, tip, startHash, blockStart, start, link, visited, emitted>>
    BY DEF LinkDone, optionVars
  <1>2. WalkTypeOK /\ TableInv
    BY <1>1 DEF CInv
  <1>3. /\ TopInv /\ visited = <<>> /\ emitted = <<>> /\ blockStart = 0
        /\ start = HashStart /\ (startHash # Zero => map[startHash] # NULL)
    BY <1>1 DEF CInv, ChainPart
  <1>4. PICK C \in SUBSET Rec : LinkInv(C)
    BY <1>1 DEF CInv, ChainPart
  <1>5. /\ UNCHANGED <<parent, map, genesis, blockEnd, height>> /\ Live' = Live
        /\ Chain(C)' = Chain(C) /\ InAnc(C)' = InAnc(C) /\ TopInv' = TopInv
        /\ IsLast(best)' = IsLast(best')
    BY <1>1, TableKept, ChainKept, TopKept
  <1>6. Chain(C) /\ InAnc(C) /\ link \in C /\ PrevBlock(link) = NULL
    BY <1>1, <1>3, <1>4, NULLIsNone DEF LinkInv, TopInv
  <1>7. genesis \in C
    BY <1>2, <1>6 DEF TableInv, Chain
  <1>8. height[genesis] = 0 /\ walker' # Junk /\ genesis # NULL
    BY <1>1, <1>2, NULLIsNone DEF TableInv, Live
  <1>9. SeekInv(C)'
    <2>1. blockEnd # NoEnd => blockEnd \in Nat
      BY <1>2, OptionAssumption DEF WalkTypeOK
    <2>2. blockEnd = NoEnd => IsLast(best)
      BY <1>3 DEF TopInv, IsLast
    <2> QED
      BY <1>1, <1>3, <1>5, <1>6, <1>7, <1>8, <2>1, <2>2 DEF SeekInv
  <1>10. VisitInv(C)'
    BY <1>1, <1>3 DEF VisitInv
  <1>11. EmitInv(C)'
    BY <1>1, <1>3, <1>5 DEF EmitInv, HashStart
  <1> QED
    BY <1>1, <1>5, <1>6, <1>7, <1>8, <1>9, <1>10, <1>11 DEF ChainPart

\* What the loops over next start from.
LEMMA OnTheChain ==
    ASSUME CInv, TipConnected, pc \in ChainLabels
    PROVE  /\ WalkTypeOK /\ TableInv
           /\ \E C \in SUBSET Rec :
                 Chain(C) /\ genesis \in C /\ SeekInv(C) /\ VisitInv(C) /\ EmitInv(C)
  BY DEF CInv, ChainPart, ChainLabels

\* The main loop has not begun: a step of an earlier one leaves it as it was.
LEMMA NotVisiting ==
    ASSUME UNCHANGED indexVars, UNCHANGED <<tip, startHash, visited, emitted>>,
           pc \notin {"walk", "done"}, pc' \notin {"walk", "done"},
           pc \in {"seekEnd", "chooseStart", "seekStart"}, start' = start,
           NEW C, NEW D, VisitInv(C), EmitInv(C)
    PROVE  VisitInv(D)' /\ EmitInv(D)'
  <1>1. UNCHANGED <<map, genesis>>
    BY TableKept
  <1>2. visited' = <<>> /\ emitted' = <<>>
    BY DEF VisitInv, EmitInv
  <1>3. VisitInv(D)'
    BY <1>2 DEF VisitInv
  <1>4. EmitInv(D)'
    BY <1>1, <1>2 DEF EmitInv, HashStart
  <1> QED
    BY <1>3, <1>4

LEMMA SeekStep == ASSUME CInv, SeekEnd \/ SeekStart, TipConnected PROVE ChainPart'
  <1>1. /\ pc \in {"seekEnd", "seekStart"}
        /\ walker \in Rec /\ walker' = next[walker]
        /\ pc' = IF next[walker] = NULL THEN "failed" ELSE pc
        /\ pc = "seekEnd" => height[walker] # blockEnd
        /\ pc = "seekStart" => height[walker] # blockStart
        /\ UNCHANGED <<indexVars, next, best, tip, startHash, blockStart, start, link, visited, emitted>>
    BY DEF SeekEnd, SeekStart, Seek, optionVars
  <1>2. WalkTypeOK /\ TableInv
    BY <1>1, OnTheChain DEF ChainLabels
  <1>3. PICK C \in SUBSET Rec :
            Chain(C) /\ genesis \in C /\ SeekInv(C) /\ VisitInv(C) /\ EmitInv(C)
    BY <1>1, OnTheChain DEF ChainLabels
  <1>4. /\ UNCHANGED <<parent, map, genesis, blockEnd, height>>
        /\ Chain(C)' = Chain(C) /\ InAnc(C)' = InAnc(C) /\ TopInv' = TopInv
        /\ IsLast(best)' = IsLast(best)
    BY <1>1, TableKept, ChainKept, TopKept
  <1>5. walker \in C /\ height[walker] \in Int /\ blockEnd \in Nat \cup {NoEnd} /\ blockStart \in Nat
    BY <1>1, <1>2, <1>3, OptionAssumption DEF SeekInv, WalkTypeOK
  <1>6. /\ pc = "seekEnd" => blockEnd \in Nat /\ height[walker] < blockEnd
        /\ pc = "seekStart" => blockStart # 0 /\ height[walker] < blockStart
    BY <1>1, <1>3, <1>5 DEF SeekInv
  <1>7. CASE walker = best
    <2>1. next[walker] = NULL /\ best \in Rec
      BY <1>1, <1>3, <1>7 DEF Chain
    <2>2. pc' = "failed" /\ walker' # Junk
      BY <1>1, <2>1, NULLIsNone
    <2>3. Gaveup'
      BY <1>1, <1>4, <1>5, <1>6, <1>7, <2>1, OptionAssumption, NULLIsNone DEF Gaveup
    <2> QED
      BY <2>2, <2>3 DEF ChainPart, ChainLabels
  <1>8. CASE walker # best
    <2>1. walker' \in C /\ walker' # NULL /\ walker' # Junk /\ height[walker'] = height[walker] + 1
      BY <1>1, <1>2, <1>3, <1>5, <1>8, ChainNext
    <2>2. pc' = pc
      BY <1>1, <2>1
    <2>3. SeekInv(C)'
      BY <1>1, <1>3, <1>4, <1>5, <1>6, <2>1, <2>2 DEF SeekInv
    <2>4. VisitInv(C)' /\ EmitInv(C)'
      BY <1>1, <1>3, <2>2, NotVisiting
    <2> QED
      BY <1>1, <1>3, <1>4, <2>1, <2>2, <2>3, <2>4 DEF ChainPart
  <1> QED
    BY <1>7, <1>8

LEMMA FoundEndStep == ASSUME CInv, FoundEnd, TipConnected PROVE ChainPart'
  <1>1. /\ pc = "seekEnd" /\ pc' = "chooseStart" /\ walker \in Rec /\ walker' = genesis
        /\ height[walker] = blockEnd /\ best' = walker
        /\ next' = [next EXCEPT ![walker] = NULL]
        /\ UNCHANGED <<indexVars, tip, startHash, blockStart, start, link, visited, emitted>>
    BY DEF FoundEnd, optionVars
  <1>2. WalkTypeOK /\ TableInv
    BY <1>1, OnTheChain DEF ChainLabels
  <1>3. PICK C \in SUBSET Rec :
            Chain(C) /\ genesis \in C /\ SeekInv(C) /\ VisitInv(C) /\ EmitInv(C)
    BY <1>1, OnTheChain DEF ChainLabels
  <1>4. /\ UNCHANGED <<parent, map, genesis, blockEnd, height>>
        /\ Live' = Live /\ Anc' = Anc
        /\ \A r : Known(r)' = Known(r) /\ PrevHash(r)' = PrevHash(r)
    BY <1>1, TableKept
  <1>5. walker \in C /\ blockEnd # NoEnd /\ blockEnd \in Nat /\ blockStart = 0
        /\ TopInv /\ InAnc(C)
    BY <1>1, <1>2, <1>3, OptionAssumption DEF SeekInv, WalkTypeOK
  <1>6. PICK D \in SUBSET Rec : D = {r \in C : height[r] <= blockEnd}
    OBVIOUS
  <1>7. \A r \in C : r \in Rec /\ height[r] \in Int
    BY <1>2 DEF WalkTypeOK
  <1>8. \A r \in Rec : next'[r] = IF r = walker THEN NULL ELSE next[r]
    BY <1>1, <1>2 DEF WalkTypeOK
  <1>9. ASSUME NEW r \in D, r # walker
        PROVE  next'[r] = next[r] /\ next[r] \in D /\ PrevHash(next[r]) = IdOf[r]
    <2>1. r \in C /\ height[r] <= blockEnd /\ height[r] # height[walker]
      BY <1>3, <1>5, <1>6, <1>9 DEF Chain
    <2>2. r # best
      BY <1>1, <1>3, <1>5, <1>7, <2>1 DEF Chain
    <2>3. next[r] \in C /\ PrevHash(next[r]) = IdOf[r] /\ height[next[r]] = height[r] + 1
      BY <1>2, <1>3, <2>1, <2>2, ChainNext
    <2> QED
      BY <1>1, <1>5, <1>6, <1>7, <1>8, <1>9, <2>1, <2>3
  <1>10. Chain(D)'
    <2>1. D \subseteq Live' /\ best' \in D /\ next'[best'] = NULL
      BY <1>1, <1>3, <1>4, <1>5, <1>6, <1>8 DEF Chain
    <2>2. \A r \in D : Known(r)' /\ height'[r] <= height'[best']
      BY <1>1, <1>3, <1>4, <1>6 DEF Chain
    <2>3. \A r \in D \ {best'} : next'[r] \in D /\ PrevHash(next[r])' = IdOf[r]
      BY <1>1, <1>4, <1>9
    <2>4. \A r, q \in D : height'[r] = height'[q] => r = q
      BY <1>3, <1>4, <1>6 DEF Chain
    <2> QED
      BY <2>1, <2>2, <2>3, <2>4 DEF Chain
  <1>11. genesis \in D /\ genesis # Junk
    BY <1>2, <1>3, <1>5, <1>6, NULLIsNone DEF TableInv
  <1>12. IsLast(best)'
    <2>1. PICK top \in Live : top = best
      BY <1>5 DEF TopInv
    <2>2. IsTop(top) /\ IdOf[walker] \in Anc[IdOf[top]]
      BY <1>5, <2>1 DEF TopInv, InAnc
    <2>3. IsTop(top)'
      BY <1>1, <2>2, TopKept
    <2>4. IsAtHeight(best, blockEnd, top)'
      BY <1>1, <1>4, <2>2 DEF IsAtHeight
    <2>5. top \in Live' /\ blockEnd' # NoEnd
      BY <1>4, <1>5
    <2> QED
      BY <2>3, <2>4, <2>5 DEF IsLast
  <1>13. SeekInv(D)'
    BY <1>1, <1>4, <1>5, <1>12 DEF SeekInv
  <1>14. VisitInv(D)' /\ EmitInv(D)'
    BY <1>1, <1>3, NotVisiting
  <1> QED
    BY <1>1, <1>4, <1>10, <1>11, <1>13, <1>14 DEF ChainPart

LEMMA ChooseStartStep == ASSUME CInv, ChooseStart, TipConnected PROVE ChainPart'
  <1>1. /\ pc = "chooseStart" /\ blockStart' \in Starts
        /\ pc' = IF blockStart' = 0 THEN "walk" ELSE "seekStart"
        /\ UNCHANGED <<indexVars, next, best, tip, startHash, start, walker, visited, emitted>>
    BY DEF ChooseStart, loopVars
  <1>2. WalkTypeOK /\ TableInv
    BY <1>1, OnTheChain DEF ChainLabels
  <1>3. PICK C \in SUBSET Rec :
            Chain(C) /\ genesis \in C /\ SeekInv(C) /\ VisitInv(C) /\ EmitInv(C)
    BY <1>1, OnTheChain DEF ChainLabels
  <1>4. /\ UNCHANGED <<parent, map, genesis, blockEnd, height>>
        /\ Chain(C)' = Chain(C) /\ IsLast(best)' = IsLast(best')
    BY <1>1, TableKept, ChainKept, TopKept
  <1>5. walker = genesis /\ visited = <<>> /\ emitted = <<>> /\ start = HashStart
        /\ (startHash # Zero => map[startHash] # NULL) /\ blockStart' \in Nat
        /\ IsLast(best) /\ height[genesis] = 0
    BY <1>1, <1>2, <1>3, WalkAssumption DEF SeekInv, VisitInv, EmitInv, TableInv
  <1>6. genesis # Junk /\ start # NULL
    BY <1>2, <1>5, NULLIsNone DEF TableInv, HashStart, Live
  <1>7. SeekInv(C)'
    BY <1>1, <1>3, <1>4, <1>5 DEF SeekInv
  <1>8. VisitInv(C)'
    BY <1>1, <1>4, <1>5 DEF VisitInv
  <1>9. HashStart' = HashStart
    BY <1>1, <1>4 DEF HashStart
  <1>10. EmitInv(C)'
    BY <1>1, <1>4, <1>5, <1>6, <1>9 DEF EmitInv, IsStart
  <1> QED
    BY <1>1, <1>3, <1>4, <1>5, <1>6, <1>7, <1>8, <1>10 DEF ChainPart

LEMMA FoundStartStep == ASSUME CInv, FoundStart, TipConnected PROVE ChainPart'
  <1>1. /\ pc = "seekStart" /\ pc' = "walk" /\ walker \in Rec /\ walker' = genesis
        /\ height[walker] = blockStart /\ start' = walker
        /\ UNCHANGED <<indexVars, next, best, tip, startHash, blockStart, visited, emitted>>
    BY DEF FoundStart, optionVars
  <1>2. WalkTypeOK /\ TableInv
    BY <1>1, OnTheChain DEF ChainLabels
  <1>3. PICK C \in SUBSET Rec :
            Chain(C) /\ genesis \in C /\ SeekInv(C) /\ VisitInv(C) /\ EmitInv(C)
    BY <1>1, OnTheChain DEF ChainLabels
  <1>4. /\ UNCHANGED <<parent, map, genesis, blockEnd, height>>
        /\ Chain(C)' = Chain(C) /\ IsLast(best)' = IsLast(best')
    BY <1>1, TableKept, ChainKept, TopKept
  <1>5. walker \in C /\ blockStart # 0 /\ IsLast(best) /\ visited = <<>> /\ emitted = <<>>
        /\ (startHash # Zero => map[startHash] # NULL)
    BY <1>1, <1>3 DEF SeekInv, VisitInv, EmitInv
  <1>6. genesis # Junk /\ walker # NULL
    BY <1>1, <1>2, NULLIsNone DEF TableInv, Live
  <1>7. SeekInv(C)'
    BY <1>1, <1>4, <1>5 DEF SeekInv
  <1>8. VisitInv(C)'
    BY <1>1, <1>4, <1>5 DEF VisitInv
  <1>9. EmitInv(C)'
    BY <1>1, <1>4, <1>5, <1>6 DEF EmitInv, IsStart
  <1> QED
    BY <1>1, <1>3, <1>4, <1>6, <1>7, <1>8, <1>9 DEF ChainPart

\* The main loop looks at the block whose height is the number of those before it.
LEMMA WalkerIsNext ==
    ASSUME WalkTypeOK, TableInv, NEW C \in SUBSET Rec, Chain(C), genesis \in C,
           VisitInv(C), pc \in {"walk", "done"}, walker \in Rec
    PROVE  /\ walker \in C /\ height[walker] = Len(visited)
           /\ visited # <<>> => PrevHash(walker) = IdOf[visited[Len(visited)]]
           /\ visited = <<>> => walker = genesis
  <1>1. CASE visited = <<>>
    BY <1>1 DEF VisitInv, TableInv
  <1>2. CASE visited # <<>>
    <2>1. Len(visited) \in DOMAIN visited /\ Len(visited) \in Nat
      BY <1>2 DEF WalkTypeOK
    <2>2. PICK b \in C : b = visited[Len(visited)]
      BY <2>1 DEF VisitInv
    <2>3. walker = next[b] /\ height[b] = Len(visited) - 1
      BY <1>2, <2>1, <2>2 DEF VisitInv
    <2>4. b # best
      BY <2>3, NULLIsNone DEF Chain
    <2> QED
      BY <1>2, <2>1, <2>2, <2>3, <2>4, ChainNext
  <1> QED
    BY <1>1, <1>2

LEMMA VisitStep == ASSUME CInv, Visit, TipConnected PROVE ChainPart'
  <1>1. /\ pc = "walk" /\ pc' = "walk" /\ walker \in Rec
        /\ start' = IF walker = start THEN NULL ELSE start
        /\ visited' = Append(visited, walker)
        /\ emitted' = IF start' = NULL THEN Append(emitted, walker) ELSE emitted
        /\ walker' = next[walker]
        /\ UNCHANGED <<indexVars, next, best, tip, startHash, blockStart>>
    BY DEF Visit, StartAfterVisit, optionVars
  <1>2. WalkTypeOK /\ TableInv
    BY <1>1, OnTheChain DEF ChainLabels
  <1>3. PICK C \in SUBSET Rec :
            Chain(C) /\ genesis \in C /\ SeekInv(C) /\ VisitInv(C) /\ EmitInv(C)
    BY <1>1, OnTheChain DEF ChainLabels
  <1>4. /\ UNCHANGED <<parent, map, genesis, blockEnd, height>>
        /\ Chain(C)' = Chain(C) /\ IsLast(best)' = IsLast(best')
        /\ \A r : PrevHash(r)' = PrevHash(r)
    BY <1>1, TableKept, ChainKept, TopKept
  <1>5. /\ walker \in C /\ height[walker] = Len(visited)
        /\ visited # <<>> => PrevHash(walker) = IdOf[visited[Len(visited)]]
        /\ visited = <<>> => walker = genesis
    BY <1>1, <1>2, <1>3, WalkerIsNext
  <1>6. PICK n \in Nat : n = Len(visited) /\ DOMAIN visited = 1..n
    BY <1>2 DEF WalkTypeOK
  <1>7. /\ Len(visited') = n + 1 /\ DOMAIN visited' = 1..(n + 1)
        /\ visited'[n + 1] = walker /\ \A i \in 1..n : visited'[i] = visited[i]
        /\ visited' # <<>>
    <2>1. /\ Len(visited') = n + 1 /\ DOMAIN visited' = 1..(n + 1)
          /\ visited'[n + 1] = walker /\ \A i \in 1..n : visited'[i] = visited[i]
      BY <1>1, <1>2, <1>6 DEF WalkTypeOK
    <2>2. visited' # <<>>
      BY <2>1
    <2> QED
      BY <2>1, <2>2
  <1>8. visited = <<>> <=> n = 0
    BY <1>2, <1>6 DEF WalkTypeOK
  <1>9. walker' # Junk
    BY <1>1, <1>2, <1>3, <1>5, ChainNext, NULLIsNone DEF Chain
  <1>10. SeekInv(C)'
    BY <1>1, <1>3, <1>4 DEF SeekInv
  <1>11. VisitInv(C)'
    <2>1. \A i \in DOMAIN visited' : visited'[i] \in C /\ height'[visited'[i]] = i - 1
      BY <1>3, <1>4, <1>5, <1>6, <1>7 DEF VisitInv
    <2>2. ASSUME NEW i \in 1..(Len(visited') - 1)
          PROVE  PrevHash(visited[i + 1])' = IdOf[visited'[i]]
      <3>1. CASE i = n
        BY <1>4, <1>5, <1>6, <1>7, <1>8, <3>1
      <3>2. CASE i < n
        BY <1>3, <1>4, <1>6, <1>7, <3>2 DEF VisitInv
      <3> QED
        BY <1>7, <3>1, <3>2
    <2>3. walker' = next'[visited'[Len(visited')]]
      BY <1>1, <1>7
    <2> QED
      BY <1>1, <1>7, <2>1, <2>2, <2>3 DEF VisitInv
  <1>12. EmitInv(C)'
    <2>1. \A i \in 1..n : StartIsAt(i)' <=> StartIsAt(i)
      BY <1>1, <1>4, <1>7 DEF StartIsAt
    <2>2. StartIsAt(n + 1)' <=>
             IF blockStart # 0 THEN height[walker] = blockStart
             ELSE IF startHash # Zero THEN IdOf[walker] = startHash
             ELSE n = 0
      BY <1>1, <1>4, <1>6, <1>7 DEF StartIsAt
    <2>3. (startHash # Zero => map[startHash] # NULL) /\ HashStart' = HashStart
      BY <1>1, <1>3, <1>4 DEF EmitInv, HashStart
    <2>4. startHash # Zero => IdOf[map[startHash]] = startHash
      BY <1>2, <2>3 DEF WalkTypeOK
    <2>5. CASE start = NULL
      <3>1. PICK s \in DOMAIN visited :
              /\ StartIsAt(s)
              /\ Len(emitted) = Len(visited) - s + 1
              /\ \A k \in DOMAIN emitted : emitted[k] = visited[s + k - 1]
        BY <1>1, <1>3, <2>5 DEF EmitInv
      <3>2. start' = NULL /\ emitted' = Append(emitted, walker)
        BY <1>1, <2>5
      <3>3. PICK m \in Nat : m = Len(emitted) /\ DOMAIN emitted = 1..m
        BY <1>2 DEF WalkTypeOK
      <3>4. /\ Len(emitted') = m + 1 /\ DOMAIN emitted' = 1..(m + 1)
            /\ emitted'[m + 1] = walker /\ \A k \in 1..m : emitted'[k] = emitted[k]
        BY <1>1, <1>2, <3>2, <3>3 DEF WalkTypeOK
      <3>5. m = n - s + 1 /\ s \in 1..n
        BY <1>6, <3>1, <3>3
      <3>6. ASSUME NEW k \in DOMAIN emitted'
            PROVE  emitted'[k] = visited'[s + k - 1]
        <4>1. CASE k \in 1..m
          <5>1. emitted'[k] = visited[s + k - 1]
            BY <3>1, <3>3, <3>4, <4>1
          <5>2. s + k - 1 \in 1..n
            BY <3>3, <3>5, <4>1
          <5> QED
            BY <1>7, <5>1, <5>2
        <4>2. CASE k = m + 1
          <5>1. s + k - 1 = n + 1
            BY <3>3, <3>5, <4>2
          <5> QED
            BY <1>7, <3>4, <4>2, <5>1
        <4> QED
          BY <3>3, <3>4, <4>1, <4>2
      <3>7. s \in DOMAIN visited' /\ StartIsAt(s)' /\ Len(emitted') = Len(visited') - s + 1
        <4>1. StartIsAt(s)'
          BY <2>1, <3>1, <3>5
        <4>2. s \in DOMAIN visited' /\ Len(emitted') = Len(visited') - s + 1
          BY <1>7, <3>4, <3>5
        <4> QED
          BY <4>1, <4>2
      <3> QED
        BY <1>1, <1>4, <2>3, <3>2, <3>6, <3>7 DEF EmitInv
    <2>6. CASE start # NULL /\ start # walker
      <3>1. IsStart(start, C) /\ emitted = <<>> /\ \A i \in DOMAIN visited : ~StartIsAt(i)
        BY <1>1, <1>3, <2>6 DEF EmitInv
      <3>2. start' = start /\ emitted' = <<>>
        BY <1>1, <2>6, <3>1
      <3>3. ~StartIsAt(n + 1)'
        <4>1. blockStart # 0 => height[walker] # blockStart
          BY <1>3, <1>5, <2>6, <3>1 DEF IsStart, Chain
        <4>2. blockStart = 0 /\ startHash # Zero => IdOf[walker] # startHash
          BY <1>3, <1>5, <2>6, <3>1 DEF IsStart, HashStart, Chain, Live
        <4>3. blockStart = 0 /\ startHash = Zero => n # 0
          BY <1>5, <1>8, <2>6, <3>1 DEF IsStart, HashStart
        <4> QED
          BY <2>2, <4>1, <4>2, <4>3
      <3>4. \A i \in DOMAIN visited' : ~StartIsAt(i)'
        BY <1>6, <1>7, <2>1, <3>1, <3>3
      <3>5. IsStart(start, C)'
        BY <1>1, <1>4, <2>3, <3>1, <3>2 DEF IsStart
      <3> QED
        BY <1>1, <1>4, <2>3, <2>6, <3>2, <3>4, <3>5 DEF EmitInv
    <2>7. CASE start # NULL /\ start = walker
      <3>1. IsStart(walker, C) /\ emitted = <<>>
        BY <1>1, <1>3, <2>7 DEF EmitInv
      <3>2. start' = NULL /\ emitted' = <<walker>>
        BY <1>1, <2>7, <3>1
      <3>3. StartIsAt(n + 1)'
        <4>1. blockStart = 0 /\ startHash = Zero => n = 0
          BY <1>2, <1>5, <1>6, <3>1 DEF IsStart, HashStart, TableInv
        <4>2. blockStart = 0 /\ startHash # Zero => IdOf[walker] = startHash
          BY <2>4, <3>1 DEF IsStart, HashStart
        <4> QED
          BY <2>2, <3>1, <4>1, <4>2 DEF IsStart
      <3>4. Len(emitted') = 1 /\ DOMAIN emitted' = 1..1 /\ emitted'[1] = walker
        BY <3>2
      <3>5. \A k \in DOMAIN emitted' : emitted'[k] = visited'[(n + 1) + k - 1]
        BY <1>7, <3>4
      <3>6. n + 1 \in DOMAIN visited' /\ Len(emitted') = Len(visited') - (n + 1) + 1
        BY <1>7, <3>4
      <3> QED
        BY <1>1, <1>4, <2>3, <3>2, <3>3, <3>5, <3>6 DEF EmitInv
    <2> QED
      BY <2>5, <2>6, <2>7
  <1> QED
    BY <1>1, <1>3, <1>4, <1>9, <1>10, <1>11, <1>12 DEF ChainPart

LEMMA VisitDoneStep == ASSUME CInv, VisitDone, TipConnected PROVE ChainPart'
  <1>1. /\ pc = "walk" /\ walker = NULL /\ pc' = "done"
        /\ UNCHANGED <<indexVars, next, best, tip, startHash, blockStart, start, walker, visited, emitted>>
    BY DEF VisitDone, optionVars, loopVars
  <1>2. WalkTypeOK /\ TableInv
    BY <1>1, OnTheChain DEF ChainLabels
  <1>3. PICK C \in SUBSET Rec :
            Chain(C) /\ genesis \in C /\ SeekInv(C) /\ VisitInv(C) /\ EmitInv(C)
    BY <1>1, OnTheChain DEF ChainLabels
  <1>4. /\ UNCHANGED <<parent, map, genesis, blockEnd, height>>
        /\ Chain(C)' = Chain(C) /\ IsLast(best)' = IsLast(best')
        /\ \A r : PrevHash(r)' = PrevHash(r)
    BY <1>1, TableKept, ChainKept, TopKept
  <1>5. SeekInv(C)'
    BY <1>1, <1>3, <1>4 DEF SeekInv
  <1>6. VisitInv(C)'
    BY <1>1, <1>3, <1>4 DEF VisitInv
  <1>7. EmitInv(C)'
    <2>1. \A i : StartIsAt(i)' <=> StartIsAt(i)
      BY <1>1, <1>4 DEF StartIsAt
    <2>2. HashStart' = HashStart
      BY <1>1, <1>4 DEF HashStart
    <2>3. \A b : IsStart(b, C)' <=> IsStart(b, C)
      BY <1>1, <1>4, <2>2 DEF IsStart
    <2> QED
      BY <1>1, <1>3, <1>4, <2>1, <2>2, <2>3 DEF EmitInv
  <1> QED
    BY <1>1, <1>3, <1>4, <1>5, <1>6, <1>7, NULLIsNone DEF ChainPart

LEMMA ChainPartStep == ASSUME CInv, Iterate PROVE ChainPart'
  <1>1. CASE SetBlockchainEnd
    BY <1>1, SetBlockchainEndStep
  <1>2. CASE ~SetBlockchainEnd
    <2>1. UNCHANGED indexVars /\ tip' = tip
      BY <1>2, IterateFrame DEF Iterate, SetBlockchainStart, LinkBlock, LinkDone, SeekEnd, FoundEnd,
         ChooseStart, SeekStart, FoundStart, Visit, VisitDone, FollowJunk, Seek, optionVars
    <2>2. TipConnected' = TipConnected
      BY <2>1, TopKept
    <2>3. SUFFICES ASSUME TipConnected PROVE ChainPart'
      BY <2>2 DEF ChainPart
    <2>4. ~FollowJunk
      BY <2>3 DEF CInv, ChainPart, FollowJunk
    <2> QED
      BY <1>2, <2>3, <2>4, SetBlockchainStartStep, LinkBlockStep, LinkDoneStep, SeekStep,
         FoundEndStep, ChooseStartStep, FoundStartStep, VisitStep, VisitDoneStep DEF Iterate
  <1> QED
    BY <1>1, <1>2

LEMMA IterateStep == ASSUME CInv, Iterate PROVE CInv'
  <1>1. WalkTypeOK' /\ NextLinked' /\ EmittedLinked' /\ ChainPart'
    BY TypeStep, NextLinkedStep, EmittedLinkedStep, ChainPartStep
  <1>2. IndexPart'
    BY IterateFrame DEF IndexPart
  <1>3. TableInv'
    BY IterateFrame, TableKept DEF CInv
  <1> QED
    BY <1>1, <1>2, <1>3 DEF CInv

LEMMA StutterCInv == ASSUME CInv, UNCHANGED walkAllVars PROVE CInv'
  <1>1. /\ UNCHANGED vars /\ UNCHANGED <<parent, source, unread, map, genesis, misses, blockEnd>>
        /\ UNCHANGED <<height, next, pc, caller, target, cur, prev, todo, best>>
        /\ UNCHANGED <<tip, startHash, blockStart, start, walker, link, visited, emitted>>
    BY DEF walkAllVars, vars, scanVars, walkVars, bestVars, optionVars, loopVars
  <1>2. UNCHANGED indexVars
    BY <1>1 DEF indexVars, scanVars, walkVars
  <1>3. /\ Live' = Live /\ Anc' = Anc /\ TableInv' = TableInv
        /\ \A r : Known(r)' = Known(r) /\ PrevHash(r)' = PrevHash(r) /\ PrevBlock(r)' = PrevBlock(r)
    BY <1>2, TableKept
  <1>4. WalkTypeOK'
    BY <1>1 DEF CInv, WalkTypeOK
  <1>5. IndexPart'
    <2>1. IInv => IInv'
      BY <1>1, StutterIInv
    <2> QED
      BY <1>1, <2>1 DEF CInv, IndexPart, Visiting
  <1>6. NextLinked' /\ EmittedLinked'
    BY <1>1, <1>3 DEF CInv, NextLinked, EmittedLinked
  <1>7. ChainPart'
    <2>1. /\ TopInv' = TopInv /\ TipConnected' = TipConnected /\ IsLast(best)' = IsLast(best)
      BY <1>1, <1>2, TopKept
    <2>2. HashStart' = HashStart /\ Gaveup' = Gaveup
      BY <1>1 DEF HashStart, Gaveup
    <2>3. \A C : Chain(C)' = Chain(C) /\ InAnc(C)' = InAnc(C)
      BY <1>1, <1>2, ChainKept
    <2>4. \A C : LinkInv(C)' = LinkInv(C)
      BY <1>1, <1>3, <2>3 DEF LinkInv
    <2>5. \A C : SeekInv(C)' = SeekInv(C)
      BY <1>1, <2>1, <2>3 DEF SeekInv
    <2>6. \A C : VisitInv(C)' = VisitInv(C)
      BY <1>1, <1>3 DEF VisitInv
    <2>7. \A C : EmitInv(C)' = EmitInv(C)
      <3>1. \A i : StartIsAt(i)' = StartIsAt(i)
        BY <1>1 DEF StartIsAt
      <3>2. \A b, C : IsStart(b, C)' = IsStart(b, C)
        BY <1>1, <2>2 DEF IsStart
      <3> QED
        BY <1>1, <2>2, <3>1, <3>2 DEF EmitInv
    <2> QED
      BY <1>1, <2>1, <2>2, <2>3, <2>4, <2>5, <2>6, <2>7 DEF CInv, ChainPart
  <1> QED
    BY <1>1, <1>3, <1>4, <1>5, <1>6, <1>7 DEF CInv

-----------------------------------------------------------------------------
(***************************************************************************)
(* The results.                                                            *)
(***************************************************************************)

\* The inductive invariant of the index and of the loops that follow it.
THEOREM WalkInvariance == WalkSpec => []CInv
  <1>1. WalkInit => CInv
    BY InitCInv
  <1>2. CInv /\ [WalkNext]_walkAllVars => CInv'
    BY IndexStep, IterateStep, StutterCInv DEF WalkNext
  <1> QED
    BY <1>1, <1>2, PTL DEF WalkSpec

\* A loop over next never follows a pointer that nobody wrote, and the program
\* gives up only for want of a block that the options ask for.
THEOREM ExitsAreJustified == WalkSpec => []ExitJustified
  <1>1. CInv => ExitJustified
    BY DEF CInv, ChainPart, ExitJustified, Gaveup
  <1> QED
    BY <1>1, WalkInvariance, PTL

\* What the invariant says when the main loop has ended.
LEMMA AtTheEnd ==
    ASSUME CInv, TipConnected, pc = "done"
    PROVE  /\ WalkTypeOK /\ visited # <<>>
           /\ \E C \in SUBSET Rec :
                 /\ Chain(C) /\ genesis \in C /\ SeekInv(C) /\ VisitInv(C) /\ EmitInv(C)
                 /\ height[genesis] = 0
                 /\ visited[Len(visited)] = best
  <1>1. WalkTypeOK /\ TableInv
    BY OnTheChain DEF ChainLabels
  <1>2. PICK C \in SUBSET Rec :
            Chain(C) /\ genesis \in C /\ SeekInv(C) /\ VisitInv(C) /\ EmitInv(C)
    BY OnTheChain DEF ChainLabels
  <1>3. walker = NULL
    BY <1>2 DEF VisitInv
  <1>4. visited # <<>>
    BY <1>1, <1>2, <1>3, NULLIsNone DEF VisitInv, TableInv
  <1>5. Len(visited) \in DOMAIN visited
    BY <1>1, <1>4 DEF WalkTypeOK
  <1>6. PICK b \in C : b = visited[Len(visited)]
    BY <1>2, <1>5 DEF VisitInv
  <1>7. next[b] = NULL
    BY <1>2, <1>3, <1>4, <1>6 DEF VisitInv
  <1>8. b = best
    BY <1>1, <1>2, <1>7, ChainNext
  <1> QED
    BY <1>1, <1>2, <1>4, <1>6, <1>8 DEF TableInv

\* The main loop goes through one chain from genesis, without a gap, to the block
\* asked for.
THEOREM VisitsTheChain == WalkSpec => []ChainVisited
  <1>1. ASSUME CInv, TipConnected, pc = "done"
        PROVE  /\ visited # <<>>
               /\ visited[1] = genesis
               /\ \A i \in 1..(Len(visited) - 1) : PrevHash(visited[i + 1]) = IdOf[visited[i]]
               /\ IsLast(Last(visited))
    <2>1. WalkTypeOK /\ visited # <<>>
      BY <1>1, AtTheEnd
    <2>2. PICK C \in SUBSET Rec :
            /\ Chain(C) /\ genesis \in C /\ SeekInv(C) /\ VisitInv(C) /\ EmitInv(C)
            /\ height[genesis] = 0
            /\ visited[Len(visited)] = best
      BY <1>1, AtTheEnd
    <2>3. 1 \in DOMAIN visited
      BY <2>1 DEF WalkTypeOK
    <2>4. visited[1] \in C /\ height[visited[1]] = 0
      BY <2>2, <2>3 DEF VisitInv
    <2>5. visited[1] = genesis
      BY <2>2, <2>4 DEF Chain
    <2>6. IsLast(best)
      BY <1>1, <2>2 DEF SeekInv
    <2>7. Last(visited) = best
      BY <2>2 DEF Last
    <2> QED
      BY <2>1, <2>2, <2>5, <2>6, <2>7 DEF VisitInv
  <1>2. CInv => ChainVisited
    BY <1>1 DEF ChainVisited
  <1> QED
    BY <1>2, WalkInvariance, PTL

\* The callbacks see that chain from the first block asked for to its end.
THEOREM EmitsTheChain == WalkSpec => []ChainEmitted
  <1>1. ASSUME CInv, TipConnected, pc = "done"
        PROVE  IF \E i \in DOMAIN visited : StartIsAt(i)
               THEN emitted = SubSeq(visited, CHOOSE i \in DOMAIN visited : StartIsAt(i), Len(visited))
               ELSE emitted = <<>> /\ blockStart = 0
    <2>1. WalkTypeOK /\ visited # <<>>
      BY <1>1, AtTheEnd
    <2>2. PICK C \in SUBSET Rec :
            /\ Chain(C) /\ genesis \in C /\ SeekInv(C) /\ VisitInv(C) /\ EmitInv(C)
            /\ height[genesis] = 0
            /\ visited[Len(visited)] = best
      BY <1>1, AtTheEnd
    <2>3. PICK n \in Nat : n = Len(visited) /\ DOMAIN visited = 1..n /\ n # 0
      BY <2>1 DEF WalkTypeOK
    <2>4. \A i \in DOMAIN visited : visited[i] \in C /\ height[visited[i]] = i - 1
      BY <2>2 DEF VisitInv
    <2>5. ASSUME NEW i \in DOMAIN visited, NEW j \in DOMAIN visited, StartIsAt(i), StartIsAt(j)
          PROVE  i = j
      <3>1. CASE blockStart # 0
        BY <2>3, <2>4, <2>5, <3>1 DEF StartIsAt
      <3>2. CASE blockStart = 0 /\ startHash # Zero
        <4>1. visited[i] = map[startHash] /\ visited[j] = map[startHash]
          BY <2>2, <2>4, <2>5, <3>2 DEF StartIsAt, Chain, Live
        <4> QED
          BY <2>3, <2>4, <4>1
      <3>3. CASE blockStart = 0 /\ startHash = Zero
        BY <2>5, <3>3 DEF StartIsAt
      <3> QED
        BY <3>1, <3>2, <3>3
    <2>6. CASE start = NULL
      <3>1. PICK s \in DOMAIN visited :
              /\ StartIsAt(s)
              /\ Len(emitted) = Len(visited) - s + 1
              /\ \A k \in DOMAIN emitted : emitted[k] = visited[s + k - 1]
        BY <1>1, <2>2, <2>6 DEF EmitInv
      <3>2. s = CHOOSE i \in DOMAIN visited : StartIsAt(i)
        BY <2>5, <3>1
      <3>3. emitted = SubSeq(visited, s, Len(visited))
        <4> DEFINE t == SubSeq(visited, s, n)
        <4>1. emitted \in Seq(Rec) /\ visited \in Seq(Rec) /\ Len(emitted) = n - s + 1 /\ s \in 1..n
          BY <2>1, <2>3, <3>1 DEF WalkTypeOK
        <4>2. t \in Seq(Rec) /\ Len(t) = n - s + 1 /\ DOMAIN t = 1..(n - s + 1)
          BY <2>3, <4>1
        <4>3. \A k \in 1..(n - s + 1) : t[k] = visited[s + k - 1]
          BY <2>3, <4>1
        <4> HIDE DEF t
        <4>4. DOMAIN emitted = 1..(n - s + 1)
          <5>1. DOMAIN emitted = 1..Len(emitted)
            BY <4>1
          <5> QED
            BY <4>1, <5>1
        <4>5. ASSUME NEW k \in 1..(n - s + 1) PROVE emitted[k] = t[k]
          <5>1. emitted[k] = visited[s + k - 1]
            BY <3>1, <4>4
          <5> QED
            BY <4>3, <5>1
        <4>6. emitted = t
          BY <4>1, <4>2, <4>4, <4>5
        <4> QED
          BY <2>3, <4>6 DEF t
      <3> QED
        BY <3>1, <3>2, <3>3
    <2>7. CASE start # NULL
      <3>1. IsStart(start, C) /\ emitted = <<>> /\ \A i \in DOMAIN visited : ~StartIsAt(i)
        BY <1>1, <2>2, <2>7 DEF EmitInv
      <3>2. ASSUME blockStart # 0 PROVE FALSE
        <4>1. start \in C /\ height[start] = blockStart /\ blockStart \in Nat
          BY <2>1, <3>1, <3>2 DEF IsStart, WalkTypeOK
        <4>2. blockStart <= height[best] /\ height[best] = n - 1
          BY <2>2, <2>3, <2>4, <4>1 DEF Chain
        <4>3. blockStart + 1 \in DOMAIN visited /\ height[visited[blockStart + 1]] = blockStart
          BY <2>3, <2>4, <4>1, <4>2
        <4> QED
          BY <3>1, <3>2, <4>3 DEF StartIsAt
      <3> QED
        BY <3>1, <3>2
    <2> QED
      BY <2>6, <2>7
  <1>2. CInv => ChainEmitted
    BY <1>1 DEF ChainEmitted
  <1> QED
    BY <1>2, WalkInvariance, PTL

\* iterate keeps Iteration's promise, its fairness apart: every step hands out the
\* child of the block handed out before, ends the iteration or changes nothing.
THEOREM KeepsThePromise == WalkSpec => Promise!Init /\ [][Promise!Next]_(Promise!vars)
  <1>1. WalkInit => Promise!Init
    BY DEF WalkInit, Init, Promise!Init, Ended
  <1>2. CInv /\ [WalkNext]_walkAllVars => [Promise!Next]_(Promise!vars)
    <2> SUFFICES ASSUME CInv, [WalkNext]_walkAllVars
                 PROVE  Promise!Next \/ UNCHANGED Promise!vars
      OBVIOUS
    <2> DEFINE F == {pair \in Rec \X Rec : PrevHash(pair[2]) = IdOf[pair[1]]}
    <2>1. parent' = parent => F' = F
      BY DEF PrevHash
    <2>2. CASE Visit
      <3>1. /\ pc = "walk" /\ walker \in Rec /\ pc' = pc /\ UNCHANGED indexVars
            /\ emitted' = IF start' = NULL THEN Append(emitted, walker) ELSE emitted
        BY <2>2 DEF Visit
      <3>2. F' = F /\ Ended = FALSE /\ Ended' = FALSE
        BY <2>1, <3>1, TableKept DEF Ended
      <3>3. CASE emitted' = emitted
        BY <3>2, <3>3 DEF Promise!vars
      <3>4. CASE emitted' = Append(emitted, walker)
        <4>1. emitted # <<>> => Last(emitted) \in Rec /\ <<Last(emitted), walker>> \in F
          BY <3>1 DEF CInv, EmittedLinked, WalkTypeOK, Last
        <4>2. Promise!Emit(walker)
          BY <3>2, <3>4, <4>1 DEF Promise!Emit, Last, Promise!Last
        <4> QED
          BY <3>1, <4>2 DEF Promise!Next
      <3> QED
        BY <3>1, <3>3, <3>4
    <2>3. CASE ~Visit
      <3>1. parent' = parent /\ emitted' = emitted /\ (Ended => Ended')
        <4>1. CASE Index
          <5>1. IndexNext /\ UNCHANGED <<optionVars, start, loopVars>>
            BY <4>1 DEF Index
          <5>2. emitted' = emitted
            BY <5>1 DEF loopVars
          <5>3. parent' = parent /\ pc \notin {"failed", "done", "wild"}
            BY <5>1 DEF IndexNext, ReadBlock, SetHeight, FinishScan, RestartFromCache, SetHeightsAndBest,
               AddGenesis, AddAbove, AddMiss, AddOrphan, Replace, StepBack, Turn, StepForward,
               ReturnToAdd, ReturnToBest, FinishVisit, VisitKnown, VisitUnknown
          <5> QED
            BY <5>2, <5>3 DEF Ended
        <4>2. CASE Iterate
          <5>1. emitted' = emitted
            BY <2>3, <4>2 DEF Iterate, SetBlockchainEnd, SetBlockchainStart, LinkBlock, LinkDone, SeekEnd, FoundEnd,
               ChooseStart, SeekStart, FoundStart, VisitDone, FollowJunk, Seek, loopVars
          <5>2. parent' = parent /\ ~Ended
            BY <4>2, IterateFrame, TableKept DEF Ended
          <5> QED
            BY <5>1, <5>2
        <4>3. CASE UNCHANGED walkAllVars
          BY <4>3 DEF walkAllVars, vars, loopVars, Ended
        <4> QED
          BY <4>1, <4>2, <4>3 DEF WalkNext
      <3>2. F' = F
        BY <2>1, <3>1
      <3>3. CASE Ended' = Ended
        BY <3>1, <3>2, <3>3 DEF Promise!vars
      <3>4. CASE ~Ended /\ Ended'
        BY <3>1, <3>2, <3>4 DEF Promise!Next, Promise!End
      <3> QED
        BY <3>1, <3>3, <3>4 DEF Ended
    <2> QED
      BY <2>2, <2>3
  <1> QED
    BY <1>1, <1>2, WalkInvariance, PTL DEF WalkSpec

-----------------------------------------------------------------------------
(***************************************************************************)
(* The early stop: with --end the scan of the block files is abandoned at  *)
(* the first block whose height is well above it, and the blocks iterated  *)
(* are still those of the longest chain of all the files.                  *)
(*                                                                         *)
(* The argument counts blocks: a block with a height has as many blocks    *)
(* before it, all in the table, and two chains that meet have the same     *)
(* blocks below.                                                           *)
(***************************************************************************)
\* Every id is that of a block in the files.
AllStored == \A h \in Hash : \E r \in Rec : IdOf[r] = h

\* The scan has come to a block well above --end, or it loses no block.
Stopped == blockEnd # NoEnd /\ \E r \in Live : Known(r) /\ height[r] > blockEnd + Margin
Covered == \A h \in Hash : map[h] # NULL \/ \E r \in unread : IdOf[r] = h

\* The program has a genesis block if the table has one.
RootInv == \A r \in Live : PrevHash(r) = Zero => genesis # NULL

\* Without other options only --end can make it give up.
FailedInv ==
    pc = "failed" /\ tip = Zero /\ startHash = Zero /\ blockStart = 0 =>
        \/ genesis = NULL
        \/ TableInv /\ TopInv /\ height[best] < blockEnd

StopInv ==
    /\ Covered \/ (unread = {} /\ Stopped)
    /\ unread \subseteq Rec
    /\ pc \notin IndexLabels => unread = {}
    /\ RootInv
    /\ pc = "failed" /\ genesis = NULL => Hash = {}
    /\ FailedInv

-----------------------------------------------------------------------------
(***************************************************************************)
(* The blocks before a block.                                              *)
(***************************************************************************)

\* What holds of a block if it holds of the one before it holds of all: the
\* lemmas of this section take the oldest block for which it would not.
LEMMA AncOlder ==
    ASSUME parent \in Topologies, NEW h \in Hash
    PROVE  /\ Anc[h] \subseteq Hash
           /\ \A x \in Anc[h] : x = h \/ Rank[x] < Rank[h]
  <1> DEFINE Good(g) == Anc[g] \subseteq Hash /\ \A x \in Anc[g] : x = g \/ Rank[x] < Rank[g]
             B == {g \in Hash : ~Good(g)}
  <1>1. SUFFICES ASSUME B # {} PROVE FALSE
    OBVIOUS
  <1>2. PICK g \in B : parent[g] \notin B
    <2> HIDE DEF B
    <2>1. B \in SUBSET Hash
      BY DEF B
    <2> QED
      BY <1>1, <2>1, OldestBlock
  <1>3. Anc[g] = {g} \cup (IF parent[g] \in Hash THEN Anc[parent[g]] ELSE {})
    BY AncIs
  <1>4. ASSUME parent[g] \in Hash
        PROVE  /\ Good(parent[g]) /\ Rank[parent[g]] < Rank[g]
               /\ Rank[g] \in Nat /\ \A x \in Hash : Rank[x] \in Nat
    BY <1>2, <1>4, TopologyAssumption
  <1>5. Anc[g] \subseteq Hash
    BY <1>3, <1>4
  <1>6. ASSUME NEW x \in Anc[g], x # g PROVE Rank[x] < Rank[g]
    <2>1. parent[g] \in Hash /\ x \in Anc[parent[g]] /\ x \in Hash
      BY <1>3, <1>5, <1>6
    <2>2. /\ x = parent[g] \/ Rank[x] < Rank[parent[g]]
          /\ Rank[parent[g]] < Rank[g]
      BY <1>4, <2>1
    <2>3. Rank[x] \in Nat /\ Rank[g] \in Nat /\ Rank[parent[g]] \in Nat
      BY <1>4, <2>1
    <2> QED
      BY <2>2, <2>3
  <1> QED
    BY <1>2, <1>5, <1>6

LEMMA AncTransitive ==
    ASSUME parent \in Topologies, NEW h \in Hash, NEW x \in Anc[h]
    PROVE  Anc[x] \subseteq Anc[h]
  <1> DEFINE B == {g \in Hash : \E y \in Anc[g] : ~(Anc[y] \subseteq Anc[g])}
  <1>1. SUFFICES ASSUME B # {} PROVE FALSE
    OBVIOUS
  <1>2. PICK g \in B : parent[g] \notin B
    <2> HIDE DEF B
    <2>1. B \in SUBSET Hash
      BY DEF B
    <2> QED
      BY <1>1, <2>1, OldestBlock
  <1>3. Anc[g] = {g} \cup (IF parent[g] \in Hash THEN Anc[parent[g]] ELSE {})
    BY AncIs
  <1> QED
    BY <1>2, <1>3

\* Of two blocks of one chain, one is before the other.
LEMMA AncLinear ==
    ASSUME parent \in Topologies, NEW h \in Hash, NEW x \in Anc[h], NEW y \in Anc[h]
    PROVE  x \in Anc[y] \/ y \in Anc[x]
  <1> DEFINE B == {g \in Hash : \E u, v \in Anc[g] : u \notin Anc[v] /\ v \notin Anc[u]}
  <1>1. SUFFICES ASSUME B # {} PROVE FALSE
    OBVIOUS
  <1>2. PICK g \in B : parent[g] \notin B
    <2> HIDE DEF B
    <2>1. B \in SUBSET Hash
      BY DEF B
    <2> QED
      BY <1>1, <2>1, OldestBlock
  <1>3. Anc[g] = {g} \cup (IF parent[g] \in Hash THEN Anc[parent[g]] ELSE {})
    BY AncIs
  <1> QED
    BY <1>2, <1>3

\* A block has finitely many before it, one more than the previous block.
LEMMA AncCount ==
    ASSUME parent \in Topologies, NEW h \in Hash
    PROVE  /\ IsFiniteSet(Anc[h]) /\ Cardinality(Anc[h]) \in Nat
           /\ parent[h] \notin Hash => Cardinality(Anc[h]) = 1
           /\ parent[h] \in Hash => Cardinality(Anc[h]) = Cardinality(Anc[parent[h]]) + 1
  <1> DEFINE B == {g \in Hash : ~IsFiniteSet(Anc[g])}
  <1>1. ASSUME B # {} PROVE FALSE
    <2>1. PICK g \in B : parent[g] \notin B
      BY <1>1, OldestBlock
    <2>2. Anc[g] = {g} \cup (IF parent[g] \in Hash THEN Anc[parent[g]] ELSE {})
      BY AncIs
    <2>3. CASE parent[g] \in Hash
      <3>1. IsFiniteSet(Anc[parent[g]] \cup {g})
        BY <2>1, <2>3, FS_AddElement
      <3>2. Anc[g] = Anc[parent[g]] \cup {g}
        BY <2>2, <2>3
      <3> QED
        BY <2>1, <3>1, <3>2
    <2>4. CASE parent[g] \notin Hash
      <3>1. Anc[g] = {g}
        BY <2>2, <2>4
      <3> QED
        BY <2>1, <3>1, FS_Singleton
    <2> QED
      BY <2>3, <2>4
  <1>2. \A g \in Hash : IsFiniteSet(Anc[g])
    BY <1>1
  <1>3. Anc[h] = {h} \cup (IF parent[h] \in Hash THEN Anc[parent[h]] ELSE {})
    BY AncIs
  <1>4. ASSUME parent[h] \in Hash
        PROVE  Cardinality(Anc[h]) = Cardinality(Anc[parent[h]]) + 1
    <2>1. Rank[parent[h]] < Rank[h] /\ Rank[h] \in Nat /\ Rank[parent[h]] \in Nat
      BY <1>4, TopologyAssumption
    <2>2. h \notin Anc[parent[h]]
      BY <1>4, <2>1, AncOlder
    <2>3. Anc[h] = Anc[parent[h]] \cup {h}
      BY <1>3, <1>4
    <2> QED
      BY <1>2, <1>4, <2>2, <2>3, FS_AddElement
  <1>5. ASSUME parent[h] \notin Hash
        PROVE  Cardinality(Anc[h]) = 1
    <2>1. Anc[h] = {h}
      BY <1>3, <1>5
    <2> QED
      BY <2>1, FS_Singleton
  <1>6. Cardinality(Anc[h]) \in Nat
    BY <1>2, FS_CardinalityType
  <1> QED
    BY <1>2, <1>4, <1>5, <1>6

-----------------------------------------------------------------------------
(***************************************************************************)
(* The table.                                                              *)
(***************************************************************************)

\* A height counts the blocks before.
LEMMA HeightIsDepth ==
    ASSUME WalkTypeOK, TableInv, NEW r \in Live, Known(r)
    PROVE  Cardinality(Anc[IdOf[r]]) = height[r] + 1
  <1> DEFINE B == {g \in Hash : map[g] \in Live /\ Known(map[g])
                                /\ Cardinality(Anc[g]) # height[map[g]] + 1}
  <1>1. ASSUME B # {} PROVE FALSE
    <2>0. parent \in Topologies
      BY DEF WalkTypeOK
    <2>1. PICK g \in B : parent[g] \notin B
      <3> HIDE DEF B
      <3>1. B \in SUBSET Hash
        BY DEF B
      <3> QED
        BY <1>1, <2>0, <3>1, OldestBlock
    <2>2. PICK q \in Live : q = map[g] /\ IdOf[q] = g /\ Known(q) /\ q \in Rec
      BY <2>1, NULLIsNone DEF WalkTypeOK, Live
    <2>3. CASE q = genesis
      <3>1. parent[g] \notin Hash /\ height[q] = 0
        BY <2>2, <2>3, TopologyAssumption DEF TableInv, PrevHash
      <3> QED
        BY <2>0, <2>1, <2>2, <3>1, AncCount
    <2>4. CASE q # genesis
      <3>1. PrevBlock(q) # NULL /\ Known(PrevBlock(q)) /\ height[q] = height[PrevBlock(q)] + 1
        BY <2>2, <2>4 DEF TableInv
      <3>2. PICK p \in Live : p = PrevBlock(q) /\ IdOf[p] = parent[g] /\ p \in Rec
        BY <2>2, <3>1, PrevBlockIsLive DEF PrevHash, Live
      <3>3. parent[g] \in Hash /\ map[parent[g]] = p
        BY <3>2, RecordAssumption DEF Live
      <3>4. Cardinality(Anc[parent[g]]) = height[p] + 1
        BY <2>1, <3>1, <3>2, <3>3
      <3>5. Cardinality(Anc[g]) = Cardinality(Anc[parent[g]]) + 1
        BY <2>0, <3>3, AncCount
      <3> QED
        BY <2>1, <2>2, <3>1, <3>2, <3>4, <3>5
    <2> QED
      BY <2>3, <2>4
  <1>2. IdOf[r] \in Hash /\ map[IdOf[r]] = r
    BY RecordAssumption DEF Live
  <1> QED
    BY <1>1, <1>2

\* If the table has every block then every block has a height.
LEMMA WholeTable ==
    ASSUME WalkTypeOK, TableInv, \A h \in Hash : map[h] # NULL, NEW g \in Hash
    PROVE  map[g] \in Live /\ IdOf[map[g]] = g /\ Known(map[g])
  <1>1. \A h \in Hash : map[h] \in Live /\ IdOf[map[h]] = h
    BY DEF WalkTypeOK, Live
  <1> DEFINE B == {h \in Hash : ~Known(map[h])}
  <1>2. ASSUME B # {} PROVE FALSE
    <2>1. PICK h \in B : parent[h] \notin B
      <3> HIDE DEF B
      <3>1. B \in SUBSET Hash
        BY DEF B
      <3> QED
        BY <1>2, <3>1, OldestBlock DEF WalkTypeOK
    <2>2. PICK r \in Live : r = map[h] /\ IdOf[r] = h /\ ~Known(r) /\ r \in Rec
      BY <1>1, <2>1 DEF Live
    <2>3. r # genesis
      BY <2>2 DEF TableInv, Known
    <2>4. PrevBlock(r) = NULL \/ ~Known(PrevBlock(r))
      BY <2>2, <2>3 DEF TableInv
    <2>5. CASE parent[h] \in Hash
      BY <1>1, <2>1, <2>2, <2>4, <2>5, NULLIsNone DEF PrevBlock, PrevHash, Get, Live
    <2>6. CASE parent[h] \notin Hash
      <3>1. parent[h] = Zero /\ parent[IdOf[genesis]] = Zero /\ genesis \in Live /\ genesis \in Rec
        BY <2>1, <2>6, TopologyAssumption DEF TableInv, PrevHash, WalkTypeOK, Live
      <3>2. IdOf[r] = IdOf[genesis]
        BY <2>2, <3>1, GenesisAssumption DEF WalkTypeOK
      <3> QED
        BY <2>2, <2>3, <3>1, <3>2 DEF Live
    <2> QED
      BY <2>5, <2>6
  <1> QED
    BY <1>1, <1>2

\* A block as high as any other has a height.
LEMMA TopIsKnown ==
    ASSUME WalkTypeOK, TableInv, tip = Zero, NEW top \in Live, IsTop(top)
    PROVE  Known(top) /\ \A q \in Live : height[q] <= height[top]
  BY DEF WalkTypeOK, TableInv, IsTop, Known, Live

-----------------------------------------------------------------------------
(***************************************************************************)
(* The invariant: the scan.                                                *)
(***************************************************************************)
LEMMA InitStopInv == ASSUME AllStored, WalkInit PROVE StopInv
  <1>1. Covered /\ unread \subseteq Rec
    BY DEF WalkInit, Init, AllStored, Covered
  <1>2. Live = {}
    BY RecordAssumption DEF WalkInit, Init, Live
  <1>3. pc = "read"
    BY DEF WalkInit, Init
  <1> QED
    BY <1>1, <1>2, <1>3 DEF StopInv, RootInv, FailedInv, IndexLabels

\* While the table and the heights stay as they are, what has been read covers the
\* files or has stopped, as before.
LEMMA StoppedKept ==
    ASSUME UNCHANGED <<map, blockEnd>>, KeepsHeights
    PROVE  Stopped => Stopped'
  <1>1. Live' = Live
    BY DEF Live
  <1>2. \A r \in Live : r \in Rec /\ (Known(r) => Known(r)' /\ height'[r] = height[r])
    BY DEF Live, KeepsHeights, Known
  <1> QED
    BY <1>1, <1>2 DEF Stopped

\* add_block.
LEMMA ReadKeepsStopInv ==
    ASSUME IInv, pc = "read", Covered, unread \subseteq Rec, RootInv, ReadBlock,
           tip' = Zero, startHash' = Zero, blockStart' = 0
    PROVE  StopInv'
  <1>1. PICK r \in Rec : AddGenesis(r) \/ AddAbove(r) \/ AddMiss(r) \/ AddOrphan(r)
    BY DEF ReadBlock
  <1>2. TypeOK /\ Replace(r) /\ r \in unread /\ UNCHANGED <<parent, blockEnd, source>>
    BY <1>1 DEF IInv, AddGenesis, AddAbove, AddMiss, AddOrphan, Replace
  <1>3. /\ Live' = {x \in Live : IdOf[x] # IdOf[r]} \cup {r}
        /\ Get(map', PrevHash(r)) = Get(map, PrevHash(r))
        /\ map' = [map EXCEPT ![IdOf[r]] = r] /\ IdOf[r] \in Hash
    BY <1>2, ReplaceLive, RecordAssumption DEF Replace
  <1>4. pc' \in {"read", "back"}
    BY <1>1 DEF AddGenesis, AddAbove, AddMiss, AddOrphan, Replace
  <1>5. unread' = unread \ {r} => Covered'
    BY <1>2, <1>3, RecordAssumption DEF TypeOK, Covered
  <1>6. ASSUME NEW h \in Nat, height' = [height EXCEPT ![r] = h],
               unread' = UnreadAfter(unread \ {r}, h)
        PROVE  Covered' \/ (unread' = {} /\ Stopped')
    <2>1. CASE ~StopsAt(h)
      BY <1>5, <1>6, <2>1 DEF UnreadAfter
    <2>2. CASE StopsAt(h)
      <3>1. unread' = {} /\ blockEnd' # NoEnd /\ h > blockEnd' + Margin
        BY <1>2, <1>6, <2>2 DEF UnreadAfter, StopsAt
      <3>2. r \in Live' /\ height'[r] = h /\ h # -1
        BY <1>2, <1>3, <1>6 DEF TypeOK
      <3> QED
        BY <3>1, <3>2 DEF Stopped, Known
    <2> QED
      BY <2>1, <2>2
  <1>7. Covered' \/ (unread' = {} /\ Stopped')
    <2>1. CASE AddGenesis(r)
      BY <1>6, <2>1 DEF AddGenesis
    <2>2. CASE AddAbove(r)
      <3>1. PICK p \in Rec : p = Get(map', PrevHash(r)) /\ Known(p)
        BY <1>2, <1>3, <2>2, GetIsLive DEF AddAbove, Live
      <3>2. HeightUnder(p) \in Nat
        BY <1>2, <3>1 DEF TypeOK, Known, HeightUnder
      <3> QED
        BY <1>6, <2>2, <3>1, <3>2 DEF AddAbove
    <2>3. CASE AddMiss(r) \/ AddOrphan(r)
      BY <1>5, <2>3 DEF AddMiss, AddOrphan
    <2> QED
      BY <1>1, <2>1, <2>2, <2>3
  <1>8. unread' \subseteq Rec
    BY <1>1, <1>2 DEF TypeOK, AddGenesis, AddAbove, AddMiss, AddOrphan, UnreadAfter
  <1>9. RootInv'
    <2>1. CASE AddGenesis(r)
      BY <2>1, RecordAssumption DEF AddGenesis, RootInv
    <2>2. CASE ~AddGenesis(r)
      <3>1. PrevHash(r) # Zero /\ genesis' = genesis
        BY <1>1, <1>3, <2>2, TopologyAssumption DEF AddAbove, AddMiss, AddOrphan, Get
      <3> QED
        BY <1>2, <1>3, <3>1 DEF RootInv, PrevHash
    <2> QED
      BY <2>1, <2>2
  <1> QED
    BY <1>4, <1>7, <1>8, <1>9 DEF StopInv, IndexLabels, FailedInv

\* The scan finds a genesis block if the files have any block: the oldest one of
\* all that are stored, or of those below the block that has stopped it.
LEMMA RootFound ==
    ASSUME IInv, unread = {}, RootInv, Covered \/ Stopped, genesis = NULL
    PROVE  Hash = {}
  <1> SUFFICES ASSUME Hash # {} PROVE FALSE
    OBVIOUS
  <1>1. TypeOK /\ Pool = Live /\ parent \in Topologies
    BY DEF IInv, TypeOK, Pool
  <1>2. CASE Covered
    <2>1. PICK h \in Hash : parent[h] \notin Hash
      BY <1>1, OldestBlock
    <2>2. map[h] # NULL
      BY <1>2 DEF Covered
    <2>3. map[h] \in Live /\ IdOf[map[h]] = h /\ PrevHash(map[h]) = Zero
      BY <1>1, <2>1, <2>2, TopologyAssumption DEF TypeOK, Live, PrevHash
    <2> QED
      BY <2>3 DEF RootInv
  <1>3. CASE Stopped
    <2> DEFINE B == {g \in Hash : \E q \in Live : IdOf[q] = g /\ Known(q)}
    <2>1. B # {}
      BY <1>3, RecordAssumption DEF Stopped, Live
    <2>2. PICK g \in B : parent[g] \notin B
      <3> HIDE DEF B
      <3>1. B \in SUBSET Hash
        BY DEF B
      <3> QED
        BY <1>1, <2>1, <3>1, OldestBlock
    <2>3. PICK q \in Live : IdOf[q] = g /\ Known(q)
      BY <2>2
    <2>4. HasHeight(q)
      BY <1>1, <2>3 DEF IInv, HeightsLinked
    <2>5. PrevHash(q) # Zero
      BY <2>3 DEF RootInv
    <2>6. PICK p \in Live : IdOf[p] = PrevHash(q) /\ Known(p)
      BY <1>1, <2>4, <2>5 DEF HasHeight
    <2>7. parent[g] \in B
      BY <2>3, <2>6, RecordAssumption DEF PrevHash, Live
    <2> QED
      BY <2>2, <2>7
  <1> QED
    BY <1>2, <1>3

LEMMA IndexStopInv == ASSUME CInv, StopInv, Index PROVE StopInv'
  <1>1. /\ IInv /\ IndexNext /\ pc \in {"read", "back", "forward", "best"}
        /\ UNCHANGED <<optionVars, start, loopVars>>
    <2>1. IndexNext /\ UNCHANGED <<optionVars, start, loopVars>>
      BY DEF Index
    <2>2. pc \in {"read", "back", "forward", "best"}
      BY <2>1 DEF IndexNext, ReadBlock, SetHeight, FinishScan, RestartFromCache, SetHeightsAndBest,
         AddGenesis, AddAbove, AddMiss, AddOrphan, Replace, StepBack, Turn, StepForward,
         ReturnToAdd, ReturnToBest, FinishVisit, VisitKnown, VisitUnknown
    <2> QED
      BY <2>1, <2>2 DEF CInv, IndexPart, IndexLabels
  <1>2. tip' = Zero /\ startHash' = Zero /\ blockStart' = 0
    BY <1>1 DEF CInv, IndexPart, IndexLabels, optionVars
  <1>3. IInv' /\ KeepsHeights
    BY <1>1, NextIInv DEF Next
  <1>4. TypeOK /\ (Covered \/ (unread = {} /\ Stopped)) /\ unread \subseteq Rec /\ RootInv
    BY <1>1 DEF IInv, StopInv
  <1>5. CASE ReadBlock
    <2>1. pc = "read" /\ Covered
      BY <1>4, <1>5 DEF ReadBlock, AddGenesis, AddAbove, AddMiss, AddOrphan, Replace
    <2> QED
      BY <1>1, <1>2, <1>4, <1>5, <2>1, ReadKeepsStopInv
  <1>6. ASSUME UNCHANGED <<parent, map, genesis, blockEnd>>, unread' \subseteq unread,
               Covered /\ unread' # unread => unread' = {} /\ Stopped',
               pc' \in {"read", "back", "forward", "best", "indexed"}
        PROVE  StopInv'
    <2>1. Live' = Live /\ \A r : PrevHash(r)' = PrevHash(r)
      BY <1>6 DEF Live, PrevHash
    <2>2. Covered /\ unread' = unread => Covered'
      BY <1>6 DEF Covered
    <2>3. Stopped => Stopped'
      BY <1>3, <1>6, StoppedKept
    <2>4. RootInv'
      BY <1>4, <1>6, <2>1 DEF RootInv
    <2>5. Covered' \/ (unread' = {} /\ Stopped')
      BY <1>4, <1>6, <2>2, <2>3
    <2>6. unread' \subseteq Rec
      BY <1>4, <1>6
    <2> QED
      BY <1>6, <2>4, <2>5, <2>6 DEF StopInv, FailedInv, IndexLabels
  <1>7. CASE StepBack \/ Turn \/ StepForward \/ ReturnToBest
    <2>1. UNCHANGED <<parent, map, genesis, blockEnd, unread>>
      BY <1>7 DEF StepBack, Turn, StepForward, ReturnToBest, scanVars
    <2>2. pc' \in {"read", "back", "forward", "best", "indexed"}
      BY <1>7 DEF StepBack, Turn, StepForward, ReturnToBest
    <2> QED
      BY <1>6, <2>1, <2>2
  <1>8. CASE ReturnToAdd
    <2>1. UNCHANGED <<parent, map, genesis, blockEnd, height>> /\ pc' = "read"
      BY <1>8 DEF ReturnToAdd
    <2>2. CASE unread' = unread
      BY <1>6, <2>1, <2>2
    <2>3. CASE unread' # unread
      <3>1. pc = "forward" /\ cur = NULL /\ unread' = {} /\ StopsAt(height[target])
        BY <1>8, <2>3 DEF ReturnToAdd, UnreadAfter
      <3>2. target \in Live /\ Known(target)
        BY <1>1, <3>1, NULLIsNone DEF IInv, WalkInv, PathForward, OnPath
      <3>3. Stopped'
        <4>1. PICK r \in Live' : r = target /\ Known(r)'
          BY <2>1, <3>2 DEF Live, Known
        <4> QED
          BY <2>1, <3>1, <4>1 DEF StopsAt, Stopped
      <3> QED
        BY <1>6, <2>1, <3>1, <3>3
    <2> QED
      BY <2>2, <2>3
  <1>9. CASE SetHeightsAndBest
    <2>1. UNCHANGED <<parent, map, genesis, blockEnd, unread>>
          /\ pc' \in {"read", "back", "forward", "best", "indexed"}
      BY <1>9 DEF SetHeightsAndBest, FinishVisit, VisitKnown, VisitUnknown, scanVars
    <2> QED
      BY <1>6, <2>1
  <1>10. CASE FinishScan
    <2>1. UNCHANGED <<parent, map, genesis, blockEnd, unread, height>> /\ unread = {}
          /\ (genesis # NULL => pc' = "best") /\ pc' \in {"best", "failed"}
      BY <1>10 DEF FinishScan, scanVars
    <2>2. CASE genesis # NULL
      BY <1>6, <2>1, <2>2
    <2>3. CASE genesis = NULL
      <3>1. Hash = {}
        BY <1>1, <1>4, <2>1, <2>3, RootFound
      <3>2. Live' = {} /\ Covered'
        BY <3>1, RecordAssumption DEF Live, Covered
      <3> QED
        BY <1>4, <2>1, <2>3, <3>1, <3>2 DEF StopInv, RootInv, FailedInv
    <2> QED
      BY <2>2, <2>3
  <1>11. CASE RestartFromCache
    <2>1. /\ pc = "read" /\ pc' = pc /\ unread = {} /\ blockEnd = NoEnd
          /\ unread' = Live /\ map' = [h \in Hash |-> NULL]
      BY <1>11 DEF RestartFromCache
    <2>2. Covered
      BY <1>4, <2>1 DEF Stopped
    <2>3. Covered'
      BY <1>4, <2>1, <2>2, RecordAssumption DEF Covered, TypeOK, Live
    <2>4. Live' = {}
      BY <2>1, RecordAssumption DEF Live
    <2> QED
      BY <2>1, <2>3, <2>4 DEF StopInv, RootInv, FailedInv, IndexLabels, Live
  <1> QED
    BY <1>1, <1>5, <1>7, <1>8, <1>9, <1>10, <1>11 DEF IndexNext, SetHeight

-----------------------------------------------------------------------------
(***************************************************************************)
(* The invariant: iterate.                                                 *)
(***************************************************************************)
LEMMA IterateStopInv == ASSUME CInv, StopInv, Iterate PROVE StopInv'
  <1>1. /\ UNCHANGED indexVars
        /\ pc \notin {"read", "back", "forward", "best", "failed", "done", "wild"}
        /\ pc' \notin IndexLabels
    BY IterateFrame
  <1>2. WalkTypeOK /\ TableInv
    BY <1>1 DEF CInv
  <1>3. /\ UNCHANGED <<parent, map, genesis, blockEnd, height, unread>>
        /\ Live' = Live /\ TableInv' = TableInv
        /\ \A r : Known(r)' = Known(r) /\ PrevHash(r)' = PrevHash(r)
    BY <1>1, TableKept DEF indexVars, scanVars
  <1>4. unread = {}
    BY <1>1 DEF CInv, IndexPart, StopInv, Visiting, IndexLabels
  <1>5. /\ Covered' \/ (unread' = {} /\ Stopped')
        /\ unread' \subseteq Rec /\ RootInv'
    <2>1. Covered => Covered'
      BY <1>3 DEF Covered
    <2>2. Stopped => Stopped'
      BY <1>3 DEF Stopped
    <2> QED
      BY <1>3, <2>1, <2>2 DEF StopInv, RootInv
  <1>6. genesis' # NULL
    BY <1>2, <1>3, NULLIsNone DEF TableInv
  <1>7. FailedInv'
    <2> SUFFICES ASSUME pc' = "failed", tip' = Zero, startHash' = Zero, blockStart' = 0
                 PROVE  TableInv' /\ TopInv' /\ height'[best'] < blockEnd'
      BY DEF FailedInv
    <2>1. ~SetBlockchainEnd
      <3> SUFFICES ASSUME SetBlockchainEnd PROVE FALSE
        OBVIOUS
      <3>1. pc = "indexed" /\ best = NULL
        BY DEF SetBlockchainEnd
      <3>2. IInv /\ unread = {} /\ genesis # NULL
        BY <3>1 DEF CInv, IndexPart, IndexLabels, Visiting
      <3> QED
        BY <3>1, <3>2, IndexedTable, NULLIsNone
    <2>2. ~SetBlockchainStart
      BY <1>2, NULLIsNone DEF SetBlockchainStart, TableInv
    <2>3. SeekEnd \/ SeekStart
      BY <2>1, <2>2 DEF Iterate, LinkBlock, LinkDone, FoundEnd, ChooseStart, FoundStart,
         Visit, VisitDone, FollowJunk
    <2>4. /\ walker \in Rec /\ pc' = IF next[walker] = NULL THEN "failed" ELSE pc
          /\ UNCHANGED <<next, best, tip, startHash, blockStart>>
          /\ pc \in {"seekEnd", "seekStart"}
          /\ pc = "seekEnd" => height[walker] # blockEnd
      BY <2>3 DEF SeekEnd, SeekStart, Seek, optionVars
    <2>5. TipConnected /\ next[walker] = NULL
      BY <2>4 DEF TipConnected
    <2>6. PICK C \in SUBSET Rec : Chain(C) /\ SeekInv(C)
      BY <2>4, <2>5, OnTheChain DEF ChainLabels
    <2>7. pc = "seekEnd"
      BY <2>4, <2>6 DEF SeekInv
    <2>8. walker \in C /\ height[walker] <= blockEnd /\ TopInv /\ blockEnd # NoEnd
      BY <2>6, <2>7 DEF SeekInv
    <2>9. walker = best
      BY <1>2, <2>5, <2>6, <2>8, ChainNext
    <2>10. height[walker] \in Int /\ blockEnd \in Nat
      BY <1>2, <2>4, <2>8, OptionAssumption DEF WalkTypeOK
    <2>11. TopInv'
      BY <1>1, <2>4, <2>8, TopKept
    <2> QED
      BY <1>2, <1>3, <2>4, <2>7, <2>8, <2>9, <2>10, <2>11
  <1> QED
    BY <1>3, <1>4, <1>5, <1>6, <1>7 DEF StopInv

LEMMA StutterStopInv == ASSUME StopInv, UNCHANGED walkAllVars PROVE StopInv'
  <1>1. /\ UNCHANGED <<parent, unread, map, genesis, blockEnd, height, pc, best>>
        /\ UNCHANGED <<tip, startHash, blockStart>>
    BY DEF walkAllVars, vars, scanVars, bestVars, optionVars
  <1>2. UNCHANGED indexVars
    BY DEF walkAllVars, vars, indexVars, bestVars
  <1>3. Live' = Live /\ TableInv' = TableInv /\ TopInv' = TopInv
        /\ \A r : Known(r)' = Known(r) /\ PrevHash(r)' = PrevHash(r)
    BY <1>1, <1>2, TableKept, TopKept
  <1>4. Covered' = Covered /\ Stopped' = Stopped /\ RootInv' = RootInv /\ FailedInv' = FailedInv
    BY <1>1, <1>3 DEF Covered, Stopped, RootInv, FailedInv
  <1> QED
    BY <1>1, <1>4 DEF StopInv

-----------------------------------------------------------------------------
(***************************************************************************)
(* The result.                                                             *)
(***************************************************************************)

\* The early stop and the loops of iterate, together.
THEOREM StopInvariance == AllStored => (WalkSpec => [](CInv /\ StopInv))
  <1> SUFFICES ASSUME AllStored PROVE WalkSpec => [](CInv /\ StopInv)
    OBVIOUS
  <1>1. WalkInit => StopInv
    BY InitStopInv
  <1>2. CInv /\ StopInv /\ [WalkNext]_walkAllVars => StopInv'
    BY IndexStopInv, IterateStopInv, StutterStopInv DEF WalkNext
  <1> QED
    BY <1>1, <1>2, WalkInvariance, PTL DEF WalkSpec

\* What the blocks gone through are when the main loop has ended.
LEMMA VisitedIsChain ==
    ASSUME CInv, pc = "done", tip = Zero
    PROVE  /\ WalkTypeOK /\ TableInv
           /\ best \in Live /\ Known(best) /\ IsLast(best)
           /\ Len(visited) = height[best] + 1
           /\ \A i \in DOMAIN visited : IdOf[visited[i]] \in Anc[IdOf[best]]
  <1>1. TipConnected /\ TableInv
    BY DEF TipConnected, CInv
  <1>2. WalkTypeOK /\ visited # <<>>
    BY <1>1, AtTheEnd
  <1>3. PICK C \in SUBSET Rec :
          /\ Chain(C) /\ SeekInv(C) /\ VisitInv(C) /\ visited[Len(visited)] = best
    BY <1>1, AtTheEnd
  <1>4. PICK n \in Nat : n = Len(visited) /\ DOMAIN visited = 1..n /\ n # 0
    BY <1>2 DEF WalkTypeOK
  <1>5. best \in Live /\ best \in Rec /\ Known(best) /\ IsLast(best) /\ IdOf[best] \in Hash
    BY <1>3, RecordAssumption DEF Chain, SeekInv, Live
  <1>6. height[best] = n - 1
    BY <1>3, <1>4 DEF VisitInv
  <1>7. \A i \in 1..n : visited[i] \in Rec
    BY <1>2, <1>4 DEF WalkTypeOK
  <1>8. Closed(Anc[IdOf[best]]) /\ IdOf[best] \in Anc[IdOf[best]]
    BY <1>2, <1>5, AncClosed DEF WalkTypeOK
  <1> DEFINE T == {n - i : i \in {j \in 1..n : IdOf[visited[j]] \notin Anc[IdOf[best]]}}
  <1>9. ASSUME T # {} PROVE FALSE
    <2>1. T \in SUBSET Nat
      OBVIOUS
    <2>2. PICK m \in T : \A k \in T : m <= k
      <3> HIDE DEF T
      <3> QED
        BY <1>9, <2>1, LeastNatural
    <2>3. PICK i \in 1..n : m = n - i /\ IdOf[visited[i]] \notin Anc[IdOf[best]]
      BY <2>2
    <2>4. i # n
      BY <1>3, <1>4, <1>8, <2>3
    <2>5. i + 1 \in 1..n /\ i \in 1..(n - 1) /\ n - (i + 1) \notin T
      BY <2>2, <2>3, <2>4
    <2>6. IdOf[visited[i + 1]] \in Anc[IdOf[best]]
      BY <2>5
    <2>7. PrevHash(visited[i + 1]) = IdOf[visited[i]] /\ IdOf[visited[i]] \in Hash
      BY <1>3, <1>4, <1>7, <2>3, <2>5, RecordAssumption DEF VisitInv
    <2> QED
      BY <1>8, <2>3, <2>6, <2>7 DEF Closed, PrevHash
  <1>10. \A i \in 1..n : IdOf[visited[i]] \in Anc[IdOf[best]]
    BY <1>9
  <1> QED
    BY <1>1, <1>2, <1>4, <1>5, <1>6, <1>10

\* If every block was read, the highest of the table ends a longest chain.
LEMMA TopIsLongest ==
    ASSUME WalkTypeOK, TableInv, \A h \in Hash : map[h] # NULL,
           tip = Zero, NEW top \in Live, IsTop(top)
    PROVE  IdOf[top] \in Longest
  <1>1. Known(top) /\ top \in Rec /\ IdOf[top] \in Hash /\ \A q \in Live : height[q] <= height[top]
    BY TopIsKnown, RecordAssumption DEF Live
  <1>2. Cardinality(Anc[IdOf[top]]) = height[top] + 1 /\ height[top] \in Int
    BY <1>1, HeightIsDepth DEF WalkTypeOK
  <1>3. ASSUME NEW g \in Hash
        PROVE  Cardinality(Anc[g]) <= Cardinality(Anc[IdOf[top]])
    <2>1. PICK q \in Live : q = map[g] /\ IdOf[q] = g /\ Known(q) /\ q \in Rec
      BY WholeTable DEF Live
    <2>2. Cardinality(Anc[g]) = height[q] + 1 /\ height[q] \in Int
      BY <2>1, HeightIsDepth DEF WalkTypeOK
    <2> QED
      BY <1>1, <1>2, <2>1, <2>2
  <1> QED
    BY <1>1, <1>3 DEF Longest

\* If the scan has stopped above --end by more than the longest fork, the block at
\* --end is before the end of a longest chain, whatever chain has stopped it.
LEMMA BelowTheForks ==
    ASSUME WalkTypeOK, TableInv, Stopped, ForksWithinMargin, tip = Zero,
           NEW top \in Live, IsTop(top), NEW b \in Live, Known(b), height[b] = blockEnd,
           IdOf[b] \in Anc[IdOf[top]]
    PROVE  \E t \in Longest : IdOf[b] \in Anc[t]
  <1>1. /\ parent \in Topologies /\ top \in Rec /\ b \in Rec
        /\ IdOf[top] \in Hash /\ IdOf[b] \in Hash /\ Margin \in Nat
    BY RecordAssumption, OptionAssumption DEF WalkTypeOK, Live
  <1>2. Known(top) /\ \A q \in Live : height[q] <= height[top]
    BY TopIsKnown
  <1>3. height[top] \in Int /\ blockEnd \in Int /\ blockEnd + Margin < height[top]
    <2>1. PICK r \in Live : Known(r) /\ height[r] > blockEnd + Margin
      BY DEF Stopped
    <2>2. r \in Rec /\ blockEnd \in Nat
      BY <2>1, OptionAssumption DEF Live, Stopped, WalkTypeOK
    <2> QED
      BY <1>1, <1>2, <2>1, <2>2 DEF WalkTypeOK
  <1>4. PICK t \in Longest : Cardinality(Anc[IdOf[top]] \ Anc[t]) <= Margin
    BY <1>1 DEF ForksWithinMargin
  <1>5. t \in Hash
    BY DEF Longest
  <1>6. ASSUME IdOf[b] \notin Anc[t] PROVE FALSE
    <2>1. PICK X : X = Anc[IdOf[top]]
      OBVIOUS
    <2>2. PICK D : D = X \ Anc[t]
      OBVIOUS
    <2>3. PICK E : E = Anc[IdOf[b]] \ {IdOf[b]}
      OBVIOUS
    <2>4. X \subseteq D \cup E
      <3> SUFFICES ASSUME NEW x \in X, x \in Anc[t] PROVE x \in E
        BY <2>2
      <3>1. x \in Hash
        BY <1>1, <2>1, AncOlder
      <3>2. x \in Anc[IdOf[b]] \/ IdOf[b] \in Anc[x]
        BY <1>1, <2>1, AncLinear
      <3>3. IdOf[b] \notin Anc[x]
        BY <1>1, <1>5, <1>6, AncTransitive
      <3>4. x # IdOf[b]
        BY <1>6
      <3> QED
        BY <2>3, <3>2, <3>3, <3>4
    <2>5. IsFiniteSet(X) /\ IsFiniteSet(Anc[IdOf[b]])
      BY <1>1, <2>1, AncCount
    <2>6. Cardinality(X) = height[top] + 1 /\ Cardinality(Anc[IdOf[b]]) = blockEnd + 1
      BY <1>2, <2>1, HeightIsDepth
    <2>7. IsFiniteSet(D) /\ Cardinality(D) \in Nat /\ Cardinality(D) <= Margin
      BY <1>4, <2>1, <2>2, <2>5, FS_Subset, FS_CardinalityType
    <2>8. IsFiniteSet(E) /\ Cardinality(E) = blockEnd
      <3>1. IdOf[b] \in Anc[IdOf[b]]
        BY <1>1, AncClosed
      <3>2. IsFiniteSet(E) /\ Cardinality(E) = Cardinality(Anc[IdOf[b]]) - 1
        BY <2>3, <2>5, <3>1, FS_RemoveElement
      <3> QED
        BY <1>3, <2>6, <3>2
    <2>9. IsFiniteSet(D \cup E) /\ Cardinality(D \cup E) <= Cardinality(D) + Cardinality(E)
      <3>1. /\ IsFiniteSet(D \cup E) /\ IsFiniteSet(D \cap E)
            /\ Cardinality(D \cup E) = Cardinality(D) + Cardinality(E) - Cardinality(D \cap E)
        BY <2>7, <2>8, FS_Union, FS_Intersection
      <3>2. Cardinality(D \cap E) \in Nat
        BY <3>1, FS_CardinalityType
      <3> QED
        BY <1>3, <2>7, <2>8, <3>1, <3>2
    <2>10. Cardinality(X) <= Cardinality(D \cup E) /\ Cardinality(D \cup E) \in Nat
      BY <2>4, <2>9, FS_Subset, FS_CardinalityType
    <2> QED
      BY <1>1, <1>3, <2>6, <2>7, <2>8, <2>9, <2>10
  <1> QED
    BY <1>4, <1>6

\* A run with --end that abandons the scan goes through the blocks it would have
\* gone through without that: those of a longest chain of all the files.
THEOREM EarlyStopIsExact == AllStored => (WalkSpec => []EarlyStopExact)
  <1>1. ASSUME CInv, StopInv,
               Ended, blockEnd # NoEnd, tip = Zero, startHash = Zero, blockStart = 0,
               ForksWithinMargin, NEW l \in Longest, Cardinality(Anc[l]) > blockEnd
        PROVE  /\ pc = "done"
               /\ Len(visited) = blockEnd + 1
               /\ \A i \in DOMAIN visited : \E t \in Longest : IdOf[visited[i]] \in Anc[t]
    <2>1. /\ TipConnected /\ WalkTypeOK /\ parent \in Topologies /\ blockEnd \in Nat
          /\ Margin \in Nat /\ l \in Hash
      BY <1>1, OptionAssumption DEF TipConnected, CInv, WalkTypeOK, Longest
    <2>2. unread = {} /\ ((\A h \in Hash : map[h] # NULL) \/ Stopped)
      BY <1>1 DEF StopInv, Covered, Ended, IndexLabels
    <2>3. pc # "wild"
      BY <1>1, <2>1 DEF CInv, ChainPart
    <2>4. pc # "failed"
      <3> SUFFICES ASSUME pc = "failed" PROVE FALSE
        OBVIOUS
      <3>1. TableInv /\ TopInv /\ height[best] < blockEnd
        BY <1>1, <2>1 DEF StopInv, FailedInv
      <3>2. best \in Rec /\ height[best] \in Int /\ \A q \in Live : height[q] <= height[best]
        BY <1>1, <2>1, <3>1 DEF TopInv, IsTop, Live, WalkTypeOK
      <3>3. CASE Stopped
        <4>1. PICK r \in Live : height[r] > blockEnd + Margin
          BY <3>3 DEF Stopped
        <4>2. height[r] \in Int
          BY <2>1, <4>1 DEF WalkTypeOK, Live
        <4> QED
          BY <2>1, <3>1, <3>2, <4>1, <4>2
      <3>4. CASE \A h \in Hash : map[h] # NULL
        <4>1. PICK q \in Live : q = map[l] /\ IdOf[q] = l /\ Known(q) /\ q \in Rec
          BY <2>1, <3>1, <3>4, WholeTable DEF Live
        <4>2. Cardinality(Anc[l]) = height[q] + 1 /\ height[q] \in Int
          BY <2>1, <3>1, <4>1, HeightIsDepth DEF WalkTypeOK
        <4> QED
          BY <1>1, <2>1, <3>1, <3>2, <4>1, <4>2
      <3> QED
        BY <2>2, <3>3, <3>4
    <2>5. pc = "done"
      BY <1>1, <2>3, <2>4 DEF Ended
    <2>6. /\ TableInv /\ best \in Live /\ Known(best) /\ IsLast(best)
          /\ Len(visited) = height[best] + 1
          /\ \A i \in DOMAIN visited : IdOf[visited[i]] \in Anc[IdOf[best]]
      BY <1>1, <2>5, VisitedIsChain
    <2>7. PICK top \in Live : IsTop(top) /\ height[best] = blockEnd /\ IdOf[best] \in Anc[IdOf[top]]
      BY <1>1, <2>6 DEF IsLast, IsAtHeight
    <2>8. PICK t \in Longest : IdOf[best] \in Anc[t]
      <3>1. CASE Stopped
        BY <1>1, <2>1, <2>6, <2>7, <3>1, BelowTheForks
      <3>2. CASE \A h \in Hash : map[h] # NULL
        BY <1>1, <2>1, <2>6, <2>7, <3>2, TopIsLongest
      <3> QED
        BY <2>2, <3>1, <3>2
    <2>9. Anc[IdOf[best]] \subseteq Anc[t]
      BY <2>1, <2>8, AncTransitive DEF Longest
    <2> QED
      BY <2>5, <2>6, <2>7, <2>8, <2>9
  <1>2. CInv /\ StopInv => EarlyStopExact
    BY <1>1 DEF EarlyStopExact
  <1> QED
    BY <1>2, StopInvariance, PTL
=============================================================================
