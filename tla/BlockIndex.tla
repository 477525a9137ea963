----------------------------- MODULE BlockIndex -----------------------------
(***************************************************************************)
(* The block index of bitcoin-iterate: how the blocks found in the block   *)
(* files, in whatever order bitcoind stored them, are put in a hash table  *)
(* (block.c: add_block), given their heights (block.c: set_height) and how *)
(* the highest one is found (iterate.c: set_heights_and_best).             *)
(*                                                                         *)
(* A struct block is an element of Rec, one per block record of the block  *)
(* files; a pointer is a Rec, NULL, or Junk, the value of a pointer field  *)
(* no one has written: tal() does not clear the struct, and a struct read  *)
(* back from the block cache holds a pointer of the process that wrote it. *)
(* Two records may have the same id: bitcoind can store a block twice.     *)
(***************************************************************************)
EXTENDS Integers, FiniteSets

CONSTANTS
    Hash,        \* block ids
    Zero,        \* the all-zero hash, prev_hash of the genesis block
    Rank,        \* Rank[h]: when h was mined; a header commits to an older one
    Topologies,  \* the possible maps from an id to its prev_hash
    Rec,         \* the struct blocks
    IdOf,        \* IdOf[r]: b->id
    NULL, Junk,
    Ends,        \* the values of --end to consider
    NoEnd,       \* its default, -1UL
    MissPeriod,  \* how many misses between two attempts to recurse: 1000
    Margin       \* how far past --end the scan goes: 100

ASSUME TopologyAssumption ==
    /\ Rank \in [Hash -> Nat]
    /\ Zero \notin Hash
    /\ Topologies # {}
    /\ \A t \in Topologies :
          /\ t \in [Hash -> Hash \cup {Zero}]
          /\ \A h \in Hash : t[h] # Zero => Rank[t[h]] < Rank[h]

ASSUME RecordAssumption ==
    /\ IdOf \in [Rec -> Hash]
    /\ NULL \notin Rec /\ Junk \notin Rec /\ NULL # Junk

ASSUME OptionAssumption ==
    /\ NoEnd \notin Nat
    /\ Ends \subseteq Nat \cup {NoEnd}
    /\ MissPeriod \in Nat \ {0}
    /\ Margin \in Nat

VARIABLES
    parent,   \* prev_hash of each id: fixed, chosen in Init
    blockEnd, \* --end of the running process
    source,   \* where its blocks come from: the block files or the block cache
    unread,   \* the structs not read yet
    map,      \* block_map: map[h] is the struct with id h, or NULL
    height,   \* b->height, -1 for unknown
    next,     \* b->next
    genesis,  \* *genesis
    misses,   \* num_misses
    pc,       \* which loop the program is in
    caller,   \* who called set_height: "add" (add_block) or "best"
    target,   \* set_height's argument b
    cur,      \* set_height's i
    prev,     \* set_height's prev
    todo,     \* the blocks set_heights_and_best has yet to visit
    best      \* iterate's best

scanVars == <<source, unread, map, genesis, misses, blockEnd>>
walkVars == <<caller, target, cur, prev>>
bestVars == <<todo, best>>
vars == <<parent, scanVars, height, next, pc, walkVars, bestVars>>

Pointer == Rec \cup {NULL, Junk}

(***************************************************************************)
(* block_map_get.  prev_hash may be Zero, which is the id of no block.     *)
(***************************************************************************)
Get(m, h) == IF h \in Hash THEN m[h] ELSE NULL

PrevHash(r) == parent[IdOf[r]]

\* The structs block_map holds.
Live == {r \in Rec : map[IdOf[r]] = r}

Known(r) == height[r] # -1

-----------------------------------------------------------------------------
Init ==
    /\ parent \in Topologies
    /\ blockEnd \in Ends
    /\ source = "files"
    /\ unread = Rec
    /\ map = [h \in Hash |-> NULL]
    /\ height = [r \in Rec |-> -1]
    /\ next = [r \in Rec |-> Junk]
    /\ genesis = NULL
    /\ misses = 0
    /\ pc = "read"
    /\ caller = "none"
    /\ target = NULL /\ cur = NULL /\ prev = NULL
    /\ todo = {} /\ best = NULL

(***************************************************************************)
(* The height of the child of a block of known height.                     *)
(***************************************************************************)
HeightUnderSame(p) == height[p]
HeightUnder(p) == height[p] + 1

(***************************************************************************)
(* read_blockfiles abandons the scan, and with it the remaining files, at  *)
(* the first block well above --end.  A scan of the cache never does.      *)
(***************************************************************************)
StopsAtEnd(h) == source = "files" /\ blockEnd # NoEnd /\ h > blockEnd
StopsAt(h) == source = "files" /\ blockEnd # NoEnd /\ h > blockEnd + Margin

\* What is left to read once add_block(r) has returned true.
UnreadAfter(left, h) == IF StopsAt(h) THEN {} ELSE left

(***************************************************************************)
(* add_block, one action for each of its ways through.  Each replaces the  *)
(* struct block_map had for that id, so that a block found twice is        *)
(* indexed by its last record.                                             *)
(***************************************************************************)

Replace(r) ==
    /\ pc = "read"
    /\ r \in unread
    /\ map' = [map EXCEPT ![IdOf[r]] = r]
    /\ UNCHANGED <<parent, blockEnd, source, bestVars>>

AddGenesis(r) ==
    /\ Replace(r)
    /\ PrevHash(r) = Zero
    /\ genesis' = r
    /\ height' = [height EXCEPT ![r] = 0]
    /\ misses' = 0
    /\ unread' = UnreadAfter(unread \ {r}, 0)
    /\ UNCHANGED <<next, pc, walkVars>>

AddAbove(r) ==
    LET p == Get(map', PrevHash(r)) IN
    /\ Replace(r)
    /\ p # NULL
    /\ Known(p)
    /\ height' = [height EXCEPT ![r] = HeightUnder(p)]
    /\ misses' = 0
    /\ unread' = UnreadAfter(unread \ {r}, HeightUnder(p))
    /\ UNCHANGED <<genesis, next, pc, walkVars>>

\* The previous block is there, its height is not: one miss in MissPeriod
\* calls set_height. A struct from the cache that has a height already would
\* return from it at once: lemma MissIsUnknown shows that there is none here.
AddMiss(r) ==
    LET p == Get(map', PrevHash(r)) IN
    /\ Replace(r)
    /\ p # NULL
    /\ ~Known(p)
    /\ unread' = unread \ {r}
    /\ \/ /\ misses % MissPeriod = 0
          /\ ~Known(r)
          /\ misses' = misses + 1
          /\ pc' = "back"
          /\ caller' = "add"
          /\ target' = r /\ cur' = r /\ prev' = NULL
       \/ /\ misses % MissPeriod # 0
          /\ misses' = misses + 1
          /\ UNCHANGED <<pc, walkVars>>
    /\ UNCHANGED <<genesis, height, next>>

AddOrphan(r) ==
    /\ Replace(r)
    /\ PrevHash(r) # Zero
    /\ Get(map', PrevHash(r)) = NULL
    /\ unread' = unread \ {r}
    /\ UNCHANGED <<genesis, height, next, misses, pc, walkVars>>

ReadBlock == \E r \in Rec : AddGenesis(r) \/ AddAbove(r) \/ AddMiss(r) \/ AddOrphan(r)

-----------------------------------------------------------------------------
(***************************************************************************)
(* set_height(target), one action for each turn of its two loops.  The     *)
(* first follows prev_hash back to a block of known height, and makes each *)
(* block's next point at the one it came from; the second follows next     *)
(* forward again and sets the heights.                                     *)
(***************************************************************************)
StepBackInPlace ==
    LET p == Get(map, PrevHash(cur)) IN
    /\ pc = "back"
    /\ p # NULL
    /\ ~Known(p)
    /\ next' = [next EXCEPT ![p] = cur]
    /\ UNCHANGED <<parent, scanVars, height, pc, walkVars, bestVars>>

StepBack ==
    LET p == Get(map, PrevHash(cur)) IN
    /\ pc = "back"
    /\ p # NULL
    /\ ~Known(p)
    /\ next' = [next EXCEPT ![p] = cur]
    /\ cur' = p
    /\ UNCHANGED <<parent, scanVars, height, pc, caller, target, prev, bestVars>>

TurnWithoutNull ==
    LET p == Get(map, PrevHash(cur)) IN
    /\ pc = "back"
    /\ p # NULL
    /\ Known(p)
    /\ next' = [next EXCEPT ![p] = cur]
    /\ prev' = p
    /\ pc' = "forward"
    /\ UNCHANGED <<parent, scanVars, height, caller, target, cur, bestVars>>

\* The last turn of the first loop, and b->next = NULL; i = prev->next.
Turn ==
    LET p == Get(map, PrevHash(cur)) IN
    /\ pc = "back"
    /\ p # NULL
    /\ Known(p)
    /\ next' = [next EXCEPT ![p] = cur, ![target] = NULL]
    /\ prev' = p
    /\ pc' = "forward"
    /\ UNCHANGED <<parent, scanVars, height, caller, target, cur, bestVars>>

StepForwardSamePrev ==
    /\ pc = "forward"
    /\ cur \in Rec
    /\ height' = [height EXCEPT ![cur] = HeightUnder(prev)]
    /\ cur' = next[cur]
    /\ UNCHANGED <<parent, scanVars, next, pc, caller, target, prev, bestVars>>

StepForward ==
    /\ pc = "forward"
    /\ cur \in Rec
    /\ height' = [height EXCEPT ![cur] = HeightUnder(prev)]
    /\ prev' = cur
    /\ cur' = next[cur]
    /\ UNCHANGED <<parent, scanVars, next, pc, caller, target, bestVars>>

(***************************************************************************)
(* set_height returns to add_block, which resets the misses if it got a    *)
(* height, or to set_heights_and_best, which compares target with best.    *)
(***************************************************************************)
Return == caller' = "none" /\ target' = NULL /\ cur' = NULL /\ prev' = NULL

ReturnToAdd ==
    /\ caller = "add"
    /\ \/ /\ pc = "forward" /\ cur = NULL
          /\ misses' = 0
          /\ unread' = UnreadAfter(unread, height[target])
       \/ /\ pc = "back" /\ Get(map, PrevHash(cur)) = NULL
          /\ UNCHANGED <<misses, unread>>
    /\ pc' = "read"
    /\ Return
    /\ UNCHANGED <<parent, blockEnd, source, map, genesis, height, next, bestVars>>

\* if (b->height > (*best)->height) *best = b;
BetterOfFirst(b, r) == b
BetterOf(b, r) == IF height[r] > height[b] THEN r ELSE b

ReturnToBest ==
    /\ caller = "best"
    /\ \/ pc = "forward" /\ cur = NULL
       \/ pc = "back" /\ Get(map, PrevHash(cur)) = NULL
    /\ best' = BetterOf(best, target)
    /\ pc' = "best"
    /\ Return
    /\ UNCHANGED <<parent, scanVars, height, next, todo>>

SetHeight == StepBack \/ Turn \/ StepForward \/ ReturnToAdd \/ ReturnToBest

-----------------------------------------------------------------------------
(***************************************************************************)
(* The scan ends.  Without a genesis block read_blockchain gives up;       *)
(* otherwise set_heights_and_best visits the whole table, in the order of  *)
(* its buckets, which is any order.                                        *)
(***************************************************************************)
FinishScan ==
    /\ pc = "read"
    /\ unread = {}
    /\ \/ genesis = NULL /\ pc' = "failed" /\ UNCHANGED bestVars
       \/ genesis # NULL /\ pc' = "best" /\ best' = genesis /\ todo' = Live
    /\ UNCHANGED <<parent, scanVars, height, next, walkVars>>

(***************************************************************************)
(* A whole scan was written to the block cache, and a later process reads  *)
(* the cache instead of the block files.  It gets the structs as they were *)
(* at that moment, before set_heights_and_best: some have no height, and   *)
(* every next is an address of the process that is gone.                   *)
(***************************************************************************)
RestartFromCache ==
    /\ pc = "read"
    /\ unread = {}
    /\ source = "files"
    /\ blockEnd = NoEnd
    /\ source' = "cache"
    /\ blockEnd' \in Ends
    /\ unread' = Live
    /\ map' = [h \in Hash |-> NULL]
    /\ next' = [r \in Rec |-> Junk]
    /\ genesis' = NULL
    /\ misses' = 0
    /\ UNCHANGED <<parent, height, pc, walkVars, bestVars>>

VisitKnown(r) ==
    /\ pc = "best"
    /\ r \in todo
    /\ Known(r)
    /\ todo' = todo \ {r}
    /\ best' = BetterOf(best, r)
    /\ UNCHANGED <<parent, scanVars, height, next, pc, walkVars>>

VisitUnknownNoCall(r) ==
    /\ pc = "best"
    /\ r \in todo
    /\ ~Known(r)
    /\ todo' = todo \ {r}
    /\ UNCHANGED <<parent, scanVars, height, next, pc, walkVars, best>>

VisitUnknown(r) ==
    /\ pc = "best"
    /\ r \in todo
    /\ ~Known(r)
    /\ todo' = todo \ {r}
    /\ pc' = "back"
    /\ caller' = "best"
    /\ target' = r /\ cur' = r /\ prev' = NULL
    /\ UNCHANGED <<parent, scanVars, height, next, best>>

FinishVisit ==
    /\ pc = "best"
    /\ todo = {}
    /\ pc' = "indexed"
    /\ UNCHANGED <<parent, scanVars, height, next, walkVars, bestVars>>

SetHeightsAndBest == FinishVisit \/ \E r \in Rec : VisitKnown(r) \/ VisitUnknown(r)

IndexNext ==
    ReadBlock \/ SetHeight \/ FinishScan \/ RestartFromCache \/ SetHeightsAndBest

\* The process has stopped, or the index is ready for what follows it.
IndexDone == pc \in {"failed", "indexed"} /\ UNCHANGED vars

Next == IndexNext \/ IndexDone

Spec == Init /\ [][Next]_vars
FairSpec == Spec /\ WF_vars(IndexNext)

-----------------------------------------------------------------------------
(***************************************************************************)
(* Properties.                                                             *)
(***************************************************************************)

\* The type of every variable; map[h] is a struct whose id is h.
TypeOK ==
    /\ parent \in Topologies
    /\ blockEnd \in Ends
    /\ source \in {"files", "cache"}
    /\ unread \subseteq Rec
    /\ map \in [Hash -> Rec \cup {NULL}]
    /\ \A h \in Hash : map[h] # NULL => IdOf[map[h]] = h
    /\ height \in [Rec -> Nat \cup {-1}]
    /\ next \in [Rec -> Pointer]
    /\ genesis \in Rec \cup {NULL}
    /\ misses \in Nat
    /\ pc \in {"read", "back", "forward", "best", "indexed", "failed"}
    /\ caller \in {"none", "add", "best"}
    /\ target \in Rec \cup {NULL}
    /\ cur \in Pointer
    /\ prev \in Rec \cup {NULL}
    /\ todo \subseteq Rec
    /\ best \in Rec \cup {NULL}

\* The structs that hold a height someone may still read: those of the table
\* and, when the blocks come from the cache, those yet to be added to it.
Pool == Live \cup (IF source = "cache" THEN unread ELSE {})

\* Whatever the order of the records, the duplicates, the walks cut short and
\* the process that computed it, a known height is the distance from genesis:
\* 0 for a genesis block, one more than that of the previous block otherwise.
HasHeight(r) ==
    \/ PrevHash(r) = Zero /\ height[r] = 0
    \/ \E p \in Pool : /\ IdOf[p] = PrevHash(r)
                       /\ Known(p)
                       /\ height[r] = height[p] + 1

HeightsLinked == \A r \in Pool : Known(r) => HasHeight(r)

\* No loop of set_height follows a next that this process has not written:
\* each walk forward stays on the path that its walk back has just marked.
NoWildPointer == cur # Junk

\* The heights are complete before anyone asks for the best block: one is
\* missing only where the previous block is missing, or has none either.
HeightsComplete ==
    pc = "indexed" =>
        \A r \in Live : ~Known(r) =>
            /\ PrevHash(r) # Zero
            /\ \A p \in Live : IdOf[p] = PrevHash(r) => ~Known(p)

\* The best block is the highest of the whole table, those included whose
\* heights were set by a walk that started above them.
BestIsHighest ==
    pc = "indexed" =>
        /\ best \in Live /\ Known(best)
        /\ \A r \in Live : height[r] <= height[best]

\* No struct ever gets a second height: not from the walks of set_height
\* that cross it, nor from add_block when it comes back from the cache.
HeightsStable == [][\A r \in Rec : Known(r) => height'[r] = height[r]]_vars

\* Every run comes to an index or to the error exit: no walk goes in circles.
Termination == <>(pc \in {"indexed", "failed"})
=============================================================================
