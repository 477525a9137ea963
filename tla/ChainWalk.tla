----------------------------- MODULE ChainWalk -----------------------------
(***************************************************************************)
(* From the block index to the blocks the callbacks see: the options that  *)
(* choose the chain and its two ends (iterate.c: set_blockchain_end,       *)
(* set_blockchain_start, link_blocks, set_iteration_end,                   *)
(* set_iteration_start) and the main loop of iterate, without the          *)
(* transactions.  The next pointers are those that the walks of set_height *)
(* have left behind.                                                       *)
(***************************************************************************)
EXTENDS BlockIndex, SequencesExt

CONSTANTS
    Tips,        \* the values of --end-hash, Zero when not given
    StartHashes, \* the values of --start-hash, Zero when not given
    Starts       \* the values of --start, 0 when not given

ASSUME WalkAssumption ==
    /\ Tips \subseteq Hash \cup {Zero}
    /\ StartHashes \subseteq Hash \cup {Zero}
    /\ Starts \subseteq Nat

\* The files have the blocks of one network: of these only the genesis block
\* commits to no other.
ASSUME GenesisAssumption ==
    \A t \in Topologies : \A r, q \in Rec :
        t[IdOf[r]] = Zero /\ t[IdOf[q]] = Zero => IdOf[r] = IdOf[q]

VARIABLES
    tip, startHash, blockStart, \* the options, read when they are first used
    start,    \* the block to start at; NULL once it has been reached
    walker,   \* b, the block that the loop in progress looks at
    link,     \* link_blocks' next
    visited,  \* the blocks the main loop has gone through
    emitted   \* those it has handed to blockfn

optionVars == <<tip, startHash, blockStart>>
loopVars == <<walker, link, visited, emitted>>
walkAllVars == <<vars, optionVars, start, loopVars>>

WalkInit ==
    /\ Init
    /\ tip = Zero /\ startHash = Zero /\ blockStart = 0
    /\ start = NULL /\ walker = NULL /\ link = NULL
    /\ visited = <<>> /\ emitted = <<>>

Index == IndexNext /\ UNCHANGED <<optionVars, start, loopVars>>

\* What stays as it is from the end of the index on, next and best apart.
indexVars == <<parent, scanVars, height, walkVars, todo>>

(***************************************************************************)
(* The end and the start of the chain, by hash.  An unknown hash is an     *)
(* error; a block whose chain does not lead to genesis is not.             *)
(***************************************************************************)
SetBlockchainEnd ==
    /\ pc = "indexed"
    /\ tip' \in Tips
    /\ best' = IF tip' = Zero THEN best ELSE map[tip']
    /\ pc' = IF best' = NULL THEN "failed" ELSE "setStart"
    /\ UNCHANGED <<indexVars, next, startHash, blockStart, start, loopVars>>

SetBlockchainStart ==
    /\ pc = "setStart"
    /\ startHash' \in StartHashes
    /\ start' = IF startHash' = Zero THEN genesis ELSE map[startHash']
    /\ pc' = IF start' = NULL THEN "failed" ELSE "link"
    /\ walker' = best /\ link' = NULL
    /\ UNCHANGED <<indexVars, next, best, tip, blockStart, visited, emitted>>

(***************************************************************************)
(* link_blocks: from best back to a block with no previous one, which is   *)
(* not genesis when best's chain has a gap.                                *)
(***************************************************************************)
NextOf(b, l) == [next EXCEPT ![b] = l]

LinkBlockToBest ==
    /\ pc = "link"
    /\ walker # NULL
    /\ next' = NextOf(walker, link)
    /\ link' = best
    /\ walker' = Get(map, PrevHash(walker))
    /\ UNCHANGED <<indexVars, pc, best, optionVars, start, visited, emitted>>

LinkBlockInPlace ==
    /\ pc = "link"
    /\ walker # NULL
    /\ next' = NextOf(walker, link)
    /\ link' = walker
    /\ walker' = walker
    /\ UNCHANGED <<indexVars, pc, best, optionVars, start, visited, emitted>>

LinkBlock ==
    /\ pc = "link"
    /\ walker # NULL
    /\ next' = NextOf(walker, link)
    /\ link' = walker
    /\ walker' = Get(map, PrevHash(walker))
    /\ UNCHANGED <<indexVars, pc, best, optionVars, start, visited, emitted>>

LinkDone ==
    /\ pc = "link"
    /\ walker = NULL
    /\ pc' = IF blockEnd = NoEnd THEN "chooseStart" ELSE "seekEnd"
    /\ walker' = genesis
    /\ UNCHANGED <<indexVars, next, best, optionVars, start, link, visited, emitted>>

(***************************************************************************)
(* The loops of set_iteration_end and set_iteration_start follow next from *)
(* genesis to a height.                                                    *)
(***************************************************************************)
SeekPast(h) ==
    /\ walker \in Rec
    /\ pc' = IF next[walker] = NULL THEN "failed" ELSE pc
    /\ walker' = next[walker]
    /\ UNCHANGED <<indexVars, next, best, optionVars, start, link, visited, emitted>>

Seek(h) ==
    /\ walker \in Rec
    /\ height[walker] # h
    /\ pc' = IF next[walker] = NULL THEN "failed" ELSE pc
    /\ walker' = next[walker]
    /\ UNCHANGED <<indexVars, next, best, optionVars, start, link, visited, emitted>>

SeekEnd == pc = "seekEnd" /\ Seek(blockEnd)

FoundEndKeepNext ==
    /\ pc = "seekEnd"
    /\ walker \in Rec
    /\ height[walker] = blockEnd
    /\ best' = walker
    /\ pc' = "chooseStart"
    /\ walker' = genesis
    /\ UNCHANGED <<indexVars, next, optionVars, start, link, visited, emitted>>

FoundEnd ==
    /\ pc = "seekEnd"
    /\ walker \in Rec
    /\ height[walker] = blockEnd
    /\ best' = walker
    /\ next' = [next EXCEPT ![walker] = NULL]
    /\ pc' = "chooseStart"
    /\ walker' = genesis
    /\ UNCHANGED <<indexVars, optionVars, start, link, visited, emitted>>

ChooseStart ==
    /\ pc = "chooseStart"
    /\ blockStart' \in Starts
    /\ pc' = IF blockStart' = 0 THEN "walk" ELSE "seekStart"
    /\ UNCHANGED <<indexVars, next, best, tip, startHash, start, loopVars>>

SeekStart == pc = "seekStart" /\ Seek(blockStart)

FoundStart ==
    /\ pc = "seekStart"
    /\ walker \in Rec
    /\ height[walker] = blockStart
    /\ start' = walker
    /\ pc' = "walk"
    /\ walker' = genesis
    /\ UNCHANGED <<indexVars, next, best, optionVars, link, visited, emitted>>

(***************************************************************************)
(* The main loop: every block from genesis on is gone through, and handed  *)
(* to the callbacks once start has been reached.                           *)
(***************************************************************************)
StartAfterVisit(b) == IF b = start THEN NULL ELSE start

VisitAfterTest ==
    /\ pc = "walk"
    /\ walker \in Rec
    /\ start' = StartAfterVisit(walker)
    /\ visited' = Append(visited, walker)
    /\ emitted' = IF start = NULL THEN Append(emitted, walker) ELSE emitted
    /\ walker' = next[walker]
    /\ UNCHANGED <<indexVars, next, best, pc, optionVars, link>>

Visit ==
    /\ pc = "walk"
    /\ walker \in Rec
    /\ start' = StartAfterVisit(walker)
    /\ visited' = Append(visited, walker)
    /\ emitted' = IF start' = NULL THEN Append(emitted, walker) ELSE emitted
    /\ walker' = next[walker]
    /\ UNCHANGED <<indexVars, next, best, pc, optionVars, link>>

VisitDone ==
    /\ pc = "walk"
    /\ walker = NULL
    /\ pc' = "done"
    /\ UNCHANGED <<indexVars, next, best, optionVars, start, loopVars>>

(***************************************************************************)
(* A loop reads through a pointer that nobody wrote.  The behaviour of the *)
(* program is then undefined: the model stops here.                        *)
(***************************************************************************)
FollowJunk ==
    /\ pc \in {"seekEnd", "seekStart", "walk"}
    /\ walker = Junk
    /\ pc' = "wild"
    /\ UNCHANGED <<indexVars, next, best, optionVars, start, loopVars>>

Iterate ==
    \/ SetBlockchainEnd \/ SetBlockchainStart
    \/ LinkBlock \/ LinkDone
    \/ SeekEnd \/ FoundEnd \/ ChooseStart \/ SeekStart \/ FoundStart
    \/ Visit \/ VisitDone \/ FollowJunk

Ended == pc \in {"failed", "done", "wild"}

WalkNext == Index \/ Iterate \/ (Ended /\ UNCHANGED walkAllVars)

WalkSpec == WalkInit /\ [][WalkNext]_walkAllVars
FairWalkSpec == WalkSpec /\ WF_walkAllVars(Index \/ Iterate)

-----------------------------------------------------------------------------
(***************************************************************************)
(* Properties.                                                             *)
(***************************************************************************)

\* Anc[h]: h and the blocks before it.
Anc[h \in Hash] == {h} \cup (IF parent[h] \in Hash THEN Anc[parent[h]] ELSE {})

\* The chain the options ask for leads to genesis.  It always does without
\* --end-hash; no check in the program makes sure that it does with it.
TipConnected == tip # Zero /\ map[tip] # NULL => Known(map[tip])

\* The block with the height h on the chain that ends with top.
IsAtHeight(b, h, top) == height[b] = h /\ IdOf[b] \in Anc[IdOf[top]]

IsTop(r) ==
    IF tip # Zero THEN r = map[tip]
    ELSE r \in Live /\ \A q \in Live : height[q] <= height[r]

IsLast(b) ==
    \E top \in Live :
        /\ IsTop(top)
        /\ IF blockEnd = NoEnd THEN b = top ELSE IsAtHeight(b, blockEnd, top)

\* The main loop goes through one chain from genesis, without a gap, whatever
\* next pointers set_height and an earlier process left, and it ends at the
\* block asked for: --end on the chain of --end-hash, or of the longest chain.
ChainVisited ==
    pc = "done" /\ TipConnected =>
        /\ visited # <<>>
        /\ visited[1] = genesis
        /\ \A i \in 1..(Len(visited) - 1) : PrevHash(visited[i + 1]) = IdOf[visited[i]]
        /\ IsLast(Last(visited))

StartIsAt(i) ==
    IF blockStart # 0 THEN height[visited[i]] = blockStart
    ELSE IF startHash # Zero THEN IdOf[visited[i]] = startHash
    ELSE i = 1

\* The callbacks see that chain from the first block asked for, --start before
\* --start-hash, to its end; a --start-hash off the chain shows them nothing.
\* (Where --end-hash has no chain to genesis they may be shown nothing although the
\* block is gone through, as a struct that block_map no longer has.)
ChainEmitted ==
    pc = "done" /\ TipConnected =>
        IF \E i \in DOMAIN visited : StartIsAt(i)
        THEN emitted = SubSeq(visited, CHOOSE i \in DOMAIN visited : StartIsAt(i), Len(visited))
        ELSE emitted = <<>> /\ blockStart = 0

\* It gives up only for a reason: there is no genesis block, a hash is not in
\* the table, or a height is above the end of the chain; and it leaves the chain
\* that it has linked only for an --end-hash that has no chain to genesis.
ExitJustified ==
    TipConnected =>
        /\ walker # Junk /\ pc # "wild"
        /\ pc = "failed" =>
              \/ genesis = NULL
              \/ tip # Zero /\ map[tip] = NULL
              \/ startHash # Zero /\ map[startHash] = NULL
              \/ blockEnd # NoEnd /\ best # NULL /\ height[best] < blockEnd
              \/ best # NULL /\ height[best] < blockStart

\* The blocks whose chain to the oldest block we know of is the longest.
Longest == {h \in Hash : \A g \in Hash : Cardinality(Anc[g]) <= Cardinality(Anc[h])}

ForksWithinMargin ==
    \A h \in Hash : \E top \in Longest : Cardinality(Anc[h] \ Anc[top]) <= Margin

\* A scan that stops early because of --end loses nothing: if no fork is longer
\* than the margin, the blocks gone through are those of the longest chain of
\* all the files, the ones never read included, up to --end.
EarlyStopExact ==
    /\ Ended /\ blockEnd # NoEnd
    /\ tip = Zero /\ startHash = Zero /\ blockStart = 0
    /\ ForksWithinMargin
    /\ \E h \in Longest : Cardinality(Anc[h]) > blockEnd
    =>
    /\ pc = "done"
    /\ Len(visited) = blockEnd + 1
    /\ \A i \in DOMAIN visited : \E top \in Longest : IdOf[visited[i]] \in Anc[top]

\* What the manual says of the option: "Stop iteration at this block hash."
EndHashIsLast ==
    pc \in {"done", "wild"} /\ tip # Zero /\ blockEnd = NoEnd =>
        visited # <<>> /\ IdOf[Last(visited)] = tip

\* Every run ends, the loops over next included.
WalkTermination == <>Ended

\* iterate() keeps the promise of Iteration.
Promise == INSTANCE Iteration WITH
    Blocks <- Rec,
    follows <- {pair \in Rec \X Rec : PrevHash(pair[2]) = IdOf[pair[1]]},
    emitted <- emitted,
    ended <- Ended

KeepsPromise == Promise!Spec
=============================================================================
