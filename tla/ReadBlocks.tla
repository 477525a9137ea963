----------------------------- MODULE ReadBlocks -----------------------------
(***************************************************************************)
(* The block files from the directory to the transactions:                 *)
(* block_filenames lists them, read_blockfiles scans each of them for      *)
(* blocks, and the main loop of iterate comes back for the transactions of *)
(* the blocks of a chain, in an order of its own.                          *)
(***************************************************************************)
EXTENDS TxParse

CONSTANT Directories \* the sets of files that there may be

ASSUME FilesAssumption ==
    /\ FileName \subseteq NameType /\ NULL \notin FileName \cup Nat
    /\ \A d \in Directories : d \subseteq FileName

VARIABLES
    dir,     \* the names the directory has
    unlisted, \* those readdir has still to return
    pc,
    file,    \* i of read_blockfiles
    found,   \* the blocks it has handed to add_block, in order
    current, \* b of iterate, an index of found
    txs,     \* the transactions of b that have been read
    iterated \* the blocks that have been read

scanVars == <<dir, unlisted, pc, file, found, current, txs, iterated>>
vars == <<names, fileVars, parseVars, scanVars>>

Init ==
    /\ FileInit /\ ParseInit
    /\ names = <<>>
    /\ dir \in Directories /\ unlisted = dir
    /\ pc = "list"
    /\ file = 1 /\ found = <<>>
    /\ current = NULL /\ txs = <<>> /\ iterated = {}

(***************************************************************************)
(* block_filenames: names[n + 1] is the file with the number n.            *)
(***************************************************************************)
Number(name) ==
    LET value[i \in 0..Len(name.digits)] ==
            IF i = 0 THEN 0 ELSE 10 * value[i - 1] + name.digits[i]
    IN value[Len(name.digits)]

AddName(ns, n, name) ==
    [k \in 1..(IF n < Len(ns) THEN Len(ns) ELSE n + 1) |->
        IF k = n + 1 THEN name ELSE IF k <= Len(ns) THEN ns[k] ELSE NULL]

TakenBelow(n) == n < Len(names)
Taken(n) == n < Len(names) /\ names[n + 1] # NULL

ListEntry ==
    /\ pc = "list"
    /\ \E name \in unlisted :
          /\ unlisted' = unlisted \ {name}
          /\ \/ /\ ~name.matches
                /\ UNCHANGED <<names, pc>>
             \/ /\ name.matches /\ ~Taken(Number(name))
                /\ names' = AddName(names, Number(name), name)
                /\ UNCHANGED pc
             \/ /\ name.matches /\ Taken(Number(name))
                /\ pc' = "duplicate"
                /\ UNCHANGED names
    /\ UNCHANGED <<fileVars, parseVars, dir, file, found, current, txs, iterated>>

ListDone ==
    /\ pc = "list"
    /\ unlisted = {}
    /\ pc' = "scan"
    /\ UNCHANGED <<names, fileVars, parseVars, dir, unlisted, file, found, current, txs, iterated>>

(***************************************************************************)
(* read_blockfiles.  One turn of its loop finds the next marker and reads  *)
(* the header after it; add_block and what follows from it are in          *)
(* BlockIndex.                                                             *)
(***************************************************************************)
NextFile == file' = file + 1 /\ off' = 0

SkipHoleStay ==
    /\ pc = "scan"
    /\ file <= Len(names) /\ names[file] = NULL
    /\ UNCHANGED vars

SkipHole ==
    /\ pc = "scan"
    /\ file <= Len(names) /\ names[file] = NULL
    /\ NextFile
    /\ UNCHANGED <<names, fileVars, step, start, contextOff, hashed, trans, items, space>>
    /\ UNCHANGED <<dir, unlisted, pc, found, current, txs, iterated>>

\* next_block_header_prefix: the marker is looked for byte by byte.
FirstMarker(d, o) ==
    LET markers == {k \in o..(Len(d) - 4) : d[k + 1] = Marker[1] /\ Slice(d, k, 4) = Marker}
    IN {k \in markers : k = Min(markers)}

\* read_block_header at o.
HeaderAt(d, o) ==
    LET u32(k) == Num(Slice(d, k, 4)) IN
    [len |-> u32(o + 4), version |-> u32(o + 8), prev_hash |-> Slice(d, o + 12, 32),
     merkle_hash |-> Slice(d, o + 44, 32), timestamp |-> u32(o + 76), target |-> u32(o + 80),
     nonce |-> u32(o + 84), transaction_count |-> VarIn(d, o + 88)]

SkipHeader(o, len) == o + 88
SkipTransactions(o, len) == o + 8 + len

ScanBlock ==
    /\ pc = "scan"
    /\ file <= Len(names) /\ names[file] # NULL
    /\ BlockFile(file)
    /\ \E o \in FirstMarker(disk[slot'[f']], off) :
          LET d == disk[slot'[f']]
              pos == o + 88 + VarLenIn(d, o + 88) IN
          /\ found' = Append(found, [filenum |-> file, pos |-> pos, bh |-> HeaderAt(d, o),
                                     id |-> Sha256d(Slice(d, o + 8, 80))])
          /\ off' = SkipTransactions(o, HeaderAt(d, o).len)
          /\ pc' = IF pos > Len(d) THEN "past" ELSE pc
    /\ UNCHANGED <<names, step, start, contextOff, hashed, trans, items, space>>
    /\ UNCHANGED <<dir, unlisted, file, current, txs, iterated>>

ScanFileDone ==
    /\ pc = "scan"
    /\ file <= Len(names) /\ names[file] # NULL
    /\ BlockFile(file)
    /\ FirstMarker(disk[slot'[f']], off) = {}
    /\ NextFile
    /\ UNCHANGED <<names, step, start, contextOff, hashed, trans, items, space>>
    /\ UNCHANGED <<dir, unlisted, pc, found, current, txs, iterated>>

ScanDone ==
    /\ pc = "scan"
    /\ file > Len(names)
    /\ pc' = "iterate"
    /\ UNCHANGED <<names, fileVars, parseVars>>
    /\ UNCHANGED <<dir, unlisted, file, found, current, txs, iterated>>

(***************************************************************************)
(* The main loop: the blocks of a chain, whose order is ChainWalk's matter *)
(* and any order here.                                                     *)
(***************************************************************************)
SpaceKept == space
SpaceAtBlock == 0

EnterBlock ==
    /\ pc = "iterate"
    /\ \E k \in DOMAIN found \ iterated :
          /\ current' = k
          /\ off' = found[k].pos
          /\ space' = SpaceAtBlock + TransactionSize * found[k].bh.transaction_count
          /\ pc' = IF space' > SpaceSize THEN "full" ELSE "block"
    /\ txs' = <<>>
    /\ UNCHANGED <<names, fileVars, step, start, contextOff, hashed, trans, items>>
    /\ UNCHANGED <<dir, unlisted, file, found, iterated>>

NextTransaction ==
    /\ pc = "block"
    /\ step = "idle"
    /\ Len(txs) < found[current].bh.transaction_count
    /\ BeginTransaction(found[current].filenum)
    /\ UNCHANGED <<names, scanVars>>

Parse ==
    /\ pc = "block"
    /\ ReadTransaction
    /\ UNCHANGED <<names, scanVars>>

TransactionRead ==
    /\ pc = "block"
    /\ step = "read"
    /\ step' = "idle"
    /\ txs' = Append(txs, trans)
    /\ UNCHANGED <<names, fileVars, off, start, contextOff, hashed, trans, items, space>>
    /\ UNCHANGED <<dir, unlisted, pc, file, found, current, iterated>>

LeaveBlock ==
    /\ pc = "block"
    /\ step = "idle"
    /\ Len(txs) = found[current].bh.transaction_count
    /\ iterated' = iterated \cup {current}
    /\ pc' = IF iterated' = DOMAIN found THEN "done" ELSE "iterate"
    /\ UNCHANGED <<names, fileVars, parseVars, dir, unlisted, file, found, current, txs>>

NoBlocks ==
    /\ pc = "iterate"
    /\ found = <<>>
    /\ pc' = "done"
    /\ UNCHANGED <<names, fileVars, parseVars>>
    /\ UNCHANGED <<dir, unlisted, file, found, current, txs, iterated>>

Read ==
    \/ ListEntry \/ ListDone
    \/ SkipHole \/ ScanBlock \/ ScanFileDone \/ ScanDone
    \/ EnterBlock \/ NextTransaction \/ Parse \/ TransactionRead \/ LeaveBlock \/ NoBlocks

Ended == pc \in {"duplicate", "past", "full", "done"} \/ step \in {"past", "full", "badFlag"}

Next == Read \/ (Ended /\ UNCHANGED vars)
Spec == Init /\ [][Next]_vars /\ WF_vars(Read)

-----------------------------------------------------------------------------
(***************************************************************************)
(* Properties.                                                             *)
(***************************************************************************)

\* The stored blocks, in the order of the numbers of their files.
OneOrNone(b) == IF b = NULL THEN <<>> ELSE <<b>>
Blocks(n) == FlattenSeq([k \in DOMAIN Layout[n].records |-> OneOrNone(Layout[n].records[k].block)])
StoredBlocks ==
    FlattenSeq([k \in DOMAIN names |-> IF names[k] = NULL THEN <<>> ELSE Blocks(names[k])])
Complete(n) == Layout[n].cut = 0

BlockOf(k) == StoredBlocks[k]
TxOf(k, i) == BlockOf(k).txs[i]

\* Whatever the order of readdir, each block file of the directory ends up under
\* the number in its name and nothing else is listed; the program only gives up
\* because two files have the same number.
ListingExact ==
    /\ pc \notin {"list", "duplicate"} =>
          /\ {names[k] : k \in DOMAIN names} \ {NULL} = {n \in dir : n.matches}
          /\ \A k \in DOMAIN names : names[k] # NULL => Number(names[k]) = k - 1
    /\ pc = "duplicate" =>
          \E m, n \in dir : m # n /\ m.matches /\ n.matches /\ Number(m) = Number(n)

\* Whatever the padding and the bytes that look like a marker within a block, the
\* scan finds each stored block once, in the order of the files, with its header,
\* its id and the place of its transactions.
ScanExact ==
    pc \in {"iterate", "block", "done"} =>
        /\ Len(found) = Len(StoredBlocks)
        /\ \A k \in DOMAIN found :
              /\ DumpBlockHeader(found[k].bh) = StoredHeader(BlockOf(k))
              /\ found[k].id = Sha256d(StoredHeader(BlockOf(k)))
              /\ found[k].bh.transaction_count = Len(BlockOf(k).txs)
              /\ LET d == disk[names[found[k].filenum]]
                     stored == FlattenSeq([i \in DOMAIN BlockOf(k).txs |-> Serialized(TxOf(k, i))])
                     last == found[k].pos + Len(stored)
                 IN /\ last <= Len(d) \/ ~Complete(names[found[k].filenum])
                    /\ IsPrefix(SubSeq(d, found[k].pos + 1, Min({last, Len(d)})), stored)

\* Two files at most are open, as many as there are in the slots, and what is
\* read through f is the file that was asked for.
RightFileOpen ==
    /\ opened = Cardinality({s \in 1..SlotCount : slot[s] # NULL})
    /\ pc = "block" /\ step # "idle" => slot[f] = names[found[current].filenum]

\* Every transaction is read as it was stored, the witness skipped to the byte,
\* txid over the original serialisation and wtxid over the whole.
TxExact ==
    \A i \in DOMAIN txs :
        LET t == TxOf(current, i) IN
        /\ txs[i].segwit = (IF HasWitness(t) THEN 1 ELSE 0)
        /\ txs[i].txid = Sha256d(Original(t))
        /\ txs[i].wtxid = Sha256d(Serialized(t))
        /\ txs[i].total_len = Len(Serialized(t))
        /\ txs[i].non_swlen = Len(Original(t))
        /\ \A k \in DOMAIN t.input :
              HasWitness(t) => txs[i].input[k].num_witness = Len(t.input[k].witness)

\* What print_format prints for %tX is the original serialisation, whose hash
\* is the txid: every field has been read with its own width and byte order.
DumpIsOriginal == \A i \in DOMAIN txs : DumpTx(txs[i]) = Original(TxOf(current, i))

Segwit(b) == \E i \in DOMAIN b.txs : HasWitness(b.txs[i])

\* The space, which each block starts anew, is only too small for a block that is
\* large: where no transaction is without inputs, four times the bytes of the
\* block, or eight times if there are witnesses, are always enough.
SpaceSuffices ==
    (step = "full" \/ pc = "full") /\ (\A i \in DOMAIN BlockOf(current).txs : TxOf(current, i).input # <<>>) =>
        (IF Segwit(BlockOf(current)) THEN 8 ELSE 4) * Len(StoredBlock(BlockOf(current))) > SpaceSize

\* Once the files are listed the scan and the parser only give up where they must:
\* a file ends within a block, a transaction has no input, or a block is large.
EndsForAReason ==
    /\ pc = "past" => \E n \in dir : ~Complete(n)
    /\ step = "past" => ~Complete(slot[f])
    /\ step = "badFlag" => TxOf(current, Len(txs) + 1).input = <<>>
    /\ SpaceSuffices

\* Every file is scanned to its end and every block read, or the program exits.
Termination == <>Ended
=============================================================================
