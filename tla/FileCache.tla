----------------------------- MODULE FileCache -----------------------------
(***************************************************************************)
(* The open block files: block_file of blockfiles.c keeps two of them, in  *)
(* the struct file of io.c, and hands out a pointer to one.                *)
(*                                                                         *)
(* A name is what readdir has returned: whether it is that of a block      *)
(* file, and its digits.                                                   *)
(***************************************************************************)
EXTENDS Wire, FiniteSets

CONSTANTS
    FileName, \* the names that a directory may have
    Layout,   \* Layout[n]: what bitcoind has put in file n, see Content
    NULL

NameType == [matches : BOOLEAN, digits : Seq(0..9)]
SlotCount == 2

\* A file holds blocks, each after some bytes of padding; of the last one the
\* final "cut" bytes may be missing.
StoredRecord(r) ==
    [z \in 1..r.pad |-> 0] \o (IF r.block = NULL THEN <<>> ELSE StoredBlock(r.block))
Whole(n) == FlattenSeq([k \in DOMAIN Layout[n].records |-> StoredRecord(Layout[n].records[k])])
Content == [n \in FileName |-> SubSeq(Whole(n), 1, Len(Whole(n)) - Layout[n].cut)]

\* What is missing are not bytes of the marker: without it, no block is there.
ASSUME LayoutAssumption ==
    \A n \in FileName :
        LET rs == Layout[n].records IN
        /\ IsSequence(rs) /\ Layout[n].cut \in Nat
        /\ \A k \in DOMAIN rs : rs[k].pad \in Nat /\ (rs[k].block # NULL => IsBlock(rs[k].block))
        /\ Layout[n].cut # 0 =>
              /\ rs # <<>> /\ rs[Len(rs)].block # NULL
              /\ Layout[n].cut + 4 <= Len(StoredBlock(rs[Len(rs)].block))

VARIABLES
    disk,    \* the block files, which nobody changes while they are read
    names,   \* block_fnames: the file of each number, NULL if there is none
    slot,    \* f[].name of block_file
    nextSlot, \* its next
    opened,  \* how many files are open
    f        \* the slot of the struct file in use

fileVars == <<disk, slot, nextSlot, opened, f>>

FileInit ==
    /\ disk = Content
    /\ slot = [s \in 1..SlotCount |-> NULL]
    /\ nextSlot = 1
    /\ opened = 0
    /\ f = NULL

\* Evicting a slot closes its file; file_open puts another one in its place.
OpenedAfterLeak(s) == opened + 1
OpenedAfter(s) == IF slot[s] = NULL THEN opened + 1 ELSE opened

Hit(n) == {s \in 1..SlotCount : slot[s] = names[n]}

BlockFile(n) ==
    /\ \/ /\ Hit(n) # {}
          /\ f' = Min(Hit(n))
          /\ UNCHANGED <<slot, nextSlot, opened>>
       \/ /\ Hit(n) = {}
          /\ f' = nextSlot
          /\ slot' = [slot EXCEPT ![nextSlot] = names[n]]
          /\ opened' = OpenedAfter(nextSlot)
          /\ nextSlot' = (nextSlot % SlotCount) + 1
    /\ UNCHANGED disk

\* The bytes d of a file from o on; after the end there are only zeroes.
Slice(d, o, n) == [k \in 1..n |-> IF o + k <= Len(d) THEN d[o + k] ELSE 0]
VarLenIn(d, o) == VarSize(Slice(d, o, 1)[1])
VarIn(d, o) == VarValue(Slice(d, o, VarLenIn(d, o)))

\* Those of the file read through f.
Data == disk[slot[f]]
At(o, n) == Slice(Data, o, n)
U32(o) == Num(At(o, 4))
U64(o) == Num(At(o, 8))
VarLen(o) == VarLenIn(Data, o)
Var(o) == VarIn(Data, o)
=============================================================================
