------------------------------ MODULE TxParse ------------------------------
(***************************************************************************)
(* read_transaction of parse.c, field by field, on the bytes of a file,    *)
(* and the allocator (space.h) that its arrays and scripts come from.      *)
(*                                                                         *)
(* Each step may run over the end of the file, or of the space; the model  *)
(* stops at either.                                                        *)
(***************************************************************************)
EXTENDS FileCache

CONSTANTS
    SpaceSize,     \* sizeof(space->buf)
    TransactionSize, InputSize, OutputSize, PointerSize \* sizeof the structs

ASSUME SpaceAssumption ==
    {SpaceSize, TransactionSize, InputSize, OutputSize, PointerSize} \subseteq Nat

\* The structs are as large as on a 64-bit machine, or smaller.
ASSUME SizesAssumption ==
    TransactionSize <= 120 /\ InputSize <= 80 /\ OutputSize <= 24 /\ PointerSize <= 8

VARIABLES
    step,       \* what read_transaction pulls next
    off,        \* *poff
    start,      \* where the transaction starts
    contextOff, \* context_off: from where on the hash context lacks the bytes
    hashed,     \* the bytes it has been given
    trans,      \* *trans
    items,      \* the items of the witness at hand that are still to be read
    space       \* space.off

parseVars == <<step, off, start, contextOff, hashed, trans, items, space>>

NoTrans ==
    [version |-> 0, segwit |-> 0, input_count |-> 0, input |-> <<>>,
     output_count |-> 0, output |-> <<>>, lock_time |-> 0,
     txid |-> NULL, wtxid |-> NULL, total_len |-> 0, non_swlen |-> 0]

ParseInit ==
    /\ step = "idle"
    /\ off = 0 /\ start = 0 /\ contextOff = 0
    /\ hashed = <<>> /\ trans = NoTrans /\ items = 0 /\ space = 0

\* space_alloc asserts that there is room; past the end of the file pread
\* fails, and a mapping has other bytes or none.
Goto(s) ==
    step' = IF space' > SpaceSize THEN "full" ELSE IF off' > Len(Data) THEN "past" ELSE s

\* append_to_hash_context, with the count of non_swlen that precedes it.
AppendToHash(from, to, t) ==
    /\ hashed' = hashed \o At(from, to - from)
    /\ trans' = [t EXCEPT !.non_swlen = @ + (to - from)]
    /\ contextOff' = to

BeginTransaction(n) ==
    /\ BlockFile(n)
    /\ step' = "version"
    /\ start' = off /\ contextOff' = off
    /\ hashed' = <<>>
    /\ trans' = NoTrans
    /\ UNCHANGED <<off, items, space>>

PullVersion ==
    /\ step = "version"
    /\ off' = off + 4
    /\ AppendToHash(contextOff, off', [trans EXCEPT !.version = U32(off)])
    /\ UNCHANGED <<start, space>>
    /\ Goto("count")

PullInputCount ==
    /\ step = "count"
    /\ Var(off) # 0
    /\ off' = off + VarLen(off)
    /\ trans' = [trans EXCEPT !.segwit = 0, !.input_count = Var(off)]
    /\ space' = space + InputSize * Var(off)
    /\ UNCHANGED <<start, contextOff, hashed>>
    /\ Goto("input")

\* No transaction has no input: a zero is the marker of the segwit serialisation.
\* What is hashed goes on after the flag.
FlagAtMarker == off
FlagAt == off + VarLen(off)

PullMarkerHashed ==
    LET countAt == FlagAt + VarLen(FlagAt) IN
    /\ step = "count"
    /\ Var(off) = 0 /\ Var(FlagAt) = 1
    /\ off' = countAt + VarLen(countAt)
    /\ trans' = [trans EXCEPT !.segwit = 1, !.input_count = Var(countAt)]
    /\ space' = space + InputSize * Var(countAt)
    /\ UNCHANGED <<start, contextOff, hashed>>
    /\ Goto("input")

PullMarker ==
    LET countAt == FlagAt + VarLen(FlagAt) IN
    /\ step = "count"
    /\ Var(off) = 0 /\ Var(FlagAt) = 1
    /\ contextOff' = countAt
    /\ off' = countAt + VarLen(countAt)
    /\ trans' = [trans EXCEPT !.segwit = 1, !.input_count = Var(countAt)]
    /\ space' = space + InputSize * Var(countAt)
    /\ UNCHANGED <<start, hashed>>
    /\ Goto("input")

BadFlag ==
    /\ step = "count"
    /\ Var(off) = 0 /\ Var(FlagAt) # 1
    /\ off' = FlagAt + VarLen(FlagAt)
    /\ UNCHANGED <<start, contextOff, hashed, trans, space>>
    /\ Goto("badFlag")

ReadInput ==
    LET lenAt == off + 36
        scriptAt == lenAt + VarLen(lenAt) IN
    /\ step = "input"
    /\ Len(trans.input) < trans.input_count
    /\ trans' = [trans EXCEPT !.input = Append(@,
          [txid |-> At(off, 32), index |-> U32(off + 32), script_length |-> Var(lenAt),
           script |-> At(scriptAt, Var(lenAt)), num_witness |-> NULL,
           sequence_number |-> U32(scriptAt + Var(lenAt))])]
    /\ space' = space + Var(lenAt)
    /\ off' = scriptAt + Var(lenAt) + 4
    /\ UNCHANGED <<start, contextOff, hashed>>
    /\ Goto("input")

PullOutputCount ==
    /\ step = "input"
    /\ Len(trans.input) = trans.input_count
    /\ off' = off + VarLen(off)
    /\ trans' = [trans EXCEPT !.output_count = Var(off)]
    /\ space' = space + OutputSize * Var(off)
    /\ UNCHANGED <<start, contextOff, hashed>>
    /\ Goto("output")

ReadOutput ==
    LET lenAt == off + 8
        scriptAt == lenAt + VarLen(lenAt) IN
    /\ step = "output"
    /\ Len(trans.output) < trans.output_count
    /\ trans' = [trans EXCEPT !.output = Append(@,
          [amount |-> U64(off), script_length |-> Var(lenAt),
           script |-> At(scriptAt, Var(lenAt))])]
    /\ space' = space + Var(lenAt)
    /\ off' = scriptAt + Var(lenAt)
    /\ UNCHANGED <<start, contextOff, hashed>>
    /\ Goto("output")

HashBody ==
    /\ step = "output"
    /\ Len(trans.output) = trans.output_count
    /\ AppendToHash(contextOff, off, trans)
    /\ step' = IF trans.segwit = 1 THEN "witness" ELSE "lockTime"
    /\ UNCHANGED <<off, start, space>>

(***************************************************************************)
(* read_witness: its items are copied to the space and forgotten; only     *)
(* their number is kept.  num_witness of an input is NULL before.          *)
(***************************************************************************)
Unread == {k \in DOMAIN trans.input : trans.input[k].num_witness = NULL}

ReadWitnessField ==
    /\ step = "witness"
    /\ items = 0 /\ Unread # {}
    /\ off' = off + VarLen(off)
    /\ items' = Var(off)
    /\ trans' = [trans EXCEPT !.input[Min(Unread)].num_witness = Var(off)]
    /\ space' = space + PointerSize * Var(off)
    /\ UNCHANGED <<start, contextOff, hashed>>
    /\ Goto("witness")

ReadWitnessStackItem ==
    /\ step = "witness"
    /\ items > 0
    /\ off' = off + VarLen(off) + Var(off)
    /\ items' = items - 1
    /\ space' = space + Var(off)
    /\ UNCHANGED <<start, contextOff, hashed, trans>>
    /\ Goto("witness")

SkipWitness ==
    /\ step = "witness"
    /\ items = 0 /\ Unread = {}
    /\ contextOff' = off
    /\ step' = "lockTime"
    /\ UNCHANGED <<off, start, hashed, trans, space>>

WtxidOf(segwit, txid, full) == IF segwit = 1 THEN Sha256d(full) ELSE txid

\* The lock time, the lengths and the two ids.
FinishTransaction ==
    /\ step = "lockTime"
    /\ off' = off + 4
    /\ hashed' = hashed \o At(contextOff, off' - contextOff)
    /\ trans' = [trans EXCEPT
          !.lock_time = U32(off),
          !.non_swlen = @ + (off' - contextOff),
          !.total_len = off' - start,
          !.txid = Sha256d(hashed'),
          !.wtxid = WtxidOf(trans.segwit, Sha256d(hashed'), At(start, off' - start))]
    /\ contextOff' = off'
    /\ UNCHANGED <<start, space>>
    /\ Goto("read")

ReadTransaction ==
    /\ \/ /\ \/ PullVersion \/ PullInputCount \/ PullMarker \/ BadFlag \/ ReadInput
             \/ PullOutputCount \/ ReadOutput \/ HashBody \/ SkipWitness \/ FinishTransaction
          /\ UNCHANGED items
       \/ ReadWitnessField \/ ReadWitnessStackItem
    /\ UNCHANGED fileVars
=============================================================================
