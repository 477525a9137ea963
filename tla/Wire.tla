-------------------------------- MODULE Wire --------------------------------
(***************************************************************************)
(* What bitcoind writes to its block files, and how format.c prints it     *)
(* again: integers, varints, the two serialisations of a transaction, the  *)
(* header of a block.  Files are sequences of bytes; offsets count from 0. *)
(***************************************************************************)
EXTENDS Integers, Sequences, SequencesExt, FiniteSetsExt

CONSTANT Marker \* netmarker, as the four bytes at the start of each record

ASSUME MarkerAssumption == Marker \in [1..4 -> 0..255] /\ Marker[1] # 0

\* v without its i lowest bytes, for i from 0 to n.
Shifted(n, v) ==
    LET rest[i \in 0..n] == IF i = 0 THEN v ELSE rest[i - 1] \div 256 IN rest

\* cpu_to_le32, cpu_to_le64: v in n bytes, the lowest one first.
Le(n, v) == LET rest == Shifted(n, v) IN [i \in 1..n |-> rest[i - 1] % 256]

\* n bytes are enough for v.
Fits(n, v) == v \in Nat /\ Shifted(n, v)[n] = 0

\* le32_to_cpu, le64_to_cpu.
Num(b) ==
    LET sum[i \in 0..Len(b)] == IF i = 0 THEN 0 ELSE 256 * sum[i - 1] + b[Len(b) - i + 1]
    IN sum[Len(b)]

PrintVarintTight(v) ==
    IF v < 252 THEN <<v>>
    ELSE IF v <= 65535 THEN <<253>> \o Le(2, v)
    ELSE IF v \div 65536 <= 65535 THEN <<254>> \o Le(4, v)
    ELSE <<255>> \o Le(8, v)

PrintVarint(v) ==
    IF v < 253 THEN <<v>>
    ELSE IF v <= 65535 THEN <<253>> \o Le(2, v)
    ELSE IF v \div 65536 <= 65535 THEN <<254>> \o Le(4, v)
    ELSE <<255>> \o Le(8, v)

VarSize(b) == IF b < 253 THEN 1 ELSE IF b = 253 THEN 3 ELSE IF b = 254 THEN 5 ELSE 9
VarValue(v) == IF Len(v) = 1 THEN v[1] ELSE Num(Tail(v))

(***************************************************************************)
(* format.c.                                                               *)
(***************************************************************************)
DumpTxInput(i) ==
    i.txid \o Le(4, i.index) \o PrintVarint(i.script_length) \o i.script \o Le(4, i.sequence_number)

DumpTxOutput(o) == Le(8, o.amount) \o PrintVarint(o.script_length) \o o.script

DumpTx(t) ==
    Le(4, t.version)
    \o PrintVarint(t.input_count) \o FlattenSeq([k \in 1..t.input_count |-> DumpTxInput(t.input[k])])
    \o PrintVarint(t.output_count) \o FlattenSeq([k \in 1..t.output_count |-> DumpTxOutput(t.output[k])])
    \o Le(4, t.lock_time)

DumpBlockHeader(bh) ==
    Le(4, bh.version) \o bh.prev_hash \o bh.merkle_hash
    \o Le(4, bh.timestamp) \o Le(4, bh.target) \o Le(4, bh.nonce)

(***************************************************************************)
(* bitcoind.  A stored transaction has the witness of each input, the      *)
(* sequence of its items; it is serialised with its witnesses if one of    *)
(* them is not empty.                                                      *)
(***************************************************************************)
CompactSize(n) ==
    IF n < 253 THEN <<n>>
    ELSE LET width == Min({w \in {2, 4, 8} : Fits(w, n)})
         IN <<CASE width = 2 -> 253 [] width = 4 -> 254 [] width = 8 -> 255>> \o Le(width, n)

Script(s) == CompactSize(Len(s)) \o s

StoredIn(i) == i.txid \o Le(4, i.index) \o Script(i.script) \o Le(4, i.sequence_number)
StoredOut(o) == Le(8, o.amount) \o Script(o.script)
StoredWitness(w) == CompactSize(Len(w)) \o FlattenSeq([k \in DOMAIN w |-> Script(w[k])])
StoredBody(t) ==
    CompactSize(Len(t.input)) \o FlattenSeq([k \in DOMAIN t.input |-> StoredIn(t.input[k])])
    \o CompactSize(Len(t.output)) \o FlattenSeq([k \in DOMAIN t.output |-> StoredOut(t.output[k])])

HasWitness(t) == \E k \in DOMAIN t.input : t.input[k].witness # <<>>

Original(t) == Le(4, t.version) \o StoredBody(t) \o Le(4, t.lock_time)
Serialized(t) ==
    IF HasWitness(t)
    THEN Le(4, t.version) \o <<0, 1>> \o StoredBody(t)
         \o FlattenSeq([k \in DOMAIN t.input |-> StoredWitness(t.input[k].witness)])
         \o Le(4, t.lock_time)
    ELSE Original(t)

StoredHeader(b) ==
    Le(4, b.bh.version) \o b.bh.prev_hash \o b.bh.merkle_hash
    \o FlattenSeq([k \in 1..3 |-> Le(4, <<b.bh.timestamp, b.bh.target, b.bh.nonce>>[k])])

BlockBody(b) ==
    StoredHeader(b) \o CompactSize(Len(b.txs))
    \o FlattenSeq([k \in DOMAIN b.txs |-> Serialized(b.txs[k])])

StoredBlock(b) == Marker \o Le(4, Len(BlockBody(b))) \o BlockBody(b)

(***************************************************************************)
(* What bitcoind can have written: numbers that fit in their fields, and   *)
(* lengths in a varint.  A transaction without an input and with one       *)
(* output would read as one with witnesses; no chain has either.           *)
(***************************************************************************)
IsSequence(s) == s \in Seq({s[k] : k \in DOMAIN s})
Sized(s) == IsSequence(s) /\ Fits(8, Len(s))
IsScript(s) == s \in Seq(0..255) /\ Fits(8, Len(s))
IsHash(h) == h \in [1..32 -> 0..255]

IsIn(i) ==
    /\ IsHash(i.txid) /\ Fits(4, i.index) /\ IsScript(i.script) /\ Fits(4, i.sequence_number)
    /\ Sized(i.witness) /\ \A k \in DOMAIN i.witness : IsScript(i.witness[k])
IsOut(o) == Fits(8, o.amount) /\ IsScript(o.script)
IsTx(t) ==
    /\ Fits(4, t.version) /\ Fits(4, t.lock_time)
    /\ Sized(t.input) /\ \A k \in DOMAIN t.input : IsIn(t.input[k])
    /\ Sized(t.output) /\ \A k \in DOMAIN t.output : IsOut(t.output[k])
    /\ t.input = <<>> => Len(t.output) # 1
IsBlock(b) ==
    /\ Fits(4, b.bh.version) /\ IsHash(b.bh.prev_hash) /\ IsHash(b.bh.merkle_hash)
    /\ Fits(4, b.bh.timestamp) /\ Fits(4, b.bh.target) /\ Fits(4, b.bh.nonce)
    /\ Sized(b.txs) /\ \A k \in DOMAIN b.txs : IsTx(b.txs[k])
    /\ Fits(4, Len(BlockBody(b)))

\* SHA256, of which nothing is used but that different bytes have different hashes.
Sha256(m) == [sha256 |-> m]
Sha256d(m) == Sha256(Sha256(m))
=============================================================================
