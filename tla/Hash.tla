-------------------------------- MODULE Hash --------------------------------
(***************************************************************************)
(* ccan/hash: Jenkins' lookup3, in the variants of hash.c.                 *)
(*                                                                         *)
(* What mix and final do to the registers a, b and c is not told apart: a  *)
(* hash is the record of what was added to them, and where, before each    *)
(* of the mixes.  An addition is a triple of the register (0, 1 or 2), the *)
(* byte of the register it goes to (0 is the lowest) and the byte added.   *)
(* Hashes with equal records are equal; a byte of the key that is in no    *)
(* record does not affect the hash.                                        *)
(*                                                                         *)
(* A key of bytes is a sequence in the order of the memory; a key of       *)
(* integers is a sequence of them, each a sequence of bytes from the       *)
(* lowest, whatever the machine makes of it in memory.                     *)
(***************************************************************************)
EXTENDS Integers, Sequences, SequencesExt

Machines == {"little", "big"}

\* How often "while (length > size)" goes round, and the rest of the key.
Rounds(length, size) == IF length > size THEN (length - 1) \div size ELSE 0
Block(key, size, round) == SubSeq(key, size * round + 1, size * (round + 1))
Rest(key, size) == SubSeq(key, size * Rounds(Len(key), size) + 1, Len(key))

Hashed(seed, mixed, last) == [seed |-> seed, mixed |-> mixed, last |-> last, final |-> TRUE]
\* "case 0: return c;"
Unmixed(seed) == [seed |-> seed, mixed |-> <<>>, last |-> {}, final |-> FALSE]

\* A block of bytes is read in units of 4, 2 or 1, then byte by byte; a unit has
\* its first byte lowest on a little endian machine.
ByteOfUnit(machine, unit, i) == IF machine = "little" THEN i % unit ELSE unit - 1 - (i % unit)

LittleParts(machine, unit, bytes) ==
    {LET u == IF i < Len(bytes) - (Len(bytes) % unit) THEN unit ELSE 1
     IN <<i \div 4, (i % 4) - (i % u) + ByteOfUnit(machine, u, i), bytes[i + 1]>> :
        i \in 0..(Len(bytes) - 1)}

BigParts(machine, unit, bytes) ==
    {<<i \div 4,
       IF unit = 4 /\ i < Len(bytes) - (Len(bytes) % 4) THEN ByteOfUnit(machine, 4, i) ELSE 3 - (i % 4),
       bytes[i + 1]>> : i \in 0..(Len(bytes) - 1)}

\* Mutant: words are read wherever they are aligned.
UnitOfAnyMachine(machine, align) == IF align % 4 = 0 THEN 4 ELSE IF align % 2 = 0 THEN 2 ELSE 1

\* hashlittle reads units only where they mean the same as their bytes.
Unit(machine, align) ==
    IF machine = "big" THEN 1 ELSE IF align % 4 = 0 THEN 4 ELSE IF align % 2 = 0 THEN 2 ELSE 1

HashLittle(machine, align, key, base) ==
    LET seed == <<Len(key), base>>
        Parts(bytes) == LittleParts(machine, Unit(machine, align), bytes)
    IN IF key = <<>> THEN Unmixed(seed)
       ELSE Hashed(seed,
                   [r \in 1..Rounds(Len(key), 12) |-> Parts(Block(key, 12, r - 1))],
                   Parts(Rest(key, 12)))

HashBig(machine, align, key, base) ==
    LET seed == <<Len(key), base>>
        unit == IF machine = "big" /\ align % 4 = 0 THEN 4 ELSE 1
    IN IF key = <<>> THEN Unmixed(seed)
       ELSE Hashed(seed,
                   [r \in 1..Rounds(Len(key), 12) |-> BigParts(machine, unit, Block(key, 12, r - 1))],
                   BigParts(machine, unit, Rest(key, 12)))

\* hash_any, hash64_any and hash_stable_8; the 64 bit forms return b as well.
HashAny(machine, align, key, base) ==
    IF machine = "big" THEN HashBig(machine, align, key, base)
    ELSE HashLittle(machine, align, key, base)
HashStable8(machine, align, key, base) == HashLittle(machine, align, key, base)

-----------------------------------------------------------------------------
\* The words of a block of integers: the register and the byte of it for each
\* byte of each integer; width is the size of an integer.
Words(integers, width) ==
    {<<(i * width) \div 4, (i * width + p) % 4, integers[i + 1][p + 1]>> :
        <<i, p>> \in (0..(Len(integers) - 1)) \X (0..(IF width < 4 THEN width ELSE 4) - 1)}

\* hash_u32, on the array as it is.
HashU32(key, base) ==
    LET seed == <<4 * Len(key), base>> IN
    IF key = <<>> THEN Unmixed(seed)
    ELSE Hashed(seed, [r \in 1..Rounds(Len(key), 3) |-> Words(Block(key, 3, r - 1), 4)],
                Words(Rest(key, 3), 4))

\* hash64_stable_32 and hash64_stable_16: "while (n > size)" leaves 1 to size
\* integers, and the switch has no case for size of them.
Switched(rest, size) == IF Len(rest) = size THEN <<>> ELSE rest
HashStableNarrow(width, key, base) ==
    LET seed == <<width * Len(key), base>>
        size == 12 \div width
    IN IF key = <<>> THEN Unmixed(seed)
       ELSE Hashed(seed,
                   [r \in 1..Rounds(Len(key), size) |-> Words(Block(key, size, r - 1), width)],
                   Words(Switched(Rest(key, size), size), width))

\* hash64_stable_64: three integers are two mixes, two are one and a half.
Halves(key) == FlattenSeq([i \in DOMAIN key |-> <<SubSeq(key[i], 1, 4), SubSeq(key[i], 5, 8)>>])
Mixes(halves) == [r \in 1..(Len(halves) \div 3) |-> Words(Block(halves, 3, r - 1), 4)]
HashStable64(key, base) ==
    LET seed == <<8 * Len(key), base>>
        whole == 3 * Rounds(Len(key), 3)
        rest == Halves(Switched(Rest(key, 3), 3))
    IN IF key = <<>> THEN Unmixed(seed)
       ELSE Hashed(seed,
                   Mixes(Halves(SubSeq(key, 1, whole))) \o Mixes(rest),
                   Words(SubSeq(rest, 3 * (Len(rest) \div 3) + 1, Len(rest)), 4))

\* hash_stable and hash64_stable, by the size of the integers.
HashStable(machine, align, width, key, base) ==
    CASE width = 8 -> HashStable64(key, base)
      [] width \in {4, 2} -> HashStableNarrow(width, key, base)
      [] width = 1 -> HashStable8(machine, align, [i \in DOMAIN key |-> key[i][1]], base)

\* What an array of integers is in the memory of a machine.
InMemory(machine, key) ==
    FlattenSeq([i \in DOMAIN key |-> IF machine = "little" THEN key[i] ELSE Reverse(key[i])])

\* The bytes that a hash depends on.
BytesOf(h) == {part[3] : part \in h.last \cup UNION {h.mixed[r] : r \in DOMAIN h.mixed}}
=============================================================================
