---------------------------- MODULE Calculations ----------------------------
(***************************************************************************)
(* calculations.c: sums of amounts times seconds in two words, their       *)
(* conversion to days, and fees.                                           *)
(***************************************************************************)
EXTENDS Integers, Sequences

CONSTANTS
    Half,      \* half a word, 2^32
    Day,       \* seconds of a day
    DayShift   \* a power of two above Day, 2^17

Word == Half * Half

ASSUME CalculationsAssumption ==
    /\ Half \in Nat \ {0} /\ Half % 2 = 0
    /\ Day \in Nat \ {0} /\ DayShift \in Nat \ {0}
    /\ Day <= DayShift /\ Word % DayShift = 0

U32(n) == n % Half
Signed(n) == IF n >= Word \div 2 THEN n - Word ELSE n

\* Mutant: the carry of the first product is lost.
MulAndAddNoCarry(s, l, r) ==
    LET lh == l \div Half
        ll == l % Half
        c == (s.base % Half) + ll * r
        b == ((s.base \div Half + c \div Half) % Half) + lh * r
    IN [over |-> (s.over + b \div Half) % Word, base |-> ((b % Half) * Half) + (c % Half)]

\* mul_and_add: over and base become those of the sum with l * r.
MulAndAdd(s, l, r) ==
    LET lh == l \div Half
        ll == l % Half
        rh == r \div Half
        rl == r % Half
        c == (s.base % Half) + ll * rl
        b1 == s.base \div Half + c \div Half
        b2 == (b1 % Half) + lh * rl
        b3 == (b2 % Half) + ll * rh
        a == s.over + b1 \div Half + b2 \div Half + b3 \div Half + lh * rh
    IN [over |-> a % Word, base |-> ((b3 % Half) * Half) + (c % Half)]

Nothing == [over |-> 0, base |-> 0]

\* Satoshi seconds to satoshi days.
Days(s) ==
    IF s.over >= Day \div 2 THEN -2
    ELSE Signed(((((s.over * (Word \div DayShift)) % Word) \div Day) * DayShift) + s.base \div Day)

\* calculate_bdc: the factor for one UTXO; last is 0 if there was no block before.
CreatedFor(utxo, now, last) ==
    LET interval == IF last = 0 THEN 0 ELSE U32(now - last)
        age == U32(now - utxo.timestamp)
    IN IF age <= interval THEN age ELSE interval
CalculateBdc(utxo, now, last) == Days(MulAndAdd(Nothing, utxo.amount, CreatedFor(utxo, now, last)))

\* calculate_bdd: the factor for one input.
DestroyedFor(utxo, now) == IF now > utxo.timestamp THEN now - utxo.timestamp ELSE 0

Total(amounts) ==
    LET total[k \in 0..Len(amounts)] == IF k = 0 THEN 0 ELSE total[k - 1] + amounts[k]
    IN total[Len(amounts)]

\* calculate_fees: what the outputs leave of the inputs, in a signed word; a coinbase
\* has none.
Fees(inputs, outputs, isCoinbase) ==
    LET spent == IF isCoinbase THEN 0 ELSE Total([k \in DOMAIN inputs |-> inputs[k].amount])
    IN Signed((spent - Total(outputs)) % Word)
=============================================================================
