------------------------------- MODULE HTable -------------------------------
(***************************************************************************)
(* ccan/htable: the hash table of pointers behind block_map and utxo_map,  *)
(* open addressing with linear probing.  The bits that all pointers share  *)
(* need not be stored, so an entry has bits of the hash in their place and *)
(* one bit that says whether it is in the bucket it belongs to.            *)
(*                                                                         *)
(* A machine word is the set of its bits that are 1.                       *)
(***************************************************************************)
EXTENDS Integers, FiniteSets

CONSTANTS
    WordSize,   \* number of bits of a word
    Ptr,        \* the elements, as words
    Key,
    Keyings,    \* functions from elements to keys
    Hashings,   \* functions from keys to words
    Sizes,      \* what the table is made for; 0 stands for htable_init
    NULL

Word == 0..WordSize - 1
Bit(w, i) == IF i \in w THEN 1 ELSE 0

\* 0 and 1 are markers in the table, so no pointer has these values.
ASSUME HTableAssumption ==
    /\ WordSize \in Nat \ {0}
    /\ Ptr \subseteq (SUBSET Word) \ {{}, {0}}

\* The one bit that update_common leaves in an entry must tell it from a marker
\* in every entry: the pointers have their highest bit in common.
ASSUME TopBitAssumption ==
    \E top \in Word : \A p \in Ptr : top \in p /\ \A i \in p : i <= top

VARIABLES
    ht,      \* struct htable
    hash,    \* hashfn
    keyof,   \* keyof
    stored   \* the elements added and not deleted since

vars == <<ht, hash, keyof, stored>>

Deleted == {0}
Markers == {{}, Deleted}
Valid(e) == e \notin Markers

Pow2[n \in Nat] == IF n = 0 THEN 1 ELSE 2 * Pow2[n - 1]
Size(t) == Pow2[t.bits]
SlotsOf(t) == 0..Size(t) - 1
MaxElems(t) == IF t.shared THEN 0 ELSE (3 * Size(t)) \div 4
MaxWithDeleted(t) == IF t.shared THEN 0 ELSE (9 * Size(t)) \div 10

\* htable_init: the table is the one word perfect_bit, which is 0.
\* htable_init_sized: no more bits than a table that is 3/4 full asks for.
EmptyTable(bits) == [k \in 0..Pow2[bits] - 1 |-> {}]
MostBits == 30
SizedBits(n) ==
    LET enough == {b \in 1..MostBits : b = MostBits \/ (3 * Pow2[b]) \div 4 >= n}
    IN CHOOSE b \in enough : \A c \in 1..b - 1 : c \notin enough
HtableInit(n) ==
    LET bits == IF n = 0 THEN 0 ELSE SizedBits(n) IN
    [bits |-> bits, table |-> EmptyTable(bits), shared |-> n = 0, elems |-> 0, deleted |-> 0,
     mask |-> Word, common |-> {}, perfect |-> {}]

Init ==
    /\ ht \in {HtableInit(n) : n \in Sizes}
    /\ hash \in Hashings
    /\ keyof \in Keyings
    /\ stored = {}

-----------------------------------------------------------------------------
\* What the entry e stands for, and what is in place of the shared bits.
RawPtr(t, e) == (e \ t.mask) \cup t.common
Extra(t, e) == e \cap t.mask

Xor(a, b) == (a \ b) \cup (b \ a)
Shift(w, n) == {i - n : i \in {j \in w : j >= n}}
HashBits(t, h) == (Xor(h, Shift(h, t.bits)) \cap t.mask) \ t.perfect

\* The number that a word is, hash_bucket, and the slot d places further on.
Value(w) ==
    LET value[i \in 0..WordSize] ==
            IF i = 0 THEN 0 ELSE 2 * value[i - 1] + Bit(w, WordSize - i)
    IN value[WordSize]
Bucket(t, h) == Value(h) % Size(t)
Slot(t, h, d) == (Bucket(t, h) + d) % Size(t)
At(t, h, d) == t.table[Slot(t, h, d)]
Home(t, d) == IF d = 0 THEN t.perfect ELSE {}

\* How far from the bucket of h the first of these entries is.
First(t, h, entries) ==
    CHOOSE d \in SlotsOf(t) : At(t, h, d) \in entries /\ \A c \in 0..d - 1 : At(t, h, c) \notin entries

\* make_hval.
Entry(t, p, d) == (p \ t.mask) \cup HashBits(t, hash[keyof[p]]) \cup Home(t, d)

\* ht_add.
Put(t, p) ==
    LET h == hash[keyof[p]]
        d == First(t, h, Markers)
    IN [t EXCEPT !.table[Slot(t, h, d)] = Entry(t, p, d)]

-----------------------------------------------------------------------------
\* htable_firstval and htable_nextval: how far the entries are that match, and
\* the first of them whose pointer passes the comparison.
Matches(t, h, pointers) ==
    {d \in 0..First(t, h, {{}}) - 1 :
        /\ Valid(At(t, h, d)) /\ Extra(t, At(t, h, d)) = HashBits(t, h) \cup Home(t, d)
        /\ RawPtr(t, At(t, h, d)) \in pointers}
FirstMatch(t, h, pointers) ==
    CHOOSE d \in Matches(t, h, pointers) : \A c \in Matches(t, h, pointers) : d <= c

\* htable_get: the comparison reads the element.
Get(t, key) ==
    LET with == {p \in Ptr : keyof[p] = key}
        h == hash[key]
    IN IF Matches(t, h, with) = {} THEN NULL ELSE RawPtr(t, At(t, h, FirstMatch(t, h, with)))

\* htable_first and htable_next.
Used(t) == {i \in SlotsOf(t) : Valid(t.table[i])}
Elements(t) == {RawPtr(t, t.table[i]) : i \in Used(t)}

-----------------------------------------------------------------------------
\* double_table; it takes a bit for perfect_bit again if one is shared.
Doubled(t) ==
    LET regained == IF t.perfect = {} /\ t.mask # {}
                    THEN {CHOOSE i \in t.mask : \A j \in t.mask : i <= j} ELSE t.perfect
        new == [t EXCEPT !.bits = @ + 1, !.table = EmptyTable(t.bits + 1), !.shared = FALSE,
                         !.perfect = regained, !.deleted = 0]
        moved[i \in 0..Size(t)] ==
            IF i = 0 THEN new
            ELSE IF Valid(t.table[i - 1]) THEN Put(moved[i - 1], RawPtr(t, t.table[i - 1]))
            ELSE moved[i - 1]
    IN IF t.shared THEN new ELSE moved[Size(t)]

FromZero(t) == 0
FirstEmpty(t) == CHOOSE s \in SlotsOf(t) : t.table[s] = {} /\ \A r \in 0..s - 1 : t.table[r] # {}

\* One turn of rehash_table: a deleted marker goes, and an entry that is not in
\* its own bucket is put again.
Again(t, k) ==
    LET e == t.table[k] IN
    IF e = Deleted THEN [t EXCEPT !.table[k] = {}]
    ELSE IF e # {} /\ e \cap t.perfect = {} THEN Put([t EXCEPT !.table[k] = {}], RawPtr(t, e))
    ELSE t

\* rehash_table, from the first empty slot on because of the wrap.
Rehashed(t) ==
    LET again[i \in 0..Size(t)] ==
            IF i = 0 THEN t ELSE Again(again[i - 1], (i - 1 + FirstEmpty(t)) % Size(t))
    IN [again[Size(t)] EXCEPT !.deleted = 0]

UpdateCommonMask(t, p) ==
    LET diff == Xor(t.common, p \cap t.mask)
        top == CHOOSE i \in p : \A j \in p : j <= i IN
    IF t.elems = 0 THEN [t EXCEPT !.mask = Word \ {top}, !.common = p \ {top}, !.perfect = {0}]
    ELSE [t EXCEPT !.mask = @ \ diff, !.common = @ \ diff, !.perfect = @ \ diff]

\* update_common: the first element's highest bit is left in its entry, and
\* bits that are not shared any more go back to the entries.
UpdateCommon(t, p) ==
    LET diff == Xor(t.common, p \cap t.mask)
        top == CHOOSE i \in p : \A j \in p : j <= i IN
    IF t.elems = 0 THEN [t EXCEPT !.mask = Word \ {top}, !.common = p \ {top}, !.perfect = {0}]
    ELSE [t EXCEPT !.table = [i \in DOMAIN @ |-> IF Valid(@[i]) THEN (@[i] \ diff) \cup (t.common \cap diff)
                                                 ELSE @[i]],
                   !.mask = @ \ diff, !.common = @ \ diff, !.perfect = @ \ diff]

-----------------------------------------------------------------------------
\* htable_add.
HtableAdd(t, p) ==
    LET sized == IF t.elems + 1 > MaxElems(t) THEN Doubled(t) ELSE t
        clean == IF sized.elems + 1 + sized.deleted > MaxWithDeleted(sized) THEN Rehashed(sized) ELSE sized
        ready == IF p \cap clean.mask # clean.common THEN UpdateCommon(clean, p) ELSE clean
    IN [Put(ready, p) EXCEPT !.elems = @ + 1]

DelValUncounted(t, i) == [t EXCEPT !.elems = @ - 1, !.table[i] = Deleted]
\* htable_delval.
DelVal(t, i) == [t EXCEPT !.elems = @ - 1, !.table[i] = Deleted, !.deleted = @ + 1]

\* htable_del, by address.
HtableDel(t, p) ==
    LET h == hash[keyof[p]] IN
    IF Matches(t, h, {p}) = {} THEN t ELSE DelVal(t, Slot(t, h, FirstMatch(t, h, {p})))

Add(p) ==
    /\ p \notin stored
    /\ ht' = HtableAdd(ht, p)
    /\ stored' = stored \cup {p}
    /\ UNCHANGED <<hash, keyof>>

Del(p) ==
    /\ p \in stored
    /\ ht' = HtableDel(ht, p)
    /\ stored' = stored \ {p}
    /\ UNCHANGED <<hash, keyof>>

\* utxo_map_clear, and utxo_map_init_sized after it.
Clear(n) ==
    /\ stored # {}
    /\ ht' = HtableInit(n)
    /\ stored' = {}
    /\ UNCHANGED <<hash, keyof>>

Next ==
    \/ \E p \in Ptr : Add(p) \/ Del(p)
    \/ \E n \in Sizes : Clear(n)

Spec == Init /\ [][Next]_vars

-----------------------------------------------------------------------------
(***************************************************************************)
(* Properties.                                                             *)
(***************************************************************************)

\* A lookup finds an element with the key, if one is in the table, whatever was
\* added, deleted and moved since it was stored and whatever bits the pointers
\* have turned out not to share.
LookupExact ==
    \A key \in Key :
        LET with == {p \in stored : keyof[p] = key} IN
        IF with = {} THEN Get(ht, key) = NULL ELSE Get(ht, key) \in with

\* Iteration meets each element once and nothing else, and elems is their number.
IterationExact ==
    /\ Elements(ht) = stored
    /\ Cardinality(Used(ht)) = Cardinality(stored) /\ ht.elems = Cardinality(stored)

\* Every search comes to an empty slot: deleted markers never fill the table.
SearchesEnd ==
    /\ \E i \in SlotsOf(ht) : ht.table[i] = {}
    /\ Cardinality({i \in SlotsOf(ht) : ht.table[i] = Deleted}) <= ht.deleted

=============================================================================
