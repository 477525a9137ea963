------------------------------- MODULE Values -------------------------------
(***************************************************************************)
(* ccan/opt, helpers.c: the callbacks that read and show integers, with a  *)
(* suffix (opt_set_intval_bi to opt_show_ulonglongval_si) and without.     *)
(*                                                                         *)
(* A text is what strtoll makes of it: [number, tail, empty], the value of *)
(* its digits (0 if it has none), the letters after them, and whether it   *)
(* is "".  The widths of the integers are parameters; as in C, the sixth   *)
(* power of a base fits into a long long.                                  *)
(***************************************************************************)
EXTENDS Integers, Sequences

CONSTANTS
    IntMax,   \* INT_MAX
    LLMax,    \* LLONG_MAX, and LONG_MAX
    Bases     \* 1000 and 1024: the _si and the _bi functions

ASSUME ValuesAssumption ==
    /\ IntMax \in Nat /\ LLMax \in Nat /\ IntMax <= LLMax
    /\ Bases \subseteq Nat \ {0, 1} /\ \A base \in Bases : base ^ 6 <= LLMax

Types == {"int", "uint", "long", "ulong", "longlong", "ulonglong"}
Unsigned(type) == type \in {"uint", "ulong", "ulonglong"}
TypeMax(type) ==
    LET max == IF type \in {"int", "uint"} THEN IntMax ELSE LLMax
    IN IF Unsigned(type) THEN 2 * max + 1 ELSE max
TypeMin(type) == IF Unsigned(type) THEN 0 ELSE -TypeMax(type) - 1
InRange(x, type) == x \in TypeMin(type)..TypeMax(type)

\* The assignment of a long long to a variable of the type.
Wrapped(x, type) ==
    TypeMin(type) + ((x - TypeMin(type)) % (TypeMax(type) - TypeMin(type) + 1))

Powers == [K |-> 1, k |-> 1, M |-> 2, m |-> 2, G |-> 3, g |-> 3, T |-> 4, t |-> 4, P |-> 5, E |-> 6]
SuffixOf == <<"k", "M", "G", "T", "P", "E">>

\* A callback returns an error or not, and leaves a value in its destination,
\* "kept" if it does not touch it.
Refused(value) == [error |-> TRUE, value |-> value]
Accepted(value) == [error |-> FALSE, value |-> value]
Kept == "kept"

\* set_llong_with_suffix.  The quotients of C are cut off towards 0.
SetLLong(text, base) ==
    IF text.empty THEN Refused(0)
    ELSE IF text.number > LLMax THEN Refused(LLMax)
    ELSE IF text.number < -LLMax - 1 THEN Refused(-LLMax - 1)
    ELSE IF text.tail = <<>> THEN Accepted(text.number)
    ELSE IF Len(text.tail) > 1 \/ text.tail[1] \notin DOMAIN Powers THEN Refused(text.number)
    ELSE LET mul == base ^ Powers[text.tail[1]]
         IN IF text.number > LLMax \div mul \/ text.number < -((LLMax + 1) \div mul)
            THEN Refused(text.number)
            ELSE Accepted(text.number * mul)

\* Mutant: an unsigned destination takes what it can hold of a long long.
SetWithSuffixSigned(type, text, base) ==
    LET r == SetLLong(text, base) IN
    IF type = "longlong" THEN r
    ELSE IF r.error THEN Refused(Kept)
    ELSE [error |-> Wrapped(r.value, "longlong") # r.value, value |-> Wrapped(r.value, type)]

\* set_ulonglong_with_suffix, set_long_..., set_ulong_..., set_int_..., set_uint_...
SetWithSuffix(type, text, base) ==
    LET r == SetLLong(text, base) IN
    IF type = "longlong" THEN r
    ELSE IF r.error \/ (Unsigned(type) /\ r.value < 0) THEN Refused(Kept)
    ELSE [error |-> Wrapped(r.value, type) # r.value, value |-> Wrapped(r.value, type)]

\* show_llong_with_suffix and show_ullong_with_suffix: the loop divides while
\* nothing remains.
Divisions(x, base) ==
    CHOOSE i \in 0..6 :
        /\ x % (base ^ i) = 0
        /\ i = 6 \/ x % (base ^ (i + 1)) # 0
ShowWithSuffix(x, base) ==
    LET i == Divisions(x, base) IN
    IF x = 0 THEN [number |-> 0, tail |-> <<>>, empty |-> FALSE]
    ELSE [number |-> IF x < 0 THEN -((-x) \div (base ^ i)) ELSE x \div (base ^ i),
          tail |-> IF i = 0 THEN <<>> ELSE <<SuffixOf[i]>>,
          empty |-> FALSE]

-----------------------------------------------------------------------------
\* opt_set_longval, opt_set_ulongval, opt_set_intval and opt_set_uintval, which call
\* each other: an unsigned variable is set through the signed one of its width.
PlainTypes == {"int", "uint", "long", "ulong"}
SignedOf(type) == CASE type \in {"int", "uint"} -> "int" [] type \in {"long", "ulong"} -> "long" [] OTHER -> "longlong"

SetLongVal(text) ==
    LET l == IF text.number > LLMax THEN LLMax
             ELSE IF text.number < -LLMax - 1 THEN -LLMax - 1 ELSE text.number
    IN [error |-> text.empty \/ text.tail # <<>> \/ l # text.number, value |-> l]

SetIntVal(text) ==
    LET l == SetLongVal(text) IN
    IF l.error THEN Refused(Kept)
    ELSE [error |-> Wrapped(l.value, "int") # l.value, value |-> Wrapped(l.value, "int")]

SetPlain(type, text) ==
    LET r == IF SignedOf(type) = "int" THEN SetIntVal(text) ELSE SetLongVal(text) IN
    IF ~Unsigned(type) THEN r
    ELSE IF r.error THEN Refused(Kept)
    ELSE [error |-> r.value < 0,
          value |-> IF type = "ulong" THEN Wrapped(r.value, type)
                    ELSE IF r.value < 0 THEN Kept ELSE r.value]

\* opt_show_intval and the like.
ShowPlain(x) == [number |-> x, tail |-> <<>>, empty |-> FALSE]

-----------------------------------------------------------------------------
\* What a text means, as far as it is one number with at most one suffix.
Meaningful(text) ==
    ~text.empty /\ (text.tail = <<>> \/ (Len(text.tail) = 1 /\ text.tail[1] \in DOMAIN Powers))
Meaning(text, base) ==
    text.number * (IF text.tail = <<>> THEN 1 ELSE base ^ Powers[text.tail[1]])
=============================================================================
