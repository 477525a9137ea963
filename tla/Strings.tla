------------------------------ MODULE Strings ------------------------------
(***************************************************************************)
(* ccan/tal/str and ccan/str/hex: splitting and joining strings, how many  *)
(* matches tal_strreg asks for, and hexadecimal digits.  A string is a     *)
(* sequence of characters without its NUL.  Calls to the allocator succeed.*)
(***************************************************************************)
EXTENDS Integers, Sequences, SequencesExt

CONSTANTS
    FirstParts, \* the first value of tal_strsplit's max, 64 in the code
    NULL

ASSUME StringsAssumption == FirstParts \in Nat \ {0}

\* The element of a set of one: a name for an expression that is evaluated once.
The(set) == CHOOSE x \in set : TRUE

\* strspn and strcspn of the string from position at on.
Span(s, at, chars) ==
    CHOOSE n \in 0..(Len(s) - at + 1) :
        /\ \A i \in at..(at + n - 1) : s[i] \in chars
        /\ at + n \in DOMAIN s => s[at + n] \notin chars
SpanNot(s, at, chars) ==
    CHOOSE n \in 0..(Len(s) - at + 1) :
        /\ \A i \in at..(at + n - 1) : s[i] \notin chars
        /\ at + n \in DOMAIN s => s[at + n] \in chars

\* Mutant: the array has no room for the NULL after max parts.
PartAddedLate(r, part, next) ==
    LET num == Len(r.parts) + 1
        max == IF num > r.max THEN 3 * r.max ELSE r.max
    IN [at |-> next, parts |-> Append(r.parts, part), max |-> max,
        slots |-> IF num > r.max THEN max ELSE r.slots,
        inside |-> r.inside /\ num <= r.slots]

\* One part more of tal_strsplit; inside says whether every element that was
\* written is in the array of slots elements.
PartAdded(r, part, next) ==
    LET num == Len(r.parts) + 1
        max == IF num = r.max THEN 3 * r.max ELSE r.max
    IN [at |-> next, parts |-> Append(r.parts, part), max |-> max,
        slots |-> IF num = r.max THEN max ELSE r.slots,
        inside |-> r.inside /\ num <= r.slots]

NextPart(s, delims, emptyOk, r) ==
    LET len == SpanNot(s, r.at, delims)
        spaces == Span(s, r.at + len, delims)
        dlen == IF emptyOk /\ spaces > 0 THEN 1 ELSE spaces
    IN PartAdded(r, SubSeq(s, r.at, r.at + len - 1), r.at + len + dlen)

\* tal_strsplit, with STR_EMPTY_OK or STR_NO_EMPTY.
StrSplit(s, delims, emptyOk) ==
    LET first == [at |-> 1 + (IF emptyOk THEN 0 ELSE Span(s, 1, delims)), parts |-> <<>>,
                  max |-> FirstParts, slots |-> FirstParts + 1, inside |-> TRUE]
        turn[n \in 0..Len(s)] ==
            IF n = 0 THEN first
            ELSE LET r == turn[n - 1] IN
                 IF r.at > Len(s) THEN r ELSE NextPart(s, delims, emptyOk, r)
        last == turn[Len(s)]
    IN [parts |-> last.parts, inside |-> last.inside /\ Len(last.parts) + 1 <= last.slots]

\* tal_strjoin, with STR_TRAIL or STR_NO_TRAIL.
StrJoin(strings, delim, trail) ==
    FlattenSeq([i \in DOMAIN strings |->
        strings[i] \o (IF i = Len(strings) /\ ~trail THEN <<>> ELSE delim)])

\* count_open_braces: an odd number of backslashes before a brace escapes it.
CountOpenBraces(regex) ==
    LET Escapes(i) == CHOOSE n \in 0..(i - 1) :
            /\ \A j \in (i - n)..(i - 1) : regex[j] = "\\"
            /\ i - n > 1 => regex[i - n - 1] # "\\"
    IN Cardinality({i \in DOMAIN regex : regex[i] = "(" /\ Escapes(i) % 2 = 0})

\* tal_strreg: which arguments are set, to a copy of their match or to NULL, when
\* the regular expression matches; matches[i] is that of the i-th group.
StrReg(regex, matches) ==
    [i \in 1..CountOpenBraces(regex) |-> IF i \in DOMAIN matches THEN matches[i] ELSE NULL]

(***************************************************************************)
(* ccan/str/hex: bytes as pairs of hexadecimal digits.  NULL stands for a  *)
(* result of false; the sizes are those of the buffers that are written.   *)
(***************************************************************************)
Lower == <<"0", "1", "2", "3", "4", "5", "6", "7", "8", "9", "a", "b", "c", "d", "e", "f">>
Upper == <<"0", "1", "2", "3", "4", "5", "6", "7", "8", "9", "A", "B", "C", "D", "E", "F">>

IsHexChar(c) == c \in ToSet(Lower) \cup ToSet(Upper)
CharToHex(c) == (CHOOSE i \in 1..16 : c \in {Lower[i], Upper[i]}) - 1

HexDecode(str, bufsize) ==
    IF Len(str) = 2 * bufsize /\ \A i \in DOMAIN str : IsHexChar(str[i])
    THEN [i \in 1..bufsize |-> 16 * CharToHex(str[2 * i - 1]) + CharToHex(str[2 * i])]
    ELSE NULL

HexChar(val) == Lower[val + 1]

\* hex_encode: each byte needs three of what is left of dest, the NUL one.
HexEncode(buf, destsize) ==
    IF destsize < 1 \/ \E i \in DOMAIN buf : destsize - 2 * (i - 1) < 3 THEN NULL
    ELSE [i \in 1..(2 * Len(buf)) |->
             HexChar(IF i % 2 = 1 THEN buf[(i + 1) \div 2] \div 16 ELSE buf[i \div 2] % 16)]

-----------------------------------------------------------------------------
(***************************************************************************)
(* The groups of a regular expression, and the braces within brackets,     *)
(* read from its start as regcomp does: a backslash takes the next         *)
(* character with it, and within brackets neither a brace nor a backslash  *)
(* is special, nor is a closing bracket that comes first.                  *)
(***************************************************************************)
Groups(regex) ==
    LET state[i \in 0..Len(regex)] ==
            IF i = 0 THEN [in |-> "text", groups |-> 0, bracketed |-> 0]
            ELSE LET r == state[i - 1]
                     c == regex[i]
                     Within(in) ==
                         [r EXCEPT !.in = in, !.bracketed = @ + (IF c = "(" THEN 1 ELSE 0)]
                 IN CASE r.in = "escape" -> [r EXCEPT !.in = "text"]
                      [] r.in = "open" -> Within("bracket")
                      [] r.in = "bracket" -> Within(IF c = "]" THEN "text" ELSE "bracket")
                      [] r.in = "text" /\ c = "\\" -> [r EXCEPT !.in = "escape"]
                      [] r.in = "text" /\ c = "[" -> [r EXCEPT !.in = "open"]
                      [] r.in = "text" /\ c = "(" -> [r EXCEPT !.groups = @ + 1]
                      [] OTHER -> r
    IN state[Len(regex)]
=============================================================================
