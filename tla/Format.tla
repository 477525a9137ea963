------------------------------- MODULE Format -------------------------------
(***************************************************************************)
(* format.c: the escape codes of print_format, and which of them read the  *)
(* map of unspent outputs.  A format is a sequence of characters.          *)
(***************************************************************************)
EXTENDS Integers, Sequences

\* Which of the arguments t, i, o and u of print_format each callback has.
Given(kind) == CASE kind = "block" -> {"b"}
                 [] kind = "tx" -> {"b", "t"}
                 [] kind = "input" -> {"b", "t", "i"}
                 [] kind = "output" -> {"b", "t", "o"}
                 [] kind = "utxo" -> {"b", "u"}

Class == {"b", "t", "i", "o", "u"}
Letters(class) ==
    CASE class = "b" -> {"l", "v", "p", "m", "s", "t", "n", "c", "h", "N", "H"}
      [] class = "t" -> {"h", "H", "v", "i", "o", "t", "L", "n", "l", "w", "N", "F", "D", "X", "S"}
      [] class = "i" -> {"h", "i", "l", "s", "N", "X", "a", "B", "T", "p"}
      [] class = "o" -> {"a", "l", "s", "q", "N", "U", "X"}
      [] class = "u" -> {"h", "n", "t", "N", "a", "C"}

\* The character at c, or the NUL after the last one.
CharAt(format, c) == IF c \in DOMAIN format THEN format[c] ELSE "NUL"
Escape(format, c) == <<CharAt(format, c + 1), CharAt(format, c + 2)>>

KnownEscape(e, kind) == e[1] \in Given(kind) /\ e[2] \in Letters(e[1])
BadEscape(e, kind) == e[1] \in Class /\ ~KnownEscape(e, kind)

\* The codes that look up an unspent output, unless the transaction is a coinbase.
Calculated == {<<"t", "F">>, <<"t", "D">>}
Looked == {<<"i", "a">>, <<"i", "B">>, <<"i", "T">>, <<"i", "p">>}
ReadsMap(e, coinbase) == ~coinbase /\ e \in Calculated \cup Looked

=============================================================================
