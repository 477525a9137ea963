--------------------------- MODULE MCCommandLine ---------------------------
(***************************************************************************)
(* Command lines of up to three words with options of every kind, and one  *)
(* option more than the program has (-f, with an argument); and one word   *)
(* with a format of up to four characters, or two codes.                   *)
(*                                                                         *)
(* Words of six bits instead of 64, days of five seconds, timestamps of    *)
(* three bits.                                                             *)
(***************************************************************************)
EXTENDS CommandLine

MCTable == Append(CliTable, Opt1({"f"}, {"file"}, "charp", "file"))

AsFormat(s) == [format |-> s, number |-> NULL, hash |-> NULL]
AsNumber(n) == [format |-> <<"9">>, number |-> n, hash |-> NULL]
AsHash == [format |-> <<"h">>, number |-> NULL, hash |-> 1]

Plain(text) == [dash |-> 0, text |-> text]
Short(letters) == [dash |-> 1, letters |-> letters]
Long(name) == [dash |-> 2, name |-> name, eq |-> FALSE]
With(name, text) == [dash |-> 2, name |-> name, eq |-> TRUE, text |-> text]

MCWords ==
    {Plain(AsFormat(<<"x">>)), Plain(AsNumber(5)), Plain(AsNumber(8)), Plain(AsHash),
     Short(<<>>), Short(<<"q">>), Short(<<"q", "t">>), Short(<<"q", "f">>), Short(<<"f", "q", "t">>),
     Short(<<"h">>), Short(<<"z">>), Long(""), Long("no-mmap"), Long("block"), Long("transaction"),
     Long("start"), Long("progress"), Long("end-hash"), Long("zz"),
     With("tx", AsFormat(<<>>)), With("quiet", AsFormat(<<"x">>)), With("end", AsNumber(-1)),
     With("end", AsNumber(8)), With("utxo-period", AsNumber(8)), With("start", AsNumber(64))}

MCChars == {"%", "t", "F", "D", "i", "T"}
MCFormats ==
    UNION {[1..n -> MCChars] : n \in 0..4}
    \cup {<<"%", c, x>> : c \in Class, x \in UNION {Letters(k) : k \in Class}}
    \cup {<<"%", "t", x, "%", "i", y>> : x \in {"D", "F", "h"}, y \in {"a", "B", "p"}}
    \cup {<<"%">>, <<"%", "x">>, <<"x", "%", "y">>, <<"%", "%", "t", "D">>}

MCLines ==
    UNION {[1..n -> MCWords] : n \in 0..3}
    \cup {<<With(kind, AsFormat(f))>> : kind \in Kinds, f \in MCFormats}

Utxo(a, t) == [amount |-> a, timestamp |-> t]
Job(coinbase, ins, outs, now, last, utxo) ==
    [coinbase |-> coinbase, inputs |-> ins, outputs |-> outs, now |-> now, last |-> last, utxo |-> utxo]

MCAmounts == {0, 7, 9, 36, 63}
MCUtxos == {Utxo(a, t) : a \in MCAmounts, t \in {0, 3, 6}}
Nine == Utxo(9, 1)

Simple == {Job(c, <<Nine>>, <<3, 4>>, 5, 2, Nine) : c \in BOOLEAN}
Destroyed == {Job(FALSE, ins, <<0>>, now, NULL, Nine) :
                 ins \in UNION {[1..n -> MCUtxos] : n \in 1..2}, now \in {2, 7}}
Created == {Job(FALSE, <<>>, <<>>, now, last, u) : now \in {2, 5, 7}, last \in (0..7) \cup {NULL}, u \in MCUtxos}
Paid == {Job(c, <<u>>, outs, 5, NULL, Nine) : c \in BOOLEAN, u \in MCUtxos, outs \in {<<0>>, <<9, 7>>}}

MCJobs == Simple \cup Destroyed \cup Created \cup Paid
MCTried(format) ==
    CASE format = <<"%", "t", "D">> -> Destroyed
      [] format = <<"%", "u", "C">> -> Created
      [] format = <<"%", "t", "F">> -> Paid
      [] OTHER -> Simple
=============================================================================
