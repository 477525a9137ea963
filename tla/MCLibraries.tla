---------------------------- MODULE MCLibraries ----------------------------
(***************************************************************************)
(* Keys of up to three blocks of the hash and arrays of every width; every *)
(* integer around the limits of its type, words of 8 and 16 bits, with 3   *)
(* and 4 as the bases of suffixes; short strings of the characters that    *)
(* matter; one or two failures at any of the calls to the allocator;       *)
(* buffers that start with one or two bytes; and the files                 *)
(*      /a/b/f   /a/u -> ..   /l -> a/b                                    *)
(* where b may be moved to the root.                                       *)
(***************************************************************************)
EXTENDS Libraries

Strs(chars, max) == UNION {[1..n -> chars] : n \in 0..max}

MCKeys == {[i \in 1..n |-> i] : n \in 0..25}
MCArrays ==
    {[width |-> w, ints |-> [i \in 1..n |-> [p \in 1..w |-> (i - 1) * w + p]]] :
        w \in {1, 2, 4, 8}, n \in 0..13}

Around(x) == {x - 1, x, x + 1}
MCNumbers ==
    UNION {Around(x) : x \in {0, IntMax, 2 * IntMax + 1, LLMax, 2 * LLMax + 1,
                              -IntMax - 1, -LLMax - 1}}
    \cup UNION {Around(m \div base ^ i) \cup Around(-(m \div base ^ i)) :
                   m \in {IntMax, LLMax, LLMax + 1}, base \in Bases, i \in 1..6}
    \cup {k * base ^ i : k \in {1, 3, 7}, base \in Bases, i \in 1..6}
MCNumbersShown == {x \in MCNumbers : x <= LLMax}
MCTexts ==
    {[number |-> n, tail |-> tail, empty |-> FALSE] :
        n \in MCNumbers,
        tail \in {<<>>, <<"k">>, <<"K">>, <<"m">>, <<"G">>, <<"t">>, <<"P">>, <<"E">>, <<"e">>, <<"k", "k">>}}
    \cup {[number |-> 0, tail |-> <<>>, empty |-> TRUE]}

MCSplits ==
    {[s |-> s, delims |-> d, emptyOk |-> e] :
        s \in Strs({"a", ",", ";"}, 5) \cup Strs({","}, 7), d \in {{","}, {",", ";"}}, e \in BOOLEAN}
MCRegexes == Strs({"(", "\\", "[", "]"}, 5)
MCHexTexts == Strs({"0", "9", "a", "F", "g"}, 4)
MCBytes == Strs({0, 9, 10, 15, 16, 165, 255}, 3)
MCFailures == {s \in SUBSET (1..7) : Cardinality(s) <= 2}
MCStreams == Strs({"a", ","}, 4)

MCNewline == "\n"
MCArg == <<" ", "g">>
MCDefault == <<" ", "=">>
MCClosing == <<")">>
MCDots == <<".", ".">>
MCNames == {<<"n">>, <<"n", "n">>, <<"n", "n", "n", "n">>}
Option(names, arg, desc, show) == [names |-> names, arg |-> arg, desc |-> desc, show |-> show]
MCTables ==
    {<<>>,
     <<Option(NULL, FALSE, <<"s", " ", "s">>, NULL), Option(<<"n", "n", "n">>, TRUE, <<"x">>, <<"v">>),
       Option(<<"h", "h", "h", "h", "h">>, TRUE, NULL, NULL)>>}
MCDescs == Strs({"x", " "}, 6) \cup Strs({"x", " ", "\n"}, 4)

MCFiles == {"root", "a", "b", "f", "l", "u"}
MCTarget == [f \in {"l", "u"} |-> IF f = "l" THEN <<"a", "b">> ELSE <<"..">>]
MCNameOf == [f \in MCFiles \ {"root"} |-> f]
MCHome == [f \in MCFiles \ {"root"} |-> CASE f \in {"a", "l"} -> "root" [] f \in {"b", "u"} -> "a" [] f = "f" -> "b"]

PathsOf(names, max) == UNION {[1..n -> names] : n \in 1..max}
MCFolders == PathsOf({"", "..", "a", "b", "l", "u"}, 2) \cup {<<"", "a", "b">>, <<"", "l", "">>}
MCJoined == PathsOf({"", "..", "a", "b", "l", "f"}, 2) \cup {<<"", "a", "b", "f">>}
MCPathnames == PathsOf({"", ".", "..", "a", "b", "l", "u", "f"}, 3)
=============================================================================
