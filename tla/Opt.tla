-------------------------------- MODULE Opt --------------------------------
(***************************************************************************)
(* ccan/opt: parse_one, which takes one option and its argument out of     *)
(* argv, wherever they are, and calls the option's callback.               *)
(*                                                                         *)
(* A word of the command line is                                           *)
(*   [dash |-> 0, text]             no option                              *)
(*   [dash |-> 1, letters]          -abc; "-" has no letters               *)
(*   [dash |-> 2, name, eq, text]   --name, or --name=text if eq           *)
(*   [dash |-> 2, name |-> "" ...]  --                                     *)
(* argv holds the positions of the words in the command line, so that it   *)
(* can be seen whether two pointers are the same.                          *)
(***************************************************************************)
EXTENDS Integers, Sequences, SequencesExt

CONSTANTS
    Table,  \* opt_table: sequence of [short, long, kind, target]
    NULL

\* A text as each of the callbacks would read it; NULL if it cannot be read so.
\* A word with dashes that is an argument, and letters that are, are no numbers.
Dashed == [format |-> <<"-">>, number |-> NULL, hash |-> NULL]
TextOf(word) == IF word.dash = 0 THEN word.text ELSE Dashed

NoArg(opt) == opt.kind \in {"set", "clear", "usage"}

\* first_lopt, next_lopt, first_sopt, next_sopt: the options with a name in the
\* order in which they were registered; 0 if there is none.
FirstOf(found) == IF found = {} THEN 0 ELSE CHOOSE i \in found : \A j \in found : i <= j
LongOpt(name) == FirstOf({i \in DOMAIN Table : name \in Table[i].long})
ShortOpt(letter) == FirstOf({i \in DOMAIN Table : letter \in Table[i].short})

\* consume_option.
Consume(argv, k) == RemoveAt(argv, k)

\* Where the next option is, 0 if there is none.
NextOption(line, argv, posix) ==
    LET dashes == {k \in DOMAIN argv : line[argv[k]].dash > 0}
    IN FirstOf(IF posix THEN dashes \cap {1} ELSE dashes)

\* What parse_one does, as a record: "done" (0), "call" (1) or "error" (-1); for a
\* call the option and the text of its argument, argv and offset after it.
Outcome(what, argv) == [what |-> what, argv |-> argv, offset |-> 0]
Call(i, text, argv, offset) ==
    [what |-> "call", argv |-> argv, offset |-> offset, opt |-> i, text |-> text]

\* Mutant: the argument stays in argv.
WithNextKept(line, argv, k, i) ==
    IF k = Len(argv) THEN Outcome("error", argv)
    ELSE Call(i, TextOf(line[argv[k + 1]]), Consume(argv, k), 0)

\* An option that needs an argument takes the next word.
WithNext(line, argv, k, i) ==
    IF k = Len(argv) THEN Outcome("error", argv)
    ELSE Call(i, TextOf(line[argv[k + 1]]), Consume(Consume(argv, k), k), 0)

ParseLong(line, argv, k) ==
    LET word == line[argv[k]]
        i == LongOpt(word.name)
    IN IF i = 0 THEN Outcome("error", argv)
       ELSE IF NoArg(Table[i])
       THEN IF word.eq THEN Outcome("error", argv) ELSE Call(i, NULL, Consume(argv, k), 0)
       ELSE IF word.eq THEN Call(i, word.text, Consume(argv, k), 0)
       ELSE WithNext(line, argv, k, i)

ParseShort(line, argv, k, offset) ==
    LET letters == line[argv[k]].letters
        i == IF offset < Len(letters) THEN ShortOpt(letters[offset + 1]) ELSE 0
        last == offset + 1 = Len(letters)
    IN IF i = 0 THEN Outcome("error", argv)
       ELSE IF NoArg(Table[i])
       THEN IF last THEN Call(i, NULL, Consume(argv, k), 0) ELSE Call(i, NULL, argv, offset + 1)
       ELSE IF ~last THEN Call(i, Dashed, Consume(argv, k), 0)
       ELSE WithNext(line, argv, k, i)

ParseOne(line, argv, offset, posix) ==
    LET k == NextOption(line, argv, posix) IN
    IF k = 0 THEN Outcome("done", argv)
    ELSE IF line[argv[k]].dash = 2
    THEN IF line[argv[k]].name = "" THEN Outcome("done", Consume(argv, k))
         ELSE ParseLong(line, argv, k)
    ELSE ParseShort(line, argv, k, offset)
=============================================================================
