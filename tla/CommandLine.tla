---------------------------- MODULE CommandLine ----------------------------
(***************************************************************************)
(* main of cli.c: the options are registered and parsed one by one, the    *)
(* formats decide whether the map of unspent outputs is kept, and the      *)
(* callback for a format prints it, character by character.                *)
(***************************************************************************)
EXTENDS Opt, Format, Calculations

CONSTANTS
    Lines,      \* command lines without argv[0]
    IntMax, LongMax,
    Jobs,       \* what a callback may be called with: [coinbase, inputs, outputs, now, last, utxo]
    Tried(_)    \* bound: those of them that are tried with a format

Kinds == {"block", "tx", "input", "output", "utxo"}

Utxos == [amount : 0..Word - 1, timestamp : 0..Half - 1]

IsSequence(s) == s \in Seq({s[k] : k \in DOMAIN s})

\* Words and their letters are as Opt has them.
ASSUME LinesAssumption ==
    /\ NULL \notin {"error", "usage"}
    /\ \A l \in Lines :
          /\ IsSequence(l)
          /\ \A k \in DOMAIN l :
                /\ l[k].dash \in 0..2
                /\ l[k].dash = 1 => IsSequence(l[k].letters)

\* Amounts fill a word and timestamps half of one; the inputs of a transaction are
\* fewer than 2^32, as they are all in one block.
ASSUME JobsAssumption ==
    \A with \in Jobs :
        /\ with.inputs \in Seq(Utxos) /\ Len(with.inputs) <= Half
        /\ with.now \in 0..Half - 1 /\ with.last \in (0..Half - 1) \cup {NULL}
        /\ with.utxo \in Utxos

Opt1(short, long, kind, target) == [short |-> short, long |-> long, kind |-> kind, target |-> target]

\* The calls of opt_register_arg and opt_register_noarg.
CliTable ==
    << Opt1({"h"}, {"help"}, "usage", "usage"),
       Opt1({}, {"block"}, "charp", "block"),
       Opt1({}, {"tx", "transaction"}, "charp", "tx"),
       Opt1({}, {"input"}, "charp", "input"),
       Opt1({}, {"output"}, "charp", "output"),
       Opt1({}, {"utxo"}, "charp", "utxo"),
       Opt1({}, {"utxo-period"}, "uint", "utxo_period"),
       Opt1({}, {"progress"}, "uint", "progress_marks"),
       Opt1({}, {"no-mmap"}, "clear", "use_mmap"),
       Opt1({"q"}, {"quiet"}, "set", "quiet"),
       Opt1({"t"}, {"testnet"}, "set", "use_testnet"),
       Opt1({}, {"blockdir"}, "charp", "blockdir"),
       Opt1({}, {"end-hash"}, "hash", "tip"),
       Opt1({}, {"start-hash"}, "hash", "start_hash"),
       Opt1({}, {"start"}, "ulong", "block_start"),
       Opt1({}, {"end"}, "ulong", "block_end"),
       Opt1({}, {"cache"}, "charp", "cachedir") >>

\* The values of main's variables before parsing; -1UL has all bits set.
Defaults ==
    [target \in {Table[i].target : i \in DOMAIN Table} |->
        CASE target \in {"quiet", "use_testnet", "usage"} -> FALSE
          [] target = "use_mmap" -> TRUE
          [] target = "utxo_period" -> 144
          [] target \in {"progress_marks", "block_start"} -> 0
          [] target = "block_end" -> 2 * LongMax + 1
          [] target \in {"tip", "start_hash"} -> 0
          [] OTHER -> NULL]

-----------------------------------------------------------------------------
\* The callbacks of the options: whether the text is accepted, and the value.
\* strtol, opt_set_longval, opt_set_intval, opt_set_uintval, opt_set_ulongval,
\* opt_set_hash.
Fits(text, max) == text.number # NULL /\ text.number \in 0..max
Accepts(kind, text) ==
    CASE kind = "uint" -> Fits(text, IntMax)
      [] kind = "ulong" -> Fits(text, LongMax)
      [] kind = "hash" -> text.hash # NULL
      [] OTHER -> TRUE
Value(kind, text) ==
    CASE kind = "set" -> TRUE
      [] kind = "clear" -> FALSE
      [] kind = "charp" -> text.format
      [] kind = "hash" -> text.hash
      [] OTHER -> text.number

\* strstr(format, "%..").
HasCode(format, code) == \E c \in DOMAIN format : format[c] = "%" /\ Escape(format, c) = code
HasAny(format, codes) == format # NULL /\ \E code \in codes : HasCode(format, code)

\* Mutant: %iT is forgotten.
NeedsUtxoNoTxnum(formats) ==
    \/ HasAny(formats["tx"], Calculated) \/ HasAny(formats["output"], Calculated)
    \/ HasAny(formats["input"], (Calculated \cup Looked) \ {<<"i", "T">>})
    \/ formats["utxo"] # NULL

\* main: formats gives the format for each callback, NULL if there is none.
NeedsUtxo(formats) ==
    \/ HasAny(formats["tx"], Calculated) \/ HasAny(formats["output"], Calculated)
    \/ HasAny(formats["input"], Calculated \cup Looked)
    \/ formats["utxo"] # NULL
-----------------------------------------------------------------------------
VARIABLES
    pc,
    line,      \* the command line
    posix,     \* whether POSIXLY_CORRECT is set
    argv,      \* the words still there, by their positions in line
    offset,    \* how many letters of a word -abc have been dealt with
    settings,  \* the variables that the options set
    needsUtxo, \* needs_utxo
    job,       \* the callback in progress: [kind, format, coinbase, now, last, inputs, outputs, utxo]
    at,        \* c, a position in the format
    out,       \* what has been printed
    sum        \* calculate_bdd: the sum, and how many inputs are in it

parseVars == <<line, posix, argv, offset, settings, needsUtxo>>
printVars == <<job, at, out, sum>>
vars == <<pc, parseVars, printVars>>

Init ==
    /\ pc = "parse"
    /\ line \in Lines /\ posix \in BOOLEAN
    /\ argv = [k \in DOMAIN line |-> k]
    /\ offset = 0
    /\ settings = Defaults
    /\ needsUtxo = FALSE
    /\ job = NULL /\ at = 0 /\ out = <<>> /\ sum = NULL

\* opt_parse: opt_log_stderr_exit ends the program at the first error.
Parse ==
    LET r == ParseOne(line, argv, offset, posix) IN
    /\ pc = "parse"
    /\ argv' = r.argv /\ offset' = r.offset
    /\ \/ r.what = "done" /\ pc' = "parsed" /\ UNCHANGED settings
       \/ r.what = "error" /\ pc' = "error" /\ UNCHANGED settings
       \/ /\ r.what = "call"
          /\ LET opt == Table[r.opt] IN
             \/ opt.kind = "usage" /\ pc' = "usage" /\ UNCHANGED settings
             \/ /\ opt.kind # "usage" /\ Accepts(opt.kind, r.text)
                /\ settings' = [settings EXCEPT ![opt.target] = Value(opt.kind, r.text)]
                /\ UNCHANGED pc
             \/ opt.kind # "usage" /\ ~Accepts(opt.kind, r.text) /\ pc' = "error" /\ UNCHANGED settings
    /\ UNCHANGED <<line, posix, needsUtxo, printVars>>

\* Words that are left over: the usage message, else iterate() is called.
Iterate ==
    /\ pc = "parsed"
    /\ pc' = IF argv # <<>> THEN "usage" ELSE "iterate"
    /\ needsUtxo' = (argv = <<>> /\ NeedsUtxo([k \in Kinds |-> settings[k]]))
    /\ UNCHANGED <<line, posix, argv, offset, settings, printVars>>

-----------------------------------------------------------------------------
\* iterate() calls print_block, print_transaction, ..., for the formats there are.
CallBack ==
    /\ pc = "iterate" /\ job = NULL
    /\ \E kind \in {k \in Kinds : settings[k] # NULL} :
          \E with \in Jobs \cap Tried(settings[kind]) :
             job' = [kind |-> kind, format |-> settings[kind], coinbase |-> with.coinbase,
                     inputs |-> with.inputs, outputs |-> with.outputs,
                     now |-> with.now, last |-> with.last, utxo |-> with.utxo]
    /\ pc' = "print" /\ at' = 1
    /\ UNCHANGED <<parseVars, out, sum>>

Char == CharAt(job.format, at)
Code == Escape(job.format, at)
Shows(code, value) == out' = Append(out, [code |-> code, value |-> value])

PrintLiteral ==
    /\ pc = "print" /\ Char \notin {"%", "NUL"}
    /\ Shows(<<Char>>, 0)
    /\ at' = at + 1
    /\ UNCHANGED <<pc, parseVars, job, sum>>

\* The step over the two letters may lead past the NUL.
After == at + 3
PastNUL == After > Len(job.format) + 1
Stepped == /\ pc' = IF PastNUL THEN "past" ELSE "print"
           /\ at' = After

\* A letter that is none of the classes: nothing is printed.
SkipEscape ==
    /\ pc = "print" /\ Char = "%" /\ Code[1] \notin Class
    /\ Stepped
    /\ UNCHANGED <<parseVars, job, out, sum>>

BadFormat ==
    /\ pc = "print" /\ Char = "%" /\ BadEscape(Code, job.kind)
    /\ pc' = "badFormat"
    /\ UNCHANGED <<parseVars, printVars>>

Printing(codes) == pc = "print" /\ Char = "%" /\ KnownEscape(Code, job.kind) /\ Code \in codes

\* The code for the sequence number stands with those of an output, whose i is NULL.
SequenceOfOutput ==
    /\ Printing({<<"o", "q">>})
    /\ pc' = "nullInput"
    /\ UNCHANGED <<parseVars, printVars>>

PrintFees ==
    /\ Printing({<<"t", "F">>})
    /\ LET fees == Fees(job.inputs, job.outputs, job.coinbase) IN
       \/ /\ job.coinbase \/ fees >= 0
          /\ Shows(Code, fees) /\ Stepped
       \/ /\ ~job.coinbase /\ fees < 0
          /\ pc' = "invalidTotal" /\ UNCHANGED <<at, out>>
    /\ UNCHANGED <<parseVars, job, sum>>

\* calculate_bdd: the loop over the inputs.
StartDays ==
    /\ Printing({<<"t", "D">>}) /\ sum = NULL
    /\ IF job.coinbase THEN Shows(Code, 0) /\ Stepped /\ UNCHANGED sum
       ELSE sum' = [s |-> Nothing, n |-> 0] /\ UNCHANGED <<pc, at, out>>
    /\ UNCHANGED <<parseVars, job>>

AddInput ==
    /\ sum # NULL /\ sum.n < Len(job.inputs)
    /\ LET utxo == job.inputs[sum.n + 1] IN
       sum' = [s |-> MulAndAdd(sum.s, utxo.amount, DestroyedFor(utxo, job.now)), n |-> sum.n + 1]
    /\ UNCHANGED <<pc, parseVars, job, at, out>>

PrintDays ==
    /\ sum # NULL /\ sum.n = Len(job.inputs)
    /\ Shows(Code, Days(sum.s)) /\ Stepped
    /\ sum' = NULL
    /\ UNCHANGED <<parseVars, job>>

\* %uC; last_utxo_block is NULL at the first call of utxofn.
PrintCreated ==
    /\ Printing({<<"u", "C">>})
    /\ Shows(Code, IF job.last = NULL THEN 0 ELSE CalculateBdc(job.utxo, job.now, job.last))
    /\ Stepped
    /\ UNCHANGED <<parseVars, job, sum>>

\* %ip: UNKNOWN_OUTPUT for a coinbase; else the output is looked up, but not its type.
PrintGuess ==
    /\ Printing({<<"i", "p">>})
    /\ Shows(Code, IF job.coinbase THEN 0 ELSE 1)
    /\ Stepped
    /\ UNCHANGED <<parseVars, job, sum>>

\* Any other code: a field of a struct.
PrintField ==
    /\ pc = "print" /\ Char = "%" /\ KnownEscape(Code, job.kind)
    /\ Code \notin Calculated \cup {<<"u", "C">>, <<"i", "p">>, <<"o", "q">>}
    /\ Shows(Code, 0)
    /\ Stepped
    /\ UNCHANGED <<parseVars, job, sum>>

EndOfFormat ==
    /\ pc = "print" /\ Char = "NUL"
    /\ pc' = "printed"
    /\ UNCHANGED <<parseVars, printVars>>

Next ==
    \/ Parse \/ Iterate \/ CallBack
    \/ PrintLiteral \/ SkipEscape \/ BadFormat \/ SequenceOfOutput
    \/ PrintFees \/ StartDays \/ AddInput \/ PrintDays \/ PrintCreated \/ PrintGuess \/ PrintField
    \/ EndOfFormat

Spec == Init /\ [][Next]_vars

-----------------------------------------------------------------------------
(***************************************************************************)
(* Properties.                                                             *)
(***************************************************************************)

\* The reference: the words from left to right.  want is the option that the
\* next word is the argument of, 0 if there is none.
Set(acc, i, text) ==
    LET opt == Table[i] IN
    IF opt.kind = "usage" THEN [acc EXCEPT !.end = "usage"]
    ELSE IF Accepts(opt.kind, text) THEN [acc EXCEPT !.settings[opt.target] = Value(opt.kind, text)]
    ELSE [acc EXCEPT !.end = "error"]

OneLetter(acc, letter) ==
    LET i == ShortOpt(letter) IN
    IF acc.end # NULL \/ acc.taken THEN acc
    ELSE IF acc.want # 0 THEN [Set(acc, acc.want, Dashed) EXCEPT !.want = 0, !.taken = TRUE]
    ELSE IF i = 0 THEN [acc EXCEPT !.end = "error"]
    ELSE IF NoArg(Table[i]) THEN Set(acc, i, NULL) ELSE [acc EXCEPT !.want = i]

AllLetters(acc, letters) ==
    LET after[k \in 0..Len(letters)] ==
            IF k = 0 THEN acc ELSE OneLetter(after[k - 1], letters[k])
    IN after[Len(letters)]

OneWord(acc, word) ==
    IF acc.end # NULL THEN acc
    ELSE IF acc.want # 0 THEN [Set(acc, acc.want, TextOf(word)) EXCEPT !.want = 0]
    ELSE IF acc.stop \/ word.dash = 0
    THEN [acc EXCEPT !.left = @ + 1, !.stop = @ \/ posix]
    ELSE IF word.dash = 1
    THEN IF word.letters = <<>> THEN [acc EXCEPT !.end = "error"]
         ELSE [AllLetters(acc, word.letters) EXCEPT !.taken = FALSE]
    ELSE LET i == LongOpt(word.name) IN
         IF word.name = "" THEN [acc EXCEPT !.stop = TRUE]
         ELSE IF i = 0 \/ (NoArg(Table[i]) /\ word.eq) THEN [acc EXCEPT !.end = "error"]
         ELSE IF NoArg(Table[i]) THEN Set(acc, i, NULL)
         ELSE IF word.eq THEN Set(acc, i, word.text) ELSE [acc EXCEPT !.want = i]

\* What has been read when only these values are set and left words are left.
Going(values, left) ==
    [settings |-> values, left |-> left, want |-> 0, stop |-> FALSE, taken |-> FALSE, end |-> NULL]

Meaning ==
    LET after[k \in 0..Len(line)] ==
            IF k = 0 THEN Going(Defaults, 0) ELSE OneWord(after[k - 1], line[k])
    IN after[Len(line)]

\* The words mean what they mean from left to right, wherever the options are
\* among them, although parse_one starts again at argv[1] for each option and
\* takes words out of the middle.
ParsedAsMeant ==
    /\ pc = "error" => Meaning.end = "error" \/ Meaning.want # 0
    /\ pc = "usage" => Meaning.end = "usage" \/ (Meaning.end = NULL /\ Meaning.left > 0)
    /\ pc = "iterate" =>
          Meaning.end = NULL /\ Meaning.want = 0 /\ Meaning.left = 0 /\ settings = Meaning.settings

\* No format makes a callback look for an unspent output in a map that main did
\* not ask iterate() to keep.
MapKeptIfRead ==
    pc = "print" /\ Char = "%" /\ KnownEscape(Code, job.kind) /\ ReadsMap(Code, job.coinbase) => needsUtxo

\* The days printed for a transaction are those of its inputs: no more, and less
\* by rounding only; -2 if they are too many to be divided.
ExactSum(t) == Total([k \in DOMAIN t.inputs |-> t.inputs[k].amount * DestroyedFor(t.inputs[k], t.now)])
CloseTo(value, seconds) ==
    IF seconds >= (Day \div 2) * Word THEN value = -2
    ELSE value >= 0 /\ value * Day <= seconds /\ seconds < (value + DayShift + 1) * Day
\* Those created by an output, if no block is older than the one before it: for
\* the time since utxofn saw it last, or since it was created.
Since(t) == IF t.last > t.utxo.timestamp THEN t.last ELSE t.utxo.timestamp
DaysExact ==
    \A k \in DOMAIN out :
       /\ out[k].code = <<"t", "D">> /\ ~job.coinbase => CloseTo(out[k].value, ExactSum(job))
       /\ /\ out[k].code = <<"u", "C">> /\ job.last # NULL
          /\ 0 < job.last /\ job.last <= job.now /\ job.utxo.timestamp <= job.now
          => CloseTo(out[k].value, job.utxo.amount * (job.now - Since(job)))
=============================================================================
