----------------------------- MODULE Libraries -----------------------------
(***************************************************************************)
(* Calls to the libraries in ccan/ that keep no state of their own but the *)
(* current directory: ccan/hash, the callbacks and the usage message of    *)
(* ccan/opt, ccan/tal/str, ccan/tal/path, ccan/tal/grab_file, ccan/rbuf,  *)
(* ccan/str/hex and ccan/take.                                             *)
(*                                                                         *)
(* The variable call is the call that has just returned, with what it was  *)
(* called with; the properties say what it returns.  While a directory is  *)
(* pushed there are only calls to path_popd, tal_free and path_pushd.      *)
(***************************************************************************)
EXTENDS Hash, Values, Buffers, Usage, Take, Paths

CONSTANTS
    Keys,        \* keys of bytes
    Arrays,      \* arrays of integers: [width, ints]
    Alignments,  \* what the address of a key may be, modulo 4
    Texts,       \* what is given to the callbacks that set an integer
    Numbers,     \* what they show
    Splits,      \* [s, delims, emptyOk]
    Delim,       \* the delimiter that strings are joined with
    Regexes,
    HexTexts, Bytes, \* strings to decode, and bytes to encode
    Failures,    \* sets of calls to the allocator that fail
    Sizes,       \* sizes of what is put into a buffer
    Chunks,      \* what one read gives at most
    Streams,     \* what is read with rbuf
    Descs, Names, Columns, \* of the usage message, and the options before the one
    Tables,      \* with this name and description
    Folders, Joined, Pathnames, \* names of directories, what is joined to them, any paths
    HomeOf       \* where the files are at first

VARIABLE call

vars == <<call, haveFchdir, parent, cwd, saved>>

Init ==
    /\ call = NULL
    /\ parent = HomeOf
    /\ PathsInit

\* No call is on its way and nothing is pushed; and nothing has been moved and no
\* directory entered.
NothingPushed == call = NULL /\ \A o \in Owners : saved[o] = NULL
AtHome == NothingPushed /\ haveFchdir /\ cwd = Root /\ parent = HomeOf

Call(what) == call' = what /\ UNCHANGED pathVars
Return == call # NULL /\ call' = NULL /\ UNCHANGED pathVars

-----------------------------------------------------------------------------
HashAnyCall == AtHome /\ \E key \in Keys : Call([of |-> "hash_any", key |-> key])
HashStableCall ==
    /\ AtHome
    /\ \E array \in Arrays : Call([of |-> "hash_stable", width |-> array.width, key |-> array.ints])

SetCall ==
    /\ AtHome
    /\ \E type \in Types, base \in Bases, text \in Texts :
          Call([of |-> "set", type |-> type, base |-> base, text |-> text])
SetPlainCall ==
    /\ AtHome
    /\ \E type \in PlainTypes, text \in Texts : Call([of |-> "set_plain", type |-> type, text |-> text])
ShowCall ==
    /\ AtHome
    /\ \E type \in Types, base \in Bases, x \in Numbers :
          Call([of |-> "show", type |-> type, base |-> base, x |-> x])

SplitCall == AtHome /\ \E split \in Splits : Call([of |-> "tal_strsplit", split |-> split])
RegexCall == AtHome /\ \E regex \in Regexes : Call([of |-> "tal_strreg", regex |-> regex])
HexDecodeCall ==
    /\ AtHome
    /\ \E text \in HexTexts, size \in Sizes : Call([of |-> "hex_decode", text |-> text, size |-> size])
HexEncodeCall ==
    /\ AtHome
    /\ \E bytes \in Bytes, size \in Sizes : Call([of |-> "hex_encode", bytes |-> bytes, size |-> size])

\* Strings are given with take(), or not.
TakeCall ==
    /\ AtHome
    /\ \E fn \in Unary \cup Binary, how \in [1..2 -> {"plain", "taken", "null"}],
          only \in BOOLEAN, fails \in Failures :
          /\ fn \in Unary => how[2] = "plain"
          /\ Call([of |-> "take", fn |-> fn, how |-> how, only |-> only, fails |-> fails])

FmtCall ==
    /\ AtHome
    /\ \E n \in Sizes, m \in Sizes \ {0}, off \in Sizes :
          Call([of |-> "tal_fmt", text |-> n, fmt |-> m, off |-> off])
CwdCall == AtHome /\ \E n \in Sizes \ {0} : Call([of |-> "path_cwd", name |-> n])
ReadlinkCall == AtHome /\ \E n \in Sizes : Call([of |-> "path_readlink", link |-> n])
AddStrCall ==
    /\ AtHome
    /\ \E size, slots, n \in Sizes :
          size < slots /\ Call([of |-> "add_str", base |-> Buffer(size, slots, TRUE), len |-> n])
\* The size that fstat says need not be the length: a file may grow or be cut off
\* meanwhile, and the files of /proc have the size 0.
GrabCall ==
    /\ AtHome
    /\ \E n \in Sizes, stat \in Sizes \cup {NULL}, chunk \in Chunks :
          Call([of |-> "grab_fd", length |-> n, stat |-> stat, chunk |-> chunk])
RbufCall ==
    /\ AtHome
    /\ \E file \in Streams, max \in Sizes, chunk \in Chunks :
          Call([of |-> "rbuf", file |-> file, max |-> max, chunk |-> chunk])

UsageCall ==
    /\ AtHome
    /\ \E desc \in Descs, names \in Names, columns \in Columns, arg, show \in BOOLEAN, others \in Tables :
          Call([of |-> "opt_usage", columns |-> columns, others |-> others,
                opt |-> [names |-> names, arg |-> arg, desc |-> desc,
                         show |-> IF show THEN names ELSE NULL]])

\* A call to path_join is followed by its use as a name, and so on.
JoinCall ==
    /\ NothingPushed
    /\ \E base \in Folders, a \in Joined, slash \in BOOLEAN :
          Call([of |-> "path_join", base |-> base, a |-> a, slash |-> slash])
RelCall ==
    /\ NothingPushed
    /\ \E from \in Folders, to \in Joined : Call([of |-> "path_rel", from |-> from, to |-> to])
SimplifyCall == NothingPushed /\ \E p \in Pathnames : Call([of |-> "path_simplify", p |-> p])
DirnameCall == NothingPushed /\ \E p \in Pathnames : Call([of |-> "path_dirname", p |-> p])
CanonCall == NothingPushed /\ \E p \in Pathnames : Call([of |-> "path_canon", p |-> p])
PathSplitCall == NothingPushed /\ \E p \in Pathnames : Call([of |-> "path_split", p |-> p])

-----------------------------------------------------------------------------
Pushd ==
    /\ call = NULL
    /\ \E o \in Owners, dir \in Folders : PathPushd(o, dir)
    /\ UNCHANGED call

Popd ==
    /\ call = NULL
    /\ \E o \in Owners :
          /\ PathPopd(o)
          /\ call' = [of |-> "path_popd", from |-> saved[o]]

Free ==
    /\ call = NULL
    /\ \E o \in Owners : FreePushd(o)
    /\ UNCHANGED call

MoveDirectory ==
    /\ call = NULL
    /\ \E d \in Moved, to \in Dirs : Move(d, to)
    /\ UNCHANGED call

Next ==
    \/ HashAnyCall \/ HashStableCall
    \/ SetCall \/ SetPlainCall \/ ShowCall
    \/ SplitCall \/ RegexCall \/ HexDecodeCall \/ HexEncodeCall
    \/ FmtCall \/ CwdCall \/ ReadlinkCall \/ AddStrCall \/ GrabCall \/ RbufCall
    \/ TakeCall \/ UsageCall
    \/ JoinCall \/ RelCall \/ SimplifyCall \/ DirnameCall \/ CanonCall \/ PathSplitCall
    \/ Pushd \/ Popd \/ Free \/ MoveDirectory
    \/ Return

Spec == Init /\ [][Next]_vars

-----------------------------------------------------------------------------
Returned(fn) == call # NULL /\ call.of = fn

\* hash_any depends on every byte of the key, and not on where the key is ("Hash
\* should be the same, indep of memory alignment", in the tests of ccan/hash);
\* hash_u32 is hash_any of the bytes of the array in the memory of the machine,
\* and hash_stable is the same on all machines.
HashesAgree ==
    /\ Returned("hash_any") =>
          \A machine \in Machines, align \in Alignments :
              LET h == HashAny(machine, align, call.key, 0) IN
              /\ h = HashAny(machine, 1, call.key, 0)
              /\ BytesOf(h) = ToSet(call.key)
    /\ Returned("hash_stable") =>
          \A machine \in Machines, align \in Alignments :
              /\ call.width = 4 =>
                    HashU32(call.key, 0) = HashAny(machine, align, InMemory(machine, call.key), 0)
              /\ HashStable(machine, align, call.width, call.key, 0)
                    = HashStable("little", 1, call.width, call.key, 0)

\* hash_stable depends on every integer of the array: "The array of simple integer
\* types pointed to by p is combined with the base to form a 32-bit hash."
StableHashIsWhole ==
    Returned("hash_stable") =>
        BytesOf(HashStable("little", 1, call.width, call.key, 0))
            = UNION {ToSet(call.key[i]) : i \in DOMAIN call.key}

\* A number with a suffix is taken, as what it means, exactly if the variable can
\* hold that, whatever overflows on the way; so is one without, if the signed
\* variable of that width can hold it too; and what is shown for a value gives
\* that value when it is set again.
ValuesExact ==
    /\ Returned("set") =>
          LET r == SetWithSuffix(call.type, call.text, call.base)
              fits == /\ Meaningful(call.text)
                      /\ InRange(Meaning(call.text, call.base), call.type)
                      /\ InRange(Meaning(call.text, call.base), "longlong")
          IN IF fits THEN r = Accepted(Meaning(call.text, call.base)) ELSE r.error
    /\ Returned("set_plain") =>
          LET r == SetPlain(call.type, call.text)
              fits == /\ ~call.text.empty /\ call.text.tail = <<>>
                      /\ InRange(call.text.number, call.type)
                      /\ InRange(call.text.number, SignedOf(call.type))
          IN IF fits THEN r = Accepted(call.text.number) ELSE r.error
    /\ Returned("show") /\ InRange(call.x, call.type) =>
          /\ SetWithSuffix(call.type, ShowWithSuffix(call.x, call.base), call.base) = Accepted(call.x)
          /\ call.type \in PlainTypes /\ InRange(call.x, SignedOf(call.type)) =>
                SetPlain(call.type, ShowPlain(call.x)) = Accepted(call.x)

\* Left out: path_pushd and tal_fmt if there is no memory to begin with, tal_strreg
\* without a regular expression and tal_expand with nothing to add.  The directory
\* is not freed, and the others read what NULL points to.
Excepted(r, fails) ==
    \/ call.fn \in {"path_pushd", "tal_fmt"} /\ r.before.steps + 1 \in fails
    \/ call.fn = "tal_strreg" /\ r.args[2] = NULL
    \/ call.fn = "tal_expand" /\ r.args[1] = NULL

Arguments == IF call.fn \in Unary THEN {First} ELSE {First, Second}
NotGiven == {Literal, Ctx} \cup {k \in {First, Second} : k \notin Arguments \/ call.how[k] # "taken"}

\* A string that was given with take() is freed when the call returns, or has become
\* what it returns, whether or not there is memory for what the call does; of a
\* call that fails nothing is left.
TakenIsFreed ==
    Returned("take") =>
        \A r \in {After(call.fn, call.how, call.only, call.fails)} :
            Excepted(r, call.fails) \/
            /\ r.m.valid
            /\ r.m.taken = <<>> /\ r.m.allocfail = 0
            /\ DOMAIN r.m.parent = NotGiven
                  \cup (IF r.ret \in {NULL, Literal} THEN {} ELSE Under(r.m, r.ret))

Blank == {Space, Newline}
WordsOf(text) == StrSplit(text, Blank, FALSE).parts
LinesOf(text) == ToSet(StrSplit(text, {Newline}, TRUE).parts)

NameWords(opt) == WordsOf(opt.names \o (IF opt.arg THEN Arg ELSE <<>>))
ValueWords(opt) == IF opt.show = NULL THEN <<>> ELSE WordsOf(Default \o ShowCharp(opt.show) \o Closing)
WordsOfOption(opt) ==
    IF ~Shown(opt) THEN <<>>
    ELSE IF IsSubtable(opt) THEN WordsOf(Append(opt.desc, ":"))
    ELSE NameWords(opt) \o WordsOf(opt.desc) \o ValueWords(opt)

\* A description that is filled: not empty, no line breaks, no blank at its start.
Filled(opt) ==
    /\ Shown(opt) /\ ~IsSubtable(opt)
    /\ WordsOf(opt.desc) # <<>> /\ Newline \notin ToSet(opt.desc) /\ opt.desc[1] # Space

\* The usage message has all the words, in their order, and a value is whole or has
\* dots behind it; and if the descriptions are filled, no line is longer than the
\* terminal is wide, but for one word or the value that does not fit with nothing
\* before it, or with nothing but the names of the option.
UsageFits ==
    Returned("opt_usage") =>
        \A table \in {Append(call.others, call.opt)} :
        \A text \in {OptUsage(<<>>, table, call.columns)} :
            /\ WordsOf(text) = FlattenSeq([i \in DOMAIN table |-> WordsOfOption(table[i])])
            /\ call.opt.show # NULL =>
                  \A value \in {<<Quote>> \o call.opt.show \o <<Quote>>}, shown \in {ShowCharp(call.opt.show)} :
                      shown = value \/ (IsSuffix(Dots, shown) /\ Len(shown) > ShowLen)
            /\ Filled(call.opt) =>
                  \A line \in LinesOf(text) :
                      Len(line) > Width(call.columns) =>
                          \E opt \in {o \in ToSet(table) : Filled(o)} : \E word \in ToSet(WordsOf(opt.desc)) :
                              WordsOf(line) \in {<<word>>, NameWords(opt) \o <<word>>,
                                                NameWords(opt), ValueWords(opt)}

\* Joining what was split gives the string back, and tal_strsplit writes to no
\* element its array has not got; tal_strreg sets one argument for each
\* group of the regular expression (no brace being within brackets, where
\* count_open_braces would count it); bytes are what their digits say; the usage message has its
\* words in lines that fit; and what was given with take() is freed, whatever fails.
StringsExact ==
    /\ TakenIsFreed
    /\ UsageFits
    /\ Returned("tal_strsplit") =>
          LET s == call.split.s
              r == StrSplit(s, call.split.delims, call.split.emptyOk)
              trail == s # <<>> /\ Last(s) = Delim
          IN /\ r.inside
             /\ call.split.emptyOk /\ call.split.delims = {Delim} =>
                   StrJoin(r.parts, <<Delim>>, trail) = s
             /\ ~call.split.emptyOk =>
                   /\ FlattenSeq(r.parts) = SelectSeq(s, LAMBDA c : c \notin call.split.delims)
                   /\ <<>> \notin ToSet(r.parts)
    /\ Returned("tal_strreg") =>
          LET g == Groups(call.regex) IN
          g.bracketed = 0 =>
              StrReg(call.regex, [i \in 1..g.groups |-> i]) = [i \in 1..g.groups |-> i]
    /\ Returned("hex_encode") /\ HexEncode(call.bytes, call.size) # NULL =>
          HexDecode(HexEncode(call.bytes, call.size), Len(call.bytes)) = call.bytes
    /\ Returned("hex_decode") =>
          \A bytes \in {HexDecode(call.text, call.size)} :
              bytes # NULL =>
                  \A code \in {HexEncode(bytes, 2 * call.size + 1)} :
                      /\ Len(code) = Len(call.text)
                      /\ \A i \in DOMAIN code : call.text[i] \in {code[i], Upper[CharToHex(code[i]) + 1]}

\* However little one read gives, all that there is to read comes into the buffer,
\* also if fstat has said another size, unless that is 0: then grab_fd reads no
\* byte and returns an empty buffer, whatever there is to read.  The strings of a
\* file are what tal_strsplit would make of it, and no byte is written behind the
\* end of a buffer.
BuffersHold ==
    /\ Returned("tal_fmt") =>
          LET b == VFmt(call.off, call.fmt, call.text) IN
          b # NULL /\ b.inside /\ b.size = call.off + call.text
    /\ Returned("path_cwd") =>
          LET b == PathCwd(call.name) IN b.inside /\ b.size = call.name
    /\ Returned("path_readlink") =>
          LET b == PathReadlink(call.link) IN b.inside /\ b.size = call.link
    /\ Returned("add_str") => AddStr(call.base, call.len).inside
    /\ Returned("grab_fd") =>
          LET b == GrabFd(call.stat, call.length, call.chunk)
          IN b.inside /\ b.size = IF call.stat = 0 THEN 0 ELSE call.length
    /\ Returned("rbuf") =>
          LET r == AllStrings(call.file, call.max, Delim, call.chunk) IN
          /\ r.inside
          /\ r.strings = StrSplit(call.file, {Delim}, TRUE).parts
          /\ \A n \in Chunks : Consumed(call.file, call.max, call.chunk, n) = call.file
          /\ FillAll(ReaderOf(call.file, call.max), call.chunk).held = call.file

\* The parts of a path, with a slash between them.
Rejoined(p) == IF PathSplit(p) = <<"/">> THEN <<"", "">> ELSE PathSplit(p)

\* A path that is made out of paths leads to the file that they led to, as long as
\* they lead anywhere, whatever links there are; and path_popd returns to the
\* directory that path_pushd left, even if it has been moved if it is held
\* open.  path_simplify's assertion holds as long as it has cut nothing off.  Left
\* out is where the paths lead that path_simplify cuts off, and for path_split those
\* from the root: it drops their first slash, so that their parts joined are a
\* relative path (path.h:142 says that joining them restores the path).
LeadsToTheSame ==
    /\ Returned("path_join") /\ Stat(call.base) \in Dirs =>
          Stat(PathJoin(call.base, call.a, call.slash)) =
              IF IsAbs(call.a) THEN Stat(call.a) ELSE Lookup(Stat(call.base), call.a, TRUE)
    /\ Returned("path_rel") /\ Stat(call.from) \in Dirs /\ Stat(call.to) # NULL =>
          Lookup(Stat(call.from), PathRel(call.from, call.to), TRUE) = Stat(call.to)
    /\ Returned("path_simplify") /\ Simplified(call.p).aborted => Simplified(call.p).cut
    /\ Returned("path_simplify") /\ Stat(call.p) # NULL /\ ~Simplified(call.p).cut =>
          Stat(PathSimplify(call.p)) = Stat(call.p)
    /\ Returned("path_dirname") /\ Stat(call.p) # NULL =>
          Stat(PathJoin(PathDirname(call.p), PathBasename(call.p), FALSE)) = Stat(call.p)
    /\ Returned("path_canon") /\ Stat(call.p) # NULL =>
          /\ Lstat(PathCanon(call.p)) = Stat(call.p)
          /\ PathIsFile(call.p) # PathIsDir(call.p)
    /\ Returned("path_split") /\ Stat(call.p) # NULL /\ (IsAbs(call.p) => Rejoined(call.p) = <<"", "">>) =>
          Stat(Rejoined(call.p)) = Stat(call.p)
    /\ Returned("path_popd") /\ (haveFchdir \/ PathTo(call.from.dir) = call.from.path) =>
          cwd = call.from.dir
=============================================================================
