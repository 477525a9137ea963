------------------------------ MODULE Buffers ------------------------------
(***************************************************************************)
(* Buffers that grow until what is wanted fits: do_vfmt (ccan/tal/str),    *)
(* path_cwd and path_readlink (ccan/tal/path), add_str_len and add_indent  *)
(* (ccan/opt), grab_fd (ccan/tal/grab_file) and rbuf_read_str (ccan/rbuf). *)
(*                                                                         *)
(* The sizes that the code starts from are parameters.  The result of a    *)
(* function is [size, slots, inside]: how much is in the buffer, how many  *)
(* bytes it has, and whether every write was to one of them.               *)
(***************************************************************************)
EXTENDS Strings

CONSTANTS
    FirstSize, \* 64, the "good first guess" of path_cwd and path_readlink
    FirstGrab, \* 16384, for what is no regular file
    GrabStep,  \* 1024 * 1024, the most that is added at a time
    GoodSize,  \* what rbuf_good_size returns
    Turns      \* a bound on the turns of a loop, more than any loop needs

ASSUME BuffersAssumption ==
    {FirstSize, FirstGrab, GrabStep, GoodSize, Turns} \subseteq Nat \ {0}

\* The first turn of a loop that ends it, and where it leaves the loop; NULL if
\* none of the first Turns does.
LoopEnd(turn, Ends(_)) ==
    LET ended == {n \in 0..Turns : Ends(turn[n])}
    IN IF ended = {} THEN NULL ELSE turn[CHOOSE n \in ended : \A m \in ended : n <= m]

Buffer(size, slots, inside) == [size |-> size, slots |-> slots, inside |-> inside]

\* do_vfmt: text bytes behind off others, from a format of the length fmt.
\* vsnprintf writes at most max bytes, its NUL included.
VFmt(off, fmt, text) ==
    LET max[n \in 0..Turns] == IF n = 0 THEN 2 * fmt ELSE 2 * max[n - 1]
        Ends(m) == text < m
        m == LoopEnd(max, Ends)
    IN IF m = NULL THEN NULL ELSE Buffer(off + text, off + m, off + text < off + m)

\* path_cwd: getcwd fails with ERANGE unless the name and its NUL fit.
PathCwd(name) ==
    LET len[n \in 0..Turns] == IF n = 0 THEN FirstSize ELSE 2 * len[n - 1]
        Ends(l) == name < l
        l == LoopEnd(len, Ends)
    IN Buffer(name, l, name < l)

\* readlink cuts off what does not fit, without a word.
Fits(len, maxlen) == len < maxlen

\* path_readlink: "maxlen *= 2 + 1" is three times as much, and from then on
\* there is no byte more than maxlen.
PathReadlink(link) ==
    LET first == [max |-> FirstSize, slots |-> FirstSize + 1]
        turn[n \in 0..Turns] ==
            IF n = 0 THEN first
            ELSE LET max == 3 * turn[n - 1].max IN [max |-> max, slots |-> max]
        Read(max) == IF link <= max THEN link ELSE max
        Ends(t) == Fits(Read(t.max), t.max)
        t == LoopEnd(turn, Ends)
    IN Buffer(Read(t.max), t.slots, Read(t.max) < t.slots)

\* add_str_len and add_indent, on a buffer of max bytes with len in use: a byte
\* stays free for the NUL.
AddStr(base, slen) ==
    LET max == IF slen >= base.slots - base.size THEN 2 * base.slots + slen + 1 ELSE base.slots
    IN Buffer(base.size + slen, max, base.inside /\ base.size + slen < max)

\* Mutant: the buffer grows before it is full only.
GrabGrowsLate(size, max) == size > max
GrabGrows(size, max) == size = max

\* grab_fd on a file of length bytes, of which a read gives chunk at most; fstat
\* has said stat, NULL for what is no regular file.
GrabFd(stat, length, chunk) ==
    LET guess == IF stat = NULL THEN FirstGrab ELSE stat
        Least(a, b) == IF a < b THEN a ELSE b
        Read(t) == Least(chunk, Least(t.max - t.size, length - t.size))
        turn[n \in 0..Turns] ==
            IF n = 0 THEN [size |-> 0, max |-> guess]
            ELSE LET t == turn[n - 1]
                     size == t.size + Read(t)
                 IN [size |-> size,
                     max |-> IF Read(t) > 0 /\ GrabGrows(size, t.max)
                             THEN t.max + Least(t.max, GrabStep) ELSE t.max]
        Ends(t) == Read(t) = 0
        t == LoopEnd(turn, Ends)
    IN Buffer(t.size, t.max + 1, t.size < t.max + 1)

-----------------------------------------------------------------------------
(***************************************************************************)
(* rbuf.  A reader has the bytes of the file it has not read yet, the      *)
(* valid ones in its buffer, where they start in the buffer, and the size  *)
(* of the buffer.  Reads and resizes do not fail.                          *)
(***************************************************************************)
ReaderOf(file, max) == [left |-> file, held |-> <<>>, start |-> 0, max |-> max]

\* enlarge_buf, when the valid bytes reach the end of the buffer.
Enlarged(r) ==
    IF r.start + Len(r.held) < r.max THEN r
    ELSE [r EXCEPT !.max = IF @ = 0 THEN GoodSize ELSE 2 * @]

\* get_more, with a read of chunk bytes at most.
GetMore(r, chunk) ==
    LET e == Enlarged(r)
        room == e.max - (e.start + Len(e.held))
        n == CHOOSE n \in 0..chunk :
                /\ n <= room /\ n <= Len(r.left)
                /\ n = chunk \/ n = room \/ n = Len(r.left)
    IN [e EXCEPT !.held = @ \o SubSeq(r.left, 1, n), !.left = SubSeq(@, n + 1, Len(@))]

Rewound(r) == IF r.held = <<>> THEN [r EXCEPT !.start = 0] ELSE r

\* rbuf_consume.
ConsumeBytes(r, n) ==
    [r EXCEPT !.held = SubSeq(@, n + 1, Len(@)), !.start = @ + n]

\* prev: what the next search of rbuf_read_str leaves out; it lags by one read.
Searched(prev, got) == prev + got

\* rbuf_read_str: the string, NULL at the end of the file, and the reader after
\* it; atEnd says that the NUL has been put behind the last byte.
ReadStr(reader, term, chunk) ==
    LET turn[n \in 0..Turns] ==
            IF n = 0 THEN [r |-> Rewound(reader), prev |-> 0, got |-> 0, eof |-> FALSE]
            ELSE LET t == turn[n - 1]
                     more == GetMore(t.r, chunk)
                     got == Len(more.held) - Len(t.r.held)
                 IN [r |-> more, prev |-> Searched(t.prev, t.got),
                     got |-> got, eof |-> got = 0]
        Places(t) == {i \in (t.prev + 1)..Len(t.r.held) : t.r.held[i] = term}
        Ends(t) == t.eof \/ Places(t) # {}
        t == LoopEnd(turn, Ends)
        len == Len(t.r.held)
    IN IF Places(t) # {} /\ ~t.eof
       THEN LET p == CHOOSE i \in Places(t) : \A j \in Places(t) : i <= j
            IN [string |-> SubSeq(t.r.held, 1, p - 1), reader |-> ConsumeBytes(t.r, p),
                inside |-> TRUE]
       ELSE IF len = 0 THEN [string |-> NULL, reader |-> t.r, inside |-> TRUE]
       ELSE [string |-> t.r.held, reader |-> ConsumeBytes(t.r, len),
             inside |-> t.r.start + len < t.r.max]

\* rbuf_fill: what is in the buffer, and is read from the file only if there is nothing.
Fill(reader, chunk) == IF reader.held = <<>> THEN GetMore(Rewound(reader), chunk) ELSE reader

\* A file that is filled into the buffer and consumed n bytes at a time.
Consumed(file, max, chunk, n) ==
    LET turn[k \in 0..(Len(file) + 1)] ==
            IF k = 0 THEN [r |-> ReaderOf(file, max), out |-> <<>>]
            ELSE LET t == turn[k - 1]
                     full == Fill(t.r, chunk)
                     part == IF n < Len(full.held) THEN n ELSE Len(full.held)
                 IN [r |-> ConsumeBytes(full, part), out |-> t.out \o SubSeq(full.held, 1, part)]
    IN turn[Len(file) + 1].out

\* rbuf_fill_all.
FillAll(reader, chunk) ==
    LET turn[n \in 0..Turns] ==
            IF n = 0 THEN [r |-> Rewound(reader), got |-> 1]
            ELSE LET t == turn[n - 1]
                     more == GetMore(t.r, chunk)
                 IN [r |-> more, got |-> Len(more.held) - Len(t.r.held)]
        Ends(t) == t.got = 0
    IN LoopEnd(turn, Ends).r

\* The strings of a file, read one after the other until NULL.
AllStrings(file, max, term, chunk) ==
    LET call[n \in 0..(Len(file) + 1)] ==
            IF n = 0 THEN [string |-> <<>>, reader |-> ReaderOf(file, max), inside |-> TRUE]
            ELSE ReadStr(call[n - 1].reader, term, chunk)
        ends == {n \in 1..(Len(file) + 1) : call[n].string = NULL}
        last == CHOOSE n \in ends : \A m \in ends : n <= m
    IN [strings |-> [n \in 1..(last - 1) |-> call[n].string],
        inside |-> \A n \in 1..last : call[n].inside]
=============================================================================
