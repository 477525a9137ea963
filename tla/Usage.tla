------------------------------- MODULE Usage -------------------------------
(***************************************************************************)
(* ccan/opt, usage.c: the usage message, with its descriptions in lines.   *)
(*                                                                         *)
(* A text is a sequence of characters; Newline and Space are two of them.  *)
(* An option of the table is [names, arg, desc, show]: whether " <arg>" is *)
(* put behind its names, and its value, a string, NULL if it is not shown. *)
(* A subtable has the names NULL, and desc is its heading; a       *)
(* hidden option has the desc NULL.                                        *)
(***************************************************************************)
EXTENDS Strings

CONSTANTS
    Space, Newline,
    Arg,       \* " <arg>"
    Default,   \* " (default: "
    Closing,   \* ")"
    Quote, Dots,
    ShowLen,   \* OPT_SHOW_LEN
    MinDesc,   \* MIN_DESC_WIDTH
    MinTotal   \* MIN_TOTAL_WIDTH

Indented(n) == [i \in 1..n |-> Space]
From(text, at) == SubSeq(text, at, Len(text))

\* Whether the words up to len fit; the first one is taken anyhow.
FitsLine(len, maxlen) == len <= maxlen

\* consume_words: the blanks to leave out, the length of the line, and whether
\* the next line starts a new one of the description.
LineOf(words, prefix, maxlen, start) ==
    LET first == SpanNot(words, 1, {Space})
        turn[n \in 0..Len(words)] ==
            IF n = 0 THEN [old |-> first, len |-> first, ended |-> FALSE]
            ELSE LET t == turn[n - 1]
                     blanks == t.len + Span(words, t.len + 1, {Space})
                     next == blanks + SpanNot(words, blanks + 1, {Space, Newline})
                 IN IF t.ended \/ ~FitsLine(t.len, maxlen) THEN t
                    ELSE [old |-> t.len, len |-> next,
                          ended |-> next = t.len
                                    \/ (blanks < Len(words) /\ words[blanks + 1] = Newline)]
    IN IF start /\ prefix > 0 THEN SpanNot(words, 1, {Newline}) ELSE turn[Len(words)].old

ConsumeWords(text, maxlen, start) ==
    The({[line |-> SubSeq(words, 1, len), rest |-> From(words, len + 1),
          start |-> len > 0 /\ words[len] = Newline] :
            <<words, len>> \in
                {<<words, LineOf(words, Len(text) - Len(words), maxlen, start)>> :
                    words \in {From(text, Span(text, 1, {Space, Newline}) + 1)}}})

\* opt_show_charp into the buffer of add_desc, which has dots behind OPT_SHOW_LEN
\* bytes: there is no NUL before them if all of the bytes are used.
ShowCharp(p) ==
    LET room == ShowLen - 2
        len == IF Len(p) > room THEN room ELSE Len(p)
    IN <<Quote>> \o SubSeq(p, 1, len) \o <<Quote>> \o (IF len < room THEN <<>> ELSE Dots)

\* add_desc: the lines of a description, of which the first may be on the line
\* of the names, and the value behind it.
AddLine(t, indent, width) ==
    The({IF c.line = <<>> THEN t
         ELSE [rest |-> c.rest,
               text |-> t.text \o (IF t.same THEN <<>> ELSE Indented(indent))
                               \o c.line \o <<Newline>>,
               off |-> indent + Len(c.line), same |-> FALSE, start |-> c.start] :
            c \in {ConsumeWords(t.rest, width - indent, t.start)}})

Lines(names, desc, indent, width) ==
    LET same == Len(names) + 2 <= indent
        turn[n \in 0..(Len(desc) + 1)] ==
            IF n = 0
            THEN [rest |-> desc,
                  text |-> names \o (IF same THEN Indented(indent - Len(names)) ELSE <<Newline>>),
                  off |-> IF same THEN indent ELSE 0, same |-> same, start |-> TRUE]
            ELSE The({AddLine(t, indent, width) : t \in {turn[n - 1]}})
    IN turn[Len(desc) + 1]

AddDesc(opt, indent, width) ==
    The({IF shown = NULL THEN text
         ELSE (IF off + Len(shown) > width THEN text \o Indented(indent) ELSE Front(text))
              \o shown \o <<Newline>> :
            <<text, off, shown>> \in
                {<<IF t.same THEN Append(t.text, Newline) ELSE t.text, t.off,
                   IF opt.show = NULL THEN NULL ELSE Default \o ShowCharp(opt.show) \o Closing>> :
                    t \in {Lines(opt.names \o (IF opt.arg THEN Arg ELSE <<>>), opt.desc, indent, width)}}})

Shown(opt) == opt.desc # NULL
IsSubtable(opt) == opt.names = NULL

\* opt_usage: where the descriptions start, for a terminal of so many columns.
Width(columns) == IF columns < MinTotal THEN MinTotal ELSE columns
Indent(table, columns) ==
    LET lengths == {Len(table[i].names) + (IF table[i].arg THEN Len(Arg) ELSE 0) + 2 :
                       i \in {i \in DOMAIN table : Shown(table[i]) /\ ~IsSubtable(table[i])}}
        longest == CHOOSE l \in lengths \cup {0} : \A m \in lengths : m <= l
    IN IF longest + MinDesc > Width(columns) THEN Width(columns) - MinDesc ELSE longest

OptUsage(head, table, columns) ==
    LET Entry(opt, indent) ==
            IF ~Shown(opt) THEN <<>>
            ELSE IF IsSubtable(opt) THEN opt.desc \o <<":", Newline>>
            ELSE AddDesc(opt, indent, Width(columns))
    IN The({head \o <<Newline>> \o FlattenSeq(entries) :
               entries \in {[i \in DOMAIN table |-> Entry(table[i], indent)] :
                               indent \in {Indent(table, columns)}}})
=============================================================================
