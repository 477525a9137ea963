------------------------------- MODULE Paths -------------------------------
(***************************************************************************)
(* ccan/tal/path: names of files, taken apart and put together, and the    *)
(* directories that are pushed.                                            *)
(*                                                                         *)
(* A path is the sequence of what is between its slashes: "/a//b" is       *)
(* <<"", "a", "", "b">>, "/" is <<"", "">> and "" is <<"">>.  The files    *)
(* are a fixed set, each a directory, a link or another file; where they   *)
(* are, the directories they are in, may change.  Calls to the allocator   *)
(* succeed.                                                                *)
(***************************************************************************)
EXTENDS Strings

CONSTANTS
    Files, Root,
    Dirs,      \* the directories among them
    Target,    \* the links, with the path that each stands for
    NameOf,    \* the name of each file but Root
    Moved,     \* the directories that may be moved
    Links,     \* a bound on the steps of a lookup, as the kernel has one
    Owners     \* the objects of struct path_pushd

ASSUME PathsAssumption ==
    /\ Root \in Dirs /\ Dirs \subseteq Files /\ Moved \subseteq Dirs \ {Root}
    /\ DOMAIN Target \subseteq Files \ Dirs
    /\ DOMAIN NameOf = Files \ {Root}

VARIABLES
    haveFchdir, \* HAVE_FCHDIR
    parent,     \* the directory that each file but Root is in
    cwd,
    saved       \* what each struct path_pushd in use has saved, and where it was

pathVars == <<haveFchdir, parent, cwd, saved>>

-----------------------------------------------------------------------------
(***************************************************************************)
(* The kernel: which file a path names.  One step of a lookup deals with   *)
(* the first of the names left.                                            *)
(***************************************************************************)
IsAbs(p) == Len(p) > 1 /\ p[1] = ""

At(file, rest) == [file |-> file, rest |-> rest]
Parent(d) == IF d = Root THEN Root ELSE parent[d]
Child(d, name) ==
    LET found == {f \in DOMAIN NameOf : parent[f] = d /\ NameOf[f] = name}
    IN IF found = {} THEN NULL ELSE CHOOSE f \in found : TRUE

LookupStep(t, follow) ==
    LET name == Head(t.rest)
        file == Child(t.file, name)
    IN IF t.file \notin Dirs THEN At(NULL, <<>>)
       ELSE IF name \in {"", "."} THEN At(t.file, Tail(t.rest))
       ELSE IF name = ".." THEN At(Parent(t.file), Tail(t.rest))
       ELSE IF file \in DOMAIN Target /\ (follow \/ Len(t.rest) > 1)
       THEN IF IsAbs(Target[file]) THEN At(Root, Tail(Target[file]) \o Tail(t.rest))
            ELSE At(t.file, Target[file] \o Tail(t.rest))
       ELSE At(file, Tail(t.rest))

Lookup(d, names, follow) ==
    LET turn[n \in 0..Links] ==
            IF n = 0 THEN At(d, names)
            ELSE LET t == turn[n - 1] IN IF t.rest = <<>> THEN t ELSE LookupStep(t, follow)
        last == turn[Links]
    IN IF last.rest = <<>> THEN last.file ELSE NULL

\* The file that a path names, its link not followed and followed; stat and lstat.
Named(p, follow) ==
    IF p = <<"">> THEN NULL
    ELSE IF IsAbs(p) THEN Lookup(Root, Tail(p), follow) ELSE Lookup(cwd, p, follow)
Lstat(p) == Named(p, FALSE)
Stat(p) == Named(p, TRUE)

\* realpath, getcwd: the path from the root.
PathTo(file) ==
    LET up[n \in 0..Links] == IF n = 0 THEN file ELSE Parent(up[n - 1])
        depth == CHOOSE n \in 0..Links : up[n] = Root /\ \A m \in 0..(n - 1) : up[m] # Root
    IN IF file = Root THEN <<"", "">>
       ELSE <<"">> \o [n \in 1..depth |-> NameOf[up[depth - n]]]

-----------------------------------------------------------------------------
\* path_join.  A base that is "" has no last character: what is before it decides
\* whether a slash is put behind it.
PathJoin(base, a, slashBefore) ==
    IF IsAbs(a) THEN a
    ELSE IF base[Len(base)] = "" /\ (Len(base) > 1 \/ slashBefore) THEN Front(base) \o a
    ELSE base \o a

\* path_canon, path_is_file, path_is_dir.
PathCanon(p) == IF Stat(p) = NULL THEN NULL ELSE PathTo(Stat(p))
PathIsFile(p) == Stat(p) \in Files \ Dirs
PathIsDir(p) == Stat(p) \in Dirs

\* path_rel: how many names of both paths are in common, each with the slash that
\* follows it; all of to may be.
Common(from, to) ==
    CHOOSE c \in 0..Len(to) :
        /\ c < Len(from) /\ SubSeq(from, 1, c) = SubSeq(to, 1, c)
        /\ c + 1 < Len(from) /\ c + 1 <= Len(to) => from[c + 1] # to[c + 1]

\* path_rel; cfrom has a slash at its end.  The branch for a to that goes on with
\* a slash where from ends is never taken: there are no two slashes in a row.
PathRel(from, to) ==
    LET cfrom == IF Stat(from) = Root THEN <<"", "">> ELSE Append(PathCanon(from), "")
        cto == PathCanon(to)
        c == Common(cfrom, cto)
        back == [i \in 1..(Len(cfrom) - c - 1) |-> ".."]
        rest == SubSeq(cto, c + 1, Len(cto))
    IN IF PathCanon(from) = NULL \/ cto = NULL THEN NULL
       ELSE IF rest \notin {<<>>, <<"">>} THEN back \o rest
       ELSE IF back = <<>> THEN <<".">> ELSE back

\* path_simplify: out is what is left of the path so far.  When a ".." stays behind
\* it, a NUL takes the place of its last slash, and it ends there (cut).  Names that
\* follow are copied behind the NUL; another ".." expects a slash where it looks for
\* the name before, and aborts if there is the NUL (nul).
Whole(abs, out) == IF abs THEN <<"">> \o (IF out = <<>> THEN <<"">> ELSE out)
                   ELSE IF out = <<>> THEN <<".">> ELSE out

\* Mutant: a link is taken for the directory it leads to.
StepsBackStat(file) == file # NULL
StepsBack(file) == file # NULL /\ file \notin DOMAIN Target

SimplifyName(t, name, abs) ==
    IF t.aborted \/ name \in {"", "."} THEN t
    ELSE IF t.cut THEN [t EXCEPT !.nul = name = "..", !.aborted = name = ".." /\ t.nul]
    ELSE IF name # ".." THEN [t EXCEPT !.out = Append(@, name)]
    ELSE IF t.out = <<>> THEN IF abs THEN t ELSE [t EXCEPT !.out = <<"..">>]
    ELSE IF Last(t.out) = ".." THEN [t EXCEPT !.out = Append(@, name)]
    ELSE IF StepsBack(Lstat(Whole(abs, t.out))) THEN [t EXCEPT !.out = Front(@)]
    ELSE [t EXCEPT !.cut = TRUE, !.nul = TRUE]

Simplified(p) ==
    LET abs == IsAbs(p)
        names == IF abs THEN Tail(p) ELSE p
        turn[n \in 0..Len(names)] ==
            IF n = 0 THEN [out |-> <<>>, cut |-> FALSE, nul |-> FALSE, aborted |-> FALSE]
            ELSE LET t == turn[n - 1] IN SimplifyName(t, names[n], abs)
    IN turn[Len(names)]
\* NULL if it has aborted.
PathSimplify(p) == IF Simplified(p).aborted THEN NULL ELSE Whole(IsAbs(p), Simplified(p).out)

\* Where the last name of a path is, trailing slashes apart; 0 if it has only slashes.
LastName(p) ==
    CHOOSE k \in 0..Len(p) :
        /\ \A i \in (k + 1)..Len(p) : p[i] = ""
        /\ k # 0 => p[k] # ""

PathBasename(p) ==
    IF Len(p) = 1 THEN p
    ELSE IF LastName(p) = 0 THEN <<"", "">> ELSE <<p[LastName(p)]>>

PathDirname(p) ==
    LET before == SubSeq(p, 1, LastName(p) - 1)
        front == SubSeq(before, 1, LastName(before))
    IN IF front # <<>> THEN front ELSE IF IsAbs(p) THEN <<"", "">> ELSE <<".">>

\* path_split.
PathSplit(p) ==
    LET names == SelectSeq(p, LAMBDA name : name # "")
    IN IF names = <<>> /\ p # <<"">> THEN <<"/">> ELSE names

-----------------------------------------------------------------------------
(***************************************************************************)
(* path_pushd and path_popd, with the directory held open or, without      *)
(* fchdir, by its name; others may move directories.                       *)
(***************************************************************************)
PathsInit ==
    /\ haveFchdir \in BOOLEAN
    /\ cwd = Root
    /\ saved = [o \in Owners |-> NULL]

PathPushd(o, dir) ==
    /\ saved[o] = NULL
    /\ IF Stat(dir) \in Dirs
       THEN /\ cwd' = Stat(dir)
            /\ saved' = [saved EXCEPT ![o] = [dir |-> cwd, path |-> PathTo(cwd)]]
       ELSE UNCHANGED <<cwd, saved>>
    /\ UNCHANGED <<haveFchdir, parent>>

\* The directory that fchdir or chdir goes to.
Returns(s) == IF haveFchdir THEN s.dir ELSE Stat(s.path)

PathPopd(o) ==
    /\ saved[o] # NULL
    /\ cwd' = IF Returns(saved[o]) \in Dirs THEN Returns(saved[o]) ELSE cwd
    /\ saved' = [saved EXCEPT ![o] = NULL]
    /\ UNCHANGED <<haveFchdir, parent>>

\* tal_free: pushd_destroy closes the directory.
FreePushd(o) ==
    /\ saved[o] # NULL
    /\ saved' = [saved EXCEPT ![o] = NULL]
    /\ UNCHANGED <<haveFchdir, parent, cwd>>

\* Another process moves a directory.
Below(d) == {f \in Files : \E n \in 0..Links :
                LET up[m \in 0..Links] == IF m = 0 THEN f ELSE Parent(up[m - 1]) IN up[n] = d}
Move(d, to) ==
    /\ to \in Dirs \ Below(d)
    /\ Child(to, NameOf[d]) = NULL
    /\ parent' = [parent EXCEPT ![d] = to]
    /\ UNCHANGED <<haveFchdir, cwd, saved>>
=============================================================================
