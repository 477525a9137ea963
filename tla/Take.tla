-------------------------------- MODULE Take --------------------------------
(***************************************************************************)
(* ccan/take, and the functions of ccan/tal and its str and path that may  *)
(* be given a string to free, as take(p): what they free and what they     *)
(* return, when any of their calls to the allocator fails and the error    *)
(* function of tal returns.  What the strings say is left out: a condition *)
(* on it is a parameter.                                                   *)
(*                                                                         *)
(* The memory m is a record:                                               *)
(*   parent     of each object in use                                      *)
(*   taken      takenarr                                                   *)
(*   allocfail  how many strings were lost because takenarr could not grow *)
(*   steps      calls that may fail, so far;  fails: those that do         *)
(*   valid      no NULL and nothing that was freed has been read or freed  *)
(* and a function is an operator that gives [m, ret].  A constant string   *)
(* is an object too.                                                       *)
(***************************************************************************)
EXTENDS Strings

Literal == 0
Result(m, ret) == [m |-> m, ret |-> ret]

Fails(m) == m.steps + 1 \in m.fails
Step(m) == [m EXCEPT !.steps = @ + 1]
\* tal_resize, tal_steal, tal_add_destructor and what the kernel may refuse.
Attempt(m) == Result(Step(m), ~Fails(m))

NewObject(m) == 100 + m.steps
TalArr(m, ctx) ==
    IF Fails(m) THEN Result(Step(m), NULL)
    ELSE Result([Step(m) EXCEPT !.parent = @ @@ (NewObject(m) :> ctx)], NewObject(m))

InUse(m, p) == p \in DOMAIN m.parent
Under(m, p) == {q \in DOMAIN m.parent :
                   p \in {q, m.parent[q]} \/ (InUse(m, m.parent[q]) /\ m.parent[m.parent[q]] = p)}

\* Reading a string, and tal_free.
Reads(m, p) == [m EXCEPT !.valid = @ /\ InUse(m, p)]
TalFree(m, p) ==
    IF p = NULL THEN m
    ELSE [Reads(m, p) EXCEPT !.parent = [q \in DOMAIN m.parent \ Under(m, p) |-> m.parent[q]]]
TalFreeAll(m, p) == Result(TalFree(m, p), NULL)

-----------------------------------------------------------------------------
\* take_, with the function of take_allocfail that frees its pointer; if takenarr
\* is full it grows by one element.
Take(m, p) ==
    IF Fails(m) THEN Result([TalFree(Step(m), p) EXCEPT !.allocfail = @ + 1], NULL)
    ELSE Result([Step(m) EXCEPT !.taken = Append(@, p)], p)

FindTaken(m, p) == SelectInSeq(m.taken, LAMBDA q : q = p)
IsTaken(m, p) == (p = NULL /\ m.allocfail > 0) \/ FindTaken(m, p) > 0

Taken(m, p) ==
    IF p = NULL /\ m.allocfail > 0 THEN Result([m EXCEPT !.allocfail = @ - 1], TRUE)
    ELSE IF FindTaken(m, p) = 0 THEN Result(m, FALSE)
    ELSE Result([m EXCEPT !.taken = RemoveAt(@, FindTaken(m, p))], TRUE)

\* if (taken(p)) tal_free(p);
FreeTakenOf(m, p) == LET t == Taken(m, p) IN IF t.ret THEN TalFree(t.m, p) ELSE t.m

\* A call and what follows it, which is given the memory after it and its result.
Then(r, Rest(_, _)) == The({Rest(x.m, x.ret) : x \in {r}})

\* tal_dup_; the size of the copy may overflow.
TalDup(m, ctx, p, overflow) ==
    IF overflow THEN Result(FreeTakenOf(m, p), NULL)
    ELSE Then(Taken(m, p), LAMBDA m1, taken :
         IF ~taken THEN Then(TalArr(m1, ctx), LAMBDA m2, ret :
              Result(IF ret = NULL THEN m2 ELSE Reads(m2, p), ret))
         ELSE IF p = NULL THEN Result(m1, NULL)
         ELSE Then(Attempt(m1), LAMBDA m2, resized :
              IF ~resized THEN TalFreeAll(m2, p)
              ELSE Then(Attempt(m2), LAMBDA m3, stolen :
                   IF ~stolen THEN TalFreeAll(m3, p) ELSE Result([m3 EXCEPT !.parent[p] = ctx], p))))

\* tal_expand_: whether the array has grown.
TalExpand(m, src, overflow) ==
    IF overflow THEN Result(FreeTakenOf(m, src), FALSE)
    ELSE Then(Attempt(m), LAMBDA m1, resized :
         Result(FreeTakenOf(IF resized THEN Reads(m1, src) ELSE m1, src), resized))

-----------------------------------------------------------------------------
\* if (!p && taken(p)): the call fails, and what it does then.
NullTaken(m, p, Fail(_), Rest(_)) ==
    IF p # NULL THEN Rest(m)
    ELSE Then(Taken(m, p), LAMBDA m1, taken : IF taken THEN Fail(m1) ELSE Rest(m1))
NoResult(m) == Result(m, NULL)

\* tal_strdup and tal_strndup.
TalStrdup(m, ctx, p) == TalDup(m, ctx, p, FALSE)

TalStrcat(m, ctx, s1, s2) ==
    NullTaken(m, s2,
              LAMBDA m1 : Result(FreeTakenOf(m1, s1), NULL),
              LAMBDA m1 : Then(TalDup(Reads(m1, s2), ctx, s1, FALSE), LAMBDA m2, ret :
                               Result(FreeTakenOf(m2, s2), ret)))

\* do_vfmt: the text fits into the object, or only after it has grown twice.
DoVfmt(m, buf, fmt, twice) ==
    Then(Attempt(Reads(Reads(m, fmt), buf)), LAMBDA m1, resized :
         IF ~resized \/ ~twice THEN Result(FreeTakenOf(m1, fmt), resized)
         ELSE Then(Attempt(m1), LAMBDA m2, again : Result(FreeTakenOf(m2, fmt), again)))

TalAppendVfmt(m, base, fmt, twice) ==
    NullTaken(m, fmt, LAMBDA m1 : Result(m1, FALSE), LAMBDA m1 : DoVfmt(m1, base, fmt, twice))

TalVfmt(m, ctx, fmt, twice) ==
    NullTaken(m, fmt, NoResult,
              LAMBDA m1 : Then(TalArr(Reads(m1, fmt), ctx), LAMBDA m2, buf :
                          Then(DoVfmt(m2, buf, fmt, twice), LAMBDA m3, ok :
                               IF ok THEN Result(m3, buf) ELSE TalFreeAll(m3, buf))))

\* tal_strsplit; the array of the parts may have to grow before it is cut.
TalStrsplit(m, ctx, string, delims, grows) ==
    Then(TalArr(m, ctx), LAMBDA m1, parts :
         IF parts = NULL THEN Result(FreeTakenOf(FreeTakenOf(m1, string), delims), NULL)
         ELSE LET Fail(m2) == Result(FreeTakenOf(TalFree(m2, parts), delims), NULL) IN
              Then(TalStrdup(m1, parts, string), LAMBDA m2, str :
                   IF str = NULL \/ (delims = NULL /\ IsTaken(m2, delims)) THEN Fail(m2)
                   ELSE Then(IF grows THEN Attempt(Reads(m2, delims)) ELSE Result(Reads(m2, delims), TRUE),
                             LAMBDA m3, enough :
                        IF ~enough THEN Fail(m3)
                        ELSE Then(Attempt(m3), LAMBDA m4, cut :
                             IF cut THEN Result(FreeTakenOf(m4, delims), parts) ELSE Fail(m4)))))

\* tal_strjoin, of one string or none.
TalStrjoin(m, ctx, strings, delim, none) ==
    LET Out(m1, ret) == Result(FreeTakenOf(FreeTakenOf(m1, strings), delim), ret) IN
    IF (strings = NULL /\ IsTaken(m, strings)) \/ (delim = NULL /\ IsTaken(m, delim)) THEN Out(m, NULL)
    ELSE Then(TalArr(Reads(m, delim), ctx), LAMBDA m1, ret :
         IF ret = NULL THEN Out(m1, NULL)
         ELSE IF none THEN Out(Reads(m1, strings), ret)
         ELSE Then(Attempt(Reads(m1, strings)), LAMBDA m2, resized :
              IF resized THEN Out(m2, ret) ELSE Out(TalFree(m2, ret), NULL)))

\* tal_strreg, of a regular expression without groups.  It is read before it is
\* asked whether it is NULL.
TalStrreg(m, string, regex, bad) ==
    LET Out(m1, ret) == Result(FreeTakenOf(FreeTakenOf(m1, regex), string), ret) IN
    Then(Result(Reads(m, regex), regex), LAMBDA m1, re :
         IF bad \/ (re = NULL /\ IsTaken(m1, re)) \/ (string = NULL /\ IsTaken(m1, string))
         THEN Out(m1, FALSE) ELSE Out(Reads(m1, string), TRUE))

-----------------------------------------------------------------------------
(***************************************************************************)
(* The same of ccan/tal/path; a condition on the string, or on the file of *)
(* this name, is a parameter.                                              *)
(***************************************************************************)
JoinFrees(m, ctx, base, a, abs) ==
    NullTaken(m, a,
              LAMBDA m1 : Result(FreeTakenOf(m1, base), NULL),
              LAMBDA m1 :
                  IF abs THEN Then(Result(FreeTakenOf(Reads(m1, a), base), a), LAMBDA m2, p : TalStrdup(m2, ctx, p))
                  ELSE NullTaken(Reads(m1, a), base,
                                 LAMBDA m2 : Result(FreeTakenOf(m2, a), NULL),
                                 LAMBDA m2 : Then(TalDup(m2, ctx, base, FALSE), LAMBDA m3, ret :
                                                  Result(FreeTakenOf(m3, a), ret))))

\* path_pushd: after "if (!old) return NULL" the directory is still taken.
ChdirFrees(m, old, dir) ==
    Then(Attempt(Reads(m, dir)), LAMBDA m1, changed :
         IF changed THEN Result(FreeTakenOf(m1, dir), old)
         ELSE Result(FreeTakenOf(TalFree(m1, old), dir), NULL))

PushdFrees(m, ctx, dir, fchdir) ==
    Then(TalArr(m, ctx), LAMBDA m1, old :
         IF old = NULL THEN Result(m1, NULL)
         ELSE IF fchdir
         THEN NullTaken(m1, dir, LAMBDA m2 : TalFreeAll(m2, old),
                        LAMBDA m2 : Then(Attempt(m2), LAMBDA m3, opened :
                             IF opened THEN ChdirFrees(m3, old, dir)
                             ELSE Result(FreeTakenOf(TalFree(m3, old), dir), NULL)))
         ELSE Then(TalArr(m1, old), LAMBDA m2, olddir :
              IF olddir = NULL \/ (dir = NULL /\ IsTaken(m2, dir))
              THEN Result(FreeTakenOf(TalFree(m2, old), dir), NULL)
              ELSE ChdirFrees(m2, old, dir)))

CanonFrees(m, ctx, a) ==
    IF a = NULL /\ IsTaken(m, a) THEN Result(FreeTakenOf(m, a), NULL)
    ELSE Then(TalArr(m, ctx), LAMBDA m1, path :
         IF path = NULL THEN Result(FreeTakenOf(m1, a), NULL)
         ELSE Then(Attempt(Reads(m1, a)), LAMBDA m2, real :
              IF real THEN Result(FreeTakenOf(m2, a), path)
              ELSE Result(FreeTakenOf(TalFree(m2, path), a), NULL)))

\* path_rel, of two files or of "/" and "/", which gives ".".
RelFrees(m, ctx, from, to, same) ==
    Then(CanonFrees(m, ctx, from), LAMBDA m1, cfrom :
         IF cfrom = NULL THEN Result(FreeTakenOf(m1, to), NULL)
         ELSE Then(IF same THEN Result(m1, TRUE) ELSE Attempt(m1), LAMBDA m2, slash :
              IF ~slash THEN Result(TalFree(FreeTakenOf(m2, to), cfrom), NULL)
              ELSE Then(CanonFrees(m2, cfrom, to), LAMBDA m3, cto :
                   IF cto = NULL THEN TalFreeAll(m3, cfrom)
                   ELSE Then(IF same THEN TalStrdup(m3, ctx, Literal) ELSE TalArr(m3, ctx), LAMBDA m4, ret :
                             Result(TalFree(m4, cfrom), ret)))))

\* path_readlink of a link that fits at once, or only after the buffer has grown.
ReadlinkFrees(m, ctx, name, long) ==
    LET Out(m1, ret) == Result(FreeTakenOf(m1, name), ret) IN
    IF name = NULL /\ IsTaken(m, name) THEN Out(m, NULL)
    ELSE Then(TalArr(m, ctx), LAMBDA m1, ret :
         IF ret = NULL THEN Out(m1, NULL)
         ELSE Then(Attempt(Reads(m1, name)), LAMBDA m2, read :
              IF ~read THEN Out(TalFree(m2, ret), NULL)
              ELSE IF ~long THEN Out(m2, ret)
              ELSE Then(Attempt(m2), LAMBDA m3, resized :
                   IF ~resized THEN Out(TalFree(m3, ret), NULL)
                   ELSE Then(Attempt(m3), LAMBDA m4, again :
                        IF again THEN Out(m4, ret) ELSE Out(TalFree(m4, ret), NULL)))))

\* path_basename: a copy of what is inside, or all of the path.
BasenameFrees(m, ctx, path, inside) ==
    NullTaken(m, path, NoResult,
              LAMBDA m1 : Then(TalStrdup(Reads(m1, path), ctx, IF inside THEN Literal ELSE path),
                               LAMBDA m2, ret : Result(IF inside THEN FreeTakenOf(m2, path) ELSE m2, ret)))

\* path_dirname: the start of the path, or "." in the memory of the path.
DirnameFrees(m, ctx, path) ==
    NullTaken(m, path, NoResult, LAMBDA m1 : TalDup(Reads(m1, path), ctx, path, FALSE))

\* path_split; "/" has no parts, and gets one.
SplitFrees(m, ctx, path, slash) ==
    Then(TalStrsplit(m, ctx, path, Literal, FALSE), LAMBDA m1, ret :
         IF ret = NULL \/ ~slash THEN Result(m1, ret)
         ELSE Then(Attempt(m1), LAMBDA m2, resized :
              IF ~resized THEN TalFreeAll(m2, ret)
              ELSE Then(TalStrdup(m2, ret, Literal), LAMBDA m3, part :
                   IF part = NULL THEN TalFreeAll(m3, ret) ELSE Result(m3, ret))))

-----------------------------------------------------------------------------
(***************************************************************************)
(* A call: fn(a, b), each argument "plain", "taken" or "null", a taken     *)
(* NULL; only is the condition that the function has as its parameter.     *)
(***************************************************************************)
Ctx == 99
First == 1
Second == 2

Memory(fails) ==
    [parent |-> [p \in {Literal, First, Second, Ctx} |-> Ctx], taken |-> <<>>, allocfail |-> 0,
     steps |-> 0, fails |-> fails, valid |-> TRUE]

Given(m, p, how) ==
    IF how = "plain" THEN Result(m, p) ELSE Take(m, IF how = "null" THEN NULL ELSE p)

Binary == {"tal_strcat", "tal_strsplit", "tal_strjoin", "tal_strreg", "path_join", "path_rel"}
Unary == {"tal_strdup", "tal_dup", "tal_expand", "tal_fmt", "tal_append_fmt", "path_pushd", "path_canon",
          "path_readlink", "path_basename", "path_dirname", "path_split"}

\* Of a function that returns whether it succeeded.
Truth(r) == Result(r.m, IF r.ret THEN Literal ELSE NULL)

Does(fn, m, a, b, only) ==
    CASE fn = "tal_strcat" -> TalStrcat(m, Ctx, a, b)
      [] fn = "tal_strsplit" -> TalStrsplit(m, Ctx, a, b, only)
      [] fn = "tal_strjoin" -> TalStrjoin(m, Ctx, a, b, only)
      [] fn = "tal_strreg" -> Truth(TalStrreg(m, a, b, only))
      [] fn = "path_join" -> JoinFrees(m, Ctx, a, b, only)
      [] fn = "path_rel" -> RelFrees(m, Ctx, a, b, only)
      [] fn = "tal_strdup" -> TalStrdup(m, Ctx, a)
      [] fn = "tal_dup" -> TalDup(m, Ctx, a, only)
      [] fn = "tal_expand" -> Truth(TalExpand(m, a, only))
      [] fn = "tal_fmt" -> TalVfmt(m, Ctx, a, only)
      [] fn = "tal_append_fmt" -> Truth(TalAppendVfmt(m, Literal, a, only))
      [] fn = "path_pushd" -> PushdFrees(m, Ctx, a, only)
      [] fn = "path_canon" -> CanonFrees(m, Ctx, a)
      [] fn = "path_readlink" -> ReadlinkFrees(m, Ctx, a, only)
      [] fn = "path_basename" -> BasenameFrees(m, Ctx, a, only)
      [] fn = "path_dirname" -> DirnameFrees(m, Ctx, a)
      [] fn = "path_split" -> SplitFrees(m, Ctx, a, only)

\* The memory before and after a call, what it was given and what it returns.
After(fn, how, only, fails) ==
    Then(Given(Memory(fails), First, how[1]), LAMBDA m1, a :
    Then(IF fn \in Unary THEN Result(m1, NULL) ELSE Given(m1, Second, how[2]), LAMBDA m2, b :
    Then(Does(fn, m2, a, b, only), LAMBDA m3, ret :
         [m |-> m3, ret |-> ret, args |-> <<a, b>>, before |-> m2])))
=============================================================================
