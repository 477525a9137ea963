--------------------------------- MODULE Tal ---------------------------------
(***************************************************************************)
(* ccan/tal, the allocator that all the program's data comes from: a tree  *)
(* of objects in which freeing one frees those below it.                   *)
(*                                                                         *)
(* Memory is a set of addresses for the headers of objects, one for the    *)
(* structs with the list of an object's children, and one for the structs  *)
(* with a notifier, of which an object may have several with one function; *)
(* malloc may return any that is free, and so one that was in use before.  *)
(* The properties of an object are the sequence that prop leads through.   *)
(* Of a callback the model knows that it may call tal in turn.             *)
(***************************************************************************)
EXTENDS List, SequencesExt

CONSTANTS
    Hdr, Kids, Notes, \* addresses of struct tal_hdr, children and notifier
    Root, RootKids,  \* null_parent
    Fn,              \* destructors
    Observer,        \* a notifier that is no destructor
    EventSets,       \* what it may be interested in
    NULL,
    MaxNotifiers,    \* bound of the counter notifiers
    MaxFailures,     \* how often malloc may fail
    MaxOwn,          \* bound of own
    Programs         \* the calls that a program makes, and how many objects it has

Heads == Hdr \cup {Root}
Lists == Kids \cup {RootKids}
Node == Heads \cup Lists

\* struct prop_hdr with what follows it, and struct tal_hdr.
Property ==
    [type : {"CHILDREN"}, at : Lists]
    \cup [type : {"NOTIFIER"}, at : Notes, fn : Fn \cup {Observer}, types : EventSets \cup {{"FREE"}}]
    \cup [type : {"NAME", "LITERAL", "LENGTH"}]
Header == [prop : Seq(Property), parent_child : Lists \cup {NULL}, destroying : BOOLEAN]

ASSUME TalAssumption ==
    /\ IsFiniteSet(Hdr) /\ IsFiniteSet(Kids)
    /\ Root \notin Hdr /\ RootKids \notin Kids /\ Heads \cap Lists = {}
    /\ Observer \notin Fn
    /\ NULL \notin Node \cup Notes \cup Header
    /\ {MaxNotifiers, MaxFailures, MaxOwn} \subseteq Nat

VARIABLES
    hdr,       \* the headers that are in use
    owner,     \* parent of each struct children that is in use
    links,     \* list of the headers and children of struct children
    notifiers,
    own,       \* how many properties have a block of memory of their own
    stack,     \* the calls of del_tree and of destructors in progress
    due,       \* the destructors that each object has still to call, as it was
               \* promised before it began to be destroyed
    cursor,    \* a traversal with tal_first and tal_next
    failures,
    program,
    wild       \* whether memory has been used that was not in use

vars == <<hdr, owner, links, notifiers, own, stack, due, cursor, failures, program, wild>>

Init ==
    /\ hdr = [h \in Heads |-> IF h = Root THEN [prop |-> <<[type |-> "CHILDREN", at |-> RootKids]>>,
                                               parent_child |-> NULL, destroying |-> FALSE]
                              ELSE NULL]
    /\ owner = [k \in Lists |-> IF k = RootKids THEN Root ELSE NULL]
    /\ links = [next |-> [n \in Node |-> IF n = RootKids THEN n ELSE NULL],
                prev |-> [n \in Node |-> IF n = RootKids THEN n ELSE NULL]]
    /\ notifiers = 0 /\ own = 0
    /\ stack = <<>> /\ due = {} /\ cursor = NULL
    /\ failures = 0 /\ program \in Programs /\ wild = FALSE

InUse(a) == IF a \in Heads THEN hdr[a] # NULL ELSE a \in Lists /\ owner[a] # NULL

Wild == wild' = TRUE /\ UNCHANGED <<hdr, owner, links, notifiers, own, stack, due, failures>>

\* A step that reads or writes the memory at the addresses S.
Using(S, step) ==
    IF \A a \in S : InUse(a) THEN step /\ wild' = wild ELSE Wild

(***************************************************************************)
(* Properties of an object.                                                *)
(***************************************************************************)
Props(h) == hdr[h].prop
Places(h, test(_)) == {k \in DOMAIN Props(h) : test(Props(h)[k])}

\* find_property_ptr: where the first one is, 0 if there is none.
FindProperty(h, type) ==
    LET found == Places(h, LAMBDA p : p.type = type \/ (type = "NAME" /\ p.type = "LITERAL"))
    IN IF found = {} THEN 0 ELSE CHOOSE k \in found : \A j \in found : k <= j

ChildrenOf(h) == LET k == FindProperty(h, "CHILDREN") IN IF k = 0 THEN NULL ELSE Props(h)[k].at

\* Where the struct notifier n is, 0 if the object has not got it.
NotifierAt(h, n) ==
    LET found == Places(h, LAMBDA p : p.type = "NOTIFIER" /\ p.at = n)
    IN IF found = {} THEN 0 ELSE CHOOSE k \in found : \A j \in found : k <= j

InitProperty(h, p) == [hdr EXCEPT ![h].prop = <<p>> \o @]

\* allocate: with an error function that returns, malloc may fail.
Fails == failures < MaxFailures /\ failures' = failures + 1

(***************************************************************************)
(* The tree.  An object that is being destroyed is in no list any more.    *)
(***************************************************************************)
Live == {h \in Hdr : hdr[h] # NULL}
Stable == {h \in Live : ~hdr[h].destroying}

ParentOf(h) == owner[hdr[h].parent_child]
Up(h) ==
    LET up[k \in 0..Cardinality(Hdr)] ==
            IF k = 0 THEN h ELSE IF up[k - 1] \in Stable THEN ParentOf(up[k - 1]) ELSE up[k - 1]
    IN up
Path(h) == {Up(h)[k] : k \in DOMAIN Up(h)}
Below(r) == {h \in Stable : r \in Path(h) \ {h}}

\* A traversal goes on over changes of the tree as long as the object that it
\* has reached is below its root.
Iterating == cursor # NULL
Kept(c) == InUse(c.root) /\ c.at \in Below(c.root)
CursorFollows ==
    /\ cursor' = IF Iterating /\ \E c \in {cursor} : Kept(c)'
                 THEN [cursor EXCEPT !.altered = TRUE] ELSE NULL
    /\ UNCHANGED program

(***************************************************************************)
(* Who calls: the program, or one of its callbacks that tal runs, which    *)
(* makes one call at most.                                                 *)
(***************************************************************************)
Top == Last(stack)
Running == stack # <<>> /\ Top.at = "callback"
MayCall(call) ==
    call \in program.calls /\ (stack = <<>> \/ (Running /\ Top.left > 0))
Called == IF stack = <<>> THEN stack ELSE [stack EXCEPT ![Len(stack)].left = 0]

\* A call that fails for want of memory.
FailedCall ==
    /\ Fails
    /\ stack' = Called
    /\ UNCHANGED <<hdr, owner, links, notifiers, own, due, wild>>

(***************************************************************************)
(* add_child: the struct k has the list of p's children, or gets it.       *)
(***************************************************************************)
Candidates(p) == IF ChildrenOf(p) = NULL THEN {k \in Kids : owner[k] = NULL} ELSE {ChildrenOf(p)}

AddChild(p, k, l, h, child) ==
    LET new == ChildrenOf(p) = NULL
        l1 == IF new THEN ListHeadInit(l, k) ELSE l
    IN Using({p} \cup (AddTouches(l1, k) \ {k}),
             /\ hdr' = [(IF new THEN InitProperty(p, [type |-> "CHILDREN", at |-> k]) ELSE hdr)
                        EXCEPT ![h] = [child EXCEPT !.parent_child = k]]
             /\ owner' = [owner EXCEPT ![k] = p]
             /\ links' = ListAdd(l1, k, h)
             /\ stack' = Called
             /\ UNCHANGED <<notifiers, own, due, failures>>)

\* tal gives an object the literal name of its type, tal_arr gives it both.
Tails == {<<[type |-> "LITERAL"]>>} \cup
         (IF "tal_arr" \in program.calls THEN {<<[type |-> "LENGTH"], [type |-> "LITERAL"]>>} ELSE {})
NewHeader(tail) == [prop |-> tail, parent_child |-> NULL, destroying |-> FALSE]

\* tal_alloc_ and tal_alloc_arr_; when add_child fails the child is freed.
Alloc ==
    /\ MayCall("tal")
    /\ Cardinality(Live) < program.objects
    /\ \E p \in Live \cup {Root} :
          \/ \E h \in Hdr \ Live, tail \in Tails, k \in Candidates(p) :
                AddChild(p, k, links, h, NewHeader(tail))
          \/ FailedCall
    /\ CursorFollows

\* tal_steal_; when add_child fails the object goes back to its old parent.
Steal ==
    /\ MayCall("tal_steal")
    /\ \E h \in Stable, p \in Live \cup {Root} :
          /\ h \notin Path(p)
          /\ LET unlinked == ListDel(links, h)
                 old == hdr[h].parent_child
             IN \/ \E k \in Candidates(p) :
                      IF \A a \in DelTouches(links, h) \cup {old} : InUse(a)
                      THEN AddChild(p, k, unlinked, h, hdr[h])
                      ELSE Wild
                \/ /\ ChildrenOf(p) = NULL /\ Fails
                   /\ links' = ListAdd(unlinked, old, h)
                   /\ stack' = Called
                   /\ UNCHANGED <<hdr, owner, notifiers, own, due, wild>>
    /\ CursorFollows

(***************************************************************************)
(* tal_free and del_tree.                                                  *)
(***************************************************************************)
\* list_del of an object that is in no list any more changes nothing as long
\* as the neighbours it had are still each other's.
Harmless(h) ==
    /\ \A a \in DelTouches(links, h) \cup {hdr[h].parent_child} : InUse(a)
    /\ ListDel(links, h) = links

\* del_tree up to its notify.
DelTree(h, l) ==
    /\ links' = ListDel(l, h)
    /\ hdr' = [hdr EXCEPT ![h].destroying = TRUE]
    /\ stack' = IF hdr[h].destroying THEN Called
                ELSE Append(Called, [at |-> "notify", t |-> h, n |-> NULL])

Free ==
    /\ MayCall("tal_free")
    /\ \E h \in Live :
          /\ h \in Stable \/ Harmless(h)
          /\ Using({h} \cup DelTouches(links, h)
                   \cup (IF notifiers > 0 THEN {hdr[h].parent_child} ELSE {}),
                   /\ DelTree(h, links)
                   /\ UNCHANGED <<owner, notifiers, own, due, failures>>)
    /\ CursorFollows

FreeNotifiers(h) == Places(h, LAMBDA p : p.type = "NOTIFIER" /\ "FREE" \in p.types)

\* Mutants: only the first notifier is called; the last one is called again.
NotifiersOnce(h, n) == {k \in FreeNotifiers(h) : n = NULL}
NotifiersAgain(h, n) == {k \in FreeNotifiers(h) : n = NULL \/ k >= NotifierAt(h, n)}

\* notify with TAL_NOTIFY_FREE: the notifiers behind the one that was called last.
NotifiersAfter(h, n) == {k \in FreeNotifiers(h) : n = NULL \/ k > NotifierAt(h, n)}

Notify ==
    LET h == Top.t
        rest == NotifiersAfter(h, Top.n) IN
    /\ stack # <<>> /\ Top.at = "notify"
    /\ IF InUse(h) /\ (Top.n = NULL \/ NotifierAt(h, Top.n) # 0)
       THEN /\ \/ /\ rest # {}
                  /\ LET n == Props(h)[CHOOSE k \in rest : \A j \in rest : k <= j].at IN
                     /\ due' = due \ {<<h, n>>}
                     /\ stack' = Append([stack EXCEPT ![Len(stack)].n = n],
                                        [at |-> "callback", t |-> h, n |-> n, left |-> 1])
               \/ /\ rest = {}
                  /\ stack' = [stack EXCEPT ![Len(stack)] =
                                 [at |-> "children", t |-> h, kids |-> ChildrenOf(h)]]
                  /\ UNCHANGED due
            /\ UNCHANGED <<hdr, owner, links, notifiers, own, failures, wild>>
       ELSE Wild
    /\ CursorFollows

Return ==
    /\ Running
    /\ stack' = Front(stack)
    /\ UNCHANGED <<hdr, owner, links, notifiers, own, due, cursor, failures, program, wild>>

AtChildren == stack # <<>> /\ Top.at = "children"

FreeChild ==
    LET h == ListTop(links, Top.kids) IN
    /\ AtChildren
    /\ Top.kids # NULL /\ ~ListEmpty(links, Top.kids)
    /\ Using({Top.kids, h} \cup DelTouches(links, h),
             /\ links' = ListDel(links, h)
             /\ hdr' = [hdr EXCEPT ![h].destroying = TRUE]
             /\ stack' = IF hdr[h].destroying THEN stack
                         ELSE Append(stack, [at |-> "notify", t |-> h, n |-> NULL])
             /\ UNCHANGED <<owner, notifiers, own, due, failures>>)
    /\ CursorFollows

OwnPlaces(h) == Places(h, LAMBDA p : p.type \in {"NAME", "NOTIFIER"})
\* The loop that frees properties ends at a literal name.
OwnBlocks(h) == Cardinality({k \in OwnPlaces(h) : \A j \in 1..(k - 1) : Props(h)[j].type # "LITERAL"})

FreeSelf ==
    LET h == Top.t
        gone == {h} \cup ({ChildrenOf(h)} \ {NULL}) IN
    /\ AtChildren
    /\ Top.kids # NULL => ListEmpty(links, Top.kids)
    /\ Using({h},
             /\ own' = own - OwnBlocks(h)
             /\ owner' = [k \in Lists |-> IF k \in gone THEN NULL ELSE owner[k]]
             /\ links' = [next |-> [n \in Node |-> IF n \in gone THEN NULL ELSE links.next[n]],
                          prev |-> [n \in Node |-> IF n \in gone THEN NULL ELSE links.prev[n]]]
             /\ hdr' = [hdr EXCEPT ![h] = NULL]
             /\ stack' = Front(stack)
             /\ UNCHANGED <<notifiers, due, failures>>)
    /\ CursorFollows

(***************************************************************************)
(* Notifiers, names, arrays.                                               *)
(***************************************************************************)
Counted(types) == IF types = {"FREE"} THEN 0 ELSE 1

\* tal_add_destructor_ and tal_add_notifier_, of any object and any function, one that
\* it has already included.  An object that is being destroyed calls no more of them:
\* init_property puts them before the one that notify has reached.
AddNotifier ==
    /\ MayCall("tal_add_notifier")
    /\ \/ \E h \in Live, fn \in Fn \cup {Observer}, types \in EventSets \cup {{"FREE"}}, n \in Notes :
             /\ fn \in Fn => types = {"FREE"}
             /\ \A g \in Live : NotifierAt(g, n) = 0
             /\ notifiers + Counted(types) <= MaxNotifiers /\ own < MaxOwn
             /\ hdr' = InitProperty(h, [type |-> "NOTIFIER", at |-> n, fn |-> fn, types |-> types])
             /\ notifiers' = notifiers + Counted(types)
             /\ own' = own + 1
             /\ due' = IF "FREE" \in types /\ h \in Stable THEN due \cup {<<h, n>>} ELSE due
             /\ stack' = Called
             /\ UNCHANGED <<owner, links, failures, wild>>
       \/ Live # {} /\ FailedCall
    /\ CursorFollows

CountedOut(types) == IF types = {"FREE"} THEN 0 ELSE 1

\* del_notifier_property takes the first with the function; 0 if there is none.
WithFunction(h, fn) ==
    LET found == Places(h, LAMBDA p : p.type = "NOTIFIER" /\ p.fn = fn)
    IN IF found = {} THEN 0 ELSE CHOOSE k \in found : \A j \in found : k <= j

\* tal_del_notifier_; a callback does not remove itself while it runs.
DelNotifier ==
    /\ MayCall("tal_del_notifier")
    /\ \E h \in Live, fn \in Fn \cup {Observer} :
          /\ WithFunction(h, fn) # 0
          /\ LET p == Props(h)[WithFunction(h, fn)] IN
             /\ \A k \in DOMAIN stack : stack[k].t = h /\ stack[k].at = "callback" => stack[k].n # p.at
             /\ hdr' = [hdr EXCEPT ![h].prop = RemoveAt(@, WithFunction(h, fn))]
             /\ notifiers' = notifiers - CountedOut(p.types)
             /\ due' = due \ {<<h, p.at>>}
    /\ own' = own - 1
    /\ stack' = Called
    /\ UNCHANGED <<owner, links, failures, wild>>
    /\ CursorFollows

Unnamed(h) ==
    LET k == FindProperty(h, "NAME") IN IF k = 0 THEN Props(h) ELSE RemoveAt(Props(h), k)
\* Mutant: the memory of the old name is not freed.
OwnNameKept(h) == 0
OwnName(h) == Cardinality(Places(h, LAMBDA p : p.type = "NAME"))

\* tal_set_name_: the old name is gone even if there is no memory for the new one.
SetName ==
    /\ MayCall("tal_set_name")
    /\ \E h \in Live :
          \/ /\ hdr' = [hdr EXCEPT ![h].prop = Append(Unnamed(h), [type |-> "LITERAL"])]
             /\ own' = own - OwnName(h)
             /\ UNCHANGED failures
          \/ /\ own < MaxOwn
             /\ hdr' = [hdr EXCEPT ![h].prop = <<[type |-> "NAME"]>> \o Unnamed(h)]
             /\ own' = own - OwnName(h) + 1
             /\ UNCHANGED failures
          \/ /\ hdr' = [hdr EXCEPT ![h].prop = Unnamed(h)]
             /\ own' = own - OwnName(h)
             /\ Fails
    /\ stack' = Called
    /\ UNCHANGED <<owner, links, notifiers, due, wild>>
    /\ CursorFollows

\* The header has been copied to an address that was free.
MovedLinks(h, n) ==
    LET was == links.next[h]
        bef == links.prev[h] IN
    [next |-> [links.next EXCEPT ![n] = was, ![h] = NULL, ![bef] = n],
     prev |-> [links.prev EXCEPT ![n] = bef, ![h] = NULL, ![was] = n]]
\* Mutant: the children of a block that moved keep their parent.
MovedOwnerKept(h, n) == owner
MovedOwner(h, n) == [k \in Lists |-> IF k = ChildrenOf(h) THEN n ELSE owner[k]]

\* tal_resize_.
Resize ==
    /\ MayCall("tal_resize")
    /\ \E h \in Stable :
          \/ \E n \in Hdr \ Live :
                Using(DelTouches(links, h),
                      /\ hdr' = [hdr EXCEPT ![n] = hdr[h], ![h] = NULL]
                      /\ links' = MovedLinks(h, n)
                      /\ owner' = MovedOwner(h, n)
                      /\ due' = {IF d[1] = h THEN <<n, d[2]>> ELSE d : d \in due}
                      /\ stack' = Called
                      /\ UNCHANGED <<notifiers, own, failures>>)
          \/ FailedCall
    /\ CursorFollows

(***************************************************************************)
(* tal_first and tal_next.                                                 *)
(***************************************************************************)
FirstChild(h) ==
    LET k == ChildrenOf(h) IN
    IF k = NULL \/ ListEmpty(links, k) THEN NULL ELSE ListTop(links, k)

\* Mutant: a last child is followed by the next object of its parent at once.
TalNextClimbsOnce(r, h) ==
    LET last == links.next[h] = hdr[h].parent_child IN
    IF FirstChild(h) # NULL THEN FirstChild(h)
    ELSE IF ~last THEN links.next[h]
    ELSE IF ParentOf(h) \in {r, Root} \/ links.next[ParentOf(h)] = hdr[ParentOf(h)].parent_child
         THEN NULL ELSE links.next[ParentOf(h)]

TalNext(r, h) ==
    LET up == Up(h)
        LastOfList(x) == links.next[x] = hdr[x].parent_child
        stops == {k \in DOMAIN up : up[k] = r \/ ~LastOfList(up[k])}
        x == up[CHOOSE k \in stops : \A j \in stops : k <= j]
    IN IF FirstChild(h) # NULL THEN FirstChild(h) ELSE IF x = r THEN NULL ELSE links.next[x]

First ==
    /\ "tal_next" \in program.calls
    /\ stack = <<>> /\ ~Iterating
    /\ \E r \in Live \cup {Root} :
          /\ FirstChild(r) # NULL
          /\ cursor' = [root |-> r, at |-> FirstChild(r), seen |-> {FirstChild(r)}, altered |-> FALSE]
    /\ UNCHANGED <<hdr, owner, links, notifiers, own, stack, due, failures, program, wild>>

NextObject ==
    LET x == TalNext(cursor.root, cursor.at) IN
    /\ stack = <<>> /\ Iterating
    /\ cursor' = IF x = NULL THEN NULL
                 ELSE [cursor EXCEPT !.at = x, !.seen = @ \cup {x}]
    /\ UNCHANGED <<hdr, owner, links, notifiers, own, stack, due, failures, program, wild>>

(***************************************************************************)
(* check_node, of one object; tal_check goes on to those below it.         *)
(***************************************************************************)
AtMostOne(h, types) == Cardinality(Places(h, LAMBDA p : p.type \in types)) <= 1

CheckNode(parentChild, h) ==
    /\ hdr[h].parent_child = parentChild
    /\ AtMostOne(h, {"CHILDREN"}) /\ AtMostOne(h, {"LENGTH"}) /\ AtMostOne(h, {"NAME", "LITERAL"})
    /\ ChildrenOf(h) # NULL =>
          /\ ListCheck(links, ChildrenOf(h))
          /\ \A i \in Members(links, ChildrenOf(h)) : i \in Stable /\ hdr[i].parent_child = ChildrenOf(h)

Next ==
    \/ Alloc \/ Steal \/ Free \/ AddNotifier \/ DelNotifier \/ SetName \/ Resize
    \/ Notify \/ Return \/ FreeChild \/ FreeSelf
    \/ First \/ NextObject

Spec == Init /\ [][Next]_vars

-----------------------------------------------------------------------------
(***************************************************************************)
(* Properties.                                                             *)
(***************************************************************************)

\* What tal_check looks for holds at every moment, within callbacks too; and what
\* it does not see: a list belongs to the object that has it, and an object that is
\* not being destroyed is in the list of its parent.
TreeIsLinked ==
    /\ \A h \in Live \cup {Root} : CheckNode(hdr[h].parent_child, h)
    /\ \A k \in Lists : owner[k] # NULL => InUse(owner[k]) /\ ChildrenOf(owner[k]) = k
    /\ \A h \in Stable : InUse(hdr[h].parent_child) /\ h \in Members(links, hdr[h].parent_child)

\* No call of tal, and no call of del_tree that goes on after a callback has
\* freed, taken away or allocated something, uses memory that has been freed.
NoUseAfterFree == ~wild

\* Nothing is forgotten: what is in use can be reached from null_parent, or is
\* about to be freed, and each block of memory belongs to one property.
NothingLost ==
    /\ \A h \in Stable : \/ Root \in Path(h)
                         \/ \E k \in DOMAIN stack : stack[k].t \in Path(h)
    /\ \A h \in Live \ Stable : \E k \in DOMAIN stack : stack[k].t = h
    /\ own = Cardinality(UNION {{h} \X OwnPlaces(h) : h \in Live})

\* Each destructor that was added to an object before it began to be destroyed, and
\* not taken away again, is called exactly as often as it was added: the object is not
\* freed before that, what notify has still to call is what is due, whatever callbacks
\* add and take away meanwhile, and nothing that has been called comes again.  An
\* object has called all of its own before the objects below it are freed.  A
\* destructor added to an object that is being destroyed is not called.
DestructorsCalled ==
    /\ \A d \in due : d[1] \in Live /\ NotifierAt(d[1], d[2]) # 0
    /\ \A k \in DOMAIN stack : stack[k].at = "notify" =>
          LET h == stack[k].t IN
          {Props(h)[i].at : i \in NotifiersAfter(h, stack[k].n)} = {n \in Notes : <<h, n>> \in due}
    /\ \A k \in DOMAIN stack : stack[k].at = "children" => \A d \in due : d[1] # stack[k].t

\* tal_first and tal_next go through every object below the root, each once, if
\* the tree stays as it is, and to objects below the root whatever becomes of it.
TraversalComplete ==
    /\ Iterating => cursor.at \in Below(cursor.root)
    /\ Iterating /\ ~cursor.altered /\ stack = <<>> =>
          LET x == TalNext(cursor.root, cursor.at) IN
          IF x = NULL THEN cursor.seen = Below(cursor.root) ELSE x \notin cursor.seen
=============================================================================
