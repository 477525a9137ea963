-------------------------------- MODULE List --------------------------------
(***************************************************************************)
(* ccan/list: circular doubly linked lists, as much of them as tal uses.   *)
(* A pair of link fields l covers every node of every list; the head of a  *)
(* list is a node too.                                                     *)
(***************************************************************************)
EXTENDS Naturals, Sequences, FiniteSets

Link(l, p, n) == [next |-> [l.next EXCEPT ![p] = n], prev |-> [l.prev EXCEPT ![n] = p]]

ListHeadInit(l, h) == Link(l, h, h)

ListAddAfter(l, p, n) ==
    LET after == l.next[p]
    IN [next |-> [l.next EXCEPT ![n] = after, ![p] = n],
        prev |-> [l.prev EXCEPT ![n] = p, ![after] = n]]

ListAdd(l, h, n) == ListAddAfter(l, h, n)

ListDelForward(l, n) == [l EXCEPT !.next[l.prev[n]] = l.next[n]]
ListDel(l, n) == Link(l, l.prev[n], l.next[n])

ListEmpty(l, h) == l.next[h] = h
ListTop(l, h) == l.next[h]

\* What list_del and list_add read and write besides n.
DelTouches(l, n) == {l.next[n], l.prev[n]}
AddTouches(l, h) == {h, l.next[h]}

(***************************************************************************)
(* list_check, by a walk along next of as many steps as there are nodes.   *)
(***************************************************************************)
Walk(l, h) ==
    LET at[k \in 0..Cardinality(DOMAIN l.next)] == IF k = 0 THEN h ELSE l.next[at[k - 1]]
    IN at

Members(l, h) == {Walk(l, h)[k] : k \in DOMAIN Walk(l, h)} \ {h}

ListCheck(l, h) ==
    /\ \E k \in DOMAIN Walk(l, h) \ {0} : Walk(l, h)[k] = h
    /\ \A n \in Members(l, h) \cup {h} : l.prev[l.next[n]] = n
=============================================================================
