-------------------------------- MODULE MCTal --------------------------------
(***************************************************************************)
(* Four addresses for objects, so that one that was freed or has moved may *)
(* be used again, and three kinds of programs: with destructors that call  *)
(* tal; with traversals while the tree changes and objects move; with all  *)
(* kinds of properties.  In each of them malloc may fail once.  Two        *)
(* notifiers may be in use at a time, also with one function.              *)
(***************************************************************************)
EXTENDS Tal, TLC

CONSTANTS h1, h2, h3, h4, k1, k2, k3, n1, n2, d1

MCHdr == {h1, h2, h3, h4}
MCKids == {k1, k2, k3}
MCNotes == {n1, n2}
MCFn == {d1}
MCEventSets == {{"MOVE", "DEL_CHILD"}}

MCPrograms ==
    {[objects |-> 3, calls |-> {"tal", "tal_free", "tal_steal", "tal_add_notifier"}],
     [objects |-> 4, calls |-> {"tal", "tal_free", "tal_steal", "tal_resize", "tal_next"}],
     [objects |-> 2, calls |-> {"tal", "tal_arr", "tal_free", "tal_set_name", "tal_resize",
                                "tal_add_notifier", "tal_del_notifier"}]}

Symmetry == Permutations(MCHdr) \cup Permutations(MCKids) \cup Permutations(MCNotes)
=============================================================================
