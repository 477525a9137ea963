----------------------------- MODULE Iteration -----------------------------
(***************************************************************************)
(* What iterate() promises the callbacks, in one page: they are handed the *)
(* blocks of one chain, each the child of the one before, and at some      *)
(* moment the iteration ends and hands out nothing more.                   *)
(***************************************************************************)
EXTENDS Sequences, SequencesExt

CONSTANT Blocks

VARIABLES
    follows, \* the pairs <<p, b>> where b's header commits to p: never changes
    emitted, \* the blocks handed to the callbacks so far
    ended

vars == <<follows, emitted, ended>>

Init ==
    /\ follows \subseteq Blocks \X Blocks
    /\ emitted = <<>>
    /\ ended = FALSE

Emit(b) ==
    /\ ~ended
    /\ emitted # <<>> => <<Last(emitted), b>> \in follows
    /\ emitted' = Append(emitted, b)
    /\ UNCHANGED <<follows, ended>>

End ==
    /\ ~ended
    /\ ended' = TRUE
    /\ UNCHANGED <<follows, emitted>>

Next == End \/ \E b \in Blocks : Emit(b)

Spec == Init /\ [][Next]_vars /\ WF_vars(End)
=============================================================================
