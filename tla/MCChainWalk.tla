---------------------------- MODULE MCChainWalk ----------------------------
(***************************************************************************)
(* Two instances of ChainWalk.                                             *)
(*                                                                         *)
(* Any options, few blocks: block 0 is in no file, 1 to 4 are, and 2 is    *)
(* there twice (the record 5). 4 may be an orphan or on a fork; 1 may be   *)
(* an orphan, and then 2 the genesis block, if there is one.               *)
(*                                                                         *)
(* The early stop, one tree: the longest chain 1 2 3 4 5, and a fork 6 7   *)
(* as long as Margin allows, with any order of the records in the files.   *)
(***************************************************************************)
EXTENDS ChainWalk

MCZero == 99
MCNoEnd == -1

MCHash == 0..4
MCRank == [h \in MCHash |-> h]
MCRec == 1..5
MCIdOf == [r \in MCRec |-> IF r = 5 THEN 2 ELSE r]
MCTopologies ==
    {t \in [MCHash -> MCHash \cup {MCZero}] :
        /\ t[0] = MCZero
        /\ t[1] \in {MCZero, 0}
        /\ t[2] \in {0, 1} \cup (IF t[1] = 0 THEN {MCZero} ELSE {})
        /\ t[3] \in {1, 2}
        /\ t[4] \in {0, 1, 2, 3}}
MCEnds == {MCNoEnd, 0, 1, 2}
MCTips == {MCZero, 0, 2, 4}
MCStartHashes == {MCZero, 0, 2, 3}
MCStarts == 0..2

ForkHash == 1..7
ForkRank == [h \in ForkHash |-> h]
ForkTopologies ==
    {[h \in ForkHash |-> IF h = 1 THEN MCZero ELSE IF h = 6 THEN 1 ELSE h - 1]}
ForkIdOf == [r \in ForkHash |-> r]
ForkEnds == {1, 2}
NoHash == {MCZero}
NoStart == {0}

=============================================================================
