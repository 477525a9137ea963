---------------------------- MODULE MCBlockIndex ----------------------------
(***************************************************************************)
(* Five ids: block 0 is in no file, 1 to 4 are, and 2 is there twice (the  *)
(* record 5).  Every tree on them is a topology: 1 is a genesis block or   *)
(* follows the missing 0, the others follow any older block.               *)
(***************************************************************************)
EXTENDS BlockIndex

MCHash == 0..4
MCZero == 99
MCRank == [h \in MCHash |-> h]
MCRec == 1..5
MCIdOf == [r \in MCRec |-> IF r = 5 THEN 2 ELSE r]
MCNoEnd == -1
MCEnds == {MCNoEnd, 0, 1}

MCTopologies ==
    {t \in [MCHash -> MCHash \cup {MCZero}] :
        /\ t[0] = MCZero
        /\ t[1] \in {MCZero, 0}
        /\ \A h \in 2..4 : t[h] \in 0..(h - 1)}

=============================================================================
