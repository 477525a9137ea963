---------------------------- MODULE MCBlockCache ----------------------------
(***************************************************************************)
(* Two processes, three runs of them, and a bitcoind that stores up to two *)
(* blocks after the genesis block, in two files, at any time.              *)
(***************************************************************************)
EXTENDS BlockCache

ProcSymmetry == Permutations(Proc)
=============================================================================
