------------------------------ MODULE MCHTable ------------------------------
(***************************************************************************)
(* Five elements: tables of up to eight slots, doubled and rehashed; two   *)
(* elements may have one key (the outputs of one coinbase twice), and keys *)
(* hash to the first bucket, to the last one (so that probing wraps, with  *)
(* values that differ only in the bits that entries keep), or to the last  *)
(* two and to the first.                                                   *)
(***************************************************************************)
EXTENDS HTable

\* Pointers as words of six bits that have the highest one in common.
MCPtr == {{5}, {5, 1}, {5, 2}, {5, 4, 2}, {5, 0}}

MCKeyings ==
    {[p \in MCPtr |-> CASE p = {5, 0} -> 1 [] 1 \in p -> 2 [] p = {5} -> 1 [] p = {5, 2} -> 3 [] OTHER -> 4]}

MCHashings ==
    {[k \in Key |-> {}],
     [k \in Key |-> IF k = 1 THEN {0, 1, 2} ELSE {0, 1, 2, k}],
     [k \in Key |-> CASE k = 1 -> {1} [] k = 2 -> {0, 1} [] k = 3 -> {1, 2} [] k = 4 -> {}]}
=============================================================================
