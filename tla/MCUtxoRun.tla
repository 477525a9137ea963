----------------------------- MODULE MCUtxoRun -----------------------------
(***************************************************************************)
(* Five blocks: b0 b1 b2 b3, and c2, on a fork after b1. They hold an      *)
(* unspendable output (of t1), a transaction that spends an output of its  *)
(* own block (t4), an output spent on both forks (of t1), some spent a     *)
(* block after they were created, and a coinbase that is there twice (t0), *)
(* one of which is spent.                                                  *)
(***************************************************************************)
EXTENDS UtxoRun

CONSTANTS b0, b1, b2, c2, b3, null, t0, t1, t2, t3, t4, t6, t7, t8

MCBlock == {b0, b1, b2, c2, b3}
MCTxId == {null, t0, t1, t2, t3, t4, t6, t7, t8}

Coinbase(id, outs) == [id |-> id, ins |-> <<<<null, 0>>>>, outs |-> outs]
Spend(id, ins, outs) == [id |-> id, ins |-> ins, outs |-> outs]

MCTx ==
    [x \in MCBlock |->
        CASE x = b0 -> <<Coinbase(t0, <<TRUE>>)>>
          [] x = b1 -> <<Coinbase(t1, <<TRUE, FALSE>>)>>
          [] x = b2 -> <<Coinbase(t2, <<TRUE>>),
                        Spend(t3, <<<<t1, 1>>>>, <<TRUE, TRUE>>),
                        Spend(t4, <<<<t3, 1>>>>, <<TRUE>>)>>
          [] x = c2 -> <<Coinbase(t0, <<TRUE>>), Spend(t6, <<<<t1, 1>>, <<t0, 1>>>>, <<TRUE>>)>>
          [] x = b3 -> <<Coinbase(t7, <<TRUE>>),
                        Spend(t8, <<<<t3, 2>>, <<t4, 1>>>>, <<TRUE>>)>>]

Run(chain, start, cached, utxofn) ==
    [chain |-> chain, start |-> start, cached |-> cached,
     needs |-> TRUE, utxofn |-> utxofn, perTx |-> TRUE]

\* Chains and starts that meet in the cache, a start that is not on the chain,
\* and runs without the cache or without a map.
WholeRuns ==
    {Run(ch, st, TRUE, TRUE) : ch \in {<<b0, b1, b2, b3>>, <<b0, b1, c2>>}, st \in {b1, b2, b3}}
    \cup {Run(<<b0, b1, c2>>, c2, TRUE, FALSE), Run(<<b0, b1, b2, b3>>, b2, FALSE, TRUE)}
    \cup {[Run(<<b0, b1, b2>>, b1, TRUE, FALSE) EXCEPT !.needs = FALSE],
          [Run(<<b0, b1, b2>>, b1, TRUE, FALSE) EXCEPT !.needs = FALSE, !.perTx = FALSE]}

\* Where half-written files may be met.
TornRuns == {Run(<<b0, b1, b2, b3>>, st, TRUE, TRUE) : st \in {b2, b3}}

MCRuns == [a \in BOOLEAN |-> IF a THEN WholeRuns ELSE TornRuns]
OnlyTornRuns == [a \in {FALSE} |-> TornRuns]

\* No process is distinguished: the configurations use it as SYMMETRY.
ProcSymmetry == Permutations(Proc)
=============================================================================
