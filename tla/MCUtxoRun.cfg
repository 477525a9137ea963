SPECIFICATION Spec
CONSTANTS
    b0 = b0  b1 = b1  b2 = b2  c2 = c2  b3 = b3
    null = null
    t0 = t0  t1 = t1  t2 = t2  t3 = t3  t4 = t4  t6 = t6  t7 = t7  t8 = t8
    Block <- MCBlock
    TxId <- MCTxId
    Tx <- MCTx
    Period = 2
    NoFile = NoFile
    Proc = {p1, p2}
    Runs <- MCRuns
    MaxRuns = 3
    Crashes = TRUE
SYMMETRY ProcSymmetry
INVARIANTS UtxoExact CacheExact ReportsExact
