------------------------------ MODULE UtxoRun ------------------------------
(***************************************************************************)
(* The main loop of iterate() with its transactions: how the map of        *)
(* unspent outputs follows the chain (utxo.c), how it is saved to and      *)
(* loaded from the cache directory at the first block of the iteration     *)
(* (cache.c), and when it is handed to utxofn. Several processes, one      *)
(* after the other or at the same time, share the cache directory.         *)
(*                                                                         *)
(* An output is an outpoint <<txid, index>>; the other fields of struct    *)
(* utxo follow from it. htable keeps equal entries apart, so the map gives *)
(* for each outpoint how many times it is there.                           *)
(***************************************************************************)
EXTENDS Integers, Sequences, FiniteSets, SequencesExt

CONSTANTS
    Proc,       \* the processes that share the cache directory
    Block,      \* the ids of the blocks
    TxId,       \* the ids of the transactions, and the one a coinbase spends
    Tx,         \* Tx[b]: the transactions of block b, the first one its coinbase
    Runs,       \* Runs[a]: what a process may be asked to do, if atomicSave is a
    Period,     \* --utxo-period
    MaxRuns,    \* bound: how many times a process is started
    Crashes,    \* a process may be killed
    NoFile

\* A transaction spends ins and has outputs: outs[i] says if the i-th can be spent.
TxType == [id : TxId, ins : Seq(TxId \X Nat), outs : Seq(BOOLEAN)]

\* A run goes through chain and calls the callbacks from start on; cached is
\* --cache, needs is needs_utxo, utxofn is --utxo, perTx says if there is any
\* callback but blockfn.
RunType == [chain : Seq(Block), start : Block,
            cached : BOOLEAN, needs : BOOLEAN, utxofn : BOOLEAN, perTx : BOOLEAN]

OutPoint == UNION {{<<t.id, i>> : i \in DOMAIN t.outs} : t \in UNION {ToSet(Tx[b]) : b \in Block}}

ASSUME UtxoOptionAssumption ==
    /\ Period \in Nat \ {0}
    /\ MaxRuns \in Nat
    /\ Crashes \in BOOLEAN
    /\ NoFile \notin [entries : [OutPoint -> Nat], torn : BOOLEAN]

\* main in cli.c asks for needs_utxo only with a format for transactions,
\* inputs, outputs or UTXOs, and always with one for UTXOs.
ASSUME RunAssumption ==
    /\ Tx \in [Block -> Seq(TxType)]
    /\ DOMAIN Runs \subseteq BOOLEAN
    /\ \A a \in DOMAIN Runs : Runs[a] # {} /\ Runs[a] \subseteq RunType
    /\ \A r \in UNION {Runs[a] : a \in DOMAIN Runs} : (r.needs => r.perTx) /\ (r.utxofn => r.needs)

-----------------------------------------------------------------------------
(***************************************************************************)
(* The reference: what is unspent at a point of a chain.                   *)
(***************************************************************************)

Released(t, i) == IF i = 1 THEN {} ELSE ToSet(t.ins)

\* What it adds: an unspendable output is left out.
AddedAll(t) == {<<t.id, i>> : i \in DOMAIN t.outs}
Added(t) == {<<t.id, i>> : i \in {j \in DOMAIN t.outs : t.outs[j]}}

\* The places <<k, i>>, a block of the chain c and a transaction of it, that
\* come before the i-th transaction of the k-th block.
Before(c, k, i) ==
    UNION {{<<j, n>> : n \in {m \in DOMAIN Tx[c[j]] : j < k \/ m < i}} : j \in 1..k \cap DOMAIN c}

\* How often each output was created by the transactions before, less how often it
\* was spent by them. Only a coinbase may be there twice, as it was before BIP 30.
Unspent(c, k, i) ==
    LET before == Before(c, k, i)
        TxAt(x) == Tx[c[x[1]]][x[2]]
        Creates(t, o) == \E j \in DOMAIN t.outs : t.outs[j] /\ o = <<t.id, j>>
    IN [o \in OutPoint |->
           Cardinality({x \in before : Creates(TxAt(x), o)})
               - Cardinality({x \in before : o \in ToSet(TxAt(x).ins)})]

\* The chains are those of one block tree, and consensus accepts them.
ASSUME ChainAssumption ==
    \A a \in DOMAIN Runs : \A r \in Runs[a] : LET c == r.chain IN
        /\ c # <<>>
        /\ \A k \in DOMAIN c : \A i \in DOMAIN Tx[c[k]] :
              /\ i = 1 => ToSet(Tx[c[k]][i].ins) \cap OutPoint = {}
              /\ i > 1 => /\ \A o \in ToSet(Tx[c[k]][i].ins) : o \in OutPoint /\ Unspent(c, k, i)[o] > 0
                          /\ \A x \in Before(c, k, i) : Tx[c[x[1]]][x[2]].id # Tx[c[k]][i].id
        /\ \A s \in Runs[a] : \A k \in DOMAIN c : \A j \in DOMAIN s.chain :
              c[k] = s.chain[j] => k = j /\ \A m \in 1..k : c[m] = s.chain[m]

-----------------------------------------------------------------------------
VARIABLES
    atomicSave, \* nobody dies while saving the map, or reads what is being saved
    cache,    \* cache[b]: the UTXO cache file of block b: its whole entries, torn
              \* if part of an entry follows them
    started,  \* how many runs have been started
    pc,       \* per process, as all that follows
    run,      \* what it has been asked to do
    pos,      \* the block it is at, an index of its chain
    tx,       \* the transaction it is at, an index of the block
    pending,  \* start # NULL: the block to start at is still to come
    needsFee, \* needs_fee: the map is to be kept up to date
    utxos,    \* utxo_map
    saving,   \* the entries still to be written to the cache file
    iterated, \* blocks_iterated
    reports   \* the blocks for which utxofn has been called

procVars == <<run, pos, tx, pending, needsFee, utxos, saving, iterated, reports>>
vars == <<atomicSave, cache, started, pc, procVars>>

NoUtxos == [o \in OutPoint |-> 0]
AnyRun == CHOOSE r \in UNION {Runs[a] : a \in DOMAIN Runs} : TRUE

Chain(p) == run[p].chain
Here(p) == Chain(p)[pos[p]]

Init ==
    /\ atomicSave \in DOMAIN Runs
    /\ cache = [b \in Block |-> NoFile]
    /\ started = 0
    /\ pc = [p \in Proc |-> "idle"]
    /\ run = [p \in Proc |-> AnyRun]
    /\ pos = [p \in Proc |-> 1]
    /\ tx = [p \in Proc |-> 1]
    /\ pending = [p \in Proc |-> TRUE]
    /\ needsFee = [p \in Proc |-> FALSE]
    /\ utxos = [p \in Proc |-> NoUtxos]
    /\ saving = [p \in Proc |-> NoUtxos]
    /\ iterated = [p \in Proc |-> 0]
    /\ reports = [p \in Proc |-> <<>>]

\* A new process, up to utxo_map_init; the block index is not modelled here.
StartRun(p) ==
    /\ pc[p] = "idle"
    /\ started < MaxRuns
    /\ started' = started + 1
    /\ pc' = [pc EXCEPT ![p] = "load"]
    /\ \E r \in Runs[atomicSave] :
          /\ run' = [run EXCEPT ![p] = r]
          /\ needsFee' = [needsFee EXCEPT ![p] = r.needs]
    /\ UNCHANGED <<atomicSave, cache, pos, tx, pending, utxos, saving, iterated, reports>>

(***************************************************************************)
(* read_utxo_cache. A file that ends within an entry is deleted and not    *)
(* used, but the entries before are in the map by then.                    *)
(***************************************************************************)
Loaded(f) == f.entries

LoadCache(p) ==
    LET b == run[p].start
        f == cache[b] IN
    /\ pc[p] = "load"
    /\ pc' = [pc EXCEPT ![p] = "walk"]
    /\ \/ /\ ~run[p].cached \/ ~run[p].needs \/ f = NoFile
          /\ UNCHANGED <<cache, needsFee, utxos>>
       \/ /\ run[p].cached /\ run[p].needs /\ f # NoFile
          /\ utxos' = [utxos EXCEPT ![p] = Loaded(f)]
          /\ needsFee' = [needsFee EXCEPT ![p] = f.torn]
          /\ cache' = IF f.torn THEN [cache EXCEPT ![b] = NoFile] ELSE cache
    /\ UNCHANGED <<atomicSave, started, run, pos, tx, pending, saving, iterated, reports>>

(***************************************************************************)
(* The first block of the iteration: the map is saved, unless the file is  *)
(* there (O_EXCL), or it has just been loaded and is maintained from now   *)
(* on.                                                                     *)
(***************************************************************************)
AtStart(p) == pc[p] = "walk" /\ pos[p] <= Len(Chain(p)) /\ pending[p] /\ Here(p) = run[p].start

Saves(p) == run[p].cached /\ run[p].needs /\ needsFee[p] /\ cache[Here(p)] = NoFile

FeeAtStartForgotten(p) == needsFee[p]
FeeAtStart(p) == needsFee[p] \/ (run[p].cached /\ run[p].needs)

\* write_utxo_cache creates the file, empty; its entries follow one by one.
ReachStart(p) ==
    /\ AtStart(p)
    /\ pending' = [pending EXCEPT ![p] = FALSE]
    /\ needsFee' = [needsFee EXCEPT ![p] = FeeAtStart(p)]
    /\ \/ /\ ~Saves(p)
          /\ UNCHANGED <<cache, pc, saving>>
       \/ /\ Saves(p) /\ atomicSave
          /\ cache' = [cache EXCEPT ![Here(p)] = [entries |-> utxos[p], torn |-> FALSE]]
          /\ UNCHANGED <<pc, saving>>
       \/ /\ Saves(p) /\ ~atomicSave
          /\ cache' = [cache EXCEPT ![Here(p)] = [entries |-> NoUtxos, torn |-> FALSE]]
          /\ saving' = [saving EXCEPT ![p] = utxos[p]]
          /\ pc' = [pc EXCEPT ![p] = "save"]
    /\ UNCHANGED <<atomicSave, started, run, pos, tx, utxos, iterated, reports>>

\* One write() is one entry, and a reader sees all of it or nothing.
SaveEntry(p) ==
    /\ pc[p] = "save"
    /\ \E o \in OutPoint :
          /\ saving[p][o] > 0
          /\ saving' = [saving EXCEPT ![p][o] = @ - 1]
          /\ cache' = [cache EXCEPT ![Here(p)].entries[o] = @ + 1]
    /\ UNCHANGED <<atomicSave, started, pc, run, pos, tx, pending, needsFee, utxos, iterated, reports>>

SaveDone(p) ==
    /\ pc[p] = "save"
    /\ saving[p] = NoUtxos
    /\ pc' = [pc EXCEPT ![p] = "walk"]
    /\ UNCHANGED <<atomicSave, cache, started, procVars>>

\* The disk is full: part of an entry is written and the process exits. With no
\* part of it written, the file is as a process leaves it that is killed here.
ShortWrite(p) ==
    /\ pc[p] = "save"
    /\ saving[p] # NoUtxos
    /\ cache' = [cache EXCEPT ![Here(p)].torn = TRUE]
    /\ pc' = [pc EXCEPT ![p] = "exit"]
    /\ UNCHANGED <<atomicSave, started, procVars>>

(***************************************************************************)
(* A block. Its transactions are not read if nobody wants them, or before  *)
(* the start when the map has been loaded from the cache.                  *)
(***************************************************************************)
Skips(p) == ~run[p].perTx \/ (pending[p] /\ ~needsFee[p])

EnterBlock(p) ==
    /\ pc[p] = "walk"
    /\ pos[p] <= Len(Chain(p))
    /\ ~AtStart(p)
    /\ \/ /\ Skips(p)
          /\ pos' = [pos EXCEPT ![p] = @ + 1]
          /\ UNCHANGED pc
       \/ /\ ~Skips(p)
          /\ pc' = [pc EXCEPT ![p] = "tx"]
          /\ UNCHANGED pos
    /\ UNCHANGED <<atomicSave, cache, started, run, tx, pending, needsFee, utxos, saving, iterated, reports>>

\* The callbacks of the transaction, then release_utxo for each input, which
\* exits if the output is not in the map, and add_utxos.
DoTx(p) ==
    LET i == tx[p]
        t == Tx[Here(p)][i] IN
    /\ pc[p] = "tx"
    /\ i <= Len(Tx[Here(p)])
    /\ \/ /\ needsFee[p]
          /\ \A o \in Released(t, i) : o \in OutPoint /\ utxos[p][o] > 0
          /\ utxos' = [utxos EXCEPT ![p] =
                [o \in OutPoint |-> @[o] - (IF o \in Released(t, i) THEN 1 ELSE 0)
                                         + (IF o \in Added(t) THEN 1 ELSE 0)]]
          /\ tx' = [tx EXCEPT ![p] = i + 1]
          /\ UNCHANGED pc
       \/ /\ needsFee[p]
          /\ \E o \in Released(t, i) : o \notin OutPoint \/ utxos[p][o] = 0
          /\ pc' = [pc EXCEPT ![p] = "unknown"]
          /\ UNCHANGED <<utxos, tx>>
       \/ /\ ~needsFee[p]
          /\ tx' = [tx EXCEPT ![p] = i + 1]
          /\ UNCHANGED <<utxos, pc>>
    /\ UNCHANGED <<atomicSave, cache, started, run, pos, pending, needsFee, saving, iterated, reports>>

\* blocks_iterated counts the blocks from start on; every Period of them
\* utxofn is called for each entry of the map.
IteratedAfterAny(p) == iterated[p] + 1
IteratedAfter(p) == IF pending[p] THEN iterated[p] ELSE iterated[p] + 1

EndBlock(p) ==
    LET n == IteratedAfter(p) IN
    /\ pc[p] = "tx"
    /\ tx[p] > Len(Tx[Here(p)])
    /\ iterated' = [iterated EXCEPT ![p] = n]
    /\ \/ /\ ~pending[p] /\ run[p].utxofn /\ n % Period = 0
          /\ reports' = [reports EXCEPT ![p] = Append(@, Here(p))]
          /\ pc' = [pc EXCEPT ![p] = "report"]
       \/ /\ pending[p] \/ ~run[p].utxofn \/ n % Period # 0
          /\ pc' = [pc EXCEPT ![p] = "next"]
          /\ UNCHANGED reports
    /\ UNCHANGED <<atomicSave, cache, started, run, pos, tx, pending, needsFee, utxos, saving>>

NextBlock(p) ==
    /\ pc[p] \in {"report", "next"}
    /\ pc' = [pc EXCEPT ![p] = "walk"]
    /\ pos' = [pos EXCEPT ![p] = @ + 1]
    /\ tx' = [tx EXCEPT ![p] = 1]
    /\ UNCHANGED <<atomicSave, cache, started, run, pending, needsFee, utxos, saving, iterated, reports>>

Finish(p) ==
    /\ pc[p] = "walk"
    /\ pos[p] > Len(Chain(p))
    /\ pc' = [pc EXCEPT ![p] = "exit"]
    /\ UNCHANGED <<atomicSave, cache, started, procVars>>

\* Nothing is left of a process that is gone but the files.
Leave(p) ==
    /\ pc' = [pc EXCEPT ![p] = "idle"]
    /\ run' = [run EXCEPT ![p] = AnyRun]
    /\ pos' = [pos EXCEPT ![p] = 1]
    /\ tx' = [tx EXCEPT ![p] = 1]
    /\ pending' = [pending EXCEPT ![p] = TRUE]
    /\ needsFee' = [needsFee EXCEPT ![p] = FALSE]
    /\ utxos' = [utxos EXCEPT ![p] = NoUtxos]
    /\ saving' = [saving EXCEPT ![p] = NoUtxos]
    /\ iterated' = [iterated EXCEPT ![p] = 0]
    /\ reports' = [reports EXCEPT ![p] = <<>>]
    /\ UNCHANGED <<atomicSave, cache, started>>

Exit(p) == pc[p] \in {"exit", "unknown"} /\ Leave(p)
Crash(p) == Crashes /\ pc[p] \notin {"idle", "exit", "unknown"} /\ Leave(p)

Step(p) ==
    \/ LoadCache(p) \/ ReachStart(p) \/ SaveEntry(p) \/ SaveDone(p) \/ ShortWrite(p)
    \/ EnterBlock(p) \/ DoTx(p) \/ EndBlock(p) \/ NextBlock(p) \/ Finish(p) \/ Exit(p)

Stopped == started = MaxRuns /\ \A p \in Proc : pc[p] = "idle"

Next ==
    \/ \E p \in Proc : StartRun(p) \/ Step(p) \/ Crash(p)
    \/ Stopped /\ UNCHANGED vars

Spec == Init /\ [][Next]_vars

-----------------------------------------------------------------------------
(***************************************************************************)
(* Properties.                                                             *)
(***************************************************************************)

\* Whatever cache files earlier and concurrent processes have left, and whether
\* the map was computed or loaded, it holds each unspent output of the chain at
\* this point once and nothing else, and one of a repeated coinbase as often as it
\* was created and not spent: it is what every callback looks inputs up in, and what
\* utxofn is called for. (Here and in CacheExact: if no file was read or left
\* half-written.)
UtxoExact ==
    \A p \in Proc :
        atomicSave /\ pc[p] \in {"walk", "tx", "report", "next"} /\ run[p].needs =>
            (~pending[p] \/ needsFee[p] \/ AtStart(p) =>
                utxos[p] = Unspent(Chain(p), pos[p], tx[p]))

\* A cache file is the map as it is before its block, on every chain with it,
\* whichever run wrote it and on whichever fork that run was.
CacheExact ==
    \A b \in Block : atomicSave /\ cache[b] # NoFile =>
        \A r \in Runs[atomicSave] : \A k \in DOMAIN r.chain : r.chain[k] = b =>
            cache[b] = [entries |-> Unspent(r.chain, k, 1), torn |-> FALSE]

\* Every Period-th block of the chain c from its s-th on.
ReportsDue(c, s) == [j \in 1..((Len(c) - s + 1) \div Period) |-> c[s + j * Period - 1]]

\* A run that comes to its end has called utxofn for those blocks, in order, and
\* for none if start is not on its chain.
ReportsExact ==
    \A p \in Proc :
        pc[p] = "exit" /\ pos[p] > Len(Chain(p)) =>
            IF run[p].utxofn /\ run[p].start \in ToSet(Chain(p))
            THEN \E s \in DOMAIN Chain(p) : /\ Chain(p)[s] = run[p].start
                                            /\ reports[p] = ReportsDue(Chain(p), s)
            ELSE reports[p] = <<>>

=============================================================================
