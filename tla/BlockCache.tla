----------------------------- MODULE BlockCache -----------------------------
(***************************************************************************)
(* Where the block index of a run comes from (cache.c: read_blockchain):   *)
(* from the block files, or from the block cache, a file with the structs  *)
(* of an earlier run, named after the last block file and trusted when it  *)
(* is younger than that block file. Several processes share the cache      *)
(* directory while bitcoind adds blocks to the last of the block files.    *)
(*                                                                         *)
(* Blocks are numbered in the order in which bitcoind stores them; 1 is    *)
(* the genesis block. Time is st_mtime: it has whole seconds.              *)
(***************************************************************************)
EXTENDS Integers, Sequences, FiniteSets, SequencesExt

CONSTANTS
    Proc,
    CacheOptions, \* the values of "is there a --cache?"
    EndOptions,   \* the values of "is there no --end?"
    MaxBlocks, MaxFiles, MaxTime, MaxRuns, \* bounds
    Crashes,      \* a process may be killed, or its disk full
    Hole,         \* a struct of zeroes, where a file was never written
    NoFile

ASSUME CacheAssumption ==
    /\ CacheOptions \subseteq BOOLEAN /\ EndOptions \subseteq BOOLEAN
    /\ MaxBlocks \in Nat \ {0} /\ MaxFiles \in Nat \ {0}
    /\ MaxTime \in Nat /\ MaxRuns \in Nat
    /\ Crashes \in BOOLEAN
    /\ Hole \notin Nat
    /\ NoFile \notin [structs : Seq(Nat \cup {Hole}), mtime : Nat]

VARIABLES
    now,      \* the clock
    files,    \* bitcoind's block files: the blocks in each and its mtime
    dir,      \* is there a cache directory?
    cache,    \* cache[f]: the cache file named after block file f
    broken,   \* history: the cache files whose last writer was cut short, or that
              \* were written by two at once that have seen different blocks
    live,     \* history: the blocks stored while a process read or wrote files
    started,  \* how many runs have been started
    pc,       \* per process, as all that follows
    cached,   \* cachedir # NULL
    full,     \* block_end = -1UL
    names,    \* how many block files there were when block_filenames looked
    fileTime, \* block_st.st_mtime
    scanning, \* the block file to read next
    seen,     \* the blocks in block_map
    origin,   \* where they come from
    order,    \* block_map's order, in which it is written
    written   \* how many structs of it are written

serverVars == <<now, files, live>>
diskVars == <<dir, cache, broken>>
procVars == <<cached, full, names, fileTime, scanning, seen, origin, order, written>>
vars == <<serverVars, diskVars, started, pc, procVars>>

Genesis == 1
Stored == UNION {files[f].blocks : f \in DOMAIN files}
Idle(p) == pc[p] = "idle"

Init ==
    /\ now = 0
    /\ files = <<[blocks |-> {Genesis}, mtime |-> 0]>>
    /\ dir = FALSE
    /\ cache = [f \in 1..MaxFiles |-> NoFile]
    /\ broken = {}
    /\ live = {}
    /\ started = 0
    /\ pc = [p \in Proc |-> "idle"]
    /\ cached = [p \in Proc |-> FALSE]
    /\ full = [p \in Proc |-> FALSE]
    /\ names = [p \in Proc |-> 0]
    /\ fileTime = [p \in Proc |-> 0]
    /\ scanning = [p \in Proc |-> 1]
    /\ seen = [p \in Proc |-> {}]
    /\ origin = [p \in Proc |-> "none"]
    /\ order = [p \in Proc |-> <<>>]
    /\ written = [p \in Proc |-> 0]

-----------------------------------------------------------------------------
(***************************************************************************)
(* The world outside: time passes and bitcoind stores blocks.              *)
(***************************************************************************)
Tick ==
    /\ now < MaxTime
    /\ now' = now + 1
    /\ UNCHANGED <<files, live, diskVars, started, pc, procVars>>

StoreBlock ==
    LET b == Cardinality(Stored) + 1
        last == Len(files) IN
    /\ b <= MaxBlocks
    /\ \/ files' = [files EXCEPT ![last] = [blocks |-> @.blocks \cup {b}, mtime |-> now]]
       \/ last < MaxFiles /\ files' = Append(files, [blocks |-> {b}, mtime |-> now])
    /\ live' = IF \A p \in Proc : pc[p] \in {"idle", "ready", "failed"} THEN live ELSE live \cup {b}
    /\ UNCHANGED <<now, diskVars, started, pc, procVars>>

-----------------------------------------------------------------------------
Goto(p, label) == pc' = [pc EXCEPT ![p] = label]

StartRun(p) ==
    /\ Idle(p)
    /\ started < MaxRuns
    /\ started' = started + 1
    /\ \E c \in CacheOptions, e \in EndOptions :
          /\ cached' = [cached EXCEPT ![p] = c]
          /\ full' = [full EXCEPT ![p] = e]
          /\ Goto(p, IF c THEN "statFile" ELSE "scan")
    /\ names' = [names EXCEPT ![p] = Len(files)]
    /\ UNCHANGED <<serverVars, diskVars, fileTime, scanning, seen, origin, order, written>>

(***************************************************************************)
(* blockcache_is_valid. A cache as old as the block file is no use: a      *)
(* block may have been stored later in the same second.                    *)
(***************************************************************************)
StatFile(p) ==
    /\ pc[p] = "statFile"
    /\ fileTime' = [fileTime EXCEPT ![p] = files[names[p]].mtime]
    /\ Goto(p, "statCache")
    /\ UNCHANGED <<serverVars, diskVars, started, cached, full, names, scanning, seen, origin, order, written>>

IsValidSameSecond(fileMtime, c) == c # NoFile /\ ~(fileMtime > c.mtime)
IsValid(fileMtime, c) == c # NoFile /\ ~(fileMtime >= c.mtime)

CacheFile(p) == cache[names[p]]

StatCache(p) ==
    /\ pc[p] = "statCache"
    /\ Goto(p, IF IsValid(fileTime[p], CacheFile(p)) THEN "grab" ELSE "scan")
    /\ UNCHANGED <<serverVars, diskVars, started, procVars>>

\* A file that someone is writing, or was when it ended.
Writing(f) == \E p \in Proc : pc[p] = "write" /\ names[p] = f
Doubtful(f) == Writing(f) \/ f \in broken

\* read_blockcache; with no struct in the file the block files are read.
Grab(p) ==
    /\ pc[p] = "grab"
    /\ seen' = [seen EXCEPT ![p] = ToSet(CacheFile(p).structs)]
    /\ IF CacheFile(p).structs = <<>>
       THEN Goto(p, "scan") /\ UNCHANGED origin
       ELSE /\ Goto(p, "check")
            /\ origin' = [origin EXCEPT ![p] = IF Doubtful(names[p]) THEN "doubtful" ELSE "cache"]
    /\ UNCHANGED <<serverVars, diskVars, started, cached, full, names, fileTime, scanning, order, written>>

(***************************************************************************)
(* read_blockfiles: each file is read as it is when it is opened. A scan   *)
(* that stops early, which needs an --end, is in module BlockIndex.        *)
(***************************************************************************)
ScanFile(p) ==
    /\ pc[p] = "scan"
    /\ scanning[p] <= names[p]
    /\ seen' = [seen EXCEPT ![p] = @ \cup files[scanning[p]].blocks]
    /\ scanning' = [scanning EXCEPT ![p] = @ + 1]
    /\ origin' = [origin EXCEPT ![p] = "files"]
    /\ UNCHANGED <<serverVars, diskVars, started, pc, cached, full, names, fileTime, order, written>>

\* Without --cache the local blockcache is not initialised. The program may
\* find it to be NULL, or take it for a file name, which open() refuses.
ScanDone(p) ==
    /\ pc[p] = "scan"
    /\ scanning[p] > names[p] \/ (~full[p] /\ scanning[p] > 1)
    /\ \/ full[p] /\ cached[p] /\ Goto(p, "open")
       \/ full[p] /\ ~cached[p] /\ Goto(p, "failed")
       \/ ~(full[p] /\ cached[p]) /\ Goto(p, "check")
    /\ UNCHANGED <<serverVars, diskVars, started, procVars>>

(***************************************************************************)
(* write_blockcache: the file is emptied or created, then written struct   *)
(* by struct at the offsets of this process, whoever else writes to it.    *)
(***************************************************************************)
StartWriting(p, k) ==
    /\ cache' = [cache EXCEPT ![names[p]] = [structs |-> <<>>, mtime |-> now]]
    /\ broken' = IF \E q \in Proc \ {p} : pc[q] = "write" /\ names[q] = names[p] /\ seen[q] # seen[p]
                  THEN broken \cup {names[p]} ELSE broken \ {names[p]}
    /\ order' = [order EXCEPT ![p] = SetToSeq(seen[p])]
    /\ written' = [written EXCEPT ![p] = k]
    /\ Goto(p, "write")

OpenSkipsFirst(p) ==
    /\ pc[p] = "open"
    /\ \/ dir /\ StartWriting(p, 1)
       \/ ~dir /\ Goto(p, "mkdir") /\ UNCHANGED <<cache, broken, order, written>>
    /\ UNCHANGED <<serverVars, dir, started, cached, full, names, fileTime, scanning, seen, origin>>

Open(p) ==
    /\ pc[p] = "open"
    /\ \/ dir /\ StartWriting(p, 0)
       \/ ~dir /\ Goto(p, "mkdir") /\ UNCHANGED <<cache, broken, order, written>>
    /\ UNCHANGED <<serverVars, dir, started, cached, full, names, fileTime, scanning, seen, origin>>

Mkdir(p) ==
    /\ pc[p] = "mkdir"
    /\ dir' = TRUE
    /\ Goto(p, IF dir THEN "failed" ELSE "create")
    /\ UNCHANGED <<serverVars, cache, broken, started, procVars>>

\* O_EXCL: someone else may have been faster.
Create(p) ==
    /\ pc[p] = "create"
    /\ \/ CacheFile(p) = NoFile /\ StartWriting(p, 0)
       \/ CacheFile(p) # NoFile /\ Goto(p, "failed") /\ UNCHANGED <<cache, broken, order, written>>
    /\ UNCHANGED <<serverVars, dir, started, cached, full, names, fileTime, scanning, seen, origin>>

\* write() at an offset beyond the end leaves a hole.
PutAt(s, k, b) ==
    [i \in 1..(IF k > Len(s) THEN k ELSE Len(s)) |->
        IF i = k THEN b ELSE IF i <= Len(s) THEN s[i] ELSE Hole]

WriteStruct(p) ==
    LET k == written[p] + 1 IN
    /\ pc[p] = "write"
    /\ k <= Len(order[p])
    /\ cache' = [cache EXCEPT ![names[p]] =
                    [structs |-> PutAt(@.structs, k, order[p][k]), mtime |-> now]]
    /\ written' = [written EXCEPT ![p] = k]
    /\ UNCHANGED <<serverVars, dir, broken, started, pc, cached, full, names, fileTime, scanning, seen, origin, order>>

WriteDone(p) ==
    /\ pc[p] = "write"
    /\ written[p] = Len(order[p])
    /\ Goto(p, "check")
    /\ UNCHANGED <<serverVars, diskVars, started, procVars>>

\* Nothing more of the file can be written: err() ends the process.
ShortWrite(p) ==
    /\ Crashes
    /\ pc[p] = "write"
    /\ written[p] < Len(order[p])
    /\ Goto(p, "failed")
    /\ broken' = broken \cup {names[p]}
    /\ UNCHANGED <<serverVars, dir, cache, started, procVars>>

\* A zero prev_hash makes a genesis block, that of a hole too.
Check(p) ==
    /\ pc[p] = "check"
    /\ Goto(p, IF seen[p] \cap {Genesis, Hole} # {} THEN "ready" ELSE "failed")
    /\ UNCHANGED <<serverVars, diskVars, started, procVars>>

\* Nothing is left of a process that is gone but the files.
Leave(p) ==
    /\ Goto(p, "idle")
    /\ cached' = [cached EXCEPT ![p] = FALSE]
    /\ full' = [full EXCEPT ![p] = FALSE]
    /\ names' = [names EXCEPT ![p] = 0]
    /\ fileTime' = [fileTime EXCEPT ![p] = 0]
    /\ scanning' = [scanning EXCEPT ![p] = 1]
    /\ seen' = [seen EXCEPT ![p] = {}]
    /\ origin' = [origin EXCEPT ![p] = "none"]
    /\ order' = [order EXCEPT ![p] = <<>>]
    /\ written' = [written EXCEPT ![p] = 0]
    /\ UNCHANGED <<serverVars, dir, cache, started>>

Exit(p) ==
    /\ pc[p] \in {"ready", "failed"}
    /\ Leave(p)
    /\ UNCHANGED broken

Crash(p) ==
    /\ Crashes
    /\ pc[p] \notin {"idle", "ready", "failed"}
    /\ Leave(p)
    /\ broken' = IF pc[p] = "write" THEN broken \cup {names[p]} ELSE broken

Step(p) ==
    \/ StatFile(p) \/ StatCache(p) \/ Grab(p) \/ ScanFile(p) \/ ScanDone(p)
    \/ Open(p) \/ Mkdir(p) \/ Create(p) \/ WriteStruct(p) \/ WriteDone(p)
    \/ Check(p) \/ Exit(p)

Next ==
    \/ Tick \/ StoreBlock
    \/ \E p \in Proc : StartRun(p) \/ Step(p) \/ ShortWrite(p) \/ Crash(p)
    \/ started = MaxRuns /\ (\A p \in Proc : Idle(p)) /\ UNCHANGED vars

Spec == Init /\ [][Next]_vars

-----------------------------------------------------------------------------
(***************************************************************************)
(* Properties.                                                             *)
(***************************************************************************)

\* What is known is what is stored, but for blocks stored while a process was
\* reading or writing: one of them may have missed those.
UpToDate(known) == known \subseteq Stored /\ Stored \ known \subseteq live

\* A run without --end knows every block that is stored, and no other, unless it
\* has read a cache file while it was written, or one that was left half-written or
\* by two at once: no other trusted file is older than a block, or named after an
\* older file.
IndexIsComplete ==
    \A p \in Proc :
        pc[p] = "check" /\ full[p] /\ origin[p] # "doubtful" => UpToDate(seen[p])

\* When the processes that overwrite each other's cache file have all finished,
\* the file, if it would be trusted, has all the blocks and no hole; so has the
\* next one after a file that was left half-written.
QuietCacheIsComplete ==
    LET last == Len(files) IN
    ~Doubtful(last) /\ IsValid(files[last].mtime, cache[last]) => UpToDate(ToSet(cache[last].structs))

=============================================================================
