-------------------------- MODULE BlockCacheProofs --------------------------
(***************************************************************************)
(* Proofs about BlockCache, for any number of processes, runs, blocks and  *)
(* files and any time.                                                     *)
(*                                                                         *)
(* Nobody locks the cache file: what makes it right is the order in which  *)
(* its writer, its reader and bitcoind look at the clock. The invariant    *)
(* says of each process what it may have missed, of each file that nobody  *)
(* writes what its mtime promises, and of each file that several processes *)
(* write at once that one of them has filled it up to where it is.         *)
(***************************************************************************)
EXTENDS BlockCache, FiniteSetTheorems, TLAPS

CacheType == [structs : Seq(Nat \cup {Hole}), mtime : Nat]
FileType == [blocks : SUBSET Nat, mtime : Nat]

\* The type of every variable; the number of the file a process looks at.
TypeOK ==
    /\ now \in Nat
    /\ files \in Seq(FileType) /\ Len(files) \in 1..MaxFiles
    /\ IsFiniteSet(Stored)
    /\ dir \in BOOLEAN
    /\ cache \in [1..MaxFiles -> CacheType \cup {NoFile}]
    /\ broken \subseteq 1..MaxFiles
    /\ live \subseteq Nat
    /\ started \in Nat
    /\ pc \in [Proc -> {"idle", "statFile", "statCache", "grab", "scan", "open", "mkdir",
                        "create", "write", "check", "ready", "failed"}]
    /\ cached \in [Proc -> BOOLEAN]
    /\ full \in [Proc -> BOOLEAN]
    /\ names \in [Proc -> Nat]
    /\ fileTime \in [Proc -> Nat]
    /\ scanning \in [Proc -> Nat \ {0}]
    /\ seen \in [Proc -> SUBSET (Nat \cup {Hole})]
    /\ origin \in [Proc -> {"none", "files", "cache", "doubtful"}]
    /\ order \in [Proc -> Seq(Nat \cup {Hole})]
    /\ written \in [Proc -> Nat]
    /\ \A p \in Proc : pc[p] # "idle" => names[p] \in DOMAIN files

Blocks(f) == files[f].blocks

\* No clock runs ahead.
TimeInv ==
    /\ \A f \in DOMAIN files : files[f].mtime <= now
    /\ \A f \in 1..MaxFiles : cache[f] # NoFile => f \in DOMAIN files /\ cache[f].mtime <= now

\* A run that has begun and has not ended: what bitcoind stores meanwhile is live.
Active(p) == pc[p] \notin {"idle", "ready", "failed"}

\* The blocks of the file f that a set of known blocks lacks have come lately.
Covers(known, f) == Blocks(f) \subseteq known \cup live

\* What the process p has seen.
SeenInv(p) ==
    /\ Active(p) => \A f \in DOMAIN files : f > names[p] => Blocks(f) \subseteq live
    /\ pc[p] \in {"idle", "statFile", "statCache", "grab"} => scanning[p] = 1 /\ seen[p] = {}
    /\ pc[p] = "scan" =>
          /\ scanning[p] <= names[p] + 1
          /\ seen[p] \subseteq Stored
          /\ \A f \in DOMAIN files : f < scanning[p] => Covers(seen[p], f)
    /\ pc[p] \in {"open", "mkdir", "create", "write"} => UpToDate(seen[p])
    /\ pc[p] = "check" /\ full[p] /\ origin[p] # "doubtful" => UpToDate(seen[p])
    /\ pc[p] = "write" => /\ order[p] = SetToSeq(seen[p])
                          /\ written[p] <= Len(order[p])

\* What the process p knows of the cache file it is about to read.
TrustInv(p) ==
    /\ pc[p] = "statCache" =>
          \/ CacheFile(p) = NoFile \/ Doubtful(names[p])
          \/ Covers(ToSet(CacheFile(p).structs), names[p])
          \/ fileTime[p] >= CacheFile(p).mtime
    /\ pc[p] = "grab" =>
          /\ CacheFile(p) # NoFile
          /\ Doubtful(names[p]) \/ Covers(ToSet(CacheFile(p).structs), names[p])

\* A cache file that nobody writes has all the blocks of the older block files, and
\* those of its own unless that is as young.
FileInv(f) ==
    cache[f] # NoFile /\ ~Doubtful(f) =>
        /\ ToSet(cache[f].structs) \subseteq Stored
        /\ \A g \in DOMAIN files : g < f => Covers(ToSet(cache[f].structs), g)
        /\ Covers(ToSet(cache[f].structs), f) \/ files[f].mtime >= cache[f].mtime

Writes(p, f) == pc[p] = "write" /\ names[p] = f

\* The file is filled up to where the process p is.
FilledBy(p, f) ==
    \A i \in 1..written[p] : i <= Len(cache[f].structs) /\ cache[f].structs[i] = order[p][i]

\* Processes that write a file at once write the same, and one of them has filled
\* it up to where it is: the last to have emptied it, or one that came after.
WriteInv(f) ==
    Writing(f) =>
        /\ cache[f] # NoFile
        /\ f \notin broken =>
              /\ \A p, q \in Proc : Writes(p, f) /\ Writes(q, f) => seen[p] = seen[q]
              /\ \A p \in Proc : Writes(p, f) => Len(cache[f].structs) <= Len(order[p])
              /\ \E p \in Proc : Writes(p, f) /\ FilledBy(p, f)

ProcInv == \A p \in Proc : SeenInv(p) /\ TrustInv(p)
DiskInv == \A f \in 1..MaxFiles : FileInv(f) /\ WriteInv(f)

IInv == TypeOK /\ TimeInv /\ ProcInv /\ DiskInv

-----------------------------------------------------------------------------
(***************************************************************************)
(* The blocks, and the order in which they are written.                    *)
(***************************************************************************)

LEMMA UpToDateIs ==
    ASSUME NEW known
    PROVE  UpToDate(known) <=> /\ known \subseteq Stored
                               /\ \A f \in DOMAIN files : Covers(known, f)
  BY DEF UpToDate, Stored, Covers, Blocks

\* block_map is written in some order, each block once.
LEMMA SetToSeqIs ==
    ASSUME NEW S, IsFiniteSet(S)
    PROVE  SetToSeq(S) \in Seq(S) /\ ToSet(SetToSeq(S)) = S
  <1> DEFINE n == Cardinality(S)
             f == SetToSeq(S)
  <1>1. n \in Nat /\ ExistsBijection(1..n, S)
    BY FS_CardinalityType
  <1>2. \E g \in [1..n -> S] : IsInjective(g)
    <2>1. PICK g : g \in Bijection(1..n, S)
      BY <1>1 DEF ExistsBijection
    <2>2. g \in [1..n -> S] /\ \A a, b \in 1..n : g[a] = g[b] => a = b
      BY <2>1 DEF Bijection, Injection, IsInjective
    <2>3. IsInjective(g)
      BY <2>2 DEF IsInjective
    <2> QED
      BY <2>2, <2>3
  <1>3. f \in [1..n -> S] /\ IsInjective(f)
    BY <1>2 DEF SetToSeq
  <1> HIDE DEF f
  <1>4. f \in Injection(1..n, S)
    BY <1>3 DEF IsInjective, Injection
  <1>5. IsFiniteSet(1..n) /\ Cardinality(1..n) = n
    BY <1>1, FS_Interval
  <1> HIDE DEF n
  <1>6. f \in Surjection(1..n, S)
    BY <1>4, <1>5, FS_Injection DEF n
  <1>7. S = {f[i] : i \in 1..n}
    BY <1>6 DEF Surjection
  <1>8. f \in Seq(S)
    BY <1>1, <1>3
  <1> QED
    BY <1>3, <1>7, <1>8 DEF ToSet, f

-----------------------------------------------------------------------------
(***************************************************************************)
(* What a step leaves alone.                                               *)
(***************************************************************************)

\* The process q does nothing.
Same(q) ==
    /\ pc'[q] = pc[q] /\ full'[q] = full[q] /\ names'[q] = names[q]
    /\ fileTime'[q] = fileTime[q] /\ scanning'[q] = scanning[q] /\ seen'[q] = seen[q]
    /\ origin'[q] = origin[q] /\ order'[q] = order[q] /\ written'[q] = written[q]

LEMMA StoredSame == UNCHANGED files => Stored' = Stored
  BY DEF Stored

LEMMA FileIs ==
    ASSUME TypeOK
    PROVE  /\ Len(files) \in Nat /\ Len(files) \in 1..MaxFiles /\ DOMAIN files = 1..Len(files)
           /\ \A f \in DOMAIN files : files[f] \in FileType
  BY CacheAssumption DEF TypeOK

\* A run looks at one of the block files.
LEMMA NamesAFile ==
    ASSUME TypeOK, NEW p \in Proc, pc[p] # "idle"
    PROVE  names[p] \in DOMAIN files /\ names[p] \in 1..MaxFiles
  <1>1. PICK n \in 1..MaxFiles : DOMAIN files = 1..n
    BY DEF TypeOK
  <1>2. MaxFiles \in Nat
    BY CacheAssumption
  <1> QED
    BY <1>1, <1>2 DEF TypeOK

LEMMA SameSeen ==
    ASSUME NEW q, Same(q), UNCHANGED <<files, live>>, SeenInv(q)
    PROVE  SeenInv(q)'
  <1>1. Active(q)' <=> Active(q)
    BY DEF Same, Active
  <1>2. Stored' = Stored /\ UpToDate(seen[q])' = UpToDate(seen[q])
    BY DEF Same, Stored, UpToDate
  <1>3. \A f : Blocks(f)' = Blocks(f) /\ Covers(seen[q], f)' = Covers(seen[q], f)
    BY DEF Same, Blocks, Covers
  <1> QED
    BY <1>1, <1>2, <1>3 DEF Same, SeenInv

\* A step of a process that has nothing to do with the cache directory.
LEMMA Private ==
    ASSUME IInv, NEW p \in Proc, UNCHANGED <<now, files, live, cache, broken>>,
           pc[p] # "write", pc'[p] # "write",
           \A q \in Proc \ {p} : Same(q),
           SeenInv(p)', TrustInv(p)', TypeOK'
    PROVE  IInv'
  <1>1. \A f : Writing(f)' = Writing(f) /\ Doubtful(f)' = Doubtful(f)
    BY DEF Writing, Doubtful, Same
  <1>2. Stored' = Stored /\ \A f : Blocks(f)' = Blocks(f)
    BY DEF Stored, Blocks
  <1>3. \A f, g : Covers(ToSet(cache[f].structs), g)' = Covers(ToSet(cache[f].structs), g)
    BY <1>2 DEF Covers
  <1>4. TimeInv'
    BY DEF IInv, TimeInv
  <1>5. ASSUME NEW q \in Proc \ {p}
        PROVE  SeenInv(q)' /\ TrustInv(q)'
    <2>1. SeenInv(q)'
      BY SameSeen DEF IInv, ProcInv
    <2>2. TrustInv(q) /\ Same(q)
      BY DEF IInv, ProcInv
    <2>3. CacheFile(q)' = CacheFile(q) /\ Doubtful(names[q])' = Doubtful(names[q])
      BY <1>1, <2>2 DEF CacheFile, Same
    <2>4. Covers(ToSet(CacheFile(q).structs), names[q])' = Covers(ToSet(CacheFile(q).structs), names[q])
      BY <1>2, <2>2, <2>3 DEF Covers, Same
    <2> QED
      BY <2>1, <2>2, <2>3, <2>4 DEF TrustInv, Same
  <1>6. ASSUME NEW f \in 1..MaxFiles
        PROVE  FileInv(f)' /\ WriteInv(f)'
    <2>1. FileInv(f) /\ WriteInv(f)
      BY DEF IInv, DiskInv
    <2>2. FileInv(f)'
      BY <1>1, <1>2, <1>3, <2>1 DEF FileInv
    <2>3. \A q \in Proc : Writes(q, f)' = Writes(q, f)
      BY DEF Writes, Same
    <2>4. \A q \in Proc : Writes(q, f) => q # p /\ Same(q) /\ FilledBy(q, f)' = FilledBy(q, f)
      BY DEF Writes, FilledBy, Same
    <2>5. WriteInv(f)'
      BY <1>1, <2>1, <2>3, <2>4 DEF WriteInv, Same
    <2> QED
      BY <2>2, <2>5
  <1> QED
    BY <1>4, <1>5, <1>6 DEF IInv, ProcInv, DiskInv

\* A step that opens, writes or leaves the cache file d. Whoever is about to read d
\* may find that it is not to be trusted; if it is, it has all the blocks.
LEMMA OnDisk ==
    ASSUME IInv, NEW p \in Proc, NEW d \in 1..MaxFiles, UNCHANGED <<now, files, live>>,
           names[p] = d, pc'[p] = "write" => names'[p] = d,
           cache'[d] # NoFile, d \in DOMAIN files, cache'[d].mtime <= now,
           Doubtful(d)' \/ UpToDate(ToSet(cache'[d].structs)),
           \A f \in 1..MaxFiles \ {d} : cache'[f] = cache[f] /\ (f \in broken' <=> f \in broken),
           \A q \in Proc \ {p} : Same(q),
           SeenInv(p)', TrustInv(p)', WriteInv(d)', TypeOK'
    PROVE  IInv'
  <1>1. \A f \in 1..MaxFiles \ {d} : Writing(f)' = Writing(f) /\ Doubtful(f)' = Doubtful(f)
    BY DEF Writing, Doubtful, Same
  <1>2. Stored' = Stored /\ \A f : Blocks(f)' = Blocks(f)
    BY DEF Stored, Blocks
  <1>3. \A f \in 1..MaxFiles \ {d} : \A g :
            Covers(ToSet(cache[f].structs), g)' = Covers(ToSet(cache[f].structs), g)
    BY <1>2 DEF Covers
  <1>4. TimeInv'
    BY DEF IInv, TimeInv
  <1>5. Doubtful(d)' \/ /\ ToSet(cache'[d].structs) \subseteq Stored
                        /\ \A f \in DOMAIN files : Covers(ToSet(cache[d].structs), f)'
    <2>1. \A f : Covers(ToSet(cache'[d].structs), f) <=> Covers(ToSet(cache[d].structs), f)'
      BY <1>2 DEF Covers
    <2> QED
      BY <2>1, UpToDateIs
  <1>6. ASSUME NEW q \in Proc \ {p}
        PROVE  SeenInv(q)' /\ TrustInv(q)'
    <2>1. SeenInv(q)'
      BY SameSeen DEF IInv, ProcInv
    <2>2. TrustInv(q) /\ Same(q)
      BY DEF IInv, ProcInv
    <2>3. CASE pc[q] \notin {"statCache", "grab"}
      BY <2>1, <2>2, <2>3 DEF TrustInv, Same
    <2>4. CASE pc[q] \in {"statCache", "grab"} /\ names[q] = d
      BY <1>5, <2>1, <2>2, <2>4 DEF TrustInv, Same, CacheFile
    <2>5. CASE pc[q] \in {"statCache", "grab"} /\ names[q] # d
      <3>1. names[q] \in 1..MaxFiles \ {d}
        BY <2>5, NamesAFile DEF IInv
      <3>2. CacheFile(q)' = CacheFile(q) /\ Doubtful(names[q])' = Doubtful(names[q])
        BY <1>1, <2>2, <3>1 DEF CacheFile, Same
      <3>3. Covers(ToSet(cache[names[q]].structs), names[q])'
                = Covers(ToSet(cache[names[q]].structs), names[q])
        <4>1. Covers(ToSet(cache[names[q]].structs), names[q])'
                  <=> (Blocks(names[q]) \subseteq ToSet(cache[names[q]].structs) \cup live)'
          BY DEF Covers
        <4>2. names'[q] = names[q] /\ cache'[names[q]] = cache[names[q]]
          BY <2>2, <3>1 DEF Same
        <4> QED
          BY <1>2, <4>1, <4>2 DEF Covers
      <3> QED
        BY <2>1, <2>2, <3>2, <3>3 DEF TrustInv, Same, CacheFile
    <2> QED
      BY <2>3, <2>4, <2>5
  <1>7. FileInv(d)'
    BY <1>2, <1>5 DEF FileInv
  <1>8. ASSUME NEW f \in 1..MaxFiles \ {d}
        PROVE  FileInv(f)' /\ WriteInv(f)'
    <2>1. FileInv(f) /\ WriteInv(f)
      BY DEF IInv, DiskInv
    <2>2. FileInv(f)'
      BY <1>1, <1>2, <1>3, <2>1 DEF FileInv
    <2>3. \A q \in Proc : Writes(q, f)' = Writes(q, f)
      BY DEF Writes, Same
    <2>4. \A q \in Proc : Writes(q, f) => q # p /\ Same(q) /\ FilledBy(q, f)' = FilledBy(q, f)
      BY DEF Writes, FilledBy, Same
    <2>5. WriteInv(f)'
      BY <1>1, <2>1, <2>3, <2>4 DEF WriteInv, Same
    <2> QED
      BY <2>2, <2>5
  <1> QED
    BY <1>4, <1>6, <1>7, <1>8 DEF IInv, ProcInv, DiskInv

-----------------------------------------------------------------------------
(***************************************************************************)
(* Every step preserves the invariant.                                     *)
(***************************************************************************)

LEMMA InitIInv == Init => IInv
  <1> SUFFICES ASSUME Init PROVE IInv
    OBVIOUS
  <1>1. DOMAIN files = {1} /\ Len(files) = 1 /\ files[1] = [blocks |-> {1}, mtime |-> 0]
    BY DEF Init, Genesis
  <1>2. files \in Seq(FileType) /\ Len(files) \in 1..MaxFiles
    BY <1>1, CacheAssumption DEF Init, Genesis, FileType
  <1>3. IsFiniteSet(Stored)
    <2>1. Stored = {1}
      BY <1>1 DEF Stored
    <2> QED
      BY <2>1, FS_Singleton
  <1>4. TypeOK
    <2>1. now \in Nat /\ dir \in BOOLEAN /\ broken \subseteq 1..MaxFiles /\ live \subseteq Nat
          /\ started \in Nat /\ cache \in [1..MaxFiles -> CacheType \cup {NoFile}]
      BY DEF Init
    <2>2. /\ cached \in [Proc -> BOOLEAN] /\ full \in [Proc -> BOOLEAN] /\ names \in [Proc -> Nat]
          /\ fileTime \in [Proc -> Nat] /\ scanning \in [Proc -> Nat \ {0}]
          /\ written \in [Proc -> Nat]
      BY DEF Init
    <2>3. /\ seen \in [Proc -> SUBSET (Nat \cup {Hole})]
          /\ origin \in [Proc -> {"none", "files", "cache", "doubtful"}]
          /\ order \in [Proc -> Seq(Nat \cup {Hole})]
      BY DEF Init
    <2>4. \A p \in Proc : pc[p] = "idle"
      BY DEF Init
    <2>5. pc \in [Proc -> {"idle", "statFile", "statCache", "grab", "scan", "open", "mkdir",
                           "create", "write", "check", "ready", "failed"}]
      BY DEF Init
    <2> QED
      BY <1>2, <1>3, <2>1, <2>2, <2>3, <2>4, <2>5 DEF TypeOK
  <1>5. TimeInv
    BY <1>1 DEF Init, TimeInv
  <1>6. ProcInv
    BY DEF Init, ProcInv, SeenInv, TrustInv, Active
  <1>7. DiskInv
    BY DEF Init, DiskInv, FileInv, WriteInv, Writing
  <1> QED
    BY <1>4, <1>5, <1>6, <1>7 DEF IInv

\* A step that leaves everything but the clock alone.
LEMMA Frame ==
    ASSUME IInv, UNCHANGED <<files, live, diskVars, pc, procVars>>
    PROVE  ProcInv' /\ DiskInv'
  <1>1. \A f : Writing(f)' = Writing(f) /\ Doubtful(f)' = Doubtful(f)
    BY DEF Writing, Doubtful, diskVars, procVars
  <1>2. Stored' = Stored /\ \A f : Blocks(f)' = Blocks(f)
    BY DEF Stored, Blocks
  <1>3. \A f, g : Covers(ToSet(cache[f].structs), g)' = Covers(ToSet(cache[f].structs), g)
    BY <1>2 DEF Covers, diskVars
  <1>4. ASSUME NEW q \in Proc
        PROVE  SeenInv(q)' /\ TrustInv(q)'
    <2>1. Same(q) /\ SeenInv(q) /\ TrustInv(q)
      BY DEF IInv, ProcInv, Same, procVars
    <2>2. SeenInv(q)'
      BY <2>1, SameSeen
    <2>3. CacheFile(q)' = CacheFile(q) /\ Doubtful(names[q])' = Doubtful(names[q])
      BY <1>1 DEF CacheFile, diskVars, procVars
    <2>4. Covers(ToSet(CacheFile(q).structs), names[q])' = Covers(ToSet(CacheFile(q).structs), names[q])
      BY <1>3, <2>3 DEF CacheFile, procVars
    <2> QED
      BY <2>1, <2>2, <2>3, <2>4 DEF TrustInv, procVars
  <1>5. ASSUME NEW f \in 1..MaxFiles
        PROVE  FileInv(f)' /\ WriteInv(f)'
    <2>1. FileInv(f) /\ WriteInv(f)
      BY DEF IInv, DiskInv
    <2>2. FileInv(f)'
      BY <1>1, <1>2, <1>3, <2>1 DEF FileInv, diskVars
    <2>3. \A q \in Proc : Writes(q, f)' = Writes(q, f) /\ FilledBy(q, f)' = FilledBy(q, f)
      BY DEF Writes, FilledBy, diskVars, procVars
    <2>4. WriteInv(f)'
      BY <1>1, <2>1, <2>3 DEF WriteInv, diskVars, procVars
    <2> QED
      BY <2>2, <2>4
  <1> QED
    BY <1>4, <1>5 DEF ProcInv, DiskInv

LEMMA TickIInv == IInv /\ Tick => IInv'
  <1> SUFFICES ASSUME IInv, Tick PROVE IInv'
    OBVIOUS
  <1>1. UNCHANGED <<files, live, diskVars, started, pc, procVars>> /\ now' = now + 1
    BY DEF Tick
  <1>2. TypeOK'
    BY <1>1, StoredSame DEF IInv, TypeOK, diskVars, procVars
  <1>3. TimeInv'
    <2>1. \A f \in DOMAIN files : files[f].mtime \in Nat /\ files[f].mtime <= now
      BY FileIs DEF IInv, TimeInv, FileType
    <2>2. \A f \in 1..MaxFiles : cache[f] # NoFile =>
              f \in DOMAIN files /\ cache[f].mtime \in Nat /\ cache[f].mtime <= now
      BY DEF IInv, TimeInv, TypeOK, CacheType
    <2>3. now \in Nat
      BY DEF IInv, TypeOK
    <2> QED
      BY <1>1, <2>1, <2>2, <2>3 DEF TimeInv, diskVars
  <1> QED
    BY <1>1, <1>2, <1>3, Frame DEF IInv

LEMMA StutterIInv == IInv /\ UNCHANGED vars => IInv'
  <1> SUFFICES ASSUME IInv, UNCHANGED vars PROVE IInv'
    OBVIOUS
  <1>1. TypeOK'
    BY StoredSame DEF IInv, TypeOK, vars, serverVars, diskVars, procVars
  <1>2. TimeInv'
    BY DEF IInv, TimeInv, vars, serverVars, diskVars
  <1> QED
    BY <1>1, <1>2, Frame DEF IInv, vars, serverVars

\* What StoreBlock does to the block files: the last of them grows, or a next one
\* is begun, and is as young as can be.
LEMMA StoreIs ==
    ASSUME TypeOK, StoreBlock, NEW b, b = Cardinality(Stored) + 1
    PROVE  /\ b \in Nat
           /\ files' \in Seq(FileType) /\ Len(files') \in 1..MaxFiles
           /\ DOMAIN files \subseteq DOMAIN files'
           /\ \A f \in DOMAIN files' :
                 \/ f \in DOMAIN files /\ files'[f] = files[f]
                 \/ f = Len(files') /\ files'[f].mtime = now
           /\ \A f \in DOMAIN files : f = Len(files) \/ files'[f] = files[f]
           /\ \A f \in DOMAIN files : Blocks(f) \subseteq files'[f].blocks
           /\ \A f \in DOMAIN files' :
                 files'[f].blocks \subseteq (IF f \in DOMAIN files THEN Blocks(f) ELSE {}) \cup {b}
           /\ Stored' = Stored \cup {b}
           /\ live \subseteq live' /\ live' \subseteq live \cup {b}
           /\ (\E q \in Proc : Active(q)) => b \in live'
  <1> DEFINE last == Len(files)
  <1>1. last \in Nat /\ last \in 1..MaxFiles /\ DOMAIN files = 1..last
        /\ \A f \in DOMAIN files : files[f] \in FileType
    BY FileIs
  <1>2. b \in Nat
    BY FS_CardinalityType DEF TypeOK
  <1>3. live \subseteq live' /\ live' \subseteq live \cup {b}
        /\ ((\E q \in Proc : Active(q)) => b \in live')
    BY DEF StoreBlock, Active
  <1>4. now \in Nat /\ MaxFiles \in Nat /\ files \in Seq(FileType)
    BY CacheAssumption DEF TypeOK
  <1>5. CASE files' = [files EXCEPT ![last] = [blocks |-> @.blocks \cup {b}, mtime |-> now]]
    <2>1. DOMAIN files' = 1..last /\ Len(files') = last
      BY <1>1, <1>4, <1>5
    <2>2. files'[last] = [blocks |-> Blocks(last) \cup {b}, mtime |-> now]
      BY <1>1, <1>5 DEF Blocks
    <2>3. \A f \in 1..last : f # last => files'[f] = files[f]
      BY <1>1, <1>5
    <2>4. files'[last] \in FileType
      BY <1>1, <1>2, <1>4, <2>2 DEF FileType, Blocks
    <2>5. files' \in Seq(FileType)
      BY <1>1, <1>4, <1>5, <2>4
    <2>6. \A f \in 1..last : \A x :
              x \in files'[f].blocks <=> x \in files[f].blocks \/ (f = last /\ x = b)
      BY <2>2, <2>3 DEF Blocks
    <2>7. Stored' = Stored \cup {b}
      <3>1. \A x : x \in Stored <=> \E f \in 1..last : x \in files[f].blocks
        BY <1>1 DEF Stored
      <3>2. \A x : x \in Stored' <=> \E f \in 1..last : x \in files'[f].blocks
        BY <2>1 DEF Stored
      <3>3. last \in 1..last
        BY <1>1
      <3>4. ASSUME NEW x
            PROVE  x \in Stored' <=> x \in Stored \/ x = b
        <4> HIDE DEF last
        <4> QED
          BY <2>6, <3>1, <3>2, <3>3
      <3> QED
        BY <3>4
    <2>8. \A f \in 1..last : Blocks(f) \subseteq files'[f].blocks /\ files'[f].blocks \subseteq Blocks(f) \cup {b}
      BY <2>6 DEF Blocks
    <2>9. files'[last].mtime = now
      BY <2>2
    <2> HIDE DEF last
    <2> QED
      BY <1>1, <1>2, <1>3, <2>1, <2>3, <2>5, <2>7, <2>8, <2>9 DEF last
  <1>6. CASE last < MaxFiles /\ files' = Append(files, [blocks |-> {b}, mtime |-> now])
    <2>1. [blocks |-> {b}, mtime |-> now] \in FileType
      BY <1>2, <1>4 DEF FileType
    <2>2. files' \in Seq(FileType) /\ Len(files') = last + 1 /\ DOMAIN files' = 1..(last + 1)
      BY <1>1, <1>4, <1>6, <2>1
    <2>3. \A f \in 1..last : files'[f] = files[f]
      BY <1>1, <1>4, <1>6
    <2>4. files'[last + 1] = [blocks |-> {b}, mtime |-> now]
      BY <1>1, <1>4, <1>6
    <2>5. Stored' = Stored \cup {b}
      <3>1. DOMAIN files' = DOMAIN files \cup {last + 1}
        BY <1>1, <2>2
      <3> QED
        BY <1>1, <2>3, <2>4, <3>1 DEF Stored
    <2>6. Len(files') \in 1..MaxFiles
      BY <1>1, <1>4, <1>6, <2>2
    <2> QED
      BY <1>1, <1>2, <1>3, <2>2, <2>3, <2>4, <2>5, <2>6 DEF Blocks
  <1> QED
    BY <1>5, <1>6 DEF StoreBlock

LEMMA StoreBlockIInv == IInv /\ StoreBlock => IInv'
  <1> SUFFICES ASSUME IInv, StoreBlock PROVE IInv'
    OBVIOUS
  <1> DEFINE b == Cardinality(Stored) + 1
  <1>0. TypeOK /\ UNCHANGED <<now, diskVars, started, pc, procVars>>
    BY DEF IInv, StoreBlock
  <1>1. /\ b \in Nat
        /\ files' \in Seq(FileType) /\ Len(files') \in 1..MaxFiles
        /\ DOMAIN files \subseteq DOMAIN files'
        /\ \A f \in DOMAIN files' :
              \/ f \in DOMAIN files /\ files'[f] = files[f]
              \/ f = Len(files') /\ files'[f].mtime = now
        /\ \A f \in DOMAIN files : f = Len(files) \/ files'[f] = files[f]
        /\ \A f \in DOMAIN files : Blocks(f) \subseteq files'[f].blocks
        /\ \A f \in DOMAIN files' :
              files'[f].blocks \subseteq (IF f \in DOMAIN files THEN Blocks(f) ELSE {}) \cup {b}
        /\ Stored' = Stored \cup {b}
        /\ live \subseteq live' /\ live' \subseteq live \cup {b}
        /\ (\E q \in Proc : Active(q)) => b \in live'
    BY <1>0, StoreIs
  <1> HIDE DEF b
  <1>2. TypeOK'
    <2>1. IsFiniteSet(Stored)'
      BY <1>0, <1>1, FS_AddElement DEF TypeOK
    <2>2. live' \subseteq Nat
      BY <1>0, <1>1 DEF TypeOK
    <2> QED
      BY <1>0, <1>1, <2>1, <2>2 DEF TypeOK, diskVars, procVars
  <1>3. TimeInv'
    BY <1>0, <1>1 DEF IInv, TimeInv, diskVars, TypeOK
  <1>4. \A f : Writing(f)' = Writing(f) /\ Doubtful(f)' = Doubtful(f)
    BY <1>0 DEF Writing, Doubtful, diskVars, procVars
  <1>5. ASSUME NEW known, NEW f \in DOMAIN files, Covers(known, f), \E q \in Proc : Active(q)
        PROVE  files'[f].blocks \subseteq known \cup live'
    BY <1>1, <1>5 DEF Covers
  <1>6. ASSUME NEW q \in Proc
        PROVE  SeenInv(q)' /\ TrustInv(q)'
    <2>1. SeenInv(q) /\ TrustInv(q) /\ Same(q)
      BY <1>0 DEF IInv, ProcInv, Same, procVars
    <2>2. CASE ~Active(q)
      BY <2>1, <2>2 DEF SeenInv, TrustInv, Same, Active
    <2>3. CASE Active(q)
      <3>1. names[q] \in DOMAIN files /\ names[q] \in 1..MaxFiles
        BY <1>0, <2>3, NamesAFile DEF Active
      <3>2. \A f \in DOMAIN files' : f > names'[q] => files'[f].blocks \subseteq live'
        BY <1>1, <2>1, <2>3 DEF SeenInv, Same
      <3>3. UpToDate(seen[q]) => UpToDate(seen[q])'
        BY <1>1, <2>1, <2>3 DEF UpToDate, Same
      <3>4. pc[q] = "scan" => \A f \in DOMAIN files' : f < scanning'[q] => Covers(seen[q], f)'
        <4>1. SUFFICES ASSUME pc[q] = "scan", NEW f \in DOMAIN files', f < scanning'[q]
                       PROVE  Covers(seen[q], f)'
          OBVIOUS
        <4>2. f \in 1..Len(files)
          <5>1. scanning[q] <= names[q] + 1 /\ scanning[q] \in Nat
            BY <1>0, <2>1, <4>1 DEF SeenInv, TypeOK
          <5>2. names[q] \in 1..Len(files) /\ Len(files) \in Nat
            BY <1>0, <3>1, FileIs
          <5>3. DOMAIN files' = 1..Len(files') /\ Len(files') \in Nat
            BY <1>1
          <5> QED
            BY <2>1, <4>1, <5>1, <5>2, <5>3 DEF Same
        <4>3. f \in DOMAIN files
          BY <1>0, <4>2, FileIs
        <4>4. Covers(seen[q], f)
          BY <2>1, <4>1, <4>3 DEF SeenInv, Same
        <4> QED
          BY <1>5, <2>1, <2>3, <4>3, <4>4 DEF Covers, Blocks, Same
      <3>5. SeenInv(q)'
        BY <1>1, <2>1, <2>3, <3>2, <3>3, <3>4 DEF SeenInv, Same, Active, Blocks
      <3>6. CacheFile(q)' = CacheFile(q) /\ Doubtful(names[q])' = Doubtful(names[q])
        BY <1>0, <1>4 DEF CacheFile, diskVars, procVars
      <3>7. Covers(ToSet(CacheFile(q).structs), names[q])
                => Covers(ToSet(CacheFile(q).structs), names[q])'
        BY <1>5, <2>1, <2>3, <3>1, <3>6 DEF Covers, Blocks, Same
      <3> QED
        BY <2>1, <3>5, <3>6, <3>7 DEF TrustInv, Same
    <2> QED
      BY <2>2, <2>3
  <1>7. ASSUME NEW f \in 1..MaxFiles
        PROVE  FileInv(f)' /\ WriteInv(f)'
    <2>1. FileInv(f) /\ WriteInv(f)
      BY DEF IInv, DiskInv
    <2>2. cache' = cache
      BY <1>0 DEF diskVars
    <2>3. FileInv(f)'
      <3>1. SUFFICES ASSUME cache[f] # NoFile, ~Doubtful(f)
                     PROVE  /\ ToSet(cache[f].structs) \subseteq Stored'
                            /\ \A g \in DOMAIN files' : g < f => Covers(ToSet(cache[f].structs), g)'
                            /\ \/ Covers(ToSet(cache[f].structs), f)'
                               \/ files'[f].mtime >= cache[f].mtime
        BY <1>4, <2>2 DEF FileInv
      <3>2. f \in DOMAIN files /\ cache[f].mtime <= now /\ cache[f].mtime \in Nat /\ now \in Nat
        BY <1>0, <3>1 DEF IInv, TimeInv, TypeOK, CacheType
      <3>3. /\ ToSet(cache[f].structs) \subseteq Stored
            /\ \A g \in DOMAIN files : g < f => Covers(ToSet(cache[f].structs), g)
            /\ Covers(ToSet(cache[f].structs), f) \/ files[f].mtime >= cache[f].mtime
        BY <2>1, <3>1 DEF FileInv
      <3>4. ASSUME NEW g \in DOMAIN files', g < f
            PROVE  Covers(ToSet(cache[f].structs), g)'
        <4>1. g \in DOMAIN files /\ g # Len(files)
          <5>1. DOMAIN files' = 1..Len(files') /\ Len(files') \in Nat
            BY <1>1
          <5> QED
            BY <1>0, <3>2, <3>4, <5>1, FileIs
        <4>2. files'[g] = files[g] /\ Covers(ToSet(cache[f].structs), g)
          BY <1>1, <3>3, <3>4, <4>1
        <4> QED
          BY <1>1, <2>2, <4>2 DEF Covers, Blocks
      <3>5. CASE files'[f] = files[f]
        BY <1>1, <2>2, <3>3, <3>4, <3>5 DEF Covers, Blocks
      <3>6. CASE files'[f].mtime = now
        BY <1>1, <3>2, <3>3, <3>4, <3>6
      <3> QED
        BY <1>1, <3>2, <3>5, <3>6
    <2>4. \A q \in Proc : Writes(q, f)' = Writes(q, f) /\ FilledBy(q, f)' = FilledBy(q, f)
      BY <1>0 DEF Writes, FilledBy, diskVars, procVars
    <2>5. WriteInv(f)'
      BY <1>0, <1>4, <2>1, <2>4 DEF WriteInv, diskVars, procVars
    <2> QED
      BY <2>3, <2>5
  <1> QED
    BY <1>2, <1>3, <1>6, <1>7 DEF IInv, ProcInv, DiskInv

LEMMA StartRunIInv == ASSUME IInv, NEW p \in Proc, StartRun(p) PROVE IInv'
  <1>1. TypeOK /\ SeenInv(p)
    BY DEF IInv, ProcInv
  <1>2. UNCHANGED <<now, files, live, dir, cache, broken>>
    BY DEF StartRun, serverVars, diskVars
  <1>3. pc[p] = "idle" /\ pc'[p] \in {"statFile", "scan"}
    BY <1>1 DEF StartRun, Idle, Goto, TypeOK
  <1>4. \A q \in Proc \ {p} : Same(q)
    BY <1>1 DEF StartRun, Goto, TypeOK, Same
  <1>5. names'[p] = Len(files) /\ seen'[p] = {} /\ scanning'[p] = 1
    BY <1>1, <1>3 DEF StartRun, TypeOK, SeenInv
  <1>6. TypeOK'
    <2>1. Len(files) \in Nat /\ Len(files) \in DOMAIN files
      BY <1>1, FileIs
    <2>2. pc' \in [Proc -> {"idle", "statFile", "statCache", "grab", "scan", "open", "mkdir",
                            "create", "write", "check", "ready", "failed"}]
      BY <1>1 DEF StartRun, Goto, TypeOK
    <2>3. cached' \in [Proc -> BOOLEAN] /\ full' \in [Proc -> BOOLEAN]
      BY <1>1, CacheAssumption DEF StartRun, TypeOK
    <2>4. names' \in [Proc -> Nat] /\ started' \in Nat
      BY <1>1, <2>1 DEF StartRun, TypeOK
    <2>5. \A q \in Proc : pc'[q] # "idle" => names'[q] \in DOMAIN files
      BY <1>1, <1>4, <1>5, <2>1 DEF Same, TypeOK
    <2>6. UNCHANGED <<fileTime, scanning, seen, origin, order, written>>
      BY DEF StartRun
    <2> QED
      BY <1>1, <1>2, <2>2, <2>3, <2>4, <2>5, <2>6, StoredSame DEF TypeOK
  <1>7. SeenInv(p)'
    BY <1>1, <1>2, <1>3, <1>5, FileIs DEF SeenInv
  <1>8. TrustInv(p)'
    BY <1>3 DEF TrustInv
  <1> QED
    BY <1>2, <1>3, <1>4, <1>6, <1>7, <1>8, Private

LEMMA StatFileIInv == ASSUME IInv, NEW p \in Proc, StatFile(p) PROVE IInv'
  <1>1. TypeOK /\ SeenInv(p)
    BY DEF IInv, ProcInv
  <1>2. UNCHANGED <<now, files, live, dir, cache, broken>> /\ UNCHANGED <<names, full, scanning, seen>>
    BY DEF StatFile, serverVars, diskVars
  <1>3. pc[p] = "statFile" /\ pc'[p] = "statCache" /\ fileTime'[p] = files[names[p]].mtime
    BY <1>1 DEF StatFile, Goto, TypeOK
  <1>4. \A q \in Proc \ {p} : Same(q)
    BY <1>1 DEF StatFile, Goto, TypeOK, Same
  <1>5. names[p] \in DOMAIN files /\ names[p] \in 1..MaxFiles /\ files[names[p]].mtime \in Nat
    BY <1>1, <1>3, NamesAFile, FileIs DEF FileType
  <1>6. TypeOK'
    BY <1>1, <1>3, <1>4, <1>5, StoredSame DEF StatFile, Goto, serverVars, diskVars, TypeOK, Same
  <1>7. SeenInv(p)'
    <2>1. \A f : Blocks(f)' = Blocks(f)
      BY <1>2 DEF Blocks
    <2> QED
      BY <1>1, <1>2, <1>3, <2>1 DEF SeenInv, Active
  <1>8. TrustInv(p)'
    <2>1. FileInv(names[p])
      BY <1>5 DEF IInv, DiskInv
    <2>2. \A f : Doubtful(f)' = Doubtful(f)
      BY <1>2, <1>3, <1>4 DEF Doubtful, Writing, Same
    <2>3. CacheFile(p)' = CacheFile(p)
      BY <1>2 DEF CacheFile
    <2>4. Covers(ToSet(CacheFile(p).structs), names[p])' = Covers(ToSet(CacheFile(p).structs), names[p])
      BY <1>2, <2>3 DEF Covers, Blocks
    <2> QED
      BY <1>2, <1>3, <2>1, <2>2, <2>3, <2>4 DEF TrustInv, FileInv, CacheFile
  <1> QED
    BY <1>2, <1>3, <1>4, <1>6, <1>7, <1>8, Private

LEMMA StatCacheIInv == ASSUME IInv, NEW p \in Proc, StatCache(p) PROVE IInv'
  <1>1. TypeOK /\ SeenInv(p) /\ TrustInv(p)
    BY DEF IInv, ProcInv
  <1>2. UNCHANGED <<now, files, live, dir, cache, broken, started, procVars>>
    BY DEF StatCache, serverVars, diskVars
  <1>3. pc[p] = "statCache" /\ pc'[p] = IF IsValid(fileTime[p], CacheFile(p)) THEN "grab" ELSE "scan"
    BY <1>1 DEF StatCache, Goto, TypeOK
  <1>4. \A q \in Proc \ {p} : Same(q)
    BY <1>1 DEF StatCache, Goto, TypeOK, Same, procVars
  <1>5. names[p] \in DOMAIN files
    BY <1>1, <1>3, NamesAFile
  <1>6. TypeOK'
    BY <1>1, <1>2, <1>5, <1>3, <1>4, StoredSame DEF StatCache, Goto, TypeOK, procVars, Same
  <1>7. SeenInv(p)'
    <2>1. \A f : Blocks(f)' = Blocks(f)
      BY <1>2 DEF Blocks
    <2>2. names[p] \in Nat /\ DOMAIN files = 1..Len(files) /\ scanning[p] = 1 /\ seen[p] = {}
      BY <1>1, <1>3, FileIs DEF TypeOK, SeenInv
    <2> QED
      BY <1>1, <1>2, <1>3, <2>1, <2>2 DEF SeenInv, Active, procVars
  <1>8. TrustInv(p)'
    <2>2. \A f : Doubtful(f)' = Doubtful(f)
      BY <1>2, <1>3, <1>4 DEF Doubtful, Writing, Same, procVars
    <2>3. CacheFile(p)' = CacheFile(p)
      BY <1>2 DEF CacheFile, procVars
    <2>4. Covers(ToSet(CacheFile(p).structs), names[p])' = Covers(ToSet(CacheFile(p).structs), names[p])
      BY <1>2, <2>3 DEF Covers, Blocks, procVars
    <2> QED
      BY <1>1, <1>2, <1>3, <2>2, <2>3, <2>4 DEF TrustInv, IsValid, procVars
  <1> QED
    BY <1>2, <1>3, <1>4, <1>6, <1>7, <1>8, Private

LEMMA GrabIInv == ASSUME IInv, NEW p \in Proc, Grab(p) PROVE IInv'
  <1> DEFINE s == CacheFile(p).structs
  <1>1. TypeOK /\ SeenInv(p) /\ TrustInv(p)
    BY DEF IInv, ProcInv
  <1>2. /\ UNCHANGED <<now, files, live, dir, cache, broken, started, cached, full, names, fileTime>>
        /\ UNCHANGED <<scanning, order, written>>
    BY DEF Grab, serverVars, diskVars
  <1>3. /\ pc[p] = "grab" /\ seen'[p] = ToSet(s)
        /\ pc'[p] = (IF s = <<>> THEN "scan" ELSE "check")
        /\ s # <<>> => origin'[p] = IF Doubtful(names[p]) THEN "doubtful" ELSE "cache"
    BY <1>1 DEF Grab, Goto, TypeOK
  <1>4. \A q \in Proc \ {p} : Same(q)
    BY <1>1 DEF Grab, Goto, TypeOK, Same
  <1>5. names[p] \in DOMAIN files /\ names[p] \in 1..MaxFiles
    BY <1>1, <1>3, NamesAFile
  <1>6. TypeOK'
    <2>1. s \in Seq(Nat \cup {Hole})
      <3>1. CacheFile(p) \in CacheType
        BY <1>1, <1>3, <1>5 DEF TrustInv, TypeOK, CacheFile
      <3> QED
        BY <3>1 DEF CacheType
    <2>2. ToSet(s) \subseteq Nat \cup {Hole}
      BY <2>1 DEF ToSet
    <2>3. seen' = [seen EXCEPT ![p] = ToSet(s)]
      BY DEF Grab
    <2>4. pc' \in [Proc -> {"idle", "statFile", "statCache", "grab", "scan", "open", "mkdir",
                            "create", "write", "check", "ready", "failed"}]
      BY <1>1 DEF Grab, Goto, TypeOK
    <2>5. origin' \in [Proc -> {"none", "files", "cache", "doubtful"}]
      BY <1>1 DEF Grab, TypeOK
    <2> HIDE DEF s
    <2>6. seen' \in [Proc -> SUBSET (Nat \cup {Hole})]
      BY <1>1, <2>2, <2>3 DEF TypeOK
    <2> QED
      BY <1>1, <1>2, <1>4, <1>5, <2>4, <2>5, <2>6, StoredSame DEF TypeOK, Same
  <1>7. SeenInv(p)'
    <2>1. Stored' = Stored /\ UpToDate(seen[p])' = UpToDate(seen'[p])
      BY <1>2 DEF Stored, UpToDate
    <2>2. ToSet(<<>>) = {}
      BY DEF ToSet
    <2>3. \A f \in DOMAIN files : f > names[p] => Blocks(f) \subseteq live
      BY <1>1, <1>3 DEF SeenInv, Active
    <2>4. \A f : Blocks(f)' = Blocks(f)
      BY <1>2 DEF Blocks
    <2>5. CASE s = <<>>
      <3>1. scanning[p] = 1 /\ seen'[p] = {} /\ names[p] \in Nat /\ DOMAIN files = 1..Len(files)
        BY <1>1, <1>3, <2>2, <2>5, FileIs DEF SeenInv, TypeOK
      <3> QED
        BY <1>2, <1>3, <2>3, <2>4, <2>5, <3>1 DEF SeenInv
    <2>6. CASE s # <<>> /\ ~Doubtful(names[p])
      <3>1. /\ ToSet(s) \subseteq Stored
            /\ \A g \in DOMAIN files : g < names[p] => Covers(ToSet(s), g)
            /\ Covers(ToSet(s), names[p])
        BY <1>1, <1>3, <1>5, <2>6 DEF TrustInv, IInv, DiskInv, FileInv, CacheFile
      <3>2. \A g \in DOMAIN files : Covers(ToSet(s), g)
        <4>1. \A g \in DOMAIN files : g \in Nat /\ names[p] \in Nat
          BY <1>1, FileIs DEF TypeOK
        <4>2. \A g \in DOMAIN files : g < names[p] \/ g = names[p] \/ g > names[p]
          BY <4>1
        <4>3. \A g \in DOMAIN files : g > names[p] => Covers(ToSet(s), g)
          BY <2>3 DEF Covers
        <4> HIDE DEF s
        <4> QED
          BY <3>1, <4>2, <4>3
      <3>3. UpToDate(seen'[p])
        BY <1>3, <3>1, <3>2, UpToDateIs
      <3> QED
        BY <1>2, <1>3, <2>1, <2>3, <2>4, <2>6, <3>3 DEF SeenInv
    <2>7. CASE s # <<>> /\ Doubtful(names[p])
      BY <1>2, <1>3, <2>3, <2>4, <2>7 DEF SeenInv
    <2> QED
      BY <2>5, <2>6, <2>7
  <1>8. TrustInv(p)'
    BY <1>3 DEF TrustInv
  <1> QED
    BY <1>2, <1>3, <1>4, <1>6, <1>7, <1>8, Private

LEMMA ScanFileIInv == ASSUME IInv, NEW p \in Proc, ScanFile(p) PROVE IInv'
  <1>1. TypeOK /\ SeenInv(p)
    BY DEF IInv, ProcInv
  <1>2. /\ UNCHANGED <<now, files, live, dir, cache, broken, started, pc, cached, full, names>>
        /\ UNCHANGED <<fileTime, order, written>>
    BY DEF ScanFile, serverVars, diskVars
  <1>3. /\ pc[p] = "scan" /\ scanning[p] <= names[p]
        /\ seen'[p] = seen[p] \cup Blocks(scanning[p])
        /\ scanning'[p] = scanning[p] + 1
    BY <1>1 DEF ScanFile, TypeOK, Blocks
  <1>4. \A q \in Proc \ {p} : Same(q)
    BY <1>1 DEF ScanFile, TypeOK, Same
  <1>5. /\ names[p] \in DOMAIN files /\ DOMAIN files = 1..Len(files)
        /\ scanning[p] \in Nat \ {0} /\ scanning[p] \in DOMAIN files
        /\ Blocks(scanning[p]) \subseteq Nat
    <2>1. names[p] \in DOMAIN files /\ DOMAIN files = 1..Len(files) /\ Len(files) \in Nat
          /\ scanning[p] \in Nat \ {0}
      BY <1>1, <1>3, NamesAFile, FileIs DEF TypeOK
    <2>2. scanning[p] \in DOMAIN files
      BY <1>3, <2>1
    <2> QED
      BY <1>1, <2>1, <2>2, FileIs DEF FileType, Blocks
  <1>6. TypeOK'
    <2>1. seen' \in [Proc -> SUBSET (Nat \cup {Hole})]
      BY <1>1, <1>5 DEF ScanFile, TypeOK, Blocks
    <2>2. scanning' \in [Proc -> Nat \ {0}] /\ origin' \in [Proc -> {"none", "files", "cache", "doubtful"}]
      BY <1>1 DEF ScanFile, TypeOK
    <2> QED
      BY <1>1, <1>2, <2>1, <2>2, StoredSame DEF TypeOK
  <1>7. SeenInv(p)'
    <2>1. \A f : Blocks(f)' = Blocks(f)
      BY <1>2 DEF Blocks
    <2>2. Blocks(scanning[p]) \subseteq Stored /\ seen[p] \subseteq Stored /\ Stored' = Stored
      BY <1>1, <1>2, <1>3, <1>5 DEF SeenInv, Stored, Blocks
    <2>3. seen'[p] \subseteq Stored
      BY <1>3, <2>2
    <2>4. ASSUME NEW f \in DOMAIN files, f < scanning[p] + 1
          PROVE  Covers(seen[p], f)'
      <3>1. f < scanning[p] \/ f = scanning[p]
        BY <1>5, <2>4
      <3>2. f < scanning[p] => Covers(seen[p], f)
        BY <1>1, <1>3 DEF SeenInv
      <3> QED
        BY <1>2, <1>3, <2>1, <3>1, <3>2 DEF Covers
    <2>5. scanning[p] + 1 <= names[p] + 1
      BY <1>1, <1>3, <1>5 DEF TypeOK
    <2> QED
      BY <1>1, <1>2, <1>3, <2>1, <2>2, <2>3, <2>4, <2>5 DEF SeenInv, Active
  <1>8. TrustInv(p)'
    BY <1>2, <1>3 DEF TrustInv
  <1> QED
    BY <1>2, <1>3, <1>4, <1>6, <1>7, <1>8, Private

\* A step to a label at which nothing has changed but what the process knows of itself.
LEMMA Move ==
    ASSUME IInv, NEW p \in Proc, NEW label,
           UNCHANGED <<serverVars, cache, broken, started, procVars>>, dir' \in BOOLEAN,
           Goto(p, label), pc[p] \notin {"idle", "ready", "failed", "write"},
           label \in {"open", "mkdir", "create", "check", "ready", "failed"},
           label \in {"open", "mkdir", "create"} => UpToDate(seen[p]),
           label = "check" /\ full[p] /\ origin[p] # "doubtful" => UpToDate(seen[p])
    PROVE  IInv'
  <1>1. TypeOK /\ SeenInv(p) /\ UNCHANGED <<now, files, live>>
    BY DEF IInv, ProcInv, serverVars
  <1>2. pc'[p] = label
    BY <1>1 DEF Goto, TypeOK
  <1>3. \A q \in Proc \ {p} : Same(q)
    BY <1>1 DEF Goto, TypeOK, Same, procVars
  <1>4. names[p] \in DOMAIN files
    BY <1>1, NamesAFile
  <1>5. TypeOK'
    BY <1>1, <1>2, <1>3, <1>4, StoredSame DEF Goto, TypeOK, procVars, Same
  <1>6. SeenInv(p)'
    <2>1. \A f : Blocks(f)' = Blocks(f)
      BY <1>1 DEF Blocks
    <2>2. UpToDate(seen[p])' = UpToDate(seen[p])
      BY <1>1 DEF UpToDate, Stored, procVars
    <2> QED
      BY <1>1, <1>2, <2>1, <2>2 DEF SeenInv, Active, procVars
  <1>7. TrustInv(p)'
    BY <1>2 DEF TrustInv
  <1> QED
    BY <1>1, <1>2, <1>3, <1>5, <1>6, <1>7, Private

LEMMA ScanDoneIInv == ASSUME IInv, NEW p \in Proc, ScanDone(p) PROVE IInv'
  <1>1. TypeOK /\ SeenInv(p) /\ pc[p] = "scan"
    BY DEF IInv, ProcInv, ScanDone
  <1>2. UNCHANGED <<serverVars, cache, broken, started, procVars>> /\ dir' \in BOOLEAN
    BY <1>1 DEF ScanDone, diskVars, TypeOK
  <1>3. full[p] => UpToDate(seen[p])
    <2>1. SUFFICES ASSUME full[p] PROVE UpToDate(seen[p])
      OBVIOUS
    <2>2. scanning[p] \in Nat /\ names[p] \in Nat /\ scanning[p] > names[p]
          /\ DOMAIN files = 1..Len(files)
      BY <1>1, <2>1, FileIs DEF ScanDone, TypeOK
    <2>3. ASSUME NEW f \in DOMAIN files
          PROVE  Covers(seen[p], f)
      <3>1. f \in Nat
        BY <2>2
      <3>2. f < scanning[p] \/ f > names[p]
        BY <2>2, <3>1
      <3>3. f > names[p] => Blocks(f) \subseteq live
        BY <1>1 DEF SeenInv, Active
      <3> QED
        BY <1>1, <3>2, <3>3 DEF SeenInv, Covers
    <2> QED
      BY <1>1, <2>3, UpToDateIs DEF SeenInv
  <1>4. (Goto(p, "open") /\ full[p]) \/ Goto(p, "failed") \/ Goto(p, "check")
    BY DEF ScanDone
  <1>5. CASE Goto(p, "open") /\ full[p]
    BY <1>1, <1>2, <1>3, <1>5, Move
  <1>6. CASE Goto(p, "failed")
    BY <1>1, <1>2, <1>6, Move
  <1>7. CASE Goto(p, "check")
    BY <1>1, <1>2, <1>3, <1>7, Move
  <1> QED
    BY <1>4, <1>5, <1>6, <1>7

LEMMA MkdirIInv == ASSUME IInv, NEW p \in Proc, Mkdir(p) PROVE IInv'
  <1>1. SeenInv(p) /\ pc[p] = "mkdir"
    BY DEF IInv, ProcInv, Mkdir
  <1>2. UNCHANGED <<serverVars, cache, broken, started, procVars>> /\ dir' \in BOOLEAN
    BY DEF Mkdir
  <1>3. Goto(p, "failed") \/ Goto(p, "create")
    BY DEF Mkdir
  <1>4. UpToDate(seen[p])
    BY <1>1 DEF SeenInv
  <1> QED
    BY <1>1, <1>2, <1>3, <1>4, Move

LEMMA CheckIInv == ASSUME IInv, NEW p \in Proc, Check(p) PROVE IInv'
  <1>1. pc[p] = "check"
    BY DEF Check
  <1>2. UNCHANGED <<serverVars, cache, broken, started, procVars>> /\ dir' \in BOOLEAN
    BY DEF Check, diskVars, IInv, TypeOK
  <1>3. Goto(p, "failed") \/ Goto(p, "ready")
    BY DEF Check
  <1> QED
    BY <1>1, <1>2, <1>3, Move

\* A process that is gone knows nothing.
LEMMA LeaveIs ==
    ASSUME TypeOK, NEW p \in Proc, Leave(p), broken' \subseteq 1..MaxFiles
    PROVE  /\ UNCHANGED <<now, files, live, dir, cache, started>>
           /\ pc'[p] = "idle" /\ \A q \in Proc \ {p} : Same(q)
           /\ TypeOK' /\ SeenInv(p)' /\ TrustInv(p)'
  <1>1. UNCHANGED <<now, files, live, dir, cache, started>>
    BY DEF Leave, serverVars
  <1>2. /\ pc'[p] = "idle" /\ names'[p] = 0 /\ seen'[p] = {} /\ scanning'[p] = 1
        /\ \A q \in Proc \ {p} : Same(q)
    BY DEF Leave, Goto, TypeOK, Same
  <1>3. TypeOK'
    <2>1. /\ cached' \in [Proc -> BOOLEAN] /\ full' \in [Proc -> BOOLEAN] /\ names' \in [Proc -> Nat]
          /\ fileTime' \in [Proc -> Nat] /\ scanning' \in [Proc -> Nat \ {0}]
          /\ written' \in [Proc -> Nat]
      BY DEF Leave, TypeOK
    <2>2. /\ seen' \in [Proc -> SUBSET (Nat \cup {Hole})]
          /\ origin' \in [Proc -> {"none", "files", "cache", "doubtful"}]
          /\ order' \in [Proc -> Seq(Nat \cup {Hole})]
      BY DEF Leave, TypeOK
    <2>3. pc' \in [Proc -> {"idle", "statFile", "statCache", "grab", "scan", "open", "mkdir",
                            "create", "write", "check", "ready", "failed"}]
      BY DEF Leave, Goto, TypeOK
    <2>4. \A q \in Proc : pc'[q] # "idle" => names'[q] \in DOMAIN files'
      BY <1>1, <1>2 DEF TypeOK, Same
    <2> QED
      BY <1>1, <2>1, <2>2, <2>3, <2>4, StoredSame DEF TypeOK
  <1> QED
    BY <1>1, <1>2, <1>3 DEF SeenInv, TrustInv, Active

LEMMA ExitIInv == ASSUME IInv, NEW p \in Proc, Exit(p) PROVE IInv'
  <1>1. TypeOK /\ Leave(p) /\ broken' \subseteq 1..MaxFiles /\ UNCHANGED broken /\ pc[p] # "write"
    BY DEF IInv, TypeOK, Exit
  <1> QED
    BY <1>1, LeaveIs, Private

LEMMA CrashIInv == ASSUME IInv, NEW p \in Proc, Crash(p) PROVE IInv'
  <1>1. TypeOK /\ Leave(p) /\ pc[p] \notin {"idle", "ready", "failed"}
    BY DEF IInv, Crash
  <1>2. PICK d \in 1..MaxFiles : names[p] = d /\ d \in DOMAIN files
    BY <1>1, NamesAFile
  <1>3. broken' \subseteq 1..MaxFiles
    BY <1>1, <1>2 DEF Crash, TypeOK
  <1>4. CASE pc[p] # "write"
    BY <1>1, <1>3, <1>4, LeaveIs, Private DEF Crash
  <1>5. CASE pc[p] = "write"
    <2>1. broken' = broken \cup {d}
      BY <1>2, <1>5 DEF Crash
    <2>2. /\ UNCHANGED <<now, files, live, dir, cache, started>>
          /\ pc'[p] = "idle" /\ \A q \in Proc \ {p} : Same(q)
          /\ TypeOK' /\ SeenInv(p)' /\ TrustInv(p)'
      BY <1>1, <1>3, LeaveIs
    <2>3. cache[d] # NoFile /\ cache[d].mtime <= now
      BY <1>2, <1>5 DEF IInv, DiskInv, WriteInv, Writing, TimeInv
    <2>4. Doubtful(d)' /\ WriteInv(d)'
      BY <2>1, <2>2, <2>3 DEF Doubtful, WriteInv
    <2> QED
      BY <1>2, <2>1, <2>2, <2>3, <2>4, OnDisk
  <1> QED
    BY <1>4, <1>5

LEMMA ShortWriteIInv == ASSUME IInv, NEW p \in Proc, ShortWrite(p) PROVE IInv'
  <1>1. TypeOK /\ SeenInv(p) /\ pc[p] = "write" /\ UNCHANGED <<serverVars, dir, cache, started, procVars>>
    BY DEF IInv, ProcInv, ShortWrite
  <1>2. PICK d \in 1..MaxFiles : names[p] = d /\ d \in DOMAIN files
    BY <1>1, NamesAFile
  <1>3. broken' = broken \cup {d} /\ pc'[p] = "failed" /\ pc' = [pc EXCEPT ![p] = "failed"]
    BY <1>1, <1>2 DEF ShortWrite, Goto, TypeOK
  <1>4. \A q \in Proc \ {p} : Same(q)
    BY <1>1, <1>3 DEF TypeOK, Same, procVars
  <1>5. TypeOK'
    BY <1>1, <1>2, <1>3, <1>4, StoredSame DEF TypeOK, serverVars, procVars, Same
  <1>6. SeenInv(p)' /\ TrustInv(p)'
    BY <1>1, <1>3 DEF SeenInv, TrustInv, Active
  <1>7. cache[d] # NoFile /\ cache[d].mtime <= now
    BY <1>1, <1>2 DEF IInv, DiskInv, WriteInv, Writing, TimeInv
  <1>8. Doubtful(d)' /\ WriteInv(d)'
    BY <1>1, <1>3, <1>7 DEF Doubtful, WriteInv
  <1> QED
    BY <1>1, <1>2, <1>3, <1>4, <1>5, <1>6, <1>7, <1>8, OnDisk DEF serverVars

\* A file that is opened is empty, as young as can be, and written with what its
\* writers have seen.
LEMMA StartWritingIInv ==
    ASSUME IInv, NEW p \in Proc, pc[p] \in {"open", "create"}, StartWriting(p, 0),
           UNCHANGED <<serverVars, dir, started, cached, full, names, fileTime, scanning, seen, origin>>
    PROVE  IInv'
  <1>1. TypeOK /\ SeenInv(p) /\ UpToDate(seen[p])
    BY DEF IInv, ProcInv, SeenInv
  <1>2. PICK d \in 1..MaxFiles : names[p] = d /\ d \in DOMAIN files
    BY <1>1, NamesAFile
  <1>3. /\ pc'[p] = "write" /\ pc' = [pc EXCEPT ![p] = "write"]
        /\ order'[p] = SetToSeq(seen[p]) /\ order' = [order EXCEPT ![p] = SetToSeq(seen[p])]
        /\ written'[p] = 0 /\ written' = [written EXCEPT ![p] = 0]
        /\ cache'[d] = [structs |-> <<>>, mtime |-> now]
        /\ cache' = [cache EXCEPT ![d] = [structs |-> <<>>, mtime |-> now]]
    BY <1>1, <1>2 DEF StartWriting, Goto, TypeOK
  <1>4. \A q \in Proc \ {p} : Same(q)
    BY <1>1, <1>3 DEF TypeOK, Same
  <1>5. \A f \in 1..MaxFiles \ {d} : cache'[f] = cache[f] /\ (f \in broken' <=> f \in broken)
    BY <1>1, <1>2, <1>3 DEF StartWriting, TypeOK
  <1>6. IsFiniteSet(seen[p]) /\ seen[p] \subseteq Nat \cup {Hole}
    BY <1>1, FS_Subset DEF UpToDate, TypeOK
  <1>7. SetToSeq(seen[p]) \in Seq(Nat \cup {Hole}) /\ Len(SetToSeq(seen[p])) \in Nat
    <2>1. SetToSeq(seen[p]) \in Seq(seen[p])
      BY <1>6, SetToSeqIs
    <2> QED
      BY <1>6, <2>1
  <1>8. TypeOK'
    <2>1. [structs |-> <<>>, mtime |-> now] \in CacheType
      BY <1>1 DEF TypeOK, CacheType
    <2>2. cache' \in [1..MaxFiles -> CacheType \cup {NoFile}]
      BY <1>1, <1>3, <2>1 DEF TypeOK
    <2>3. broken' \subseteq 1..MaxFiles
      BY <1>1, <1>2 DEF StartWriting, TypeOK
    <2>4. order' \in [Proc -> Seq(Nat \cup {Hole})] /\ written' \in [Proc -> Nat]
      BY <1>1, <1>3, <1>7 DEF TypeOK
    <2>5. pc' \in [Proc -> {"idle", "statFile", "statCache", "grab", "scan", "open", "mkdir",
                            "create", "write", "check", "ready", "failed"}]
      BY <1>1, <1>3 DEF TypeOK
    <2>6. \A q \in Proc : pc'[q] # "idle" => names[q] \in DOMAIN files
      BY <1>1, <1>2, <1>3 DEF TypeOK
    <2> QED
      BY <1>1, <2>2, <2>3, <2>4, <2>5, <2>6, StoredSame DEF TypeOK, serverVars
  <1>9. SeenInv(p)'
    <2>1. UpToDate(seen[p])'
      BY <1>1 DEF UpToDate, Stored, serverVars
    <2>2. \A f \in DOMAIN files : f > names[p] => Blocks(f) \subseteq live
      BY <1>1 DEF SeenInv, Active
    <2> QED
      BY <1>3, <1>7, <2>1, <2>2 DEF SeenInv, Blocks, serverVars
  <1>10. TrustInv(p)'
    BY <1>3 DEF TrustInv
  <1>11. Doubtful(d)' /\ Writing(d)' /\ cache'[d] # NoFile
    <2>1. cache'[d] \in CacheType
      BY <1>1, <1>3 DEF CacheType, TypeOK
    <2> QED
      BY <1>2, <1>3, <2>1, CacheAssumption DEF Doubtful, Writing, CacheType
  <1>12. WriteInv(d)'
    <2>1. SUFFICES ASSUME d \notin broken'
                   PROVE  /\ \A q, r \in Proc : Writes(q, d)' /\ Writes(r, d)' => seen[q] = seen[r]
                          /\ \A q \in Proc : Writes(q, d)' => 0 <= Len(order'[q])
                          /\ FilledBy(p, d)' /\ Writes(p, d)'
      BY <1>3, <1>11 DEF WriteInv
    <2>2. \A q \in Proc : Writes(q, d)' => seen[q] = seen[p]
      BY <1>2, <1>4, <2>1 DEF StartWriting, Writes, Same
    <2>3. \A q \in Proc : Len(order'[q]) \in Nat
      BY <1>8 DEF TypeOK
    <2>4. FilledBy(p, d)' /\ Writes(p, d)'
      BY <1>2, <1>3 DEF FilledBy, Writes
    <2> QED
      BY <2>2, <2>3, <2>4
  <1>13. cache'[d].mtime <= now
    BY <1>1, <1>3 DEF TypeOK
  <1> QED
    BY <1>2, <1>4, <1>5, <1>8, <1>9, <1>10, <1>11, <1>12, <1>13, OnDisk DEF serverVars

LEMMA OpenIInv == ASSUME IInv, NEW p \in Proc, Open(p) PROVE IInv'
  <1>1. SeenInv(p) /\ TypeOK /\ pc[p] = "open"
    BY DEF IInv, ProcInv, Open
  <1>2. CASE StartWriting(p, 0)
    BY <1>1, <1>2, StartWritingIInv DEF Open
  <1>3. CASE Goto(p, "mkdir") /\ UNCHANGED <<cache, broken, order, written>>
    <2>1. UNCHANGED <<serverVars, cache, broken, started, procVars>> /\ dir' \in BOOLEAN
      BY <1>1, <1>3 DEF Open, procVars, TypeOK
    <2>2. UpToDate(seen[p])
      BY <1>1 DEF SeenInv
    <2> QED
      BY <1>1, <1>3, <2>1, <2>2, Move
  <1> QED
    BY <1>2, <1>3 DEF Open

LEMMA CreateIInv == ASSUME IInv, NEW p \in Proc, Create(p) PROVE IInv'
  <1>1. SeenInv(p) /\ TypeOK /\ pc[p] = "create"
    BY DEF IInv, ProcInv, Create
  <1>2. CASE StartWriting(p, 0)
    BY <1>1, <1>2, StartWritingIInv DEF Create
  <1>3. CASE Goto(p, "failed") /\ UNCHANGED <<cache, broken, order, written>>
    <2>1. UNCHANGED <<serverVars, cache, broken, started, procVars>> /\ dir' \in BOOLEAN
      BY <1>1, <1>3 DEF Create, procVars, TypeOK
    <2> QED
      BY <1>1, <1>3, <2>1, Move
  <1> QED
    BY <1>2, <1>3 DEF Create

\* What a write at the offset k makes of a file.
LEMMA PutAtIs ==
    ASSUME NEW s \in Seq(Nat \cup {Hole}), NEW k \in Nat \ {0}, NEW b \in Nat \cup {Hole},
           NEW t, t = PutAt(s, k, b)
    PROVE  /\ t \in Seq(Nat \cup {Hole})
           /\ Len(t) = IF k > Len(s) THEN k ELSE Len(s)
           /\ t[k] = b
           /\ \A i \in 1..Len(s) : i # k => t[i] = s[i]
  <1>1. PICK n \in Nat : n = (IF k > Len(s) THEN k ELSE Len(s))
    OBVIOUS
  <1>2. t = [i \in 1..n |-> IF i = k THEN b ELSE IF i <= Len(s) THEN s[i] ELSE Hole]
    BY <1>1 DEF PutAt
  <1>3. \A i \in 1..n : t[i] \in Nat \cup {Hole}
    BY <1>2
  <1> QED
    BY <1>1, <1>2, <1>3

LEMMA WriteStructIInv == ASSUME IInv, NEW p \in Proc, WriteStruct(p) PROVE IInv'
  <1>1. TypeOK /\ SeenInv(p) /\ pc[p] = "write"
        /\ UNCHANGED <<serverVars, dir, broken, started, pc, cached, full, names>>
        /\ UNCHANGED <<fileTime, scanning, seen, origin, order>>
    BY DEF IInv, ProcInv, WriteStruct
  <1>2. PICK d \in 1..MaxFiles : names[p] = d /\ d \in DOMAIN files
    BY <1>1, NamesAFile
  <1>3. PICK k \in Nat \ {0} : k = written[p] + 1
    BY <1>1 DEF TypeOK
  <1>4. Writes(p, d) /\ Writing(d) /\ cache[d] # NoFile /\ WriteInv(d)
    BY <1>1, <1>2 DEF IInv, DiskInv, WriteInv, Writing, Writes
  <1>5. cache[d] \in CacheType /\ cache[d].structs \in Seq(Nat \cup {Hole})
    BY <1>1, <1>4 DEF TypeOK, CacheType
  <1>6. PICK t : t = PutAt(cache[d].structs, k, order[p][k])
    OBVIOUS
  <1>7. /\ k <= Len(order[p])
        /\ cache' = [cache EXCEPT ![d] = [structs |-> t, mtime |-> now]]
        /\ cache'[d] = [structs |-> t, mtime |-> now]
        /\ written'[p] = k /\ written' = [written EXCEPT ![p] = k]
    BY <1>1, <1>2, <1>3, <1>6 DEF WriteStruct, TypeOK
  <1>8. order[p] \in Seq(Nat \cup {Hole}) /\ order[p][k] \in Nat \cup {Hole}
    BY <1>1, <1>7 DEF TypeOK
  <1>9. /\ t \in Seq(Nat \cup {Hole})
        /\ Len(t) = IF k > Len(cache[d].structs) THEN k ELSE Len(cache[d].structs)
        /\ t[k] = order[p][k]
        /\ \A i \in 1..Len(cache[d].structs) : i # k => t[i] = cache[d].structs[i]
    <2>1. PICK s : s = cache[d].structs
      OBVIOUS
    <2>2. PICK b : b = order[p][k]
      OBVIOUS
    <2>3. s \in Seq(Nat \cup {Hole}) /\ b \in Nat \cup {Hole} /\ t = PutAt(s, k, b)
      BY <1>5, <1>6, <1>8, <2>1, <2>2
    <2>4. /\ t \in Seq(Nat \cup {Hole})
          /\ Len(t) = IF k > Len(s) THEN k ELSE Len(s)
          /\ t[k] = b
          /\ \A i \in 1..Len(s) : i # k => t[i] = s[i]
      BY <2>3, PutAtIs
    <2> QED
      BY <2>1, <2>2, <2>4
  <1>10. cache'[d] \in CacheType
    BY <1>1, <1>7, <1>9 DEF CacheType, TypeOK
  <1>11. \A q \in Proc \ {p} : Same(q)
    BY <1>1, <1>7 DEF Same, TypeOK
  <1>12. TypeOK'
    <2>1. cache' \in [1..MaxFiles -> CacheType \cup {NoFile}] /\ written' \in [Proc -> Nat]
      BY <1>1, <1>7, <1>10 DEF TypeOK
    <2> QED
      BY <1>1, <2>1, StoredSame DEF TypeOK, serverVars
  <1>13. SeenInv(p)'
    <2>1. UpToDate(seen[p])' /\ \A f : Blocks(f)' = Blocks(f)
      BY <1>1 DEF SeenInv, UpToDate, Stored, Blocks, serverVars
    <2> QED
      BY <1>1, <1>7, <2>1 DEF SeenInv, Active, serverVars
  <1>14. TrustInv(p)'
    BY <1>1 DEF TrustInv
  <1>15. cache'[d] # NoFile /\ Doubtful(d)' /\ Writing(d)'
    BY <1>1, <1>4, <1>10, CacheAssumption DEF CacheType, Doubtful, Writing
  <1>16. WriteInv(d)'
    <2>1. SUFFICES ASSUME d \notin broken
                   PROVE  /\ \A q, r \in Proc : Writes(q, d) /\ Writes(r, d) => seen[q] = seen[r]
                          /\ \A q \in Proc : Writes(q, d) => Len(t) <= Len(order[q])
                          /\ \E q \in Proc : Writes(q, d) /\ FilledBy(q, d)'
      BY <1>1, <1>7, <1>15 DEF WriteInv, Writes
    <2>2. \A q \in Proc : Writes(q, d) => seen[q] = seen[p]
      BY <1>4, <2>1 DEF WriteInv
    <2>3. \A q \in Proc : Writes(q, d) => order[q] = order[p]
      BY <1>4, <2>2 DEF Writes, IInv, ProcInv, SeenInv
    <2>4. Len(cache[d].structs) <= Len(order[p])
      BY <1>4, <2>1 DEF WriteInv
    <2>5. Len(t) <= Len(order[p])
      BY <1>7, <1>9, <2>4
    <2>6. PICK w \in Proc : Writes(w, d) /\ FilledBy(w, d)
      BY <1>4, <2>1 DEF WriteInv
    <2>7. FilledBy(w, d)'
      <3>1. \A i \in 1..written[w] : i <= Len(cache[d].structs) /\ cache[d].structs[i] = order[p][i]
        BY <2>3, <2>6 DEF FilledBy
      <3>2. written[w] \in Nat /\ Len(cache[d].structs) \in Nat
        BY <1>1, <1>5 DEF TypeOK
      <3>3. Len(t) >= Len(cache[d].structs) /\ Len(t) >= k /\ Len(t) \in Nat
        BY <1>9, <3>2
      <3>4. ASSUME NEW i \in 1..written'[w]
            PROVE  i <= Len(t) /\ t[i] = order[p][i]
        <4>1. i \in 1..written[w] \/ i = k
          BY <1>1, <1>3, <1>7, <3>2 DEF TypeOK
        <4>2. CASE i = k
          BY <1>9, <3>3, <4>2
        <4>3. CASE i # k
          <5>1. i \in 1..written[w] /\ i \in 1..Len(cache[d].structs)
            BY <3>1, <3>2, <4>1, <4>3
          <5> QED
            BY <1>9, <3>1, <3>2, <3>3, <4>3, <5>1
        <4> QED
          BY <4>2, <4>3
      <3> QED
        BY <1>1, <1>7, <2>3, <2>6, <3>4 DEF FilledBy
    <2> QED
      BY <2>2, <2>3, <2>5, <2>6, <2>7
  <1>17. \A f \in 1..MaxFiles \ {d} : cache'[f] = cache[f] /\ (f \in broken' <=> f \in broken)
    BY <1>1, <1>7 DEF TypeOK
  <1>18. cache'[d].mtime <= now
    BY <1>1, <1>7 DEF TypeOK
  <1> QED
    BY <1>1, <1>2, <1>11, <1>12, <1>13, <1>14, <1>15, <1>16, <1>17, <1>18, OnDisk DEF serverVars

\* The last of the writers to end leaves the whole of what it has seen behind it.
LEMMA WriteDoneIInv == ASSUME IInv, NEW p \in Proc, WriteDone(p) PROVE IInv'
  <1>1. TypeOK /\ SeenInv(p) /\ UpToDate(seen[p]) /\ pc[p] = "write"
        /\ written[p] = Len(order[p]) /\ order[p] = SetToSeq(seen[p])
        /\ UNCHANGED <<serverVars, diskVars, started, procVars>>
    BY DEF IInv, ProcInv, SeenInv, WriteDone
  <1>2. PICK d \in 1..MaxFiles : names[p] = d /\ d \in DOMAIN files
    BY <1>1, NamesAFile
  <1>3. pc'[p] = "check" /\ pc' = [pc EXCEPT ![p] = "check"]
    BY <1>1 DEF WriteDone, Goto, TypeOK
  <1>4. Writes(p, d) /\ Writing(d) /\ cache[d] # NoFile /\ WriteInv(d)
    BY <1>1, <1>2 DEF IInv, DiskInv, WriteInv, Writing, Writes
  <1>5. cache[d] \in CacheType /\ cache[d].structs \in Seq(Nat \cup {Hole})
    BY <1>1, <1>4 DEF TypeOK, CacheType
  <1>6. \A q \in Proc \ {p} : Same(q)
    BY <1>1, <1>3 DEF Same, TypeOK, procVars
  <1>7. TypeOK'
    BY <1>1, <1>2, <1>3, <1>6, StoredSame DEF TypeOK, serverVars, diskVars, procVars, Same
  <1>8. SeenInv(p)'
    <2>1. UpToDate(seen[p])' /\ \A f : Blocks(f)' = Blocks(f)
      BY <1>1 DEF UpToDate, Stored, Blocks, serverVars, procVars
    <2> QED
      BY <1>1, <1>3, <2>1 DEF SeenInv, Active, serverVars, procVars
  <1>9. TrustInv(p)'
    BY <1>3 DEF TrustInv
  <1>10. d \notin broken =>
            /\ \A q, r \in Proc : Writes(q, d) /\ Writes(r, d) => seen[q] = seen[r]
            /\ \A q \in Proc : Writes(q, d) => Len(cache[d].structs) <= Len(order[q])
            /\ \E q \in Proc : Writes(q, d) /\ FilledBy(q, d)
    BY <1>4 DEF WriteInv
  <1>11. \A q \in Proc : Writes(q, d) => order[q] = SetToSeq(seen[q]) /\ written[q] <= Len(order[q])
    BY DEF Writes, IInv, ProcInv, SeenInv
  <1>12. Doubtful(d)' \/ UpToDate(ToSet(cache'[d].structs))
    <2>1. SUFFICES ASSUME ~Doubtful(d)' PROVE UpToDate(ToSet(cache[d].structs))
      BY <1>1 DEF diskVars
    <2>2. d \notin broken /\ \A q \in Proc \ {p} : ~Writes(q, d)
      BY <1>1, <1>6, <2>1 DEF Doubtful, Writing, Writes, Same, diskVars
    <2>3. FilledBy(p, d) /\ Len(cache[d].structs) <= Len(order[p])
      BY <1>4, <1>10, <2>2
    <2>4. PICK n \in Nat : DOMAIN order[p] = 1..n /\ n = Len(order[p])
      BY <1>1 DEF TypeOK
    <2>5. PICK m \in Nat : DOMAIN cache[d].structs = 1..m /\ m = Len(cache[d].structs)
      BY <1>5
    <2>6. \A i \in 1..n : i <= m /\ cache[d].structs[i] = order[p][i]
      BY <1>1, <2>3, <2>4, <2>5 DEF FilledBy
    <2>7. n = m
      BY <2>3, <2>4, <2>5, <2>6
    <2>8. ToSet(cache[d].structs) = ToSet(order[p])
      BY <2>4, <2>5, <2>6, <2>7 DEF ToSet
    <2>9. ToSet(order[p]) = seen[p]
      <3>1. IsFiniteSet(seen[p])
        BY <1>1, FS_Subset DEF UpToDate, TypeOK
      <3> QED
        BY <1>1, <3>1, SetToSeqIs
    <2> QED
      BY <1>1, <2>8, <2>9
  <1>13. WriteInv(d)'
    <2>1. \A q \in Proc : Writes(q, d)' <=> Writes(q, d) /\ q # p
      BY <1>3, <1>6 DEF Writes, Same
    <2>2. \A q \in Proc : FilledBy(q, d)' = FilledBy(q, d)
      BY <1>1 DEF FilledBy, diskVars, procVars
    <2>3. cache'[d] = cache[d] /\ broken' = broken /\ order' = order /\ seen' = seen
      BY <1>1 DEF diskVars, procVars
    <2>4. SUFFICES ASSUME d \notin broken, NEW r \in Proc, Writes(r, d), r # p
                   PROVE  \E q \in Proc : q # p /\ Writes(q, d) /\ FilledBy(q, d)
      <3>1. Writing(d)' => \E r \in Proc : Writes(r, d) /\ r # p
        BY <2>1 DEF Writing, Writes
      <3> QED
        BY <1>4, <1>10, <2>1, <2>2, <2>3, <2>4, <3>1 DEF WriteInv
    <2>5. PICK w \in Proc : Writes(w, d) /\ FilledBy(w, d)
      BY <1>10, <2>4
    <2>6. CASE w # p
      BY <2>5, <2>6
    <2>7. CASE w = p
      <3>1. order[r] = order[p] /\ written[r] <= Len(order[p])
        BY <1>4, <1>10, <1>11, <2>4
      <3>2. written[r] \in Nat /\ written[p] \in Nat
        BY <1>1 DEF TypeOK
      <3>3. FilledBy(r, d)
        BY <1>1, <2>5, <2>7, <3>1, <3>2 DEF FilledBy
      <3> QED
        BY <2>4, <3>3
    <2> QED
      BY <2>6, <2>7
  <1>14. cache'[d] # NoFile /\ cache'[d].mtime <= now
    BY <1>1, <1>2, <1>4 DEF IInv, TimeInv, diskVars
  <1>15. \A f \in 1..MaxFiles \ {d} : cache'[f] = cache[f] /\ (f \in broken' <=> f \in broken)
    BY <1>1 DEF diskVars
  <1> QED
    BY <1>1, <1>2, <1>3, <1>6, <1>7, <1>8, <1>9, <1>12, <1>13, <1>14, <1>15, OnDisk DEF serverVars

-----------------------------------------------------------------------------

LEMMA NextIInv == IInv /\ [Next]_vars => IInv'
  <1> SUFFICES ASSUME IInv, [Next]_vars PROVE IInv'
    OBVIOUS
  <1>1. CASE Tick
    BY <1>1, TickIInv
  <1>2. CASE StoreBlock
    BY <1>2, StoreBlockIInv
  <1>3. ASSUME NEW p \in Proc, StartRun(p) \/ StatFile(p) \/ StatCache(p) \/ Grab(p)
        PROVE  IInv'
    BY <1>3, StartRunIInv, StatFileIInv, StatCacheIInv, GrabIInv
  <1>4. ASSUME NEW p \in Proc, ScanFile(p) \/ ScanDone(p) \/ Open(p) \/ Mkdir(p)
        PROVE  IInv'
    BY <1>4, ScanFileIInv, ScanDoneIInv, OpenIInv, MkdirIInv
  <1>5. ASSUME NEW p \in Proc, Create(p) \/ WriteStruct(p) \/ WriteDone(p) \/ Check(p)
        PROVE  IInv'
    BY <1>5, CreateIInv, WriteStructIInv, WriteDoneIInv, CheckIInv
  <1>6. ASSUME NEW p \in Proc, Exit(p) \/ ShortWrite(p) \/ Crash(p)
        PROVE  IInv'
    BY <1>6, ExitIInv, ShortWriteIInv, CrashIInv
  <1>7. CASE UNCHANGED vars
    BY <1>7, StutterIInv
  <1> QED
    BY <1>1, <1>2, <1>3, <1>4, <1>5, <1>6, <1>7 DEF Next, Step

\* The invariant.
THEOREM Invariance == Spec => []IInv
  BY InitIInv, NextIInv, PTL DEF Spec

\* However runs, bitcoind and the clock interleave, a run without --end that has read
\* no doubtful cache file knows every block that was stored before it began.
THEOREM KnowsAllBlocks == Spec => []IndexIsComplete
  <1>1. IInv => IndexIsComplete
    BY DEF IInv, ProcInv, SeenInv, IndexIsComplete
  <1> QED
    BY <1>1, Invariance, PTL

\* A cache file that nobody writes and that would be trusted has every block.
THEOREM TrustedCacheIsWhole == Spec => []QuietCacheIsComplete
  <1>1. IInv => QuietCacheIsComplete
    <2> SUFFICES ASSUME IInv, NEW last, last = Len(files), ~Doubtful(last),
                        IsValid(files[last].mtime, cache[last])
                 PROVE  UpToDate(ToSet(cache[last].structs))
      BY DEF QuietCacheIsComplete
    <2>1. Len(files) \in Nat /\ last \in 1..MaxFiles /\ DOMAIN files = 1..last /\ last \in Nat
      BY FileIs DEF IInv
    <2>2. FileInv(last)
      BY <2>1 DEF IInv, DiskInv
    <2>3. cache[last] # NoFile /\ ~(files[last].mtime >= cache[last].mtime)
      BY DEF IsValid
    <2>4. \A f \in DOMAIN files : Covers(ToSet(cache[last].structs), f)
      <3>1. \A f \in DOMAIN files : f < last \/ f = last
        BY <2>1
      <3> QED
        BY <2>2, <2>3, <3>1 DEF FileInv
    <2> QED
      BY <2>2, <2>3, <2>4, UpToDateIs DEF FileInv
  <1> QED
    BY <1>1, Invariance, PTL
=============================================================================
