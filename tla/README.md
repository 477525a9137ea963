# A formal model of bitcoin-iterate

`bitcoin-iterate` reads the block files of `bitcoind`, puts the blocks in order
and calls back for each block, transaction, input, output or unspent output
(UTXO) of one chain. This directory holds TLA+ models of it and of the libraries
it is linked with, TLC configurations that check them on small instances, and
proofs checked by TLAPS.

Paths without a prefix are those of the repository (`src/`); `ccan/` stands for
`src/ccan/ccan/`.

## 1. The system

| Component | State | Operations | Modules |
|---|---|---|---|
| block table (`block.c`) | `block_map`, `height` and `next` of each `struct block`, `*genesis`, `num_misses` | `add_block`, `set_height` | `BlockIndex` |
| scan (`blockfiles.c`) | the list of files, an offset in one, two open files | `block_filenames`, `block_file`, `read_blockfiles` | `ReadBlocks`, `FileCache`; the early stop in `BlockIndex` |
| block cache (`cache.c`) | a file per last block file in the cache directory, its mtime | `blockcache_is_valid`, `read_blockcache`, `write_blockcache`, `read_blockchain` | `BlockCache`; what the structs are like when they come back, in `BlockIndex` |
| chain selection (`iterate.c`) | `best`, `start`, `next` | `set_heights_and_best`, `set_blockchain_end`, `set_blockchain_start`, `link_blocks`, `set_iteration_end`, `set_iteration_start` | `BlockIndex` (the first), `ChainWalk` |
| main loop (`iterate.c`) | `b`, `start`, `needs_fee`, `blocks_iterated` | the loop of `iterate` | `ChainWalk` (which blocks), `ReadBlocks` (the bytes), `UtxoRun` (the map) |
| UTXO set (`utxo.c`) | `utxo_map` | `add_utxos`, `release_utxo` | `UtxoRun` |
| UTXO cache (`cache.c`) | a file per start block in the cache directory | `read_utxo_cache`, `write_utxo_cache` | `UtxoRun` |
| parser (`parse.c`, `space.h`) | an offset, a hash context, an allocator of 3 MB | `read_block_header`, `read_transaction`, ... | `TxParse`, `Wire` |
| calculations (`calculations.c`) | none | fees, bitcoin days | `Calculations` |
| output (`format.c`) | none | `print_format`, `dump_tx` | `Format`, `CommandLine`, `Wire` |
| command line (`cli.c`) | the options, `needs_utxo` | `main`, the callbacks | `CommandLine` |
| option parser (`ccan/opt`) | the table of options, `argv` | `parse_one`, callbacks, the usage message | `Opt`, `Values`, `Usage` |
| hash table (`ccan/htable`) | slots, masks, counters | add, delete, search, iterate, grow | `HTable` |
| allocator (`ccan/tal`, `ccan/list`) | the tree of objects, their properties | `tal_alloc_`, `tal_free`, `tal_steal_`, `tal_resize_`, notifiers, `tal_next` | `Tal`, `List` |
| strings, buffers, paths (`ccan/tal/str`, `tal/path`, `tal/grab_file`, `rbuf`, `str/hex`) | the current directory | see `Libraries` | `Strings`, `Buffers`, `Paths` |
| `take()` (`ccan/take`) | `takenarr` | `take`, `taken`, and every function that accepts such a pointer | `Take` |
| hashes (`ccan/hash`) | none | `hash_any`, `hash_u32`, `hash_stable` | `Hash` |
| file access (`io.c`) | a map or a descriptor | `file_get`, `file_append` | what is read, in `FileCache`; the rest is plain I/O |
| build, tests, `blocksize-stats` | | | not modelled |

How they interact. `main` parses the options and calls `iterate`, which calls
`read_blockchain`, which calls `add_block` for every block record, either from
the block files or from the cache; `add_block` now and then calls `set_height`,
and `set_heights_and_best` calls it for every block. `set_height` leaves `next`
pointers in the blocks; `link_blocks` writes over those of the chain that was
chosen, and the loops of `set_iteration_*` and `iterate` follow them from
genesis. The main loop comes back to the block files for the transactions, in
the order of the chain, through the two slots of `block_file`, and puts what
it reads of a block into one fixed space. It owns the UTXO map and lends it to
the callbacks, whose `print_format` looks inputs up in it. All data lives in the
tree of `tal`, the two maps in `htable`s. The only thing two processes share is
the cache directory, and the block files, which `bitcoind` alone writes.

What is hard. The program has one thread; what is hard to test is the order in
which the blocks come (`bitcoind` stores them as they arrive), pointers that
outlive the walk they were written for, a table that changes meaning when it
goes through the cache, options that each move an end of the same chain, two
kinds of cache files that are written in place, by processes that can be
killed, and trusted by others; and in the libraries callbacks that change a tree
while it is taken apart, memory that moves, searches that end at an empty slot,
and buffers of which each has its own rule when to grow. `PROJECT.json` lists
these hazards line by line.

What makes each component correct:

* table: a height is the distance from genesis whatever the order of the
  records; it is missing only if it cannot be known; no walk leaves the pointers
  it has written itself; all walks end; the best block is the highest.
* scan and parser: every stored block is found once, and every transaction read
  as it was stored, from the file it is in.
* chain: the callbacks see one chain, without a gap, between the ends asked for.
* block cache: a run knows every block that is stored, wherever its index is from.
* UTXO: at every callback the map holds each unspent output of the chain once, and
  a callback that looks in the map finds that it is kept.
* libraries: no memory is used after it was freed, none is lost, searches find
  what is there and end, and what is put together is what was taken apart.

## 2. The modules

| Module | Extends | What it is |
|---|---|---|
| `BlockIndex` | | scan, table, heights, best block; a restart that reads the cache |
| `ChainWalk` | `BlockIndex` | the options, `link_blocks`, the main loop |
| `Iteration` | | what `iterate` promises its callbacks, on one page; `ChainWalk` implements it |
| `UtxoRun` | | the main loop with transactions, the UTXO map and its cache, several processes |
| `BlockCache` | | `read_blockchain`: validity, reading, writing and creating the block cache, several processes, `bitcoind` |
| `Wire` | | what `bitcoind` writes, and what `dump_tx` writes: bytes |
| `FileCache` | `Wire` | block files and the two of them that are open |
| `TxParse` | `FileCache` | `read_transaction`, field by field, and the space it fills |
| `ReadBlocks` | `TxParse` | from the directory to the transactions of each block |
| `List`, `Tal` | | `ccan/list`; `ccan/tal` |
| `HTable` | | `ccan/htable` |
| `Opt`, `Format`, `Calculations` | | one call of `parse_one`; the codes of a format; sums of days and of fees |
| `CommandLine` | the three above | `main` from `argv` to the last character printed |
| `Hash`, `Values`, `Strings`, `Buffers`, `Usage`, `Take`, `Paths` | | one group of library functions each, as operators |
| `Libraries` | the seven above | the calls of these functions, and what they must return |
| `NaturalLemmas` | | a least number, functions defined by recursion, loops: what proofs need in place of induction |
| `ChainWalkProofs` | `ChainWalk`, `NaturalLemmas` | theorems, as in the modules that follow: about `BlockIndex`; the chain that is walked, that `ChainWalk` implements `Iteration`, and the early stop |
| `UtxoRunProofs`, `BlockCacheProofs` | `UtxoRun`, `BlockCache` | the map and its files; the index and its files |
| `ReadBlocksProofs`, `HTableProofs` | `ReadBlocks`, `HTable`, `NaturalLemmas` | which files are listed and read, the blocks found, the transactions read; the hash table |
| `CommandLineProofs` | `CommandLine`, `NaturalLemmas` | options read as the words mean; the map that formats ask for; sums in two words |
| `TalProofs` | `Tal`, `NaturalLemmas` | the tree of objects, what calls in progress rely on, and traversals |
| `MC*` | | instances for TLC |

An operator that no other uses (`HeightUnderSame` before `HeightUnder`) is a plausible
bug in the definition of the same parameters after it; `PROJECT.json` says which
property notices it.

### BlockIndex

A `struct block` is an element of `Rec`; several can have the same id (`IdOf`),
since `bitcoind` may store a block twice. `parent` gives the previous block of
each id, and is any of `Topologies`. `map`, `height`, `next`, `genesis` and
`misses` are the variables of the same name in the code. A pointer that nobody
has written is `Junk`: `tal()` does not clear memory, and a struct from the cache
holds an address of another process.

| Code | Actions |
|---|---|
| `add_block` | `AddGenesis`, `AddAbove`, `AddMiss`, `AddOrphan`: its four ways through |
| `set_height`, turn by turn | `StepBack`, `Turn`, `StepForward`; `ReturnToAdd`, `ReturnToBest` |
| `read_blockfiles`, the stop above `--end` | `StopsAt` in the actions that return true |
| `read_blockchain` | `FinishScan`; `RestartFromCache` |
| `set_heights_and_best` | `VisitKnown`, `VisitUnknown`, `FinishVisit` |

Records are read in any order: that covers every division into files. 1000
(misses) and 100 (blocks above `--end`) are the constants `MissPeriod` and
`Margin`. The assumption that a header commits to an older block (`Rank`) is
that of a hash function without cycles.

### ChainWalk, Iteration

One action per step of each loop. An option is chosen when the code first looks
at it, which is the same as choosing it at the start and keeps the states few.
`set_blockchain_end` and the like are one action each. If a loop reaches a `Junk`
pointer the behaviour is undefined and the model stops in `"wild"`. `Iteration`
is implemented under the mapping of `Promise`: its `follows` is the relation
"previous block", `ended` is the end of the process.

### UtxoRun

A process goes through a chain that is part of its run (that it is the right one
is `ChainWalk`'s matter) and through the transactions of each block: `DoTx` is the
body of the loop of `iterate`, release before add. An output is an outpoint; the
map counts how many equal entries it has, because the hash table keeps equal
entries apart. The reference `Unspent` is stated on the chain alone: created by an
earlier transaction, spendable, and not spent since. The variable `atomicSave`,
chosen at the start, says whether a cache file may be met half-written: if not,
nobody dies within a save or reads what is being saved, and the properties about
the map and the files are exact; if so, a file is written entry by entry and may be
cut within an entry (`ShortWrite`), and `ReportsExact` must hold all the same. What
the chains must be like (inputs exist, only coinbases have equal txids) is `ChainAssumption`; what
`main` can ask for is `RunAssumption`.

### BlockCache

`files` are the block files with their mtime, `cache[f]` the cache file named after
block file `f`. Every process writes at its own offset, so that a file emptied
under its feet gets a `Hole`; a `Hole` read back looks like a genesis block, since
its `prev_hash` is zero. `broken` and `live` are history variables: the files whose
last writer was cut short, or that two processes wrote at once after they had seen
different blocks; and the blocks that `bitcoind` stored while a process was reading or
writing. Without `--cache` the variable `blockcache` of the code is
not initialised: `ScanDone` may go either way.

### Wire, FileCache, TxParse, ReadBlocks

Files are sequences of bytes with offsets from 0, as the code sees them.
`Wire` has both directions: what is in a block file (`StoredBlock`, `Serialized`,
`Original`: external, modelled from what `parse.c` expects) and what `dump_tx`
writes. A hash is the sequence that was hashed, so two are equal exactly if that is.
What `bitcoind` can have written is stated (`IsBlock`, `IsTx`): numbers fit in their
fields and lengths in a varint, and a transaction without inputs does not have exactly one
output, which would read as the marker and flag of the other serialisation. `Layout` says
of each file which blocks it has, after how much padding, and how many bytes of the last
one are missing; the four bytes of its marker are there, since without them there is no
block to be found.

| Code | Model |
|---|---|
| `block_filenames` | `ListEntry`, in any order of `readdir`; `ListDone` |
| `block_file` | `BlockFile`: a hit, a free slot, or the eviction of the slot not used last |
| `read_blockfiles` | `SkipHole`, `ScanBlock` (marker, header, the skip over the transactions), `ScanFileDone`, `ScanDone` |
| `read_transaction` | `PullVersion`, `PullInputCount`, `PullMarker`, `ReadInput`, `PullOutputCount`, `ReadOutput`, `HashBody`, `ReadWitnessField`, `ReadWitnessStackItem`, `FinishTransaction`: one pull, or one turn of a loop, each |
| the loop of `iterate` over a block | `EnterBlock`, `NextTransaction`, `TransactionRead`, `LeaveBlock`; blocks in any order |
| `space_alloc_`, `space_init` | `space`; the assertion that there is room ends the run in `"full"` |

What a read behind the end of a file gives depends on the map; the model stops there (`"past"`).

### List, Tal

Memory is a set of addresses for `struct tal_hdr` and one for `struct children`;
malloc may return any free one, so a block may come back at the address of one
that was freed. `links` holds the list pointers of both, `hdr[h].prop` the chain of
properties as a sequence. `del_tree` is taken apart at its callbacks: `stack` holds
the calls in progress, each at `"notify"`, `"callback"` or `"children"`. A callback
may call `tal` once, with any call of the `program`. A `struct notifier` is an element of
`Notes`, so an object may have several with one function; `tal_del_notifier_` takes the
first of them. A step that uses memory not in use sets `wild`. Preconditions, taken from
what the code and its comments expect: only objects that are not being destroyed are stolen
or resized (`tal_steal_` would clear the mark of one that is, and `tal_resize_` move it
away from under `del_tree`), while notifiers and names may come and go with any object; a second `tal_free` of an object that is being destroyed unlinks it
a second time, which is harmless only as long as its neighbours in the list are the
same (`Harmless`; tal.c:469, 356); a callback does not remove itself while it runs
(tal.c:210 reads it afterwards); nobody steals an object to below itself.

| Code | Actions |
|---|---|
| `tal_alloc_`, `tal_alloc_arr_`, `tal_steal_`, `tal_resize_` | `Alloc`, `Steal`, `Resize`, each with its failures |
| `tal_free`, `del_tree`, `notify` | `Free`, `Notify`, `Return`, `FreeChild`, `FreeSelf` |
| `tal_add_notifier_`, `tal_del_notifier_`, `tal_set_name_` | `AddNotifier`, `DelNotifier`, `SetName` |
| `tal_first`, `tal_next` | `First`, `NextObject` |
| `tal_check` | `CheckNode`, in `TreeIsLinked` |

### HTable

A word is the set of its bits that are 1; `ht` is `struct htable`. `HtableAdd`
includes what it calls: doubling or rehashing when the table is too full,
`UpdateCommon` when the pointer lacks a bit that all others share. `Clear` is
`utxo_map_clear` and the initialisation after it. Keys, hash functions and pointers
are any of `Keyings`, `Hashings`, `Ptr`. The loops over all slots (`Doubled`,
`Rehashed`) are recursive functions with one value per turn, those that probe
(`First`) the least distance from the bucket. The 30 bits at which
`htable_init_sized` stops are in `SizedBits`; memory and the width of `1 << bits` are
no limit. `TopBitAssumption` says that the highest bit of the pointers is the same
one, as in pointers of one heap: `update_common` leaves that of the first pointer in
the entries (htable.c:227), and without it an entry can look like a marker
(section 3).

### Opt, Format, Calculations, CommandLine

`ParseOne` is one call of `parse_one`: it takes one option, and its argument, out of
the middle of `argv`, or goes on within `-abc` where `offset` says. `Parse` repeats
it and applies the callback; `Iterate` is what `main` does when the words are parsed,
with the search of the formats that sets `needs_utxo`; `CallBack` is a call from
`iterate` with the data of a `Job`; each further action prints one character or code.
A step over an escape that leads past the NUL ends in `"past"`, a code that would
read the `i` of an output in `"nullInput"`. Sums are in two words of `Half * Half`
values each, timestamps wrap at `Half`.

### Libraries and its modules

These functions keep no state of their own, so they are operators, and the variable
`call` is the call that was made; `Libraries` states what the operator must return
for it. `Paths` has state: the file system with links and a directory that is moved,
the current directory, and what `path_pushd` has saved.

| Module | Code | Abstraction |
|---|---|---|
| `Hash` | `hash_any` (`hashlittle`, `hashbig`), `hash_u32`, `hash_stable_*` | a hash is the record of which byte was added to which byte of which register before which mix |
| `Values` | `opt_set_*val*`, `opt_show_*val*` | a text is what `strtoll` makes of it; widths are parameters |
| `Strings` | `tal_strsplit`, `tal_strjoin`, `tal_strreg`, `hex_decode`, `hex_encode` | what a regular expression matches is left out |
| `Buffers` | `do_vfmt`, `path_cwd`, `path_readlink`, `add_str_len`, `grab_fd`, `rbuf` | `[size, slots, inside]`: how full, how large, and whether every write was within |
| `Usage` | `opt_usage`, `opt_show_charp` | texts of characters; widths are parameters |
| `Take` | `take`, `taken`, `tal_dup_`, `tal_expand_`, each function of `tal/str` and `tal/path` with `TAKES` arguments | a memory of objects with parents; each call to the allocator may be one that fails |
| `Paths` | `path_join`, `path_canon`, `path_rel`, `path_simplify`, `path_basename`, `path_dirname`, `path_split`, `path_pushd`, `path_popd` | a path is the sequence of its names |

Operators with an operator parameter (`NullTaken` of `Take`, `FirstMatch` of `HTable`,
`LoopEnd` of `Buffers`, ...) stand for loops and early returns that several functions
have in common; the rows of `map` for those functions cover their lines.

## 3. Where the code and its documentation disagree

Two runs show the program or a library doing something else than it says; each stops
with a trace:

| Run | Disagreement |
|---|---|
| `end_hash` | `--end-hash` on a chain with a gap: the main loop follows a pointer nobody wrote, or ends elsewhere than at the block named |
| `hash_stable` | the switch after the loop of `hash_stable` has no case for three integers (six, of 16 bits): they do not affect the hash |

While modelling, these came up as well. The properties are stated so that they hold
beside them, and each statement says what it leaves out.

Program:

* `--start-hash` beside the chain hands out nothing, and says nothing
  (`ChainEmitted` states this outcome). If `--end-hash` has no chain to genesis either, the
  block of `--start-hash` may be gone through and not be handed out: a duplicate record
  has taken its place in `block_map`, and pointers are compared (`ChainEmitted` and
  `ExitJustified` are stated for `TipConnected`).
* A UTXO cache that ends within an entry is rejected, but the entries before it stay
  in the map (cache.c:174); one that ends at an entry, because its writer died or is
  still writing, is loaded as if it were whole (cache.c:211, 224). `UtxoExact` and
  `CacheExact` are stated for `atomicSave`.
* A block cache left by a writer that was killed is newer than the block files and
  trusted (cache.c:52), although cache.h:10-12 speaks of a "valid & current block cache";
  so is one written by two processes at once that have seen different blocks.
  `IndexIsComplete` leaves out what was read from such a file.
* Of two coinbases with the same txid (before BIP 30) the map keeps both outputs, where
  `bitcoind` has one; `Unspent` counts what was created less what was spent.
* Without a cache directory `blockcache` is tested uninitialised (cache.c:126).
* Two first runs at once: the `mkdir` of the second fails (cache.c:80) and it exits.
* `hashof_utxo` copies 132 bytes to a variable of eight (utxo.c:14), which is undefined;
  `UtxoRun` and `HTable` take it for the function of the key that its result is.
* `--utxo-period=0`, and `--progress` with more marks than the height of the best
  block, divide by zero (iterate.c:218, 164).
* space.h:16-17 gives the space 3 MB "because blocks are capped at 1MB". Blocks with a
  witness need up to eight times their size, others up to four times
  (`SpaceSuffices` states both factors).
* doc/bitcoin-iterate.1.txt lists `%iq`, `%us`, `%uc`, `%uu` and `%ud`, which
  `print_format` rejects; the `q` stands with the codes of outputs, where `i` is NULL.
  `%ip` prints 1 for everything but a coinbase, the type of the output is not looked up.
* A `%` in the last two places of a format makes `print_format` step over the NUL.

Libraries:

* htable.c:225: the revealed bit keeps an entry from being 0 or 1 only until a pointer
  without that bit is added. With the pointers 34 and 2 an entry can become 0: the
  element is lost. `LookupExact` is checked for pointers that share their highest bit,
  as those of one heap do.
* `take()`: the comment at path.h:61 says of `path_pushd` "can be take()", but without
  memory for its first object it returns before it looks (path.c:80-81); `tal_vfmt`
  resizes a NULL buffer when its `tal_arr` has failed; `tal_strreg` counts the braces of
  a NULL regular expression before it asks whether it was taken; `tal_expand` copies
  from a taken NULL. `Excepted` in `Libraries` names these four.
* `grab_fd` returns NULL without freeing its buffer if it cannot be resized.
* `grab_fd` of a regular file of which `fstat` says that its size is 0, as of those in
  `/proc`, asks `read` for 0 bytes (grab_file.c:19-25) and returns an empty buffer whatever
  there is to read; any other size that is too small makes the buffer grow until the
  end. grab_file.h:11-12 says that it "reads from the given file descriptor until no more
  input is available". `BuffersHold` states what the code does.
* `path_split` drops the first slash: the parts of `/a` are those of `a` (run-split.c:25-31
  expects that), and joined they are a relative path. path.h:142-143 says that "joining
  them with / will restore the original path". `LeadsToTheSame` is stated for the parts
  of relative paths and of `/`.
* A destructor that is added to an object while that is being destroyed is never called:
  `init_property` (tal.c:269) puts it before the one that `notify` has reached (tal.c:210).
  The comment at tal.h:148-155 does not say so. `DestructorsCalled` states this outcome.
* `tal_fmt("")` never ends: `do_vfmt` doubles a length of 0. `BuffersHold` is stated for
  formats that are not empty.
* `path_simplify` cuts the path off at a `..` behind a link or a name that does not
  exist: the NUL stays where the last slash was. A second `..` directly behind it, as in
  `l/../..` with `l` a link, fails `assert(ret[j-1] == PATH_SEP)` (path.c:382). `LeadsToTheSame`
  says that the assertion holds unless the path has been cut off, and leaves out where such
  a path leads.
* `path_simplify("")` writes the second byte of a string of one; `path_join` with a base of
  `""` reads the byte before it.
* `get_more` of `rbuf` adds -1 to a `size_t` when a read fails (rbuf.c:62).
* A number that is only a suffix, as `k`, is accepted as 0. Unsigned values above the
  maximum of the signed type can be shown, but not set.
* Braces within brackets are counted by `count_open_braces`.
* The usage message: an empty description reads the byte before it and makes the line
  of the value too long; a newline directly before a word leaves the word without indent;
  a string of exactly two characters less than `OPT_SHOW_LEN` gets dots behind it.

## 4. What TLC checks

| Run | Question |
|---|---|
| `block_index` | heights, walks and the best block, for every tree and every order of the records |
| `chain_walk` | which blocks are handed out, for every combination of options; `Iteration` |
| `early_stop` | does a scan cut short by `--end` give the same blocks? |
| `utxo_run` | map, cache files and calls of `utxofn`: two processes on two forks, killed anywhere |
| `block_cache` | is the index complete, with concurrent and killed writers and coarse mtimes? |
| `read_blocks` | is every block found, and every transaction read as it was stored? |
| `memory` | is the tree of `tal` consistent whatever callbacks do, wherever memory fails and moves? |
| `hash_table` | is what was added found, once, and does every search end? |
| `command_line` | do options mean what they mean, do formats find the map, are sums of days exact? |
| `libraries` | do the library functions return what they are for, whatever fails? |

All of these pass. What they show in particular:

* `HeightsLinked`, `HeightsComplete`: 1 in `MissPeriod` calls of `set_height` during
  the scan is enough, the rest is made up by `set_heights_and_best`; heights that
  came with the cache and heights computed later agree.
* `NoWildPointer`: the second loop of `set_height` never meets a pointer of an
  earlier walk, because the first has written all those up to its argument.
* `ChainVisited`, `ChainEmitted`, `ExitJustified`: whatever `next` pointers the
  walks have left, `link_blocks` overwrites those the main loop will follow, as
  long as the chain of `--end-hash` leads to genesis (`TipConnected`).
* `EarlyStopExact`: the margin is enough when no fork is longer than it.
* `UtxoExact`: loading a map at the start block and switching `needs_fee` off and on
  again gives the same map as computing it. `CacheExact`: a UTXO cache that was
  written whole is right for every chain with its block. `ReportsExact` holds even
  with half-written files: a wrong map changes what `utxofn` sees, not when it is called.
* `IndexIsComplete`, `QuietCacheIsComplete`: `>=` in `blockcache_is_valid` is what
  protects from a block stored in the same second; two writers that overwrite each
  other's file leave a whole file when both have finished and have seen the same blocks.
  A block stored while some process reads or writes may be missed for as long as the
  cache is trusted, and no other block: `README.md` of the repository (149-155) advises to
  stop `bitcoind`.
* `ScanExact`: markers inside a block are stepped over because the scan goes on behind
  its transactions; padding, gaps in the numbers and names that are no block files do no
  harm. `TxExact`, `DumpIsOriginal`: `txid` is the hash of what `%tX` prints.
  `RightFileOpen`: the file mapped in a slot is the one asked for, although slots are
  compared by the address of the name. `EndsForAReason`: no complete file makes the
  program give up, but for a transaction without inputs and the space, of which
  `SpaceSuffices` says how much is enough: four times the bytes of a block, eight times if
  it has witnesses. `ListingExact`:
  the list has each block file under the number in its name, whatever the order of
  `readdir`.
* `TreeIsLinked` (what `tal_check` looks for, and more), `NoUseAfterFree`, `NothingLost`,
  `DestructorsCalled`, `TraversalComplete`: within callbacks too. A destructor is called as
  often as it was added, whatever is added and taken away while others run.
* `LookupExact`, `IterationExact`, `SearchesEnd`: rehashing in place from slot 0 on would
  lose entries that have wrapped around, which is why it starts behind an empty slot.
* `ParsedAsMeant` compares `parse_one`, which takes words out of the middle, with one
  pass from left to right. `MapKeptIfRead`: the search of `main` for codes in a format
  finds each code with which `print_format` looks in the map, which reads them differently.
* `ValuesExact`, `StringsExact` (with `TakenIsFreed` and `UsageFits`), `BuffersHold`,
  `HashesAgree`, `LeadsToTheSame`: see the comments; each is a reference that is written without the loop
  or the branches of the code.

### Bounds

* `MCBlockIndex`: five ids (one of them in no file), five records (one a duplicate),
  all trees; `MissPeriod` 2, `Margin` 1. That is enough for walks of three turns,
  walks over earlier walks, walks that fail, a gap, forks, an orphan that is the
  child of a missing block, duplicates before and after their children.
* `MCChainWalk`: five ids (one of them in no file), five records (one a duplicate), and
  every value of every option that matters: absent, unknown, on the chain, on a fork,
  above a gap. `early_stop` has a chain of
  five and a fork of two with margin 2, so that the scan can stop before the fork has been
  read; for longer trees there is the theorem.
* `MCUtxoRun`: five blocks on two forks, period 2, three runs by two processes: one
  run to write each of two files and one to read them, or two at once; a coinbase that is
  there twice, one of which is spent.
* `MCBlockCache`: three blocks, two files, three seconds (0 to 2), three runs by two
  processes. Three structs are the fewest in which a hole can be followed by a
  struct and preceded by one.
* `MCReadBlocks`: eight directories with up to three block files, so that a slot is
  evicted; ten blocks with transactions of lengths on both sides of 253, both
  serialisations, sixteen outputs (what takes most space for its bytes), a transaction
  without inputs, markers in a script; files cut within a header, and within a transaction
  at two places. The structs have the sizes they have on a 64-bit machine, the
  space is 1200 bytes, so that it overflows.
* `MCTal`: four addresses of objects, three of lists and two of notifiers, one failure of
  malloc, three programs: destructors that call `tal`; traversals while the tree changes;
  every kind of property. Two notifiers are the fewest with one function twice, or with one
  that comes after another has been called. Three objects are the fewest with a parent, a child that is freed by a
  callback and a sibling.
* `MCHTable`: words of six bits, five elements, tables of up to eight slots: growth,
  rehashing, wrapping around the end and two changes of the common bits.
* `MCCommandLine`: command lines of up to three words out of 25, formats of up to four
  characters out of six, and every code alone; words of six bits, timestamps of three,
  days of five seconds, so that sums overflow their words.
* `MCLibraries`: keys of up to 25 bytes (two blocks and the rest) and arrays of up to 13
  integers; integers of 8 and 16 bits with the bases 3 and 4, around every limit; strings
  of up to seven characters; buffers that start with one or two bytes; one or two failures
  among the first seven calls to the allocator; descriptions of up to six characters in
  three widths; the file system `/a/b/f`, `/a/u -> ..`, `/l -> a/b`, where `b` may be moved.
  `Turns` and `Links` bound loops, with `NULL` as a result if a loop needs more.

Processes are interchangeable, hence the `SYMMETRY` in `MCUtxoRun.cfg` and
`MCBlockCache.cfg`, and so are addresses in `MCTal.cfg`; in these runs nothing but
invariants is checked. `MCCommandLine.cfg` alone switches off the check for deadlocks: a
format has been printed, or the program has exited.

### Fairness

`block_index`, `chain_walk` and `read_blocks` check termination under weak fairness of the
process's own steps: one thread that nothing blocks, so the only assumption is that it
keeps being scheduled. The restart from the cache happens once at most (`source`), so it
cannot be used to go on for ever. `Iteration` asks for weak fairness of `End` and
gets it from termination.

## 5. What is proved

TLAPS checks the theorems below for every value of the constants: any records, trees,
options, processes, files, pointers and sizes, finite or not where a set is meant.

| Module | Theorem | Statement |
|---|---|---|
| `ChainWalkProofs` | `Invariance`, `TypeCorrect` | `Spec => []IInv`, `Spec => []TypeOK` |
| | `HeightsAreLinked`, `NoWildPointers`, `HeightsAreComplete`, `BestIsTheHighest` | the invariants of run `block_index` |
| | `HeightsAreStable` | the action property of that run |
| | `WalkInvariance` | `WalkSpec => []CInv` |
| | `VisitsTheChain`, `EmitsTheChain`, `ExitsAreJustified` | `ChainVisited`, `ChainEmitted`, `ExitJustified` |
| | `KeepsThePromise` | each step of `ChainWalk` is one of `Iteration` or a stutter |
| | `EarlyStopIsExact` | `EarlyStopExact`, for `AllStored` |
| `UtxoRunProofs` | `UtxoMapExact`, `CacheFilesExact`, `ReportsInOrder` | `UtxoExact`, `CacheExact`, `ReportsExact` |
| | `NoUnknownUtxo`, `OneWriter` | no input is missing from the map; no file has two writers |
| `BlockCacheProofs` | `KnowsAllBlocks`, `TrustedCacheIsWhole` | `IndexIsComplete`, `QuietCacheIsComplete` |
| `ReadBlocksProofs` | `Invariance`, `ByteInvariance` | `Spec => []IInv`, `Spec => []ReadInv` |
| | `ListsTheFiles`, `ReadsTheRightFile` | `ListingExact`, `RightFileOpen` |
| | `ScansTheFiles` | `ScanExact` |
| | `ReadsTransactions`, `DumpsTransactions` | `TxExact`, `DumpIsOriginal` |
| | `SpaceIsEnough` | `SpaceSuffices`, a part of `EndsForAReason` |
| | `GivesUpForAReason` | `EndsForAReason` |
| `HTableProofs` | `Lookup`, `EachOnce`, `AlwaysAnEnd` | `LookupExact`, `IterationExact`, `SearchesEnd` |
| `CommandLineProofs` | `ReadsAsMeant`, `KeepsTheMap`, `DaysAreExact` | `ParsedAsMeant`, `MapKeptIfRead`, `DaysExact` |
| `TalProofs` | `Invariance` | `Spec => []IInv` |
| | `NeverWild`, `Linked`, `AllKept`, `AllCalled`, `EachOnce` | `NoUseAfterFree`, `TreeIsLinked`, `NothingLost`, `DestructorsCalled`, `TraversalComplete` |

Each invariant was first checked by TLC on the instance of the component's run.

### The assumptions

All but one are ASSUMEs of the modules, which TLC evaluates in every run:
`TopologyAssumption` (a header commits to an older block), `RecordAssumption`,
`OptionAssumption`, `WalkAssumption`, `GenesisAssumption` (the files are those of one
network: only one block commits to no other), `RunAssumption` (what `main` can ask
for), `ChainAssumption` (the blocks of a chain are valid), `CacheAssumption`,
`FilesAssumption`, `MarkerAssumption` (the marker is four bytes, of which the first is not 0, as
padding is), `LayoutAssumption` (the files hold what `bitcoind` can have written, and of a
block whose end is missing at least the marker), `SpaceAssumption`, `SizesAssumption` (the
structs are as large as on a 64-bit machine, or smaller), `HTableAssumption`, `TopBitAssumption`, `CalculationsAssumption` (a word
has two halves and is a multiple of the shift that the days are divided by),
`LinesAssumption` (a command line is a sequence of words, and `-abc` of letters; nothing is
assumed of the table of options), `JobsAssumption` (amounts fill a word, times half of one, and a transaction has no more
inputs than fit into half a word), `TalAssumption` (addresses of headers and of lists are
different, and finitely many). They also say that `NULL`,
`NoFile` and `Hole` are not values of another kind. `EarlyStopIsExact` has the hypothesis
`AllStored`, every block is in the files, as a previous block in no file is not part of
the chain that the program can know; and the property itself is about trees whose
forks are within the margin.

### No induction

The provers do no induction over data. Three things take its place. Where a walk follows
pointers the invariant says that there is a *set* with a property each step keeps: the
path of `set_height`, the chain of `link_blocks`. Where a value is recursive over
older blocks (`Anc`), or over numbers, a lemma takes the least counterexample
(`LeastNatural`). Where the code has a loop within one action (`Doubled`, `Rehashed`,
`Value`) the model has a recursive function: `RecursiveFunction` shows that there is one, and
`TurnByTurn` that what holds at the start and from turn to turn holds at the end.

### The invariants

`BlockIndex`. `HeightsLinked` needs that the walk forward goes over the very blocks that
the walk back has marked, each the child of the one before. `WalkInv` says that there is
a set `S` of structs that holds the path: every block of `S` but the target has a `next`
in `S` that is its child (`OnPath`). A step back adds one struct to `S`, a step forward
takes one out, and `cur \in S` is enough to know that it is not `Junk`. In the same way
`Dead(D)` says that a set of blocks without a height is closed under "previous block",
and a walk that fails adds its whole path to it: hence `HeightsComplete`. `BestInv` allows
for the moment at which a walk has raised heights of blocks already visited. `UnreadInv`
is needed for the cache (each struct comes back once), `GenesisInv` for `add_block`'s early
return, `PhaseInv` and `TargetInv` tie the control state to the variables.

`ChainWalk`. As long as the index is built, `CInv` contains the invariant above.
Afterwards `TableInv` says what the table is like: the genesis block has height 0, and any
other a height if and only if its previous block has one. `Chain(C)` says of a set of
blocks that `next` leads through all of it to `best`, without a gap and with one block of
each height. `link_blocks` adds a block to `C` at its lower end (`LinkInv`); after
it `C` has genesis, the loops that look for a height have not passed it (`SeekInv`), and
the main loop has been to block `i - 1` of `C` at turn `i` (`VisitInv`), with the callbacks
beginning at the block asked for (`EmitInv`). All of that is under `TipConnected`. That a
`next` leads to a child holds always (`NextLinked`), and so does `KeepsThePromise`.

The early stop. `StopInv` says that either every block is in the table or still to be read,
or the scan has seen a block well above `--end`. Then heights are counted: a block of height
`h` has `h + 1` blocks in `Anc`, all of them in the table. The highest block known is above
`--end` by the margin; a longest chain leaves it at most the margin below; so the two have
the same block at `--end`, and below.

`UtxoRun`. `MapInv` compares the map with `Unspent`, which counts the transactions of
the chain that create an output less those that spend it. A transaction changes the count
by one place (lemmas on `Created` and `Spent`), and loading a file changes nothing, since
`CacheExact` is part of the invariant: what is in the file of a block is `Unspent` for every
chain with it. While the map is not maintained the process is before the block it was
loaded for. `ReportInv` says where the start was, by which `iterated` counts. `WriterInv`
says that the file a process writes is there, whole so far, and no one else's.

`BlockCache`. No lock protects a cache file; what makes it right is the order in which its
writer, its reader and `bitcoind` look at the clock. `SeenInv` says of each process what it
has read: all of each file it is done with, but for what came meanwhile (`live`).
`FileInv` says of a file nobody writes that it has all the blocks of the older files, and
those of its own unless that is as young: this is what `>=` in `blockcache_is_valid` is for.
`WriteInv` is about several processes that write one file: as long as they have seen the
same blocks, one has filled it up to where it is, the last that emptied it or one after it.

`ReadBlocks`. `ListInv` says that the names listed are those read so far, each at
the place of its number, `FoundInv` that a block was found in a file of the list. The
slots: each holds what is open in it, and the slot used last is not the next to go.
The bytes. `Holds(d, o, s)` says that `s` is in the file `d` from `o` on, as far as `d`
goes; it splits where `s` does (`HoldsBoth`, `HoldsPart`), and a number, a varint or a slice
read at `o` is the one at the start of `s` (`HoldsNumber`, `HoldsVarint`, `HoldsSlice`), because
`Num(Le(n, v)) = v` (`NumOfLe`). `FlattenSeq` is a recursion; of it nothing is used but what it
does at one element (`UptoIs`): the bytes of the first `k` elements, the element, the rest.
The scan: `Progress` says that the offset is at the end of a record `r` of file `k`, or at
the start of the file, and that `found` is what is stored before that. Between records there
are only zeroes, and the marker does not begin with one, so the next marker is that of the
next block (`NextMarker`); markers within a block are never looked at. The parser: `Stage(t)`
has one predicate for each `step` (`AtCount`, `AtInput`, `AtOutput`, `AtWitness`, ...), which
says that the offset is where that part of `Serialized(t)` starts, which inputs, outputs or
items have been read, and that the bytes hashed so far are those of `Original(t)` up to the
last append. The marker and flag of witnesses are left out of the hash since `contextOff` moves
behind them; that a count of 0 is that marker, and only that, is what `IsTx` says of
transactions without inputs. In the end the fields read give the same bytes when dumped
(`DumpedAsStored`), as `PrintVarint` and what `bitcoind` writes agree (`CompactSizeIs`). A
file that ends within a block is part of all of it: a step either stays within what the
file has, or ends in `"past"`.
The space. `SpaceAt(t, q)` bounds what is taken at each step of a transaction that starts with
`q` bytes taken: an input of 41 bytes or more takes a struct of at most 80 and less than its
script (`InputHeld`), an output of 9 a struct of 24, a witness item, of one byte at
least, a pointer and a copy. `Charge` adds them up, with a struct for each transaction that is still to
come. A length that is cut off by the end of the file is never larger than the one written
(`VarAtMost`), so the bound holds there too.

`HTable`. `Placed(t, S, d)`: each element `p` is `d[p]` slots after its bucket, the slots
from the bucket to it are not empty, its entry is what `make_hval` makes of it there, and no
other slot is used. `Masks`: the bits that count as shared are those of every element, and
the highest bit does not, so that an entry tells its pointer, its hash bits and that it is no
marker (`EntryIs`). `Room`: `elems` and `deleted` count, and leave an empty slot. Adding
takes the first free slot; `update_common` rewrites the entries where they are;
`double_table` puts them again one by one. Rehashing in place is the hard one. Slots are
counted from the first empty one, in the order of the loop: no element is on the other side
of that slot from its bucket, so that distances do not wrap (`NoWrap`). `RehashInv` says
that from the turn of the loop on nothing has changed, and that before it no marker is left
and no search for an element is interrupted: an entry that is taken out goes to a slot
before the turn, never after it (`RehashMoves`). Started at slot 0, `NoWrap` would not hold.

`CommandLine`. `CallInv` says where the format that is printed comes from and that
`needs_utxo` was searched for in the same formats: a code at which `print_format`
arrives is one that `strstr` finds, wherever it begins (the converse is false: `%%tD`
asks for the map and does not read it). `MeantInv` compares `parse_one` with `Meaning`, which
reads the words in order: `Progress` says that `argv` is `l` words that are no options
followed by those after the `p`-th of the line, and that `Meaning` has, after `p` words, the
same values set and `l` words left; between two letters of `-abc` the same is true of what
`Meaning` has after that letter. The words in between, which `parse_one` skips, only count as
left (`PlainWords`), an error or a call for help stays (`Ended`), and an option whose
argument `parse_one` takes from the next place of `argv` is one that `Meaning` has wanting it
(`WantedWord`), since nothing has been taken out behind it. For the days, `SumInv` says that the two words
hold the sum of the inputs so far, which is `f[n]` for the `f` of `Adds`, and that it is at
most `n` products of a word and a half: with at most `Half` inputs no carry leaves the
upper word. `MulAndAddIs` is long multiplication, one division with remainder per digit;
`DaysAre` bounds what two roundings lose, and shows that the answer -2 means a sum too large
to print.

`Tal`. The memory is three values: the headers `H`, the owners of lists `O`, the links `L`.
`Tree(H, O, L)` says that an object has one property of each kind and none behind a literal
name (`TreeType`), that a list and its owner know each other and an object that is not
being destroyed is in a list that has an owner (`Owners`), that each list is a ring
(`Rings`), and that no set of objects holds the parent of each of them (`NoCycle`). A ring
is a set of nodes with `next` and `prev` inverse to each other, in which a subset that has
the head, and with each node the next, is the whole: this takes the place of an induction
along the list, in which `list_add`, `list_del` and the move of a node are single steps.
Each call of `tal` is one or two of a few changes of `H`, `O` and `L` that keep a tree
(`TreeNewList`, `TreeDetach`, `TreeAttach`, `TreeRelease`, `TreeMove`). The calls in progress
are the hard part. `StackShape`: a callback is called by the `notify` below it, and no object
is being destroyed twice. `StackData`: each object that is being destroyed is in one of the
calls, the notifier that was called last is still a property of it, and the list that the
loop of `del_tree` has read is still that of the object, since `tal_steal_` and `tal` may
give an object a list of children, but nothing takes the list away before the object is
freed. `DueData`: a
destructor that is to be called is behind the one that was called last, which a callback
that takes notifiers away does not change. `OnlyDue` is the converse: a notifier that is not
to be called is not behind it, hence nothing is called twice; what a callback adds to an object that
is being destroyed comes in front. Notifiers are told apart by their address, as one function
may be there several times. A stolen object goes below one that is not
below it, hence no cycle (`NoNewCycle`). Traversals: `Seen` says that what
`tal_next` has given has with each object the parent and the one before it in its list, and
all below those that it has left; climbing from a last child leaves only objects all
of whose children it has given (`Climbed`), and at the root what is missing would have its parent
missing too, which `NoCycle` excludes.

### What stays with TLC

Liveness, under the fairness of section 4, is out of reach of the prover: the
termination of `BlockIndex`, `ChainWalk`, `ReadBlocks`, and the liveness part of
`Iteration`. So is what a recursion over data computes for every input, where no invariant
takes its place: the library functions of `Libraries`, which go over characters within one
step (`HashesAgree`, `ValuesExact`, `StringsExact`, `BuffersHold`, `LeadsToTheSame`).

## 6. Plan

Done: all modules above and the theorems of section 5. Left: progress marks; the types and
amounts of outputs in `UtxoRun`.

There is one run for each question. Runs of pure functions are gathered in `libraries`.

## 7. Not modelled

* Program: amounts and guessed types of outputs in `UtxoRun` (they follow from the
  outpoint), progress marks, what the codes that print a field print (`Wire` has the bytes
  of `%tX` and the like), `to_btc` (floating point), `mmap` against `read`,
  `file_append` (plain I/O), memory exhaustion of the program itself. A damaged block file
  is not considered, a truncated one is. The blocks of a chain are valid.
* `ccan/opt`: the checks at registration, early options, floating point.
* `ccan/tal`: sizes, `tal_cleanup`, `tal_set_backend`, the dump; callbacks other than those
  of a free are not given calls of `tal`. `ccan/take` without its own error function.
* `ccan/hash`: `hash_string`, the arithmetic of the mixes; `hash.c` is not linked into the
  program.
* `ccan/tal/str`: what a regular expression matches. `rbuf`: reads that fail.
* `ccan/tal/link`, `stack`, `talloc`, which the program does not use; helpers without
  state (`noerr`, `str`, `endian`, `err`); macros for the compiler. `tal/path/path` and
  `tal/str/str` hold copies of the files that are modelled.
* Build files, the configurator, the tests, the scripts in `blocksize-stats`.
