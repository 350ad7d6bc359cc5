# A verification of ChecksumFolder

TLA+ models of ChecksumFolder (a Go command line tool with C hash functions),
the TLC configurations that check them and TLAPS proofs about them. Line numbers
refer to `src/`.

## 1. Inventory

| Part | State | Operations | Interacts with | Hard behaviour | Correct means |
|---|---|---|---|---|---|
| Generation, `main.go:87-223` | list file, buffered writer and its sticky error, `lineCount`, `processedCount`, jobs channel, worker goroutines | read list, open, walk, send, hash, write line, flush, sync, count, close, wait | list file (persistent), `hashFile`, kernel | workers share one writer; kill or power loss between any two steps; full disk; files that fail or never end; resuming from a torn list | each file is handled once, lines are never mixed, what a crash loses is bounded, synced entries survive, a clean run misses nothing |
| List file, `main.go:98-119, 170-176, 233-259` | sequence of lines, text or JSONL | append line, read entries | written by generation, read by generation and verification | torn and merged lines | an entry gives a file its own hash |
| Verification, `main.go:225-400` | entries, `expected`, jobs/results/done channels, counters, goroutines (workers, collector, closer) | take, hash, put, count, close, collect, report | list file, `hashFile` | verdicts overtake each other, `close(results)` against senders, counters read without a lock | every entry judged once for what it is; no panic, deadlock or race |
| Path resolution, `main.go:261-309` | none beyond its inputs | split, trim, join | list file, folder | same names at several levels, folders moved or named otherwise, paths of another system | the file that was listed is the one that is hashed |
| Hash dispatch, `main.go:402-503` | none | open, read, hash | hash packages | read errors; reading never ends | the digest of the whole file |
| BLAKE3 in C, `blake3c/` | chunk state, CV stack | init, update, finalize, reset | `hashFile` through `io.Copy` | pieces of any size; the root must stay uncompressed; SIMD batches | the digest does not depend on the pieces or the kernel |
| t1ha, rapidhash, wyhash, in C and Go | pointer, rest, lanes; `t1ha2` also a streaming context (buffer, partial, total) | hash a byte slice; init, update, final | `hashFile` | length cases, overlapping last words, tails loaded as words that reach beyond the file, byte orders, products by half words, pieces of a stream | the digest is a function of the file's bytes: each is mixed in, at its place, and nothing else; nothing is read that may not be |
| CPU detection, build variants, `cpu_opt.go`, `release.yml` | four flags set at start | init | `hashFile` | a list made by one build is verified by another | same name, same digest |
| Command line, `main.go:48-85` | flags, HighwayHash key | parse | everything | - | - |

Everything outside `main.go` runs inside one call of `hashFile`; the goroutines
share nothing but what the table names, and nothing but the list file survives
a run.

## 2. Modules

| Module | Models | Size of the state |
|---|---|---|
| `ListFile` | the list as a sequence of units that can be torn, and its two readers | operators only |
| `Generate` (extends `ListFile`) | successive runs of `generateChecksums` over one list file | the file and its synced prefix; per process: `phase` of the main goroutine, `pc`/`job` of each worker, mutex, buffer, counters; history |
| `Verify` | one run of `verifyChecksums` after the list is read | `expected` and `prepared`, `phase`, `pc`/`job` of each worker, `results`, `closed`, `collector`, counters, report; history |
| `Audit` | what verification promises: judge one entry after the other, then report | abstract specification, implemented by `Verify` |
| `PathResolve` | scan with one `-dir`, move, verify with another | one path per file |
| `Blake3` | the incremental BLAKE3 hasher and the tree it must compute | chunk, stack, piece in progress |
| `Product` | the product of two words by half words, as `rapid_mum`, `_wymum` and `mul_64x64_128` compute it | operators only |
| `Words` | how a word is loaded: `t1ha_bits.h:364-978` and the readers of rapidhash and wyhash | operators only |
| `HashCall` (extends both) | `hashFile` and the wrappers for the hashes whose code is in the repository: which code computes what; what every kernel shares | the call, pointer and rest, words mixed in, bytes loaded, streaming context, last product |
| `T1ha`, `RapidWy` (extend `HashCall`) | the kernels of t1ha1 and t1ha2, at once and streaming; of rapidhash (three variants, and the Go one) and wyhash | |
| `FileHash` (extends both) | the composition, and what must hold of all kernels | |
| `MCGenerate`, `MCVerify`, `MCPathResolve`, `MCBlake3`, `MCFileHash` | values of the constants for TLC | |
| `GenerateProofs`, `ListProofs`, `RecoveryProofs`, `VerifyProofs`, `PathResolveProofs`, `WordsProofs`, `FileHashProofs`, `Blake3Proofs` | theorems | |

### Generate

A line is four units, `hash name rest nl`; the units are what a tear can tell
apart: a line cut inside its hash has no tab, one cut in its name spells
another path (`Short`: `data` of `data.txt`), one cut before its newline is whole
but will be glued to the next. The list file is `disk`, of which `synced` units are
on the medium; `buf` is the `bufio.Writer`, whose capacity is `BufCap` units.

One action is one step other goroutines can observe. `Start` is lines 98-192 (read, open,
walk, start the pool: nothing else runs yet). `Send` is the rendezvous of
`jobs <- p` and `range jobs`. A worker then goes through `HashOk`/`HashError`, the
critical section (`WriteFits`, or `WriteOverflows` and `Spill` if `bufio` must write
a full buffer first; `Flush` and `Sync` if `lineCount` is due) and `Count`. Main goes through
`CloseJobs`, `WaitReturns`, `FinalFlush`, `FinalSync`. A write may fail after any part of it
(`SpillFails`, `FlushFails`, the second case of `FinalFlush`); the error is sticky and nobody looks
(`WriteRefused`). `Kill` ends the process anywhere, with any part of a write in
progress done; `PowerLoss` also takes any suffix of what was not synced.
The deferred function at 126-132 repeats the last flush and sync and is folded into them;
for an early return after the walk's error it is `WalkFails`.

### Verify

Channels: `jobs` and `done` are unbuffered, so `Take` and `Rendezvous` are joint
steps; `results` is a sequence of at most one result per worker. The closer, the
collector and main are processes of their own. `verbose`, the list and what each file hashes to are
chosen in `Init`. `Prepare` is one round of the loop at 272-309, which fills `expected` and
`pathsToProcess` (of which only the length, `prepared`, is state: the paths are those of the list in its order); `Start`
starts the goroutines. Two names of a list may resolve to one file. A worker judges by the map (`Judge`); the properties
and `Audit` judge by the list itself, in which the last entry of a file counts (`LastHash`, `Status`), so that a map filled
by another rule would be found.

### PathResolve

A path is a sequence of names and whether it is rooted. `Generate` writes what the
walk spells, `Move` (the user) changes the working directory, the `-dir`
argument and the place of the folder, `Verify` applies `Resolve`, lines 272-306. Names with a
backslash (`Split`) and names like a drive (`Undrive`) are in the instance, among the files and in the argument.
`PathAssumption` says what the constants stand for: paths are sequences of names, and a walk meets no `..` and no file without a
name. A name that begins with a backslash is left out: at the head of a path it would become rooted.

### Blake3

The compression function is a free term (what it was applied to), so two digests are
equal exactly if the same was compressed with the same counters and flags. `Update`,
`HashSubtree`, `KeepRest` are the three parts of `blake3_hasher_update_base`, in the order the code runs
them; `Finalize` does not change the hasher and is an operator. `Usable`, `blake3_simd_degree` and
`blake3_hash_many` are the dispatch of `blake3_dispatch.c` by CPU features and build flags; `MCBlake3` gives the
two released builds with cgo: amd64, where every x86 kernel is turned off (`blake3c.go:8`) and the portable one is
used on arrays as large as for AVX-512, and arm64 with NEON. `cv_array` is modelled with its gap: reading a slot that was not written gives `Garbage`.
`Blake3(n)` is the definition of the tree, written independently.
Chunk, block and word sizes are constants (1024, 64 and 64 bits in the code); a length fits in a word, which is all that `MaxLen` is bounded by.
What the code computes by a loop or a recursion is a recursive function here, over a bounded domain.

### FileHash

One behaviour is one call: `Open` or `Fail`, a kernel that cuts the file into words, `Return`. A byte is named by
its offset from the file's first byte, negative for one before it; a word is eight places, each the set of the bytes added into
it, so that a byte lost, moved, or doubled by a shift or a mask shows. A kernel's history is `words`, each with the
lane (and, in a remainder, the prime or the secret) it goes to, in order, and `memory`, the bytes it loaded, kept
or not. The xor, rotate, multiply of a lane is the same for every file and is left out: the digest depends on nothing else.

- A machine is a record: cgo or not, 128-bit products or not, `RAPIDHASH_UNROLLED`, oneshot reads of tails, byte order,
  and `T1HA_SYS_UNALIGNED_ACCESS`. The address of the file and the page size decide `can_read_underside`.
- `Loop`/`Finish` are `T1HA1_BODY` and `T1HA2_LOOP`/`_TAIL_*`; `t1ha2_update(n)` is one call with a piece, with everything
  it does to the buffer (`t1ha2_absorb`); `t1ha2_final` passes the length through the buffer as eight bytes more.
- `Round`, `UnrolledRound`, `Rest` are the loops and nested ifs of the rapidhash kernels, `wyhash*` and `go*` those of the others. `at` and `rest`
  are their `p` and `i`.
- `Return` is the last mix. One multiplication of any two words stands for all; `Product` has `H`, the base of a half word, as
  constant, 2^32 in the code.

A library's digest (crypto, xxhash, highwayhash, and the stand-ins of builds without cgo) is one step. The variants of rapidhash
and the streaming t1ha2 are compiled but not called by `hashFile`; they are entry points of the same files and are entered as calls of their own.

## 3. Runs

| Run | Question | Bounds |
|---|---|---|
| `generate_pool` | Is each file handled once, the writer exclusive, the last count exact; does a run end; does one endless file hold up the others? | 4 files (one fails, one never ends), 2 workers, 2 runs, full disk, kills |
| `generate_text` | What do crashes cost and what do they leave true, in text? | 3 files, 2 workers, flush every 2 lines, buffer of a line and a half, 3 runs, kills and power loss, a folder that grows |
| `generate_json` | The same in JSONL; does the run after a tear leave a whole list, and the run after that one every file's entry? | the same |
| `generate_resume` | *violated:* does a resumed run that ends without error leave an entry for every file? | 2 runs, kills |
| `generate_full` | *violated:* does a run without error write every file? | 1 run, full disk |
| `verify_pool` | Conservation of verdicts, no send on a closed channel, ordered reads, one line per entry, and `Audit` as a property, with liveness | 2 workers, every list of at most 2 entries and shapes of 3 |
| `resolve_found` | Exactly which files are found, for each way to name the folder | 7 places (the root is one), 4 working directories, 19 arguments, all folders of one or two files |
| `resolve_absolute`, `resolve_same` | *violated:* what README.md:46-51 says of absolute paths and common prefixes; both leave out names with a backslash, which the reader changes for another reason | the same |
| `filehash_reads` | Does each kernel mix in the same words of a file on every machine, read nothing it may not, and never stand still before it returns (deadlock is checked)? | files of 0 to 245 bytes and some longer for rapidhash and wyhash, 0 to 100 for t1ha and the stubs, at up to 8 addresses around the border of a page, 11 machines for tails and 8 for products and loops, streams of up to 71 bytes in pieces of 1, 5, 8, 31, 32, 33 and 64, half words of base 4 |
| `filehash_stub` | *violated:* does `Sum128` compute t1ha2 in every build? | files of 0 to 40 bytes, with and without cgo |
| `blake3_pieces` | Is the digest that of the whole file whatever the pieces; are the stack and the arrays never overrun? | 138 bytes in chunks of 8 and blocks of 2: 17 chunks and a bit, pieces of every size |

Why the bounds are enough: two workers are the least that interleave, and the code
distinguishes no worker from another (symmetry is used where no liveness is checked). With a flush
every two lines and a buffer of 6 units (a line and a half), three files give a flush in the
middle, a spill that splits a line, and a final flush of a remainder. Three runs give a torn list, the run that
glues a line to it, and the run that reads the result. `MaxRuns` and `MaxLen` are the only bounds
on counters. Seventeen chunks are the least that make a degree-4 kernel recurse twice and the stack hold five CVs. A word has 30 bits
in `blake3_pieces`, as many as TLC's integers hold; the proof is for every size.
For `FileHash`, lengths go beyond two unrolled rounds (224 bytes) with every rest, and for t1ha through every
rest of 32 after zero to three blocks; the code distinguishes no later round from an earlier one. Addresses lie just before, on and
after the border of a page, aligned and not. The operands wrap either sum of a product, both, or none
(the proof is for every base and all words). The big-endian machine with efficient access and without oneshot reads is left out: that configuration
does not compile (`fetch32_be` at `t1ha_bits.h:938` is defined nowhere).

### What the violated runs show

- **A resumed run can miss files** (`generate_resume`). The list is opened with
  `O_APPEND`; after a kill inside a write the next line continues the torn one. In
  text the torn name counts as processed and is never repaired; in JSONL the
  second clean run repairs it (`SecondRunRepairs`): the first ends the list in a newline again, unless it appends
  nothing, and a run on such a list finds what is missing.
- **A run whose disk is full succeeds** (`generate_full`): errors of `WriteString`, `Flush` and
  `Sync` are dropped (178-184, 210-212) and the run returns nil.
- **Absolute Unix paths are used as they are** (`resolve_absolute`, 292-295), whatever `-dir` says.
- **Only one name is trimmed** (`resolve_same`, 301): a list made with `-dir p/p` holds
  `p/p/x`, of which `p/x` is left, and the same command line with `-verify` looks for `p/p/p/x`.

- **t1ha2 without cgo is not t1ha2** (`filehash_stub`): `t1ha_stub.go:17` promises it, the code runs t1ha1 with two seeds.

### Fairness

`FairSpec` of `Generate` and `Verify` is weak fairness of each goroutine: the Go scheduler runs
every goroutine that can run. The mutex and the channel may favour a goroutine, but the
number of lines (entries) is finite, so nobody is kept out for ever and strong fairness is not
needed. Nothing is assumed of the environment: kills, failing writes and further
runs may or may not happen, and a file in `Endless` is never done.
`FileHash` is sequential and has no fairness: every step of a loop takes bytes off what is left, so what could keep a call from
returning is a state without a step, and TLC, which stops at a deadlock, finds none but the end (`Returned`).

## 4. Proofs

All theorems hold for every value of the constants under the named assumptions
of the modules (finite non-empty pool, buffer of at least a line, sets of the right kind), each evaluated by
TLC on the instances.

`GenerateProofs`
- `TypeCorrect` and `WriterIsExclusive` share the inductive invariant `WriterInv`, `TypeOK /\ WriterExclusive`.
  Neither is inductive by itself: that what a spill leaves in `buf` is a sequence of units needs that the
  buffer is over its capacity then, which needs that only the owner of `mu` writes, which needs the types of
  `pc` and `mu`.
  It is proved once per kind of step (`MoveTypes`, `MoveExclusive`, `AcceptInv`,
  `WriteFailsTypes`, `CriticalMove`) and cited by every action.
- `FilesOnce` and `CountIsFinal` share `PoolInv`: `WriterInv`, `EachFileOnce`, nothing waits once main
  is past its sends, and `processedCount` is the number of files that neither wait nor are held (the count alone
  says nothing of the step before). `KeepsFile` and `SettlesFile` say what a step that moves a file on does to the
  partition; `SendPool` and `CountPool` are the two steps that move the count.

`ListProofs` is about the two readers of a list, for lists of any length, torn and glued ones included. Two results carry the
rest: the entries of the whole lines of a list stay what they are whatever follows (`WholeLinesKept`), and a line appended to a list
brings at most one entry, at the place where the whole lines ended, which is the appended one exactly if the list
ended in a newline (`AppendedEntries`). `EntryEnd` and `TornEntry` say what a last line without a newline is read as: the entry of a
whole line, one more that was torn inside its path, or none. A line's end is the least place that is followed by a newline or nothing, so the proofs go by
least elements and not by induction over the sequence.

`RecoveryProofs` puts them to use. `Whole` is the list as it will be once what is buffered is written. `WholeSteps` says that every step of the program
or its environment begins a run, appends one line to `Whole`, keeps it, or cuts it; and one that cuts it leaves no process
that would write on.
- `DurableEntries`: what was synced is a beginning of what is synced after any step (`SyncedKept`), so its whole lines are kept.
- `EntriesAreTrue`: `TrueInv` adds that while a process lives `Whole` ends in a newline, unless some run was given a torn list.
- `NoDuplicates`: `OnceInv` says of every beginning of `Whole`, since a crash may leave any, that its entries name no file twice but
  for one case (`Sole`): the last line of a text list, torn inside its path, may be an entry of another file (`data` of `data.txt`), which
  verify reads and counts as it does any last line without a newline. It adds that a file which still waits for its line has
  no entry. A tear keeps the entries of the lines above it (`CutLine`), and a line appended to a torn one gives an entry of its own file,
  or of none (`AppendsOnce`).
- `CleanRunsComplete`: `CompleteInv` says that every line `WriteString` has taken is an entry of `Whole`; a run that ends with nothing in
  the buffer has `Whole = disk`, and by `EachFileOnce` no file is left over.
- `TearIsRepaired`: `MendInv` says that a run which has taken a line leaves `Whole` ending in a newline, torn list or not; `RepairInv` says
  that in JSONL the files found and not to be hashed are recorded in `Whole`, until a line is glued to a tear. There an entry is whole or
  none, so what is listed is recorded (`JsonTrue`); in text it is not. With `CompleteInv` for the files to be hashed this is `SecondRunRepairs`.
- `LossIsBounded`: `LossInv` says that what is accepted and not marked unsynced is on the medium, and that outside a flush no more lines
  are unsynced than `lineCount % FlushInterval`, which comes round exactly when the flush is due.

`VerifyProofs`
- `NeverPanics`: `EndOrder` orders the ends (all workers before `close(results)`, before the collector's
  end, before `<-done`), and says that none starts before the map is made.
- `MapInv`: a file the map has was given the hash of the latest of the entries prepared that are about it. So, once all are prepared,
  what a worker makes of an entry is its `Status` (`JudgesRightly`).
- `VerdictsAreConserved`, `ReadsFollowCounts`, `ProgressIsFinal` follow from `AuditInv`, the conjunction of types,
  end order, `MapInv`, `VerdictsConserved` and the count of finished workers. `VerdictsConserved` is inductive only with the types of the
  channel, since a verdict moves from a hand to the channel to the counters.
- `LinesArePrinted`: `PrintedInv` gives the lines of an entry at any moment, the error line once its worker is past the hash and the collector's
  line once it is counted; at the end every entry is counted.
- `VerifyImplementsAudit`: each step maps to `Judge`, `Publish` or a stutter, under the mapping
  `judged <- counted`. The liveness part of `Audit!Spec` is checked by TLC only.

`PathResolveProofs`: `PathInv` says that the list spells the files by some argument of a scan, which said where the folder was,
and that verify has resolved these spellings. What remains is about paths of any length:
- `JoinNames` and `FlattenNames`: names that follow a path stay behind what is made of it, in a join and in the replacement of
  backslashes. Both are recursive functions; that they exist, and what they give part by part, is shown by `UpTo` (below).
- `BareSpelling`: so what the reader leaves of a listed path is what it leaves of the argument (`Bare`) and then the file.
- Trimming concerns the first name only (`TrimNames`), which is the file's own exactly if `Bare` is empty (`DotResolved`); otherwise every
  file follows one and the same path (`MoreResolved`), which is the folder's if `Bare` is the folder's name (`NameResolved`).

`AbsoluteAlwaysFound`, `DotAlwaysFound`, `NameAlwaysFound` and `FilesAlwaysApart` follow by the case of the argument. The proof settled what the
four properties must leave out: backslashes in the argument as well as in the file, and for `FilesApart` every argument of which
nothing is left, a lone drive (`-dir H:\`) as well as `.`; both are now in the instance that TLC checks.

`WordsProofs`: `FetchRight`, `ReadRight` and `TailRight` say that a reader gives the number of exactly the bytes it is
asked for, on a machine of any byte order and access, at any page offset, for any tail. They go by the place in the word, and
for `Joined` and the switches by the cases of the size. `HalvesProductExact` and `CarriesProductExact` say of both ways to put
a product together that they give its low and its high word, for a half word of any base. The argument is that no intermediate sum
wraps more than once, so that each comparison finds its carry, and that the high word, being below `W`, is not changed by the last `% W`.

`FileHashProofs`
- `TypeCorrect`: `TypeOK` with what each program counter says of `rest` (`Exact`), since a subtraction stays a natural number only
  because a guard of an earlier step has bounded it.
- `ProductAlwaysExact` follows from `HalvesProductExact`, `CarriesProductExact` and the types of the operands. The half words are those of
  compilers without 128-bit integers: the sources hold them, but the cgo files are built for amd64 and arm64 only, whose compilers have them, so no
  released build takes that branch; `ProductExact` is about the code as it stands.
- `ReadsAlwaysInside` needs that the bytes loaded so far are those before the pointer (`Loaded`): only then do the last words,
  which begin before what is left, close the gap and open none.
- `ReadsAlwaysAllowed` needs that the pointer of an aligned file stays aligned, that a word of eight bytes which begins in a
  page at eight bytes or more reaches back into the same page (`OnePage`), and that pages are ordered as their bytes (`PageOrder`).
- `LengthAlwaysKept` needs what `rest` does not tell once it is small: at the head of its loop rapidhash has taken two words for
  each 16 bytes it has passed, and the others have mixed the length in before they leave theirs (`LengthInv`).
- `WordsAlwaysInPlace`: `WordsInv` says what the words are at the head of each loop. For t1ha in memory they are those of the whole blocks
  before the pointer (`InMemory`); for a stream those of the whole blocks of what was given, and the buffer holds the bytes
  after them (`InStream`, kept by `t1ha2_absorb` however the piece falls: `Absorbed`); for rapidhash and wyhash those of the pairs
  before the pointer, in whole rounds while rounds are left (`InFold`). That `FoldedWords` names the lane of each word by its number alone
  needs that the pointer stands at a multiple of the round: then one round, two unrolled ones (`TwoRounds`) and a single pair
  each add the words that belong there. `FetchRight`, `TailRight` and `ReadRight` turn each reader into the number it
  should give; a block read through the buffer is the block of the file, as the buffer holds consecutive bytes (`BufferedBlock`).
- `EveryByteAlwaysRead` adds files of up to 16 bytes (`ShortInv`), whose words overlap: the rows that `WordsAlwaysInPlace` gives cover
  the file (`T1haReads`, `FoldedReads`), and the half words of the short cases do so for each length (`ShortReads`).

`Blake3Proofs`: the hasher computes BLAKE3, `DigestAlwaysBlake3`, for files of any length, pieces of any size and every machine. The
steps, from the bottom up:
- A chunk state that was given `n` bytes of chunk `c` is `Holding(c, n)`, however they came (`ChunkUpdateIs`); its output is the
  node of that chunk by definition (`ChunkOutputIs`).
- `compress_subtree_wide`, given `2^k` chunks, returns a row of nodes of one size (`WideRow`, by induction over `k`): for each
  degree the halves meet without a gap (`JoinHalves`), and the row is as wide as `Width` says, at least two and no more than the
  degree (`WidthIs`). Merging pairs keeps it a row, so `compress_subtree_to_parent_node` ends with the two halves of the subtree
  (`SubtreeToParentNodeIs`). `SubtreesAlwaysFit` follows.
- `Stacked` is what the stack looks like: full subtrees one after the other, each at a multiple of its size, and what is above one never larger than
  it. From that alone, the sizes are the binary digits of the chunk count, but for the top two, which may be equal (`StackedSettled`):
  merging down to `popcnt` merges exactly a pair of siblings (`MergeCvStackIs`), and a subtree that the count is a multiple of
  may be pushed (`PushOne`, `PushTwo`). `StackAlwaysFits` is a corollary: the sizes at least halve upwards, but for the top one.
- `IInv`: the chunk is `Holding(c, r)`, the stack is `Stacked` for `c` chunks, and what was fed is `c` chunks, `r` bytes and what is left of the piece;
  idle with `r > 0` the stack is merged, and with `r = 0` it has two CVs or none. The last two are `AlwaysReadyToFinalize`.
- In such a state the bytes above any CV of the stack are at most as many as it covers, so the definition of the tree is cut where it ends
  (`TreeCut`), and the way up through the stack meets the nodes of the tree one by one (`ClimbIs`).

An induction over a number (chunks, `k`, the height of the stack) is done by the set of the numbers a fact holds of, which has
no least element missing (`UpTo`, from the well-foundedness of the naturals); that a recursive function exists is shown the same way.

Only model-checked: liveness (`RunEnds`, `OthersHandled` and what `Audit` promises of Verify's progress), which needs
fairness and ENABLED. Every invariant of a passing run is a theorem.

## 5. Not modelled

- File names with newlines or invalid UTF-8 and lines over bufio.Scanner's limit: names
  are atomic and lines have no length.
- A failing `fsync`; a list that lies in the folder it lists; two processes on one list.
- The progress ticker, which reads an atomic counter and prints.
- The mode without `-list`: the same pool, with no state that survives.
- The arithmetic of the lanes (xor, rotate, add, a round of BLAKE3): straight-line code over 64-bit or 32-bit words that no state of the program changes.
  Test vectors check it; TLC cannot.
- The self check of t1ha (`t1ha_selfcheck.h`), the 128-bit helpers of `t1ha_bits.h:1111-1254`, `rapidhash` protected and wyhash 32-bit
  products, wyhash's `wyrand` and `make_secret`, BLAKE3's keyed, key-derivation and extended output: no build of the program calls them.
- Digests of libraries, and so whether two implementations of one standard hash agree.
- `cpu_opt.go`: `useWyhashC` and `useRapidhashC` are set and never read; `useStdSHA256` and `useBlake3C` choose between implementations of one standard hash.
- The command line: sequential parsing with an early exit on a bad key; the flags are the inputs of the other modules.

## 6. Plan

Done, in order of importance: `ListFile`, `Generate`, `Verify`/`Audit`, `PathResolve`, `Blake3`, then `Product`, `Words`, `HashCall`,
`T1ha`, `RapidWy` and `FileHash`, and the proofs above. Left for whoever goes on:

1. A list that lies in the folder it lists, with a length for its lines.
2. `hashFile` reading in pieces with an error in the middle, composed with `Blake3`.
