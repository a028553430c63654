# TLA+ models of the TernFS shard state machine

These modules model the metadata state machine of one TernFS shard,
`ShardDBImpl` in `src/cpp/shard/ShardDB.cpp`, and check it with TLC.

## The system

A shard stores files, transient (still being written) files, spans,
directories and edges in RocksDB column families. Every mutation goes
through two steps:

1. `prepareLogEntry` turns a client request into a log entry. It stamps the
   entry with the current time, and for `AddSpanInitiate` it picks block
   services, one per failure domain. It reads a snapshot that may lag
   applied entries.
2. The log is replicated outside this code. `applyLogEntry` then applies
   entries one at a time, under a mutex, into a `WriteBatch`. A handler that
   returns an error rolls back to a savepoint, but the log index still
   advances. Handlers read the committed database, never their own batch.

### The span lifecycle

A transient file's tail span has a state: CLEAN, DIRTY or CONDEMNED.

* **Adding a blocked span.** `AddSpanInitiate` appends a DIRTY span. It
  allocates block ids and hands out write certificates. The client writes
  the blocks to the block services. `AddSpanCertify` checks one add proof
  per block and makes the tail CLEAN.
* **Removing a blocked span.** `RemoveSpanInitiate` condemns the tail and
  hands out erase certificates. `RemoveSpanCertify` checks delete proofs,
  deletes the span and shrinks the file.
* **Inline spans** are added and removed in one step.
* **Other file steps.** `LinkFile` turns a CLEAN transient file into a
  file. `MakeFileTransient` turns it back. `ScrapTransientFile` and the
  deadline let GC collect abandoned files, and `RemoveFileInode` deletes
  them.
* **Exchanges between files** (defragmentation and migration). `SwapBlocks`,
  `SwapSpans`, `MoveSpan` and `AddSpanLocation` move blocks or whole spans
  between files.

Every block movement adjusts the `blockServicesToFiles` column family, a
per-block-service, per-file count kept by an Int64Add merge operator.
`RemoveZeroBlockServiceFiles` deletes the keys whose count is zero.

### Directories and edges

A directory has an owner (the directory it is linked from) and an mtime.
Clearing the owner makes it a *snapshot directory*. An edge is current
(one per name, possibly locked by the cross-shard coordinator) or a
snapshot edge keyed by its creation time. Overwriting or unlinking a
current edge turns it into a snapshot edge at its creation time, and an
unlink adds a deletion marker (target NULL) at the entry time. Every
directory-affecting handler first runs `_initiateDirectoryModification`:
the directory must exist (and, for current-edge changes, not be a snapshot
directory) and its mtime must be older than the entry time; the mtime then
becomes the entry time.

### Log application and reads

`applyLogEntry` runs under a mutex. It puts the new index into a batch
(asserting it is one past the committed one), sets a savepoint, runs the
handler, rolls back to the savepoint if the handler failed, and writes the
batch atomically. Reads run on other threads against a RocksDB snapshot
held in an atomic shared pointer. Only `flush(sync)` replaces it, after
`FlushWAL`, and it does so without the apply lock. After a crash RocksDB
reopens at the last flushed WAL plus a prefix of what was written after
it, and the caller (outside this code) resumes from `lastAppliedLogEntry()`.

### The Bincode codec

`Bincode.hpp` serialises what crosses a process boundary, with `BincodeBuf`
as a cursor over a byte buffer. Packing asserts that the buffer has room
(`ensureSizeOrPanic`), so a `packedSize` that under-counts aborts the
process. Unpacking throws a `BincodeException` when a length prefix claims
more bytes than remain. The shard's own use is its log records:
`ShardLogEntry::pack` writes the u32 protocol version, the index, the time
and the body. `ShardLogEntry::unpack` *asserts* the version, aborting where
a message decoder would throw.

## Modules

| module | models |
|---|---|
| `ShardSpans` | The span, transient-file and block-accounting handlers: one action per `_apply*` handler, with the block services as environment. |
| `MCShardSpans` | The TLC instance: failure domains and the symmetry set. |
| `ShardEdges` | The directories and edges column families: every directory and edge handler, the file side of LinkFile, SameShardHardFileUnlink and the edge GC handlers. |
| `MCShardEdges` | The TLC instance: the symmetry set of names and files. |
| `ShardLog` | The abstract promise of log application: each entry applied once, in order, atomically; a failed entry only advances the index; a crash loses applied entries past the durable prefix. |
| `ShardApply` | applyLogEntry, flush and the read snapshot, read(), the constructor, and a crash that recovers a prefix of the write-ahead log. It is shown to implement `ShardLog` with INSTANCE ... WITH. |
| `MCShardApply` | The TLC instance of ShardApply: two entry bodies at the edges of the encoding. |
| `Bincode` | BincodeBuf's pack and unpack primitives for scalars, bytes and integral lists, as pure operators over byte sequences. ShardApply EXTENDS it for its log records. |
| `ShardReadDir` | `_readDir`'s name-hash paging and `_fullReadDir`'s cursor paging (whole directory or one name, forwards or backwards), as RECURSIVE operators checked against reference pages, and a client listing a directory page by page while its edges change. |
| `MCShardReadDir` | The TLC instance of ShardReadDir. |

### State

| ShardSpans variable | in the code |
|---|---|
| `transient` | transientFiles CF |
| `files` | files CF |
| `spans` | spans CF, as file → offset → span |
| `bs2f` | blockServicesToFiles; NULL is a deleted key, which reads as 0 |
| `nextBlockId` | NEXT_BLOCK_ID_KEY, in units of 0x100 |
| `usedFileIds` | stands for NEXT_FILE_ID_KEY: the set of ids already handed out |

The environment has four more variables:

* `writeCerts` and `eraseCerts` hold the certificates the shard has issued.
* `written` and `erased` hold what the block services have done.
* `clock` is the newest entry time applied.
* `halted` records that an `ALWAYS_ASSERT` aborted the process.

| ShardEdges variable | in the code |
|---|---|
| `directories` | directories CF: dir → [owner, mtime], NULL when absent; owner NULL_INODE is a snapshot directory |
| `current` | edges CF with current = true: ⟨dir, name⟩ → [target, ct, locked] |
| `snapshot` | edges CF with current = false: ⟨dir, name, creation time⟩ → [target, owned]; target NULL_INODE is a deletion marker |
| `fileState` | where a local file id is: NONE, TRANSIENT (transientFiles CF), LINKED (files CF) or GONE |
| `clock`, `halted` | as in ShardSpans |
| `undefinedRead` | SameShardHardFileUnlink went on past a failed directory lookup |

| ShardApply variable | in the code |
|---|---|
| `log`, `callerNext` | the replicated log and the caller's next index (outside src) |
| `lastApplied`, `data` | LAST_APPLIED_LOG_ENTRY_KEY and the rest of the committed database |
| `wal` | the batches written since the last `FlushWAL`, each with the state it leaves |
| `durIndex`, `durData` | the database as of the last `FlushWAL` |
| `snap` | `_currentReadSnapshot`, as the index and data it shows |
| `flushing` | the index `FlushWAL` covered while `flush()` is between it and `_updateCurrentReadSnapshot`, else NULL |
| `flushedThrough` | auxiliary: the index the last completed `flush()` covered, for `ReadSeesFlushedApplies` |
| `up`, `crashes` | the process is running; crashes so far, bounded by `MaxCrashes` |
| `lastRead` | what the last `read()` returned, and `lastApplied` when it began |

### Actions

Each handler action is the handler's whole success path.

* Its guard is the handler's early returns.
* Its effect includes the `_initiateTransientFileModification` mtime and
  deadline bump, every `_addBlockServicesToFiles` merge, and the span and
  file puts.
* Idempotent NO_ERROR retry paths are separate disjuncts (`TouchTransient`)
  that persist only the mtime bump.
* An error path writes nothing except the log index, so it is a stutter.
* An `ALWAYS_ASSERT` on the apply path is `Abort`. It sets `halted` and
  stops every later entry. The entry is already in the log, so replay would
  abort again.

Entry times come from `EntryTimes`, which may lag `clock` by `Skew`. This
models leader changes and the non-monotonic time that `applyLogEntry`'s
TODO mentions.

`BlockServiceWrite` and `BlockServiceErase` are the block services. They
act on any certificate issued and not yet used, at any time.

In ShardEdges, each handler action again covers the whole handler. This
includes `_initiateDirectoryModification` (`DirModOk` and `DirMod`), the
snapshot-edge kick-out of `_createCurrentEdge` (`CreateEdgeSnap`) and both
puts of `_softUnlinkCurrentEdge`. A rename composes the unlink and the
creation over the committed state, as the handler does within one batch.
`SameShardHardFileUnlink` has three branches when the directory lookup
fails, because the code then reads an unassigned value (undefined
behaviour). It may go on as if the lookup had succeeded, it may go on
without the mtime bump, or the process may abort.

In ShardApply, `ApplyLogEntry` is the whole `applyLogEntry`:

* the index put (`AdvanceLastAppliedLogEntry`);
* the handler, abstracted to ShardLog's state-dependent success or failure;
* the rollback to the savepoint (`ApplyBatch`);
* the atomic write, which also appends the batch to `wal`.

`flush` is split into `FlushWAL` and `UpdateCurrentReadSnapshot`, because
applies can run between them. `Crash` keeps the flushed state plus any
prefix of `wal`. `Restart` is the constructor's snapshot, with the caller
resuming at `lastAppliedLogEntry() + 1`. `Read` returns the snapshot's
index and data.

In ShardReadDir:

* `Seek` is the iterator seek to the first current edge with hash ≥
  `startHash`.
* `Scan` is the loop over the iterator. It charges each edge to the budget
  and stops at the first overdraft. It then drops every edge of the
  overdrawing hash and returns that hash as `nextHash`, or 0 if the edges
  ran out.
* `ReadDirPageSpec` states the same page without a loop: the longest run of
  whole hash groups that fits the budget.
* An edge is ⟨current, name, creationTime⟩ (time 0 for a current edge),
  and its key ⟨current, hash, name, creationTime⟩ (`EdgeKey`), snapshot
  edges first. `size`, `FullSize` and `CursorExtra` are the packed sizes
  of `CurrentEdge`, `Edge` and the growing part of `FullReadDirCursor`:
  `EdgeStatic` plus a `BincodeBytes` name (length byte plus bytes).
* `FullAdd` is `_fullReadDirAdd`: append, then the limit check (clear the
  cursor, done), then the budget charge and, on overdraft, `PopBack`, the
  pop loop with its `prevCursorSize` bookkeeping. A record field `ub`
  marks a `back()` on an empty vector, which no run reaches.
* `FullReadDirNormal` is the seek to `StartKey` and the iteration over
  every edge in key order or its reverse (`NormalEdges`, with `TopHash`
  for ~0); `FullReadDirSameName` is the current-edge lookup and the
  snapshot loop over one name, in the code's order; `FullReadDir`
  dispatches on the flags. `FullPageSpec` states a whole-directory page
  without a loop: the longest run of edges that, with the cursor naming
  the first edge left out, fits the budget.
* `ClientReadDir` and `ClientFullReadDir` are the client loops, which are
  outside src: each sends the cursor the last page returned and stops at
  nextHash 0 or a cleared cursor. `target` remembers the name of a
  same-name listing. `CreateEdge`
  and `RemoveEdge` stand for the edge handlers that ShardEdges models,
  applied between two pages.
* The name hash function is not under src, so `hash` is any function from
  names to hashes, chosen at the start.

`PROJECT.json` "map" gives the source lines of every definition.

## Properties

| property | states |
|---|---|
| `TypeOK` | The types hold, and no file is both transient and linked. |
| `BlockCountsExact` | Every `blockServicesToFiles` count equals the number of blocks of that file on that service. This is the GC's reason to trust the table. |
| `SpansTileFile` | A transient file's spans tile `[0, size)` with no gap, overlap or span past the end. |
| `NoErasedBlockInLiveSpan` | No block a block service erased is still in a span that is not CONDEMNED. |
| `CertifiedBlocksWritten` | Every block of a span that reads CLEAN has been written. |
| `BlockIdsUnique` | No block id is in two places. |
| `NoAssertFailure` | No `ALWAYS_ASSERT` on the apply path fires. |
| ShardEdges `TypeOK` | The types of the directory and edge column families. |
| `CurrentEdgeNewest` | A name's current edge is newer than all its snapshot edges (deletion markers trail what they delete, spec §8.6). |
| `SnapshotDirsHaveNoCurrentEdges` | A snapshot directory has no current edges. RemoveDirectoryOwner refuses a directory that has them, and every handler that creates a current edge refuses snapshot directories. |
| `NoEdgesInMissingDir` | A removed directory has no edges of either kind left. |
| `UnlinkLeavesSnapshot` (action) | A current edge that is deleted or replaced leaves a snapshot edge with a real target at its creation time; the deletion marker never lands on it. |
| `SnapshotEdgesStable` (action) | A snapshot edge keeps its target, and owned only becomes not owned, which is what GC relies on when it reads the bit from a snapshot. |
| `DirMtimeMonotonic` (action) | Spec §8.2: a directory's mtime never decreases. |
| `NoUndefinedRead` | SameShardHardFileUnlink never reads the directory value a failed lookup left unassigned. |
| ShardApply `TypeOK` | The types, and that the caller's next index is within the log or one past it. |
| `AbsSpec` (refinement) | ShardApply implements ShardLog under `applied ← lastApplied, durable ← durIndex, state ← data`. Every committed state, and every state a crash recovers, is the log prefix applied in order with failed entries rolled back (`ApplyAll`, a RECURSIVE operator). |
| `ReadConsistent` | The data a read saw is the log prefix up to the index it reports. |
| `ReadSeesFlushedApplies` | Spec §5: a read that starts after a `flush()` completed reports at least the index that flush covered, even across a crash and restart in between. |
| `ReadsEventuallySeeLog` (liveness) | Every committed entry eventually becomes visible to reads, even after crashes. |
| `LogRecordsRoundTrip` | Every committed log record unpacks, with no exception, over-read or version abort, to the index it was committed at and to an entry. It consumes all its bytes and packs back to exactly them. The entry applied is the entry prepared. |
| `TornRecordsRejected` | Every truncation of a committed record is refused by `ShardLogEntry::unpack` with a `BincodeException`, never by reading past the end. |
| ShardReadDir `TypeOK` | The types; `startHash` is always a hash and `next` a valid cursor. |
| `PageMatchesSpec` | `_readDir`'s page is the reference page, for every directory content and start hash. |
| `FullPagesMatchSpec` | Every whole-directory FullReadDir page, in either direction, is the reference page: the pop loop charges each cursor exactly once and never pops an empty response. |
| `PagesFit` | Spec §4.3: every FullReadDir response, cursor included, fits the MTU budget. |
| `ListingComplete` | A finished listing names every edge it is after that existed throughout it. |
| `ListingNoDuplicates` | A listing never names an edge twice across its pages, while the directory changes between them. |
| `PagesAdvance` (action) | Every page but the last moves `startHash`, or the FullReadDir cursor in the listing's direction, strictly on, so a listing ends. |

## Runs

| run | cfg | shows |
|---|---|---|
| spans_lifecycle | `MCShardSpans_Lifecycle.cfg` | One file, three block services, two locations, inline and blocked spans, entry times lagging by 1. All six invariants hold; about 200k distinct states (after symmetry). |
| spans_exchange | `MCShardSpans_Exchange.cfg` | Two files exchanging blocks and spans, with MaxFileSize 1 and MaxBlockId 5, so two blocked spans can exist together. Counts, tiling, certification and NoAssertFailure hold; about 300k distinct states, under 2 minutes. |
| spans_stale_add_proof | `MCShardSpans_StaleProof.cfg` | Violation: an add proof for another block is accepted (finding V1). |
| spans_mid_span_location | `MCShardSpans_MidSpanLocation.cfg` | Violation: AddSpanLocation of a non-tail span breaks tiling (finding V2). |
| edges_dir_lifecycle | `MCShardEdges_DirLife.cfg` | The root and a subdirectory, one name, a remote file as the only target, MaxTime 5 and no lag. This is long enough for the sequence create → locked edge → moving unlock (which leaves snapshot edges) → owner removal → inode removal, as well as owner changes and edges in both directories. `TypeOK`, `CurrentEdgeNewest`, `SnapshotDirsHaveNoCurrentEdges` and `NoEdgesInMissingDir` hold (about 54k distinct states). |
| edges_names | `MCShardEdges_Names.cfg` | The root with two names, two local files and a remote one: renames, overrides, lock and unlock, unlinks and GC keep `CurrentEdgeNewest`, `UnlinkLeavesSnapshot` and `SnapshotEdgesStable` (about 62k distinct states). |
| edges_mtime_backwards | `MCShardEdges_MtimeBackwards.cfg` | Violation: CreateDirectoryInode sets the mtime back (finding V4). |
| edges_hard_unlink_dir_error | `MCShardEdges_HardUnlink.cfg` | Violation: SameShardHardFileUnlink reads an unassigned directory value (finding V5). |
| apply_recovery | `ShardApply_Recovery.cfg` | A log of four entries over two bodies, with up to two crashes that each keep any prefix of the unflushed WAL. The refinement, `ReadConsistent`, `ReadSeesFlushedApplies` and the liveness property hold. The log holds packed records, and `LogRecordsRoundTrip` and `TornRecordsRejected` hold. About 80k distinct states, under a minute. |
| readdir_paging | `ShardReadDir_Paging.cfg` | Three names over hashes 0 and 1, name lengths 1 and 2, one snapshot time, a budget of 7 and one edge change during a listing; ReadDir, whole-directory FullReadDir both ways and backwards same-name listings. The page, completeness, duplicate and progress properties hold (about 390k distinct states, under 2 minutes). |
| readdir_limit_mtu | `ShardReadDir_LimitMtu.cfg` | Violation: a FullReadDir response with a limit overflows the MTU budget (finding V6). |
| readdir_same_name_forwards | `ShardReadDir_SameName.cfg` | Violation: a forward same-name listing skips a snapshot edge (finding V7). |

Three constants select client or type behaviour that the code does not
pin down:

* `StaleAddProofs`: a client may send a proof for another block.
* `TailOnlyAddSpanLocation`: clients only move tail spans.
* `SpanEndIsSpanSize`: what `SpanBody::size()` returns. Its header is not
  under src.

The passing runs take the benign choice of each. The violation runs flip
the first two; no run flips the third, because whether it is a bug depends
on code this repository does not hold (see the hazard at line 3525:
`_fetchSpanState` is called with `byteOffset + span().size()` at lines
3277, 3525 and 3722, where the other sites use `spanSize()`).

### Findings

* **V1 (code bug).** `_applyAddSpanCertify` (line 3200) never compares a
  proof's block id with the block's id. `_applyRemoveSpanCertify` does
  (line 3418).
* **V2 (spec divergence).** `_applyAddSpanLocation` does not check that the
  span is the source's tail, which spec §4.5.6 requires. It then shrinks the
  source by the span's size. With more entry times this can reach the
  `ALWAYS_ASSERT` at line 2823; TLC did not reach that within these bounds.
* **V4 (spec divergence).** `_applyCreateDirectoryInode` (line 2344) looks
  the directory up with allowSnapshot false, so an existing snapshot
  directory reads as missing. It then writes the new owner and mtime = the
  entry time without the mtime check. With an entry time that lags, the
  mtime goes backwards. Spec §8.2 says it never decreases.
* **V5 (code bug).** `_applySameShardHardFileUnlink` ignores the error of
  `_initiateDirectoryModification` (line 2747) and calls
  `dir().hashMode()` on an ExternalValue that was only assigned on success
  (line 2748). An entry whose time is not after the directory's mtime
  reaches this. Every other caller returns on that error.
* **V6 (spec divergence).** `_fullReadDirAdd` returns as soon as the
  response holds `req.limit` entries (line 434), before the entry is
  charged to the budget, so the entry that reaches the limit is kept even
  when it overdraws it. Spec §4.3 budgets every response against the MTU.
  TLC's counterexample: two edges of 4 bytes, a budget of 7, limit 2.
  Without a limit `PagesFit` holds for every kind of listing.
* **V7 (code bug).** `_fullReadDirSameName<true>` looks the current edge up
  after its snapshot loop (line 532) also when that loop ended the
  response. The current edge, as large as the snapshot edge of the same
  name that overdrew the budget, overdraws it again, and the pop loop
  leaves the cursor naming the current edge. The next request returns the
  current edge and clears the cursor, so the snapshot edges in between are
  never listed. TLC's counterexample: one name with snapshot edges at
  times 1 and 2 and a current edge, 3 bytes each, budget 5: the listing
  returns the time-1 edge and the current edge only. After a limit break,
  the current edge is returned past the limit and the listing ends.

Spec §8.1 read literally (a read that starts after `applyLogEntry(i)`
returned reports at least *i*) does not hold: `read()` (line 1017) reads
through the snapshot that only `flush()` and the constructor replace, so a
read between an apply and the next flush reports less. Spec §5 qualifies
the guarantee by the snapshot refresh cadence, and that qualified form is
what `ReadSeesFlushedApplies` checks. Across a crash a read can also go
back from what an earlier read reported: the snapshot a flush swaps in holds
the applies made after its FlushWAL, and a crash may lose those until they
are replayed. It never goes back past what the last completed flush covered.

### Bounds

* **Sizes.** Sizes are in pages. MaxFileSize 2 allows a span behind the
  tail, which is where tiling, mid-span moves and SeekForPrev differ.
* **Block ids.** MaxBlockId must leave room for two generations of blocks,
  so that reuse would show.
* **Time.** `MaxTime` bounds the run length, because every transient step
  needs a fresh entry time (`mtime < t`).
* **Deadline.** `DeadlineInterval` is 1 or 2, so deadlines expire inside
  the bound.
* **Symmetry.** Files, block services and locations are model values under symmetry.
  That is sound because the code only compares them for equality: failure
  domains are one per service, and the file-id order matters to no modelled
  step.

* **Edges.** ShardEdges is checked in two instances, because two
  directories and two names together do not finish. edges_names has the
  root and two names, which is where renames and overrides interact;
  MaxTime 4 with Skew 1 gives lagging entry times, which is what the mtime
  and creation-time checks are about. edges_dir_lifecycle has the root, a
  subdirectory and one name, which is where owners, snapshot directories
  and removal interact. Removing a directory that ever had an edge takes
  five entries, each at a fresh time, so it needs MaxTime 5; with a local
  file and lagging times that does not finish in reasonable time, so this
  instance drops the local file and the lag (the local-file actions fire
  in edges_names).
* **Apply.** Four entries over two bodies make some applies fail (a repeated
  body), so the rollback matters. Two crashes let a recovered shard crash
  again before it has caught up.
* **Codec.** The version (258) and the entry time (70000) need more than
  one byte, so a byte-order or width mistake shows. The two bodies are:
  * a name holding a NUL and a 255 byte, with no ids;
  * an empty name with two ids, the second needing a third byte.

  Together they put an empty and a non-empty field of each kind at every
  cut point. TLC's integers are 32 bits, so u64 values are bounded below
  2^31, and unpacked u32/u64 fields stay as their bytes.

* **ReadDir.** Three names over two hashes make a collision, so a hash
  group can straddle a page boundary. ReadDir entries of 2 and 3 bytes
  against a budget of 7 give pages of one to three names. `GroupsFit` keeps every hash group within
  one page. The code needs that too: a larger group gives an empty page that
  repeats forever (see the hazard at line 392).
* **FullReadDir.** Three names with one snapshot time give up to six edges
  of 3 and 4 bytes, so a page holds one or two and a budget of 7 is
  overdrawn by less and by more than a cursor's name (which is when the
  pop loop's cursor charge decides the page). `EdgesFit` keeps one edge
  within a response, as names of at most 255 bytes keep it within an MTU.
  A second snapshot time, forward same-name listings and limits are in the
  violation runs, whose instances are small enough to add them; the
  passing instance with them does not finish within minutes. Without a
  limit `PagesFit` holds for all four kinds of listing over two names and
  two times.

### Fairness

ShardSpans and ShardEdges check safety only. Their runs do not check
deadlock (`CHECK_DEADLOCK FALSE`): the shard accepts an entry in every
state, so a state with no successor exists only at the time and id bounds.

`ReadsEventuallySeeLog` assumes weak fairness of `ApplyLogEntry`,
`FlushWAL`, `UpdateCurrentReadSnapshot` and `Restart`. The shard server
applies every committed entry and flushes periodically (spec §5: the
snapshot is "refreshed at well-defined flush points"). A crashed shard is
restarted. Reads and crashes get no fairness; crashes are bounded by
`MaxCrashes`, so every behaviour eventually stops crashing. The ShardApply
runs check deadlock: with the whole log applied and flushed, `FlushWAL`
and `Read` stay enabled.

## Abstractions

* **Block contents.** A block has the span's size and crc (mirrored data,
  D = 1). Block CRC checks reduce to comparing span CRCs.
* **Codec.** Each buffer records whether an exception was thrown, a read
  went past the end (undefined behaviour in the code) or an assertion
  aborted. Each operator leaves a failed buffer alone, as the throw or
  abort does. A log entry's body (the generated `ShardLogEntryContainer`)
  is a kind byte, a `BincodeBytes` name and a `BincodeList<uint64_t>`: the
  shapes the handlers' bodies are built from. ShardApply tabulates
  `ShardLogEntry::pack` and `unpack`, and the two record properties, over
  the records the log can hold (`Records`, `Unpacked`, `RoundTripTable`,
  `TornTable`). These are constants that TLC computes once. Evaluating the
  decoder per state under the fairness conditions is otherwise very slow.
* **MACs and certificates** are sets of issued certificates and performed
  writes or erases.
* **RemoveZeroBlockServiceFiles** sweeps every zero key at once. The code
  pages through them; the result is the same, because a page only deletes
  keys that read as zero.
* **Placements** is any injective choice over distinct failure domains. It
  covers any choice a stale snapshot could lead to.
* **Edge key order.** Within a directory, snapshot edges are taken to sort
  before current edges. The header that encodes `EdgeKey` is not under src,
  but the code's iteration bounds need this order. `_readDir` bounds at
  ⟨dir+1, snapshot⟩ yet asserts every key is current, and
  `_fullReadDirNormal` bounds backwards at ⟨dir−1, current⟩. Spec §3 states
  the opposite order. Under that order RemoveDirectoryInode's seek from
  ⟨d, snapshot⟩ would miss current edges.
* **Edges.** Name hashes are taken to be collision free, so a name is its
  own key. A file body is reduced to where its id lives. The root is never
  an edge target or another directory's owner, and a directory never owns
  itself; the coordinator that sends those entries never does either.
* **Handlers in ShardApply** are one abstract handler whose success depends
  on the state (a body already applied fails). The other modules model the
  real handlers; ShardApply is about the index, the batch, the WAL and the
  snapshot around them.
* **WAL recovery** keeps the last flushed state plus any prefix of the later
  batches. That is RocksDB's point-in-time recovery, whose code is not under
  src.

## Not modelled (yet), and the plan

1. **Composition.** ShardEdges and ShardSpans share `LinkFile`,
   `MakeFileTransient` and `RemoveFileInode`, and each reduces the other's
   side to a file state. A module that joins them through those actions is
   planned.
2. **FileSpans paging and the other read handlers.** FileSpans pages with
   a byte offset, much like ReadDir. The stat, lookup and visit handlers
   change no state and only read single keys or ranges. `_fullReadDir`'s
   `ALWAYS_ASSERT`s on malformed cursors (line 592) are a hazard; the model
   only sends the valid cursors the client builds.
3. **AddInlineSpan's empty-body acknowledgement** (line 2927). It needs a
   history of acknowledged spans.
4. **Request preparation.** Only what shapes entries (times, placements) is
   modelled. The `ALWAYS_ASSERT`s reachable from client requests (lines
   1222 and 1704) are listed as hazards.
5. **The rest of the codec.** Not modelled:
   * `ProtocolMessage` and `SignedProtocolMessage` framing (version, id,
     trailing-byte check, CBC-MAC), which nothing under src calls: the
     servers that send messages are outside this repository;
   * fixed bytes, lists of non-integral elements and `varU61Size`, which
     the log path does not use;
   * `BincodeBytes`' inline small-string storage and printing.

   Two behaviours are hazards without a run:
   * `unpackList` resizes to the received count before checking the
     remaining bytes (`Bincode.hpp:375`);
   * `ShardLogEntry::unpack` asserts the protocol version. A record of
     another version would abort every replay. The model's log holds only
     this build's records.
6. **Block certificates' byte layout** (`_blockWriteCertificate` and the
   proof checks, lines 3092-3145). The layout could now be packed with
   `Bincode`. The 32-byte buffers differ by their tag byte ('w', 'W', 'e',
   'E'), so no certificate is ever also a proof. ShardSpans keeps proofs
   as sets of issued certificates.
