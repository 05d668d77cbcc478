# A TLA+ development of orc

orc is an embeddable time-series storage engine: records are appended to a
write-ahead log, and a periodic flush sorts and deduplicates them into hourly
Parquet files. This directory models the parts of it where order, failure and
concurrency decide whether it is right. Paths below are relative to `src/src/`.

## The system and its parts

| Part | State | Operations | What makes it hard |
|---|---|---|---|
| Engine (`engine.rs`) | manifest in memory, failure count, stop flag | open, append, flush, close | startup after any crash; flush beside appends and rolls |
| Flush planner (`flush/planner.rs`) | `tmp/`, `series/`, consumed segments | run, promote, sweep, delete | a commit point between staged and published files; every call can fail |
| Manifest (`manifest.rs`) | watermark, schema history | load, reconcile, commit | rename visible before it is durable |
| Recovery (`wal/recovery.rs`) | `wal/`, tail | recover | only the tail is scanned |
| WAL writer (`wal/writer.rs`) | active segment, buffer, counters | append, seal, close, committer thread | fsync outside the lock; torn writes; failed rolls |
| Directory lock (`wal/recovery.rs`) | LOCK file, its age | acquire, heartbeat, drop | separate system calls, stale locks, kill -9 |
| Merge (`flush/merge.rs`) | batch, runs, heap | push, spill, merge, merge_bounded | which duplicate survives; bounded fan-in |
| Schema epochs (`manifest.rs`, `engine.rs`) | layouts by epoch | reconcile, stamp, decode | frames outlive configurations |
| Client and server (`client.rs`, `server.rs`) | buffer, queues, limits | send, flush, control, poll, drain | silent drops, restarts, floods |
| Codec and segment reader (`codec.rs`, `wal/reader.rs`) | a segment's bytes, the reader's place | encode, validate, decode, scan_tail, next_frame | a torn, damaged or undecodable frame among good ones; limits that change |
| Parquet writer (`flush/parquet.rs`) | column builders, row groups | append, cut, close | values found by definition and repetition levels across row groups |
| Views, civil time (`flush/view.rs`, `time.rs`) | `view.sql` | view_sql, hour_partition | files of all epochs in one view; leap days |
| Configuration, errors, programs (`config.rs`, `error.rs`, `bin/`) | none | | see "Not modelled" |

An `append` encodes a frame into the writer's active segment. The committer
thread fsyncs it, rolls full segments and refreshes the lock. The flush seals
the active segment, decodes the sealed ones above the watermark, merges, stages
one file per partition in `tmp/`, commits the raised watermark in the manifest,
renames the files into `series/` and deletes the segments. Startup takes the
lock, loads the manifest, mints epochs, sweeps `tmp/` and `series/`, deletes
flushed segments, amends the tail, and opens the writer.

## Modules

| Module | Models | Role |
|---|---|---|
| `FlushEngine` | engine, planner, recovery, manifest watermark | core; proved about |
| `Ledger` | what the engine promises about a record | abstract specification of `FlushEngine` |
| `FlushEngineLemmas`, `FlushEngineProofs` | | proofs |
| `WalWriter` | writer, committer thread, reopening | detailed log; proved about |
| `Log` | what the log promises | abstract specification of `WalWriter` |
| `WalWriterLemmas`, `WalWriterProofs`, `WalLogProofs` | | proofs |
| `DirLock`, `DirLockProofs` | directory lock | model and proof |
| `Codec`, `Extra` | frames, segment headers, the order of extra pairs | functions |
| `Segment` | one segment's life: ingest, stops, damage, tail scan, flush, reject sink | over `Codec` |
| `Columns` | columns, levels and row groups of a Parquet file | functions |
| `Calendar` | civil dates and hour directories | functions |
| `MergeRuns` | sort, spill, heap, bounded merge, hour split | over `Columns` and `Calendar` |
| `Schema`, `SchemaProofs` | epochs, reconcile, stamping, decoding, views | model and proof |
| `Ingest`, `IngestProofs` | client, server, PUSH/PULL and REQ/REP | two processes and two queues; proof |
| `MCFlushEngine`, `MCMergeRuns`, `MCSchema`, `MCSegment`, `MCIngest` | | instances for TLC |

How they fit: `WalWriter` opens the box that `FlushEngine` treats as "a record
is buffered or fsynced, a roll succeeds or fails"; `Segment` opens what it
treats as "the segment is readable, and these records are bad". `MergeRuns`
opens the step `Stage`, where `FlushEngine` only says which records a file
holds, and `Columns` the writing of that file. `Schema` opens the decoding of a
frame. `DirLock` justifies that `FlushEngine` has one process. `Ingest` ends
where a record reaches `Engine::append_raw`, whose treatment of a batch's frames
is in `Segment`.

### FlushEngine

`files`, `content`, `hdr` are the segments in `wal/`, their records and the state
of their headers (`ok`, `short`, `bad`, `foreign`); `aside` what each
`<id>.wal.corrupt` holds; `staged`, `stagedDur`, `series` the files in `tmp/` and
`series/`; `manifest`, `manifestDur`, `mem` the watermark on disk, the one a power
cut would leave, and the one in memory; `phase`, `pc`, `todo`, `consumed`, `out`
where the startup or the flush is. Each system call that changes the directory is
an action, so a crash (`Crash`), a power cut (`PowerCut`) or an error of the call
may fall between any two. Append, group commit and rolls interleave with all of
them. `Faults` names the calls that may fail, `MaxMishaps` bounds how often.

A rename or a removal is final only after an fsync of its directory. `loose`
(quarantined segments), `unlinked` (removed segments), `fresh` (published files),
`tmpGhosts` and `seriesGhosts` (removed or replaced files) are the updates no fsync
has covered: the process and its successors see them, a power cut undoes any of
them, each as a whole. The code leaves such updates behind where an fsync fails
after its rename (`quarantine_segment`, `promote`), where a crash falls between the
two, and where it makes none: the sweep's removals in `tmp/` and `series/`. A file
of `OutFile` is `stray` once a sweep meant to remove it and it is there all the
same. Bytes of segments are covered by `volatile`, staged files by `stagedDur`.

### WalWriter

One critical section per action; the group-commit fsync, made outside the lock,
has its own (`CommitterFlush`, `CommitterSync`, `CommitterMark`). A frame is two
units of bytes, so a write can stop in its middle, in the buffer, in the kernel
or on the disk. `Open` includes recovery's truncation of the tail.

### DirLock

`file` and `age` are the LOCK file, `pc` the place of each process in `acquire`,
in its life and in `Drop`, `unlinked` the processes about to write into a file
that has been removed. Opening the file with truncation and writing the pid are
two steps. Time is `Tick`. Three provisos may be lifted: starts
may overlap, live processes may stall, `--force-unlock` may be used. `hazards`
says which are lifted in a history; it never changes.

### Codec, Extra and Segment

Bytes are cells: a field of fixed width is one, a string one for its length and
one for each character. The checks keep the code's order, so that a short input
is told from a wrong one where the code tells them apart. The CRC is a real
polynomial over the cells. `Segment` holds the cells of one file. `AppendRow` and
`AppendRaw` are the two ways in; `AppendRaw` checks only the prefix of each frame,
so frames that do not decode, that hold a null where none is allowed, or whose
extra pairs are out of order are in the log. `Stop` leaves any prefix, `Damage`
changes any cell, `Recover` scans the tail. The flush reads frame by frame; what
it refuses goes to the reject sink, whose cap, counter and failed writes are
those of the code.

### MergeRuns, Columns and Calendar

A record is a key, standing for (ts, id), and its arrival. The heap of source
indices, its construction and `sift_down` are those of the code. Spills fall
after any record, pre-merges take any runs of the right number: which runs are
smallest depends on frame lengths. The last merge streams rows into the open
hour's builder, which cuts row groups; `Columns` keeps the builder's arrays, ends,
levels and cursors, and a reader that assembles records from the levels is
marked external. `Calendar` has the arithmetic of `time.rs`.

### Schema

`mem`, `disk`, `safe` are the schema history in the process, in the manifest,
and after a power cut. Frames carry the epoch their producer stamped; the layout
it had in mind is kept as history, for the property. `view` is the column list of
`view.sql`, or `Stale` when a fault kept it from being written after a flush.

### Ingest

The client's buffer and limit; `given`, the records that `send` returned Ok for,
and `held`, those it buffered and then returned Err for; `wire` and `inq`, the two ends of the pipe with
their high-water mark; the server's poll loop, with the batch count of one poll;
control requests and the latest reply. `push.send` may fail, and the engine may
take any part of a batch. The server may stop, crash and start
again with another limit.

## What is checked

All runs: `tlc -config <cfg> <module>`.

| Run | Configuration | Shows |
|---|---|---|
| flush_safety | `MCFlushSafety` | no durable record is lost at any instant, whether the process dies or the power fails, but for quarantined ones in two cases; no record is published twice, but for stray files; settled files stay; the inductive invariant |
| flush_live | `MCFlushLive` | the engine implements `Ledger`; durable records are published or set aside in the end |
| wal_safety | `WalSafety` | honest counters; torn frames only at a segment's end; the writer implements `Log` |
| wal_live | `WalLive` | in a process that is not killed: sealed segments are durable, accepted frames become durable, appends resume after a torn write unless a failed roll left its file, close returns |
| lock_owner | `LockOwner` | one engine per directory, which removes only its own lock and takes over a dead one's, under three provisos; with the provisos lifted, no lock file is left by clean exits |
| merge_staged | `MergeStaged` | staged files are the sorted first arrivals, whatever was spilled and pre-merged; heap and fan-in bound (`MergeInv`); every step leaves less to do; each file reads back as its rows, the same streamed or whole, under the directory of their date |
| schema_decode | `SchemaDecode` | frames are decoded by the layout they were encoded with; keys keep their types; the view shows every key of every era; the inductive invariant |
| ingest_serve | `IngestServe` | batches within the limit; each record that was buffered in one place, through failing sends and batches taken in part; control and shutdown are not starved |
| segment_read | `SegmentRead` | every accepted frame that is whole is seen, nothing else is taken for a row, re-encoding is the identity up to the order and repetition of extra pairs, a recovered tail reads to its end, a torn header is not taken for a corrupt one, every cell is accounted for, the reject cap holds |

Every property has a mutant, a definition beside the original that changes it
the way a slip in the code would; with it TLC finds the property violated.

### Disagreements with the documentation

Three runs end in a counterexample to something the repository says of itself.

| Run | What the code does | What is said |
|---|---|---|
| flush_v_series | a failed manifest commit leaves the raised watermark in memory; the next flush's sweep promotes uncommitted files | "anything in `series/` is committed" (`flush/planner.rs:10`) |
| flush_v_stall | a roll that fails after `create_new` makes every later roll fail | "a failure is harmless" (`wal/writer.rs:384`) |
| wal_v_torn | recovery does not fsync a clean tail: kill -9, restart, power cut tears a segment before the tail | "so it can't be torn" (`wal/recovery.rs:7`) |

Others were met while modelling and are recorded here; no run is kept for them.

- Rows can be published twice. It takes a file in `series/` that no manifest
  covers: left by a commit that fails after the watermark was raised in memory, as
  in flush_v_series, or by a crash between the rename of the manifest and its
  fsync, a start that promotes what it covers, and a power cut that undoes the
  rename. The next startup sweep may fail to remove it (it only logs the error), or
  remove it without an fsync, so that a power cut brings it back. Its segments are
  flushed again, under a longer name, and the next commit covers both.
  `NoDuplicate` without its exception for strays fails in flush_safety, also if the
  faults `orphan` and `commit` are left out. README:150 says
  "orc will never rewrite its rows under another name". The comment at
  `flush/planner.rs:564` gives this reason for failing the sweep when a *staged*
  file cannot be removed; for one in `series/` the sweep goes on, and for neither
  does it fsync the directory.
- A quarantined segment can be deleted. The flush renames it, the fsync of `wal/`
  fails (`wal/mod.rs:86`), which the flush takes for a segment still in the log; a
  later flush commits past its id; a power cut then undoes the rename, and recovery
  deletes the segment as one the manifest covers. And a quarantine of an id that
  was given out again replaces the first `<id>.wal.corrupt`. README:283 says "The
  engine never deletes data it cannot read." `forfeit` records both cases, and
  `NoLoss` excepts them.
- Two starts that both find the lock stale both pass the read-back: `OneEngine`
  fails with the hazard `overlap`. README:240 calls `--force-unlock` "the only way
  to get two engines onto one directory"; the comment at `wal/recovery.rs:42`
  says that the race is only narrowed.
- The id of a removed or quarantined tail is given out again at the next start;
  `wal/mod.rs:13` says that ids "are never reused". `CommittedFilesStay` shows that
  output files do not suffer from it; a quarantined file may (see above).
- A segment of another format version that is not the tail is quarantined by the
  flush; README:288 says that orc "refuses to start rather than quarantining".
- A lower limit learned while records are buffered makes the size check of
  `Client::flush` fail inside `send`; `client.rs:356` calls it unreachable.
- A `send` whose full batch cannot be flushed returns Err with its record still
  buffered; a caller that tries again sends the record twice.
- `append_raw` takes frames whose extra pairs are unsorted or repeated
  (`flush/parquet.rs:330` knows of them), so the remark in `codec.rs` that pairs are
  in order "always so when re-encoding a decoded frame" holds for frames of this
  encoder only; `Reencodes` says what holds of the others.
- A heartbeat or takeover that truncates the lock between another's truncation and
  write has its pid overwritten in place. If the later pid is two digits shorter or
  more, the file then names no process, and nobody removes it. `DirLock` takes pids
  to differ in length by one at most.
- `scan_tail` and the flush's reader bound a frame by the file's length, so a torn
  frame whose length field exceeds it is reported as corrupt, not as truncated;
  both end the scan at the same place.
- A write to `rejects/` that fails midway leaves bytes the sink's counter does not
  see until the next flush measures the directory; hence the second term of
  `CapHeld`.
- `Engine::append` holds the whole frame against `max_record_bytes`, `append_raw`
  only the payload.
- A crash between the commit and `regenerate_views` leaves `view.sql` behind until
  the next flush that touches the series; `ViewSpansEras` leaves such a view out.
- A view may name the columns of an epoch that no published file has yet.

### Bounds

- *Flush*: flush_safety has two records in two partitions, flush_live one and one
  the flush rejects; six segment ids, three mishaps. Two records make a flush of
  several segments, a partial promotion and an append during a flush possible;
  three mishaps are a failed call, a crash and a power cut, or damage, a failed
  fsync of the quarantine and the power cut that undoes it. A quarantined file
  replaced by a second one takes a fourth; with four mishaps and seven ids the
  properties of flush_safety hold as well (8.8 million states, not kept as a run),
  and the proofs cover any number. `create` and `upgrade` are in flush_safety
  only: a directory that cannot make segments, or is of another version, publishes
  nothing.
- *WAL*: three frames of two units, a buffer of three units, segments of four: a
  frame larger than the free buffer, a full segment and a batch of two all occur.
  wal_live leaves out kill -9, power cuts and a failed fsync in close, which end the
  promises it checks (a frame in the buffer may be lost), and keeps the failed
  creation that leaves its file behind, which `AppendsResume` names.
- *Lock*: three processes (one dies, two race), staleness of three ticks, three
  mishaps; no proviso lifted, or all.
- *Merge*: all logs of up to four records with three keys in two hours around
  the end of a leap day, and one log on either side of each of ten turns of the
  calendar. Fan-in four merges four runs at once (a heap of three levels), three
  needs one pre-merge, one (taken as two) repeated ones. Row groups of one and two
  rows are cut inside and at the end of an hour. Cells are null alone and in a
  row, strings empty, extra empty, unordered and repeated.
- *Schema*: layouts that add, drop, reorder, retype and relax a key; three epochs;
  two frames; two mishaps.
- *Ingest*: two records of different sizes. Of the limits, one holds both in a
  batch, one makes `send` split them and one, after a restart, refuses the larger
  and may find it buffered; a send queue of one batch and a receive queue of two,
  so that a flood can keep the latter from ever being empty.
- *Segment*: two appends, each of one of five rows (one with a null in a key that
  is not nullable, which `append` refuses) or one of five batches in which frames of
  another type, series or epoch, too early or too late, with a bad tag, excess
  bytes, a bad string, extra pairs out of order or repeated, stand before good ones; two limits, of which the lower refuses
  what the higher accepted; two flushes; one fault, of any cell.

`CHECK_DEADLOCK FALSE` is set where the system may stop: a client that is gone
with the server closed and its starts used up (`Ingest`), a directory whose
epochs, frames and mishaps are used up (`Schema`), and a segment that is consumed
or set aside (`Segment`).

### Fairness

- `FlushEngine`: weak fairness of startup, flush and restart as one: the flush
  timer always comes round and calls return; an operator restarts a stopped
  engine. Appends, faults and crashes are not fair.
- `WalWriter`: weak fairness of the committer thread and of close's last step;
  strong fairness of the due group commit, whose timer is reset by nothing.
- `DirLock`: time passes, started calls go on, refused starts are retried.
- `MergeRuns`, `Schema`, `Segment`: none. That a merge ends is the action property
  `Progress`: every step decreases a tuple of naturals.
- `Ingest`: weak fairness of the server thread; strong fairness of the end of the
  drain, whose deadline passes even if the queue is never found empty.

## What is proved

Checked by `tlapm`, for every value of the constants that the named `ASSUME`s
allow.

| Theorem | Statement | Assumed |
|---|---|---|
| `FlushEngineProofs!Invariance`, `TypeCorrectness` | `[]IInv`, `[]TypeOK` | `Bad \subseteq Rec`, `PartOf` maps records to partitions, the bounds are naturals; any fault may be enabled |
| `FlushEngineProofs!Durability` | `[]NoLoss` | the same |
| `FlushEngineProofs!Finality` | `CommittedFilesStay` | the same |
| `WalWriterProofs!LogLaidOut` | `[]WalInv` | buffer and segment sizes are positive, the bounds are naturals; any fault may be enabled |
| `WalWriterProofs!CountersAreHonest`, `TornFramesAtTheEnd` | `[]CountersHonest`, `[]TornOnlyAtEnd` | the same |
| `WalWriterProofs!SealedIsDurable` | `[]SealedDurable` | and the faults `crash` and `closesync` are not enabled |
| `WalLogProofs!WriterImplementsLog` | `ImplementsLog` | any fault may be enabled |
| `DirLockProofs!Exclusion`, `OwnLockRemoved`, `NothingLeftBehind` | `[]OneEngine`, `[]RemovesOwn`, `[]CleanExit` | markers and processes differ, staleness is positive; the first two speak of histories without lifted provisos |
| `SchemaProofs!SchemaInvariance` | `[](SchemaInv /\ NoneUnknown /\ ViewSpansEras)` | layouts are sequences of key definitions with distinct names (`Config::validate`) |
| `SchemaProofs!DecodingIsRight`, `NothingRejected`, `NothingHidden`, `TypesAreForGood` | `[]DecodedAsEncoded`, `[]NoneUnknown`, `[]ViewSpansEras`, `[]OneTypePerKey` | the same |
| `IngestProofs!Accounting` | `[]Accounted` | sizes, limits and high-water marks are positive |

### Flush engine

`NoLoss` is not inductive: that deleting a segment loses nothing depends on what
was staged, fsynced and committed several steps before. `IInv` adds

- `Watermarks`: durable <= on disk <= in memory;
- `Gone`: a segment no longer there was durably committed or set aside, and a
  removal that a power cut may undo is of a segment that was;
- `AllCovered`: below each of the three watermarks every readable row of a segment
  that is not `loose` is in a file that watermark covers, and no file of the same
  name, staged or brought back to `tmp/` by a power cut, is about to replace a
  published one;
- `NoGap`, `OutputComplete`: the flush's list has no hole above the watermark,
  and what it stages holds every row of what it consumed, so that committing it
  extends `AllCovered`;
- `ActiveTop`, `ShortEmpty`, `UniqueNames`, `Loops`: the new segment is above all
  watermarks, half-made segments are empty, names are unique, and each loop's
  work list is what its place in the code implies.

One lemma per action shows that it preserves each part. Four facts carry the
weight: no step takes rows from a watermark that covers them (`Keeps`), a new
segment is above everything (`RollKeeps`), at the commit point the fsynced files
cover the range (`CommitCovers`), and what a power cut takes or brings back leaves
each watermark its rows (`CutWalBooks`, `CutOutputBooks`).

A `loose` segment is why `NoLoss` has the exception it has: until its rename is
fsynced its rows count as set aside, and a power cut may put them back into the log,
above the watermark, where they are flushed, or below it, where they are `forfeit`.

`Finality` speaks of a file in `series/`, its rename fsynced, that the durable
watermark covers and no file of its name in `tmp/` waits to replace. The sweep removes only files above a
watermark that is at least the durable one; a flush stages files only for segments
above it, so never under the name of such a file; and a promotion replaces only
a file of the same name.

### WAL writer

None of the properties is inductive: what the committer reads in one critical
section it uses in the next, after appends, rolls and failed writes. `WalInv` has
four parts.

- `Disk`: nothing follows the active segment; no file has more on the disk than
  in it; the counters are bounded by what they count, and exact without a torn
  frame.
- `Thread`: what the committer captured (segment and length) is still in the file,
  and after its fsync on the disk, if the segment is still the active one; if it
  is not, the counters are left alone.
- `Layout`: each segment, with the buffer at the end of the active one, is whole
  frames and at most half of one, in the order of append, and all of one segment
  come before all of the next. Flushes, whole or partial, move units from the
  buffer to the file and leave this sequence as it is.
- `Counted`: the types of the history variables.

Lemmas reduce the actions to five changes of the files: an append at the end, a
roll, a flush, a cut of unsynced ends, recovery of the tail.

`SealedIsDurable` excludes two faults because they refute it: after kill -9, or
after a close whose fsync failed, recovery takes a clean tail without an fsync
(the run wal_v_torn), and it becomes a sealed segment with bytes in the cache
alone. The rest, write errors, failed rolls and power cuts included, stays.

For the refinement, the log is the concatenation of the frames of all segments,
and the durable part of it that of the whole frames on the disk. That the
concatenation is strictly increasing, and grows at its end when the last nonempty
segment does, is an induction over segment ids; it is done with the library's
theorem that a nonempty set of naturals has a least member. Opening is
`Start`, closing, crashing and power cuts are `Stop`, every other step is `Write` or
leaves the log as it was.

### Directory lock

`LockInv` says that a process past its staleness check or holding the lock is
alone, that the file exists, and that it is fresh once written. `CleanExit` is
about all histories without a kill or an I/O error, also those with overlapping
starts, stalls and forced locks, in which `LockInv` says little. It needs only
that a LOCK file always has a process that cares for it: an empty one a process
that has it open, between `create_new` or the truncation and the write, one with a
pid that process, between the write and the removal.

### Schema

`DecodedAsEncoded` is not inductive: it depends on what a power cut would leave
of the history. `SchemaInv` adds `Chain` (the durable history is a prefix, layout
by layout, of the one on disk, and that of the one in memory; while the engine
runs they are the same) and `Named` (an epoch that a frame in the log, a client
or a published file carries is in the durable history with the layout meant).
`reconcile` extends a history, or replaces its last entry by one of the same
layout, so whatever was named stays named; a power cut falls back to the durable
history, which still names everything. For the view, a key has a first
declaration, as a set of epochs has a least one, and `NoRetype` gives it
the type of all others.

### Ingest

`Accounted` is inductive as stated. It relates what `send` did with each record,
given, held or still to flush, to the six places a record can be in, which are
disjoint and hold nothing else; it also says that no two batches of a queue share
a record, which a step that takes the head of a queue needs, and that the request
seen by `poll` is still queued when `serve_control` takes it. Lemmas on `Append`,
`Head` and `Tail` reduce each action to a move between disjoint sets.

### Left to TLC

Out of the prover's reach: liveness and fairness, and what the recursive
definitions of `Codec`, `Columns`, `Calendar` and `MergeRuns` compute for every
input; for them TLC compares with a reference definition on bounded inputs.
Checked on the instances and not proved: the refinement of `Ledger`,
`NoDuplicate` and `LimitRespected`.

## Not modelled

- `flush/read.rs` beyond what a reader assembles from columns: it serves tests and
  examples. Encodings, compression, statistics and the thrift footer are the
  parquet crate's.
- The refill of the segment reader's buffer: `Segment` reads the file.
- The SQL text of views, the RFC 3339 parser and formatter of `time.rs`.
- The validation of a configuration (`config.rs`): a list of independent bounds
  checks on constants; what the models need of it is in their `ASSUME`s.
- `error.rs`, `lib.rs`, `bin/`: texts, re-exports, argument parsing and signals.
- Directories are one level: that `promote` fsyncs the chain up to `series/`, and
  not `data_dir`, is noted as a hazard.
- fsync that fails is taken to leave its pages dirty; a kernel that drops them
  would lose records a retry reports as durable.
- Metrics and logging.
