---------------------------- MODULE FlushEngine ----------------------------
(***************************************************************************)
(* The engine's durable life cycle: append, group commit, segment roll,    *)
(* flush, manifest commit, publication, crash, and restart.                *)
(*                                                                         *)
(*   engine.rs         open_with, close, flush, append                     *)
(*   flush/planner.rs  run, decode_segment, promote, sweep_uncommitted,    *)
(*                     delete_segments                                     *)
(*   manifest.rs       load, commit                                        *)
(*   wal/recovery.rs   recover                                             *)
(*   wal/writer.rs     at the granularity the flush sees: a record is      *)
(*                     buffered or fsynced, a roll succeeds or fails (the  *)
(*                     module WalWriter opens that box)                    *)
(*                                                                         *)
(* Every system call that changes the directory is a step of its own, so a *)
(* crash can fall between any two of them.  A segment or an output file    *)
(* holds a set of records: order inside a file does not matter here.       *)
(*                                                                         *)
(* What survives a power cut is explicit.  manifestDur is the watermark of *)
(* the manifest whose rename has been fsynced, stagedDur the staged files  *)
(* whose names have, volatile the records whose bytes have not.  A removal *)
(* or a rename in wal/, tmp/ or series/ counts at once for the process and *)
(* its successors, but until an fsync of the directory a power cut may     *)
(* undo it, whatever else it leaves: loose, unlinked, fresh, tmpGhosts and *)
(* seriesGhosts are those updates.  A rename is undone as a whole.         *)
(***************************************************************************)
EXTENDS Naturals, FiniteSets, FiniteSetsExt

CONSTANTS
  Rec,         \* records
  Bad,         \* the records whose frames the flush rejects
  Part,        \* (series, epoch, hour) partitions: one output file each
  PartOf,      \* the partition of each record
  MaxSeg,      \* bound: highest segment id
  Faults,      \* which calls may fail, and which outside events may happen
  MaxMishaps   \* bound: failed calls plus outside events in one behaviour

FaultKind ==
  { "create",      \* create_segment fails after create_new made the file
    "read",        \* read_segment_into fails
    "quarantine",  \* the rename to <id>.wal.corrupt fails, or its fsync
    "stage",       \* writing, finishing or fsyncing a staged file fails
    "commit",      \* Manifest::commit fails before its rename
    "commitsync",  \* Manifest::commit fails after its rename
    "promote",     \* the rename of a staged file into series/ fails, or its fsync
    "delete",      \* removing a segment or a staged file fails, or its fsync
    "orphan",      \* removing an uncommitted file of series/ fails
    "close",       \* the owner closes the engine
    "closesync",   \* the last fsync of WalWriter::close fails
    "crash",       \* the process dies
    "power",       \* the power fails
    "damage",      \* storage damages a segment header
    "upgrade" }    \* a build with another segment format is installed

ASSUME RecAssumption  == Bad \subseteq Rec /\ PartOf \in [Rec -> Part]
ASSUME SegAssumption  == MaxSeg \in Nat \ {0}
ASSUME FaultAssumption == Faults \subseteq FaultKind /\ MaxMishaps \in Nat

Ids == 1..MaxSeg

\* A Parquet file: its partition, the segment range in its name, its rows; and,
\* as history, whether it is there although the sweep removed it: the removal
\* failed, or a power cut undid it.
OutFile ==
  [part : Part, first : Ids, last : Ids, recs : SUBSET Rec, stray : BOOLEAN]

SameName(f, g) == f.part = g.part /\ f.first = g.first /\ f.last = g.last

VARIABLES
  files,       \* wal/: the segment ids present
  content,     \* the records in each segment (kept after its removal)
  hdr,         \* each segment's header: ok, short, bad, or foreign (version)
  aside,       \* the records in each <id>.wal.corrupt
  loose,       \* segments renamed to <id>.wal.corrupt, but not fsynced there
  unlinked,    \* segments removed, but not fsynced away
  forfeit,     \* history: quarantined records that were then deleted
  staged,      \* tmp/: staged output files
  stagedDur,   \* those whose bytes and names are fsynced
  series,      \* series/: published output files
  fresh,       \* those whose rename into series/ is not fsynced
  tmpGhosts,   \* files removed from tmp/, but not fsynced away
  seriesGhosts,  \* files removed or replaced in series/, but not fsynced away
  manifest,    \* last_flushed_segment of the manifest.json a restart reads
  manifestDur, \* the same after a power cut
  phase,       \* down, opening, up or closed
  pc,          \* next step of the startup or of the flush
  active,      \* the segment being appended to, 0 when there is none
  mem,         \* last_flushed_segment of the manifest in memory
  failures,    \* flush_failures, saturating at 1
  todo,        \* segment ids the current loop has still to visit
  consumed,    \* segments decoded by this flush, or deleted by this recovery
  met,         \* segments where this flush met a row, a reject or skipped bytes
  out,         \* output files the current loop has still to handle
  next,        \* Recovery::next_segment
  accepted,    \* history: records append has returned Ok for
  stable,      \* history: accepted records a later fsync has covered
  volatile,    \* records in the log that a power cut may still lose
  mishaps      \* failed calls and outside events so far

wal   == <<files, content, hdr, aside, loose, unlinked, forfeit>>
outs  == <<staged, stagedDur, series, fresh, tmpGhosts, seriesGhosts>>
mani  == <<manifest, manifestDur>>
job   == <<pc, failures, todo, consumed, met, out, next>>
run   == <<phase, active, mem>>
hist  == <<accepted, stable, volatile>>
vars  == <<wal, outs, mani, job, run, hist, mishaps>>
----------------------------------------------------------------------------
HdrState == {"ok", "short", "bad", "foreign"}
Pc == { "off", "sweep", "orphans", "recover", "purge", "tail", "create",
        "idle", "list", "plan", "decode", "stage", "commit", "commitsync",
        "promote", "delete" }

\* The type invariant of the engine's state.
TypeOK ==
  /\ files \subseteq Ids
  /\ content \in [Ids -> SUBSET Rec]
  /\ hdr \in [Ids -> HdrState]
  /\ aside \in [Ids -> SUBSET Rec] /\ forfeit \subseteq Rec
  /\ loose \subseteq Ids \ files /\ unlinked \subseteq Ids \ files
  /\ staged \subseteq OutFile /\ stagedDur \subseteq staged
  /\ series \subseteq OutFile /\ fresh \subseteq series
  /\ tmpGhosts \subseteq OutFile /\ seriesGhosts \subseteq OutFile
  /\ manifest \in 0..MaxSeg /\ manifestDur \in 0..MaxSeg
  /\ phase \in {"down", "opening", "up", "closed"}
  /\ pc \in Pc
  /\ active \in 0..MaxSeg
  /\ mem \in 0..MaxSeg
  /\ failures \in 0..1 /\ met \subseteq Ids
  /\ todo \subseteq Ids /\ consumed \subseteq Ids
  /\ out \subseteq OutFile
  /\ next \in 1..(MaxSeg + 1)
  /\ accepted \subseteq Rec /\ stable \subseteq Rec /\ volatile \subseteq Rec
  /\ mishaps \in 0..MaxMishaps

\* A data directory no engine has opened yet.
Init ==
  /\ files = {} /\ content = [i \in Ids |-> {}]
  /\ hdr = [i \in Ids |-> "ok"] /\ aside = [i \in Ids |-> {}]
  /\ loose = {} /\ unlinked = {} /\ forfeit = {}
  /\ staged = {} /\ stagedDur = {} /\ series = {}
  /\ fresh = {} /\ tmpGhosts = {} /\ seriesGhosts = {}
  /\ manifest = 0 /\ manifestDur = 0
  /\ phase = "down" /\ pc = "off" /\ active = 0 /\ mem = 0
  /\ failures = 0 /\ met = {}
  /\ todo = {} /\ consumed = {} /\ out = {} /\ next = 1
  /\ accepted = {} /\ stable = {} /\ volatile = {}
  /\ mishaps = 0
----------------------------------------------------------------------------
Mishap(kind) ==
  /\ kind \in Faults
  /\ mishaps < MaxMishaps
  /\ mishaps' = mishaps + 1

\* The job's locals between two jobs.
Rest == todo' = {} /\ consumed' = {} /\ out' = {} /\ met' = {} /\ next' = 1

\* Mutant: a failed flush is not counted.
FlushErrUncounted ==
  /\ pc' = "idle" /\ Rest
  /\ UNCHANGED <<run, failures>>

\* Inner::flush returns Err from planner::run.
FlushErr ==
  /\ pc' = "idle" /\ failures' = 1 /\ Rest
  /\ UNCHANGED run

\* Inner::flush returns Ok.
FlushOk ==
  /\ pc' = "idle" /\ failures' = 0 /\ Rest
  /\ UNCHANGED run

\* Engine::open_with returns Err and the process ends.
OpenErr ==
  /\ phase' = "down" /\ pc' = "off" /\ active' = 0 /\ mem' = 0
  /\ failures' = 0 /\ Rest

\* A failed step of a job that both the startup and the flush run.  A sweep
\* that fails inside a flush leaves flush_failures as it was: not zero.
SweepErr ==
  IF phase = "opening" THEN OpenErr ELSE FlushErr

Put(dir, f) == {g \in dir : ~SameName(f, g)} \cup {f}

Elsewhere(dir, f) == {g \in dir : g.part # f.part}

\* planner::promote: rename a staged file into series/ over its namesake, and
\* fsync its directory there.
Promote(f) ==
  /\ staged' = staged \ {f} /\ stagedDur' = stagedDur \ {f}
  /\ series' = Put(series, f)
  /\ fresh' = Elsewhere(fresh, f) /\ seriesGhosts' = Elsewhere(seriesGhosts, f)
  /\ UNCHANGED tmpGhosts

\* The same when the fsync fails.
PromoteUnsynced(f) ==
  /\ staged' = staged \ {f} /\ stagedDur' = stagedDur \ {f}
  /\ series' = Put(series, f) /\ fresh' = Put(fresh, f)
  /\ seriesGhosts' = seriesGhosts \cup {g \in series : SameName(f, g)}
  /\ UNCHANGED tmpGhosts

\* The renames of S are final: each <id>.wal.corrupt is there for good.
Settle(S) ==
  /\ aside' = [i \in Ids |-> IF i \in S THEN content[i] ELSE aside[i]]
  /\ loose' = loose \ S

\* fsync_dir of wal/.
SyncWal ==
  /\ Settle(loose) /\ unlinked' = {}
  /\ UNCHANGED <<files, content, hdr, forfeit>>

\* Shared::create_segment: a fresh, empty segment file.  It ends with an fsync
\* of wal/; when it fails, only the new name is taken.
Create(id, header, synced) ==
  /\ files' = files \cup {id}
  /\ content' = [content EXCEPT ![id] = {}]
  /\ hdr' = [hdr EXCEPT ![id] = header]
  /\ Settle(loose \cap synced) /\ unlinked' = unlinked \ synced
  /\ UNCHANGED forfeit

\* wal::quarantine_segment: the rename, over an earlier file of that name, and
\* the fsync of wal/.
SetAside(id) ==
  /\ files' = files \ {id}
  /\ Settle(loose \cup {id}) /\ unlinked' = {}
  /\ forfeit' = forfeit \cup aside[id]
  /\ UNCHANGED <<content, hdr>>

\* The same when the fsync fails.  (That undoing the rename would also bring
\* back the file it replaced is left out: that one counts as deleted.)
SetAsideUnsynced(id) ==
  /\ files' = files \ {id} /\ loose' = loose \cup {id}
  /\ aside' = [aside EXCEPT ![id] = {}]
  /\ forfeit' = forfeit \cup aside[id]
  /\ UNCHANGED <<content, hdr, unlinked>>

Unlink(id) ==
  /\ files' = files \ {id} /\ unlinked' = unlinked \cup {id}
  /\ UNCHANGED <<content, hdr, aside, loose, forfeit>>

\* A removal that the fsync of wal/ follows.
UnlinkSynced(id) ==
  /\ files' = files \ {id} /\ Settle(loose) /\ unlinked' = {}
  /\ UNCHANGED <<content, hdr, forfeit>>
----------------------------------------------------------------------------
\* Engine::open_with up to the sweep: take the lock, load the manifest and
\* reconcile it, which commits it again when the config changed.
OpenEngine ==
  /\ phase = "down"
  /\ phase' = "opening" /\ mem' = manifest
  /\ pc' = "sweep" /\ out' = staged
  /\ \/ UNCHANGED mani
     \/ manifestDur' = manifest /\ UNCHANGED manifest
  /\ UNCHANGED <<wal, outs, active, failures, todo, consumed, met, next, hist,
                 mishaps>>

\* sweep_uncommitted, first loop: publish what the watermark covers, delete the
\* rest.
SweepStaged(f) ==
  /\ pc = "sweep" /\ f \in out
  /\ \/ /\ IF f.last <= mem
             THEN Promote(f)
             ELSE /\ staged' = staged \ {f} /\ stagedDur' = stagedDur \ {f}
                  /\ tmpGhosts' = tmpGhosts \cup {f}
                  /\ UNCHANGED <<series, fresh, seriesGhosts>>
        /\ out' = out \ {f}
        /\ UNCHANGED <<run, pc, failures, todo, consumed, met, next, mishaps>>
     \/ /\ Mishap(IF f.last <= mem THEN "promote" ELSE "delete")
        /\ SweepErr
        /\ UNCHANGED outs \/ (f.last <= mem /\ PromoteUnsynced(f))
  /\ UNCHANGED <<wal, mani, hist>>

\* Mutant: off by one at the watermark.
SweepOutputFrom ==
  /\ pc = "sweep" /\ out = {}
  /\ pc' = "orphans" /\ out' = {f \in series : f.last >= mem}
  /\ UNCHANGED <<wal, outs, mani, run, failures, todo, consumed, met, next,
                 hist, mishaps>>

\* Between its loops the sweep lists the uncommitted files of series/.
SweepOutput ==
  /\ pc = "sweep" /\ out = {}
  /\ pc' = "orphans" /\ out' = {f \in series : f.last > mem}
  /\ UNCHANGED <<wal, outs, mani, run, failures, todo, consumed, met, next,
                 hist, mishaps>>

\* A file the sweep meant to remove.
Stray(f) == [f EXCEPT !.stray = TRUE]

\* sweep_uncommitted, last loop: best effort, a failure is only logged.
SweepOrphan(f) ==
  /\ pc = "orphans" /\ f \in out
  /\ out' = out \ {f}
  /\ \/ /\ series' = series \ {f} /\ seriesGhosts' = seriesGhosts \cup {f}
        /\ UNCHANGED mishaps
     \/ /\ Mishap("orphan")
        /\ series' = (series \ {f}) \cup {Stray(f)} /\ UNCHANGED seriesGhosts
  /\ fresh' = fresh \ {f}
  /\ UNCHANGED <<wal, staged, stagedDur, tmpGhosts, mani, run, pc, failures, todo,
                 consumed, met, next, hist>>

\* Startup goes on to recover, a flush to planner::run.
SweepDone ==
  /\ pc = "orphans" /\ out = {}
  /\ pc' = IF phase = "opening" THEN "recover" ELSE "decode"
  /\ UNCHANGED <<wal, outs, mani, run, failures, todo, consumed, met, out,
                 next, hist, mishaps>>

\* Mutant: recovery does not fsync data_dir before it deletes.
RecoverListUnsynced ==
  /\ pc = "recover"
  /\ next' = Max(files \cup {mem}) + 1
  /\ todo' = {i \in files : i <= mem}
  /\ pc' = "purge"
  /\ UNCHANGED <<wal, outs, mani, run, failures, consumed, met, out, hist,
                 mishaps>>

\* recover, up to its deletions.  The fsync of data_dir, there for the sake of
\* wal/, is also what makes a manifest renamed by a process that then died
\* durable before any segment it covers is deleted.
RecoverList ==
  /\ pc = "recover"
  /\ manifestDur' = manifest
  /\ next' = Max(files \cup {mem}) + 1
  /\ todo' = {i \in files : i <= mem}
  /\ pc' = "purge"
  /\ UNCHANGED <<wal, outs, manifest, run, failures, consumed, met, out, hist,
                 mishaps>>

\* recover: delete the segments the manifest covers, and fsync wal/ if there
\* were any.
RecoverPurge ==
  /\ pc = "purge"
  /\ \/ /\ todo = {} /\ pc' = "tail" /\ consumed' = {}
        /\ IF consumed = {} THEN UNCHANGED wal ELSE SyncWal
        /\ UNCHANGED <<run, failures, todo, met, out, next, mishaps>>
     \/ /\ todo # {}
        /\ Unlink(Min(todo))
        /\ todo' = todo \ {Min(todo)} /\ consumed' = consumed \cup {Min(todo)}
        /\ UNCHANGED <<run, pc, failures, met, out, next, mishaps>>
     \/ /\ todo \cup consumed # {} /\ Mishap("delete")
        /\ OpenErr /\ UNCHANGED wal
  /\ UNCHANGED <<outs, mani, hist>>

\* recover: the tail.  Truncating it to whole frames removes no record of
\* content; a header too short is removed, a corrupt one quarantined, and one
\* of another format version refuses to start.
RecoverTail ==
  /\ pc = "tail"
  /\ LET tail == Max(files)
         Go   == pc' = "create" /\ UNCHANGED <<run, failures, todo, consumed,
                                               met, out, next>>
     IN  IF files = {} \/ hdr[tail] = "ok"
         THEN Go /\ UNCHANGED <<wal, mishaps>>
         ELSE \/ hdr[tail] = "short" /\ UnlinkSynced(tail) /\ Go
                 /\ UNCHANGED mishaps
              \/ hdr[tail] = "short" /\ Mishap("delete") /\ OpenErr
                 /\ (UNCHANGED wal \/ Unlink(tail))
              \/ hdr[tail] = "bad" /\ SetAside(tail) /\ Go /\ UNCHANGED mishaps
              \/ hdr[tail] = "bad" /\ Mishap("quarantine") /\ OpenErr
                 /\ (UNCHANGED wal \/ SetAsideUnsynced(tail))
              \/ hdr[tail] = "foreign" /\ OpenErr /\ UNCHANGED <<wal, mishaps>>
  /\ UNCHANGED <<outs, mani, hist>>

\* WalWriter::open, then the rest of open_with.
OpenWriter ==
  /\ pc = "create" /\ next <= MaxSeg
  /\ \/ /\ Create(next, "ok", Ids)
        /\ phase' = "up" /\ active' = next /\ UNCHANGED <<mem, failures, mishaps>>
        /\ pc' = "idle" /\ Rest
     \/ /\ Mishap("create")
        /\ \E h \in {"ok", "short"} : Create(next, h, {next})
        /\ OpenErr
  /\ UNCHANGED <<outs, mani, hist>>
----------------------------------------------------------------------------
\* Engine::append, append_batch, append_raw: into the write buffer.
Append(r) ==
  /\ phase = "up" /\ r \notin accepted
  /\ content' = [content EXCEPT ![active] = @ \cup {r}]
  /\ accepted' = accepted \cup {r} /\ volatile' = volatile \cup {r}
  /\ UNCHANGED <<files, hdr, aside, loose, unlinked, forfeit, outs, mani, job,
                 run, stable, mishaps>>

\* The committer's group commit: what was appended after the flush of the
\* buffer is not covered.
GroupCommit(S) ==
  /\ phase = "up" /\ S # {} /\ S \subseteq volatile \cap content[active]
  /\ volatile' = volatile \ S /\ stable' = stable \cup S
  /\ UNCHANGED <<wal, outs, mani, job, run, accepted, mishaps>>

\* sync_in_lock: everything in the active segment becomes durable.
SyncActive ==
  /\ volatile' = volatile \ content[active]
  /\ stable' = stable \cup (volatile \cap content[active])
  /\ UNCHANGED accepted

\* Shared::roll.
Roll ==
  /\ active < MaxSeg /\ active + 1 \notin files
  /\ SyncActive
  /\ Create(active + 1, "ok", Ids)
  /\ active' = active + 1 /\ UNCHANGED <<phase, mem>>

\* The committer rolls a full segment.
CommitterRoll ==
  /\ phase = "up" /\ content[active] # {}
  /\ Roll
  /\ UNCHANGED <<outs, mani, job, mishaps>>

\* A roll, the committer's or the flush's, that fails after create_new: the
\* successor's file is left behind and create_new will refuse that name.
RollFails ==
  /\ phase = "up" /\ content[active] # {}
  /\ active < MaxSeg /\ active + 1 \notin files
  /\ Mishap("create")
  /\ SyncActive
  /\ \E h \in {"ok", "short"} : Create(active + 1, h, {active + 1})
  /\ UNCHANGED <<outs, mani, job, run>>

\* A roll after that: the segment is synced, then create_new refuses the name.
\* Inner::flush returns the error before it has counted a failure.
RollRefused ==
  /\ phase = "up" /\ content[active] # {} /\ active + 1 \in files
  /\ SyncActive
  /\ UNCHANGED <<wal, outs, mani, job, run, mishaps>>
----------------------------------------------------------------------------
\* Inner::flush: seal the active segment unless it is empty.
FlushSeal ==
  /\ phase = "up" /\ pc = "idle"
  /\ IF content[active] = {} THEN UNCHANGED <<wal, run, hist>> ELSE Roll
  /\ pc' = "list"
  /\ UNCHANGED <<outs, mani, failures, todo, consumed, met, out, next, mishaps>>

\* Inner::flush: list_segments.
FlushList ==
  /\ pc = "list"
  /\ todo' = files /\ pc' = "plan"
  /\ UNCHANGED <<wal, outs, mani, run, failures, consumed, met, out, next, hist,
                 mishaps>>

\* Mutant: no floor, so a segment whose removal failed is flushed again.
FlushPlanNoFloor ==
  /\ pc = "plan"
  /\ todo' = {i \in todo : i < active}
  /\ IF failures > 0 THEN pc' = "sweep" /\ out' = staged
                 ELSE pc' = "decode" /\ UNCHANGED out
  /\ UNCHANGED <<wal, outs, mani, run, failures, consumed, met, next, hist,
                 mishaps>>

\* Inner::flush: choose the consumable segments; sweep after a failed flush.
\* The floor is the watermark in memory.
FlushPlan ==
  /\ pc = "plan"
  /\ todo' = {i \in todo : i < active /\ i > mem}
  /\ IF failures > 0 THEN pc' = "sweep" /\ out' = staged
                 ELSE pc' = "decode" /\ UNCHANGED out
  /\ UNCHANGED <<wal, outs, mani, run, failures, consumed, met, next, hist,
                 mishaps>>

\* Mutant: a segment that can be neither read nor set aside is passed over.
DecodePastBad ==
  /\ pc = "decode" /\ todo # {}
  /\ LET id == Min(todo)
     IN  /\ consumed' = IF hdr[id] = "ok" THEN consumed \cup {id} ELSE consumed
         /\ met' = IF content[id] = {} THEN met ELSE met \cup {id}
         /\ todo' = todo \ {id}
  /\ UNCHANGED <<wal, outs, mani, hist, run, pc, failures, out, next, mishaps>>

\* planner::run phase 1: decode the next segment, in id order.  One with an
\* unreadable header is quarantined and passed over, or else ends the loop.
Decode ==
  /\ pc = "decode" /\ todo # {}
  /\ LET id == Min(todo)
     IN  \/ /\ hdr[id] = "ok"
            /\ consumed' = consumed \cup {id} /\ todo' = todo \ {id}
            /\ met' = IF content[id] = {} THEN met ELSE met \cup {id}
            /\ UNCHANGED <<wal, run, pc, failures, out, next, mishaps>>
         \/ /\ hdr[id] # "ok" /\ SetAside(id)
            /\ todo' = todo \ {id} /\ met' = met \cup {id}
            /\ UNCHANGED <<run, pc, failures, consumed, out, next, mishaps>>
         \/ /\ hdr[id] # "ok" /\ Mishap("quarantine")
            /\ UNCHANGED wal \/ SetAsideUnsynced(id)
            /\ todo' = {} /\ met' = met \cup {id}
            /\ UNCHANGED <<run, pc, failures, consumed, out, next>>
         \/ Mishap("read") /\ FlushErr /\ UNCHANGED wal
  /\ UNCHANGED <<outs, mani, hist>>

\* The rows the flush has decoded for partition p.
Rows(p) ==
  {r \in (UNION {content[i] : i \in consumed}) \ Bad : PartOf[r] = p}

\* One output file per partition with rows.
Output ==
  { [part |-> p, first |-> Min(consumed), last |-> Max(consumed),
     recs |-> Rows(p), stray |-> FALSE] : p \in {q \in Part : Rows(q) # {}} }

\* planner::run between its phases: nothing readable, or nothing to write, is
\* a flush that succeeds without a commit.
Decoded ==
  /\ pc = "decode" /\ todo = {}
  /\ IF consumed = {} \/ met = {}
     THEN FlushOk
     ELSE /\ pc' = "stage" /\ out' = Output
          /\ UNCHANGED <<run, failures, todo, consumed, met, next>>
  /\ UNCHANGED <<wal, outs, mani, hist, mishaps>>

\* planner::run phase 2: write one staged file, over its namesake.  A failure
\* leaves a partial file.
Stage(f) ==
  /\ pc = "stage" /\ f \in out \ staged
  /\ \/ /\ staged' = Put(staged, f)
        /\ UNCHANGED <<job, run, mishaps>>
     \/ /\ Mishap("stage")
        /\ staged' = Put(staged, [f EXCEPT !.recs = {}])
        /\ FlushErr
  /\ stagedDur' = stagedDur \cap staged'
  /\ UNCHANGED <<wal, series, fresh, tmpGhosts, seriesGhosts, mani, hist>>

\* Mutant: commit without fsync_staging.
SyncStagingSkipped ==
  /\ pc = "stage" /\ out \subseteq staged
  /\ pc' = "commit"
  /\ UNCHANGED <<wal, outs, mani, hist, run, failures, todo, consumed, met, out,
                 next, mishaps>>

\* planner::fsync_staging: of the directories of this flush's files.
SyncStaging ==
  LET Beside(dir) == {f \in dir : \E g \in out : g.part = f.part}
  IN
  /\ pc = "stage" /\ out \subseteq staged
  /\ \/ /\ stagedDur' = stagedDur \cup Beside(staged)
        /\ tmpGhosts' = tmpGhosts \ Beside(tmpGhosts)
        /\ pc' = "commit"
        /\ UNCHANGED <<run, failures, todo, consumed, met, out, next, mishaps>>
     \/ Mishap("stage") /\ FlushErr /\ UNCHANGED <<stagedDur, tmpGhosts>>
  /\ UNCHANGED <<wal, staged, series, fresh, seriesGhosts, mani, hist>>

\* planner::run raises the watermark in memory, then Manifest::commit writes
\* manifest.json.tmp and renames it over manifest.json.
CommitRename ==
  /\ pc = "commit"
  /\ mem' = Max({mem, Max(consumed)}) /\ UNCHANGED <<phase, active>>
  /\ \/ /\ manifest' = mem' /\ pc' = "commitsync"
        /\ UNCHANGED <<failures, todo, consumed, met, out, next, mishaps>>
     \/ /\ Mishap("commit")
        /\ pc' = "idle" /\ failures' = 1 /\ Rest
        /\ UNCHANGED manifest
  /\ UNCHANGED <<wal, outs, manifestDur, hist>>

\* Manifest::commit fsyncs the directory: the flush is committed.
CommitSync ==
  /\ pc = "commitsync"
  /\ \/ /\ manifestDur' = manifest
        /\ pc' = "promote" /\ todo' = consumed
        /\ UNCHANGED <<run, failures, consumed, met, out, next, mishaps>>
     \/ Mishap("commitsync") /\ FlushErr /\ UNCHANGED manifestDur
  /\ UNCHANGED <<wal, outs, manifest, hist>>

\* planner::run publishes the staged files.
PromoteStaged(f) ==
  /\ pc = "promote" /\ f \in out
  /\ \/ /\ Promote(f) /\ out' = out \ {f}
        /\ UNCHANGED <<run, pc, failures, todo, consumed, met, next, mishaps>>
     \/ Mishap("promote") /\ FlushErr /\ (UNCHANGED outs \/ PromoteUnsynced(f))
  /\ UNCHANGED <<wal, mani, hist>>

\* planner::delete_segments; then the flush returns.
DeleteSegment ==
  /\ pc = "promote" /\ out = {}
  /\ IF todo = {}
     THEN \/ SyncWal /\ FlushOk /\ UNCHANGED mishaps
          \/ Mishap("delete") /\ FlushErr /\ UNCHANGED wal
     ELSE \/ /\ Unlink(Min(todo)) /\ todo' = todo \ {Min(todo)}
             /\ UNCHANGED <<run, pc, failures, consumed, met, out, next,
                            mishaps>>
          \/ Mishap("delete") /\ FlushErr /\ UNCHANGED wal
  /\ UNCHANGED <<outs, mani, hist>>
----------------------------------------------------------------------------
\* Records that leave the log with the bytes that held them.
Lose(L) ==
  /\ content' = [i \in Ids |-> content[i] \ L]
  /\ volatile' = volatile \ L

\* Engine::close: the WAL is closed whether or not its last fsync succeeds.  A
\* flush another thread runs goes on.
Close ==
  /\ phase = "up"
  /\ Mishap("close")
  /\ \/ SyncActive /\ UNCHANGED content
     \/ /\ "closesync" \in Faults
        /\ \E L \in SUBSET (volatile \cap content[active]) : Lose(L)
        /\ UNCHANGED <<accepted, stable>>
  /\ phase' = "closed" /\ active' = 0
  /\ UNCHANGED <<files, hdr, aside, loose, unlinked, forfeit, outs, mani, job,
                 mem>>

\* The closed engine is dropped once no flush runs.
Exit ==
  /\ phase = "closed" /\ pc = "idle"
  /\ OpenErr
  /\ UNCHANGED <<wal, outs, mani, hist, mishaps>>

\* The process dies: the write buffer is lost, what reached the kernel is not.
Crash ==
  /\ phase # "down" /\ Mishap("crash")
  /\ \E L \in SUBSET {r \in volatile : active # 0 /\ r \in content[active]} :
       Lose(L)
  /\ OpenErr
  /\ UNCHANGED <<files, hdr, aside, loose, unlinked, forfeit, outs, mani,
                 accepted, stable>>

\* No two files of a directory share a name.
Distinct(dir) == \A f, g \in dir : SameName(f, g) => f = g

\* A power cut in wal/: records of L are gone, the removals and renames of U
\* are undone.  A segment that is back below the durable watermark is one the
\* next recovery deletes.
CutWal(L, U) ==
  /\ files' = files \cup U
  /\ content' = [i \in Ids |-> content[i] \ L]
  /\ aside' = [i \in Ids |->
                 (IF i \in loose \ U THEN content[i] ELSE aside[i]) \ L]
  /\ forfeit' = forfeit \cup
                  UNION {content[i] : i \in {j \in U \cap loose : j <= manifestDur}}
  /\ loose' = {} /\ unlinked' = {} /\ volatile' = {}
  /\ UNCHANGED hdr

\* A power cut in tmp/ and series/: staged files of G are gone, the renames of
\* R and the removals of T and S are undone.
CutOutput(G, R, T, S) ==
  /\ staged' = (staged \ G) \cup R \cup {Stray(f) : f \in T}
  /\ series' = (series \ R) \cup {Stray(f) : f \in S}
  /\ Distinct(staged') /\ Distinct(series')
  /\ stagedDur' = staged'
  /\ fresh' = {} /\ tmpGhosts' = {} /\ seriesGhosts' = {}

\* The power fails: whatever was not fsynced may be gone, or be back.
PowerCut ==
  /\ Mishap("power")
  /\ \E L \in SUBSET volatile, U \in SUBSET (loose \cup unlinked) : CutWal(L, U)
  /\ \E G \in SUBSET (staged \ stagedDur), R \in SUBSET fresh,
        T \in SUBSET tmpGhosts, S \in SUBSET seriesGhosts : CutOutput(G, R, T, S)
  /\ manifest' = manifestDur
  /\ OpenErr
  /\ UNCHANGED <<manifestDur, accepted, stable>>

\* The kernel writes the renamed manifest back on its own.
Writeback ==
  /\ manifestDur # manifest
  /\ manifestDur' = manifest
  /\ UNCHANGED <<wal, outs, manifest, job, run, hist, mishaps>>

\* Storage damages the header of a segment at rest.
Damage(i) ==
  /\ Mishap("damage") /\ i \in files /\ hdr[i] = "ok"
  /\ hdr' = [hdr EXCEPT ![i] = "bad"]
  /\ UNCHANGED <<files, content, aside, loose, unlinked, forfeit, outs, mani, job,
                 run, hist>>

\* A build that reads another segment format replaces the one that stopped.
Upgrade ==
  /\ phase = "down" /\ Mishap("upgrade")
  /\ hdr' = [i \in Ids |-> CASE hdr[i] = "ok" -> "foreign"
                             [] hdr[i] = "foreign" -> "ok"
                             [] OTHER -> hdr[i]]
  /\ UNCHANGED <<files, content, aside, loose, unlinked, forfeit, outs, mani, job,
                 run, hist>>
----------------------------------------------------------------------------
Startup ==
  \/ OpenEngine \/ SweepOutput \/ SweepDone
  \/ RecoverList \/ RecoverPurge \/ RecoverTail \/ OpenWriter
  \/ \E f \in staged : SweepStaged(f)
  \/ \E f \in series : SweepOrphan(f)

Flush ==
  \/ FlushSeal \/ FlushList \/ FlushPlan \/ Decode \/ Decoded
  \/ SyncStaging \/ CommitRename \/ CommitSync \/ DeleteSegment
  \/ \E f \in out : Stage(f) \/ PromoteStaged(f)

Ingest ==
  \/ \E r \in Rec : Append(r)
  \/ \E S \in SUBSET volatile : GroupCommit(S)
  \/ CommitterRoll \/ RollFails \/ RollRefused

Environment ==
  \/ Close \/ Exit \/ Crash \/ PowerCut \/ Writeback \/ Upgrade
  \/ \E i \in files : Damage(i)

Next == Startup \/ Flush \/ Ingest \/ Environment

Spec == Init /\ [][Next]_vars

\* Both jobs run to completion, the timer starts a flush whenever none runs
\* (flusher), and a stopped engine is started again.  Nothing else is fair.
FairSpec == Spec /\ WF_vars(Startup \/ Flush \/ Exit)
----------------------------------------------------------------------------
\* The records in quarantined segments.
Quarantined ==
  (UNION {aside[i] : i \in Ids}) \cup (UNION {content[i] : i \in loose})

\* Record r is found again by a restart that reads watermark w: in a quarantined
\* segment, in a segment above w, or in a file that w covers.
KeptAt(r, w) ==
  \/ r \in Quarantined
  \/ \E i \in files : i > w /\ r \in content[i]
  \/ \E f \in stagedDur \cup series : f.last <= w /\ r \in f.recs

\* No durable record is ever lost: at every instant, were the process to die
\* (manifest) or the power to fail (manifestDur) there, a record that an fsync
\* covered would still be in a segment recovery keeps, in a file the sweep keeps
\* or publishes, or in a quarantined segment (planner.rs run: "step order is the
\* crash-safety guarantee").  Frames the flush rejects are the exception, and
\* quarantined records in the two cases forfeit records: a later quarantine of
\* the same id replaced their file, or a power cut undid the rename of one whose
\* fsync had failed after a flush had committed past it.
NoLoss ==
  \A r \in stable \ (Bad \cup forfeit) :
    KeptAt(r, manifest) /\ KeptAt(r, manifestDur)

\* No row is published twice: two committed output files share no record, so no
\* crash, failed call or retried flush makes sweep_uncommitted or run publish
\* the same segment's rows under two names.  Strays are the exception: files of
\* a flush that did not commit, which the sweep failed to remove or whose
\* removal, never fsynced, a power cut undid.
NoDuplicate ==
  \A f, g \in {h \in staged \cup series : h.last <= manifest /\ ~h.stray} :
    f # g => f.recs \cap g.recs = {}

\* A running engine shows readers only committed files: what is in series/ is
\* covered by the manifest on disk (planner.rs run: "anything in series/ is
\* committed").
SeriesCommitted ==
  phase = "up" => \A f \in series : f.last <= manifest

\* A file published for good that the durable manifest covers, with no namesake
\* in tmp/ to take its place, now or after a power cut.
Settled(f) ==
  /\ f \in series \ fresh /\ f.last <= manifestDur
  /\ \A g \in staged \cup tmpGhosts : ~SameName(f, g)

\* A settled file is final: no later flush, sweep, crash or restart removes it,
\* replaces it or stages a file of its name (promote renames over what is there,
\* sweep_uncommitted deletes by name).
CommittedFilesStay ==
  [][\A f \in series : Settled(f) => Settled(f)']_vars

\* Every durable record the flush can decode is eventually in series/ (or was
\* quarantined), whatever failed calls, crashes and power cuts the flush timer
\* and the restarts have to get past.
EventuallyPublished ==
  \A r \in Rec \ Bad :
    r \in stable ~> r \in Quarantined \cup forfeit \/ \E f \in series : r \in f.recs
----------------------------------------------------------------------------
(* The inductive invariant behind NoLoss, in named parts. *)

\* The watermarks: durable <= on disk <= in memory.
Watermarks ==
  /\ manifestDur <= manifest
  /\ phase # "down" => manifest <= mem
  /\ phase = "opening" => mem = manifest
  /\ phase = "down" => mem = 0 /\ pc = "off"

\* The records that a <id>.wal.corrupt holds for good, or held.
Firm == forfeit \cup UNION {aside[i] : i \in Ids}

\* A stable record is no longer volatile, and has a place.
Histories ==
  /\ stable \cup volatile \subseteq accepted /\ volatile \cap stable = {}
  /\ \A r \in stable : r \in Firm \/ \E i \in Ids : r \in content[i]

\* A segment that is gone was committed durably or moved aside, where it may
\* have replaced another.
Gone ==
  /\ \A i \in Ids \ files :
       i <= manifestDur \/ i \in loose \/ content[i] \subseteq Firm
  /\ \A i \in unlinked : i <= manifestDur \/ content[i] = {}
  /\ \A i \in loose : aside[i] = {}

\* The rows of segments up to w are in files that w covers, with no namesake in
\* tmp/ about to replace them.
CoveredIn(w, cont, gone, qua, dur, tmp, pub) ==
  \A i \in Ids : i <= w /\ i \notin gone =>
    \A r \in cont[i] \ Bad :
      \/ r \in qua
      \/ \E f \in dur : f.last <= w /\ r \in f.recs
      \/ \E f \in pub : /\ f.last <= w /\ r \in f.recs
                        /\ \A g \in tmp : ~SameName(g, f)

Covered(w) ==
  CoveredIn(w, content, loose, Firm, stagedDur, staged \cup tmpGhosts, series)

AllCovered == Covered(manifestDur) /\ Covered(manifest) /\ Covered(mem)

\* Names are unique in tmp/ and in series/, and a power cut brings back none
\* beside a durable staged file.
UniqueNames ==
  /\ Distinct(staged) /\ Distinct(series)
  /\ \A f \in stagedDur, g \in tmpGhosts : ~SameName(f, g)

\* Nothing was ever appended behind a header that was never written.
ShortEmpty ==
  \A i \in Ids : hdr[i] = "short" => content[i] = {} /\ i # active

\* The active segment is above the watermark; only the leftover of a failed
\* roll is above the active segment.
ActiveTop ==
  /\ phase = "up" => /\ active \in files /\ active > mem
                     /\ \A i \in files : i <= active + 1
  /\ phase # "up" => active = 0

InFlush(p) == phase \in {"up", "closed"} /\ pc \in p

\* The flush's segment lists leave no gap above the watermark.
NoGap ==
  InFlush({"plan", "sweep", "orphans", "decode", "stage", "commit"}) =>
    /\ todo \cup consumed \subseteq files
    /\ \A i \in files, j \in todo \cup consumed :
         mem < i /\ i <= j => i \in todo \cup consumed
    /\ \A j \in consumed, i \in todo : j < i
    /\ pc = "plan" => consumed = {}
    /\ pc # "plan" => \A i \in todo \cup consumed :
                        i > mem /\ (phase = "up" => i < active)

\* What is about to be committed holds every row of the consumed segments.
OutputComplete ==
  InFlush({"stage", "commit"}) =>
    /\ consumed # {} /\ todo = {}
    /\ \A f \in out : f.last = Max(consumed)
    /\ \A i \in consumed : \A r \in content[i] \ Bad :
         \E f \in out : r \in f.recs
    /\ pc = "commit" => out \subseteq stagedDur

\* What each remaining loop may rely on.
Loops ==
  /\ pc = "off" => phase = "down"
  /\ pc \in {"recover", "purge", "tail", "create"} => phase = "opening"
  /\ phase = "opening" => pc \in {"sweep", "orphans", "recover", "purge", "tail",
                                  "create"}
  /\ pc \in {"idle", "list"} => consumed = {}
  /\ pc = "orphans" => \A f \in out : f.last > mem
  /\ pc = "purge" => \A i \in todo : i <= manifestDur
  /\ pc \in {"purge", "tail", "create"} =>
       next > mem /\ \A i \in files : i < next
  /\ pc = "commitsync" => consumed # {} /\ \A i \in consumed : i <= manifest
  /\ pc = "promote" => \A i \in todo : i <= manifestDur
  /\ pc \in {"commitsync", "promote"} => out \subseteq staged

\* The engine's books are consistent at every step of startup, flush and crash.
IInv ==
  /\ TypeOK
  /\ Watermarks /\ Histories /\ Gone /\ AllCovered /\ UniqueNames
  /\ ShortEmpty /\ ActiveTop /\ NoGap /\ OutputComplete /\ Loops
----------------------------------------------------------------------------
\* The records a power cut would leave in the log, and those it would leave
\* published.
Live      == UNION {content[i] : i \in {j \in files : j > manifestDur}}
Published == UNION {f.recs : f \in {g \in stagedDur \cup series :
                                      g.last <= manifestDur /\ ~g.stray}}

Abstract == INSTANCE Ledger WITH
  live <- Live, published <- Published, aside <- Quarantined

\* The engine implements the ledger: a record an fsync covered leaves the log
\* only to be published, for good, or set aside, from where only a power cut or
\* a later quarantine takes it; the manifest becoming durable is the single step
\* that publishes.
ImplementsLedger == Abstract!Spec
============================================================================
