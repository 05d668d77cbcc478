------------------------------ MODULE Segment ------------------------------
(***************************************************************************)
(* The life of one WAL segment as bytes: frames are appended to it by      *)
(* engine.rs, a stop cuts it, storage damages it, wal/recovery.rs amends   *)
(* it as the tail, and the flush reads it with wal/reader.rs, putting each *)
(* frame into its batch or into rejects/ (flush/planner.rs).               *)
(*                                                                         *)
(* One series.  When the file's cells reach the disk is WalWriter's        *)
(* subject: here a stop leaves any prefix.  What becomes of the batch is   *)
(* MergeRuns's and FlushEngine's: here a flush that fails later on reads   *)
(* the segment again.                                                      *)
(***************************************************************************)
EXTENDS Codec, Functions

CONSTANTS
  Rows,        \* the rows local producers append
  Wire,        \* the batches remote clients send, as cells
  Series,      \* the name of the series
  Keys,        \* the key types of each epoch: epoch e at index e + 1
  NotNull,     \* the positions of its keys that are not nullable
  TsMin,       \* limits.ts_min
  TsMax,       \* the accept window's upper bound, the clock standing still
  Limits,      \* the values of limits.max_record_bytes over the restarts
  Cap,         \* limits.reject_max_bytes
  Garble,      \* what damaged cells hold
  Faults,      \* damage, history, aside, reject
  MaxAppends,  \* bound: calls of append and append_raw
  MaxFlush,    \* bound: flushes that read the segment
  MaxMishaps   \* bound: faults

ASSUME SegmentAssumption ==
  /\ {TsMin, TsMax, Cap, MaxAppends, MaxFlush, MaxMishaps} \subseteq Nat
  /\ Limits \subseteq Nat /\ Limits # {} /\ Keys # <<>>
  /\ DOMAIN NotNull = DOMAIN Keys
  /\ Faults \subseteq {"damage", "history", "aside", "reject"}

VARIABLES
  phase,      \* run, down, sealed, reading, read, consumed; gone, aside (moved
              \* out of wal/) or refused (the start fails)
  file,       \* the segment's cells
  limit,      \* limits.max_record_bytes
  known,      \* number of epochs in the manifest
  appends,    \* calls so far
  accepted,   \* history: where each accepted frame starts, and the frame; of
              \* those, after a stop, the ones it left whole
  cut,        \* history: the file was damaged
  clean,      \* history: recovery has amended the file since it was last damaged
  at,         \* SegmentReader::at
  batch,      \* frames handed to the batch: where, the frame and its row
  refused,    \* frames rejected: where, and how many cells
  skipped,    \* bytes_skipped
  dir,        \* size of rejects/
  used,       \* RejectSink::used, as a sequence of at most one
  partial,    \* history: what failed writes left in rejects/
  flushes,    \* flushes so far
  mishaps     \* faults so far

reader  == <<at, batch, refused, skipped>>
sink    == <<dir, used, partial>>
setting == <<limit, known>>
hist    == <<accepted, cut, clean>>
vars    == <<phase, file, setting, appends, hist, reader, sink, flushes, mishaps>>

Init ==
  /\ phase = "run" /\ file = SegmentHeader(1) /\ appends = 0
  /\ limit \in Limits /\ known = Len(Keys)
  /\ accepted = <<>> /\ cut = FALSE /\ clean = FALSE
  /\ at = 0 /\ batch = <<>> /\ refused = <<>> /\ skipped = 0
  /\ dir = 0 /\ used = <<>> /\ partial = 0 /\ flushes = 0 /\ mishaps = 0

Mishap(kind) ==
  kind \in Faults /\ mishaps < MaxMishaps /\ mishaps' = mishaps + 1

From(s, i) == SubSeq(s, i, Len(s))
Upto(s, n) == SubSeq(s, 1, n)
----------------------------------------------------------------------------
(* Ingest                                                                  *)

\* matches_schema; null matches any type.
MatchesSchema(types, values) ==
  /\ Len(types) = Len(values)
  /\ \A i \in DOMAIN types : values[i].ty \in {types[i], "Null"}

\* check_ts
CheckTs(ts) == TsMin <= ts /\ ts <= TsMax

\* check_row
CheckRow(row) ==
  /\ CheckTs(row.ts) /\ MatchesSchema(Keys[known], row.keys)
  /\ \A i \in NotNull[known] : row.keys[i].ty # "Null"

\* WalWriter::append_batch, of whole frames.
Log(frames) ==
  LET Start(k) == Len(file) + 1 + Len(FlattenSeq(Upto(frames, k - 1)))
  IN  /\ phase = "run" /\ appends < MaxAppends /\ appends' = appends + 1
      /\ file' = file \o FlattenSeq(frames)
      /\ accepted' = accepted \o [k \in DOMAIN frames |->
                                    [at |-> Start(k), frame |-> frames[k]]]
      /\ UNCHANGED <<phase, setting, cut, clean, reader, sink, flushes, mishaps>>

\* Engine::append, of a row that check_row, encode and the limit accept.
AppendRow(row) ==
  /\ row.epoch = known - 1 /\ CheckRow(row)
  /\ Encodable(row) /\ Len(Encode(row)) <= limit
  /\ Log(<<Encode(row)>>)

\* append_raw's loop: the frames it keeps of a batch.  One it can delimit is
\* kept or skipped; at one it cannot, the rest is dropped.
Good(bytes) ==
  LET Scan[i \in 1..(Len(bytes) + 1)] ==
        LET p    == ValidatePrefix(From(bytes, i), limit)
            kept == CheckTs(p.ts) /\ p.series = Series /\ p.epoch < known
        IN  IF p.status # "Ok" THEN <<>>
            ELSE (IF kept THEN <<SubSeq(bytes, i, i + p.len - 1)>> ELSE <<>>)
                   \o Scan[i + p.len]
  IN  Scan[1]

\* Engine::append_raw
AppendRaw(bytes) == Good(bytes) # <<>> /\ Log(Good(bytes))
----------------------------------------------------------------------------
(* Stops, damage and recovery                                              *)

\* The flush's seal, or a clean close.
SealSegment ==
  /\ phase = "run" /\ phase' = "sealed"
  /\ UNCHANGED <<file, setting, appends, hist, reader, sink, flushes, mishaps>>

\* The process or the machine dies.
Stop ==
  /\ phase = "run" /\ phase' = "down"
  /\ \E n \in 0..Len(file) :
       /\ file' = Upto(file, n)
       /\ accepted' = SelectSeq(accepted, LAMBDA a : a.at + Len(a.frame) - 1 <= n)
  /\ UNCHANGED <<setting, appends, cut, clean, reader, sink, flushes, mishaps>>

\* Storage changes a cell.
Damage ==
  /\ phase \in {"down", "sealed"} /\ Mishap("damage")
  /\ \E i \in DOMAIN file, x \in Garble :
       x # file[i] /\ file' = [file EXCEPT ![i] = x]
  /\ cut' = TRUE /\ clean' = FALSE
  /\ UNCHANGED <<phase, setting, appends, accepted, reader, sink, flushes>>

\* Mutant: the scan bounds frames by the configured limit.
ScanTailLimit ==
  LET Scan[i \in 1..(Len(file) + 1)] ==
        LET p == ValidatePrefix(From(file, i), limit')
        IN  IF p.status # "Ok" THEN i ELSE Scan[i + p.len]
  IN  Scan[SegmentHeaderCells + 1]

\* Mutant: the scan only follows the lengths.
ScanTailBlind ==
  LET Scan[i \in 1..(Len(file) + 1)] ==
        LET buf == From(file, i)
        IN  IF FrameExtent(buf, Len(file)) # "Ok" THEN i ELSE Scan[i + FrameLen(buf)]
  IN  Scan[SegmentHeaderCells + 1]

\* scan_tail: the first cell that does not belong to a delimitable frame.
ScanTail ==
  LET Scan[i \in 1..(Len(file) + 1)] ==
        LET p == ValidatePrefix(From(file, i), Len(file))
        IN  IF p.status # "Ok" THEN i ELSE Scan[i + p.len]
  IN  Scan[SegmentHeaderCells + 1]

\* recover's treatment of the tail, by a process that may have another limit
\* and, if manifest.json was edited, fewer epochs.
Recover ==
  /\ phase = "down"
  /\ limit' \in Limits
  /\ \/ known' = known /\ UNCHANGED mishaps
     \/ Mishap("history") /\ known' \in 1..(known - 1)
  /\ phase' = CASE ParseHeader(file) = "Ok"          -> "sealed"
                [] ParseHeader(file) = "Truncated"   -> "gone"
                [] ParseHeader(file) = "BadMagic"    -> "aside"
                [] ParseHeader(file) = "Unsupported" -> "refused"
  /\ file' = IF phase' = "sealed" THEN Upto(file, ScanTail - 1) ELSE file
  /\ clean' = TRUE
  /\ UNCHANGED <<appends, accepted, cut, reader, sink, flushes>>
----------------------------------------------------------------------------
(* The flush                                                               *)

\* decode_segment parses the header; an unreadable segment is moved aside, or
\* stays when that fails.
FlushOpen ==
  /\ phase = "sealed" /\ flushes < MaxFlush /\ flushes' = flushes + 1
  /\ batch' = <<>> /\ refused' = <<>> /\ used' = <<>>
  /\ IF ParseHeader(file) = "Ok"
     THEN /\ phase' = "reading" /\ at' = SegmentHeaderCells + 1 /\ skipped' = 0
          /\ UNCHANGED mishaps
     ELSE /\ at' = 0 /\ skipped' = Len(file)
          /\ \/ phase' = "aside" /\ UNCHANGED mishaps
             \/ Mishap("aside") /\ UNCHANGED phase
  /\ UNCHANGED <<file, setting, appends, hist, dir, partial>>

\* Mutant: a flush starts to count from zero.
RejectFromZero(n) ==
  LET u == IF used = <<>> THEN 0 ELSE used[1]
  IN  /\ IF u + n > Cap THEN used' = <<u>> /\ UNCHANGED dir
         ELSE used' = <<u + n>> /\ dir' = dir + n
      /\ UNCHANGED <<partial, mishaps>>

\* RejectSink::append of n cells: past the cap they are only counted, a failed
\* write is only logged.
Reject(n) ==
  LET u == IF used = <<>> THEN dir ELSE used[1]
  IN  \/ /\ u + n > Cap
         /\ used' = <<u>> /\ UNCHANGED <<dir, partial, mishaps>>
      \/ /\ u + n <= Cap
         /\ used' = <<u + n>> /\ dir' = dir + n /\ UNCHANGED <<partial, mishaps>>
      \/ /\ u + n <= Cap /\ Mishap("reject")
         /\ \E k \in 0..(n - 1) : dir' = dir + k /\ partial' = partial + k
         /\ used' = <<u>>

\* validate_prefix of the reader's next frame.
Here == From(file, at)
Seen == ValidatePrefix(Here, Len(file))

\* With prefix p, the row of that frame, if its epoch is in the manifest, it
\* decodes, and its values have the types of the epoch.
Fine(p) ==
  IF p.series # Series \/ p.epoch >= known THEN <<>>
  ELSE LET types == Keys[p.epoch + 1]
           row   == Decode(Here, Len(types), Len(file))
       IN  IF row # <<>> /\ MatchesSchema(types, row[1].keys) THEN row ELSE <<>>

\* A frame that can be delimited goes into the batch.  UnknownSchema,
\* BadRecord, or values of other types: only this frame is rejected, and kept
\* verbatim.
NextFrame(p) ==
  /\ p.status = "Ok" /\ UNCHANGED phase
  /\ \E row \in {Fine(p)} :
       \/ /\ row # <<>>
          /\ batch' = Append(batch, [at |-> at, frame |-> Upto(Here, p.len), row |-> row[1]])
          /\ UNCHANGED <<refused, sink, mishaps>>
       \/ /\ row = <<>>
          /\ Reject(p.len) /\ refused' = Append(refused, [at |-> at, len |-> p.len])
          /\ UNCHANGED batch
  /\ at' = at + p.len
  /\ UNCHANGED skipped

\* Mutant: the rest of the segment is kept but not counted.
UndecodableUncounted(p) ==
  /\ p.status # "Ok" /\ phase' = "read"
  /\ Reject(Len(Here)) /\ refused' = Append(refused, [at |-> at, len |-> 0])
  /\ UNCHANGED <<at, batch, skipped>>

\* Undecodable: the scan stops, and the rest is counted and kept.
Undecodable(p) ==
  /\ p.status # "Ok" /\ phase' = "read"
  /\ Reject(Len(Here)) /\ refused' = Append(refused, [at |-> at, len |-> 0])
  /\ skipped' = skipped + Len(Here)
  /\ UNCHANGED <<at, batch>>

\* SegmentReader::next_frame and the body of decode_segment's loop.
NextItem ==
  /\ phase = "reading" /\ at <= Len(file)
  /\ \E p \in {Seen} : NextFrame(p) \/ Undecodable(p)
  /\ UNCHANGED <<file, setting, appends, hist, flushes>>

\* The end of the segment.
NextNone ==
  /\ phase = "reading" /\ at > Len(file) /\ phase' = "read"
  /\ UNCHANGED <<file, setting, appends, hist, reader, sink, flushes, mishaps>>

\* The flush commits, or fails and leaves the segment to the next one.
FlushEnd ==
  /\ phase = "read" /\ phase' \in {"consumed", "sealed"}
  /\ UNCHANGED <<file, setting, appends, hist, reader, sink, flushes, mishaps>>

Next ==
  \/ \E row \in Rows : AppendRow(row)
  \/ \E bytes \in Wire : AppendRaw(bytes)
  \/ SealSegment \/ Stop \/ Damage \/ Recover
  \/ FlushOpen \/ NextItem \/ NextNone \/ FlushEnd

Spec == Init /\ [][Next]_vars
----------------------------------------------------------------------------
(* Properties                                                              *)

\* The shape of the state: the reader never runs past the file.
TypeOK ==
  /\ phase \in {"run", "down", "sealed", "reading", "read", "consumed", "gone",
                "aside", "refused"}
  /\ limit \in Limits /\ known \in 1..Len(Keys)
  /\ at \in 0..(Len(file) + 1) /\ skipped \in 0..Len(file)
  /\ cut \in BOOLEAN /\ clean \in BOOLEAN
  /\ Len(used) <= 1 /\ dir \in Nat /\ partial \in Nat
  /\ appends \in 0..MaxAppends /\ flushes \in 0..MaxFlush /\ mishaps \in 0..MaxMishaps

\* Unless storage damaged it, a segment read to its end gives every frame that
\* was whole when a stop cut it, whatever limit the present process has
\* ("tightening config can't discard durable records", recover), and however
\* many of them do not decode: none hides a later one, as append_raw keeps no
\* frame the reader cannot delimit.
AllSeen ==
  phase = "read" /\ ~ cut =>
    {x.at : x \in ToSet(batch)} \cup {x.at : x \in {y \in ToSet(refused) : y.len > 0}}
      = {a.at : a \in ToSet(accepted)}

\* Damaged or not, nothing is read that was not written: a frame in the batch
\* is one that was accepted, in its place, and its row is the one its producer
\* encoded, the pairs of extra in canonical order.
NothingInvented ==
  phase = "read" =>
  \A b \in ToSet(batch) :
    /\ [at |-> b.at, frame |-> b.frame] \in ToSet(accepted)
    /\ \A r \in Rows : Encode(r) = b.frame => b.row = [r EXCEPT !.extra = Canonical(@)]

\* What is read survives being encoded again, as an exporter or a replay would
\* do.  A frame whose extra pairs are in order comes back byte for byte ("the
\* canonical order makes re-encoding byte-identical", codec.rs); one that
\* append_raw took from another encoder, with pairs out of order or a name
\* repeated, comes back as the same row with canonical pairs, each name once.
\* And the merge, which trusts the checksum, sees the same row and sort key.
Reencodes ==
  phase = "read" =>
  \A b \in ToSet(batch) :
    LET arity == Len(b.row.keys)
        again == Encode(b.row)
        extra == Canonical(b.row.extra)
        Names(pairs) == [i \in DOMAIN pairs |-> pairs[i][1]]
    IN
    /\ IsCanonical(b.row.extra) => again = b.frame
    /\ Decode(again, arity, Len(again)) = <<[b.row EXCEPT !.extra = extra]>>
    /\ IsInjective(Names(extra)) /\ Range(Names(extra)) = Range(Names(b.row.extra))
    /\ DecodeVerified(b.frame, arity) = <<b.row>>
    /\ SortKey(b.frame) = <<b.row.ts, b.row.id, Len(b.frame)>>

\* Recovery brings "wal/ into a state the flush can read start to finish": once
\* it has amended the file nothing of it is skipped, whatever was damaged.
ReadableOnceRecovered ==
  clean => skipped = 0

\* Without damage a segment that a stop cut anywhere, its header included, is
\* neither quarantined nor refused: a short header is told from a wrong one.
TornIsNotCorrupt ==
  ~ cut => phase \notin {"aside", "refused"}

\* Every cell of a segment that was read is in the batch, in a rejected frame
\* or among the bytes reported as skipped, and the reader never runs past it.
CellsAccounted ==
  TypeOK /\ (phase = "read" =>
    SegmentHeaderCells + SumFunction([i \in DOMAIN batch |-> Len(batch[i].frame)])
      + SumFunction([i \in DOMAIN refused |-> refused[i].len]) + skipped = Len(file))

\* rejects/ is "capped in total bytes", over all flushes; only what a failed
\* write left behind can come on top, because used is not measured again.
CapHeld == dir <= Cap + partial
=============================================================================
