----------------------------- MODULE WalWriter -----------------------------
(***************************************************************************)
(* wal/writer.rs: appenders, the flush's seal, close, and the committer    *)
(* thread, sharing one mutex; with wal/recovery.rs's treatment of the log  *)
(* when it is opened again.                                                *)
(*                                                                         *)
(* A step is one critical section, or one system call made outside the     *)
(* lock: the committer's group-commit fsync is the only such call.  A frame *)
(* is two units of bytes, so a write can stop in its middle; a file is the *)
(* sequence of units the kernel holds, of which the first dur[id] are on   *)
(* the disk.  Headers are left out: bytes = 0 is a segment with no frames. *)
(***************************************************************************)
EXTENDS Naturals, Sequences, FiniteSetsExt

CONSTANTS
  MaxFrame,   \* bound: frames ever handed to append
  MaxSeg,     \* bound: highest segment id
  BufCap,     \* capacity of the BufWriter, in units
  SegMax,     \* segment_max_bytes, in units
  Faults,     \* which calls may fail, and which outside events may happen
  MaxMishaps  \* bound: failed calls plus outside events in one behaviour

FaultKind ==
  { "write",      \* write(2) stops partway, in append or in a group commit
    "fsync",      \* sync_data fails, or either half of sync_in_lock
    "create",     \* create_segment fails and leaves no file
    "leftover",   \* create_segment fails after create_new made the file
    "close",      \* the owner closes the log
    "closesync",  \* sync_in_lock fails in close
    "crash",      \* the process dies
    "power" }     \* the power fails

ASSUME WalAssumption ==
  /\ MaxFrame \in Nat /\ MaxSeg \in Nat /\ MaxMishaps \in Nat
  /\ BufCap \in Nat \ {0} /\ SegMax \in Nat \ {0}
  /\ Faults \subseteq FaultKind

Ids   == 1..MaxSeg
Frame == 1..MaxFrame
Unit  == Frame \X {1, 2}

VARIABLES
  present,   \* wal/: the segment ids present
  seg,       \* the units of each segment file, as the kernel holds them
  dur,       \* how many of them a power cut cannot take
  id,        \* Active::id, 0 when State::open is None
  buf,       \* the BufWriter's buffer
  bytes,     \* Active::bytes
  synced,    \* Active::synced
  torn,      \* State::needs_roll
  stop,      \* State::stop
  pc,        \* the committer: wait, sync, mark, roll or gone
  cap,       \* what the committer took out of the lock: the id, and upto
  retry,     \* the committer's retry
  sent,      \* frames handed to append so far
  acked,     \* history: frames append returned Ok for
  mishaps    \* steps in which a call failed or something happened outside

disk   == <<present, seg, dur>>
active == <<id, buf, bytes, synced>>
thread == <<pc, cap, retry>>
hist   == <<sent, acked>>
vars   == <<disk, active, torn, stop, thread, hist, mishaps>>

\* The type invariant of the writer's state.
TypeOK ==
  /\ present \subseteq Ids
  /\ seg \in [Ids -> Seq(Unit)]
  /\ dur \in [Ids -> Nat]
  /\ id \in 0..MaxSeg
  /\ buf \in Seq(Unit) /\ Len(buf) <= BufCap
  /\ bytes \in Nat /\ synced \in Nat
  /\ torn \in BOOLEAN /\ stop \in BOOLEAN /\ retry \in BOOLEAN
  /\ pc \in {"wait", "sync", "mark", "roll", "gone"}
  /\ cap \in [id : 0..MaxSeg, upto : Nat]
  /\ sent \in 0..MaxFrame /\ acked \subseteq Frame
  /\ mishaps \in 0..MaxMishaps

\* A data directory no writer has opened yet.
Init ==
  /\ present = {} /\ seg = [i \in Ids |-> <<>>] /\ dur = [i \in Ids |-> 0]
  /\ id = 0 /\ buf = <<>> /\ bytes = 0 /\ synced = 0
  /\ torn = FALSE /\ stop = FALSE
  /\ pc = "gone" /\ cap = [id |-> 0, upto |-> 0] /\ retry = FALSE
  /\ sent = 0 /\ acked = {} /\ mishaps = 0
----------------------------------------------------------------------------
Take(u, n) == SubSeq(u, 1, n)
Drop(u, n) == SubSeq(u, n + 1, Len(u))

\* wal/reader.rs next_frame: the number of whole frames at the head of a file.
Whole(u) ==
  Max({k \in 0..(Len(u) \div 2) :
         \A j \in 1..k : u[2 * j - 1][2] = 1 /\ u[2 * j] = <<u[2 * j - 1][1], 2>>})

Frames(u) == [k \in 1..Whole(u) |-> u[2 * k][1]]

\* What the segments hold, one after the other.
Concat(g) ==
  LET upto[k \in 0..MaxSeg] == IF k = 0 THEN <<>> ELSE upto[k - 1] \o g[k]
  IN  upto[MaxSeg]

\* n fresh frames back to back, as append_batch receives them.
Encoded(n) == [j \in 1..(2 * n) |-> <<sent + ((j + 1) \div 2), 2 - (j % 2)>>]

\* What goes wrong in one step, if anything.
Mishap(kinds) ==
  IF kinds = {} THEN UNCHANGED mishaps
  ELSE kinds \subseteq Faults /\ mishaps < MaxMishaps /\ mishaps' = mishaps + 1

\* A file and a buffer after BufWriter::flush stopped partway.
PartFlush(file, b) ==
  {[file |-> file \o Take(b, k), buf |-> Drop(b, k)] : k \in 0..(Len(b) - 1)}
----------------------------------------------------------------------------
\* A roll that moves on whatever the file and its durable length have become.
RollOver(file, n, kinds) ==
  /\ id + 1 \in Ids \ present
  /\ seg' = [seg EXCEPT ![id] = file] /\ dur' = [dur EXCEPT ![id] = n]
  /\ present' = present \cup {id + 1}
  /\ id' = id + 1 /\ buf' = <<>> /\ bytes' = 0 /\ synced' = 0
  /\ torn' = FALSE
  /\ Mishap(kinds)

\* Mutant: the outgoing segment is flushed but not fsynced.
RollUnsynced(file, b, isTorn, kinds) ==
  RollOver(file \o b, dur[id], kinds)

\* Mutant: the outgoing segment is fsynced but not flushed.
RollUnflushed(file, b, isTorn, kinds) ==
  RollOver(file, Len(file), kinds)

\* Shared::roll of a segment with the given file and buffer, kinds being the
\* calls that fail in this critical section; isTorn is needs_roll until the
\* roll succeeds.  A failed create still leaves the segment synced.
Roll(file, b, isTorn, kinds) ==
  \/ kinds \subseteq {"write"} /\ RollOver(file \o b, Len(file \o b), kinds)
  \/ /\ \/ "create" \in kinds /\ present' = present
        \/ /\ "leftover" \in kinds /\ id + 1 \in Ids \ present
           /\ present' = present \cup {id + 1}
        \/ kinds \subseteq {"write"} /\ id + 1 \in present /\ present' = present
     /\ seg' = [seg EXCEPT ![id] = file \o b]
     /\ dur' = [dur EXCEPT ![id] = Len(file \o b)]
     /\ buf' = <<>> /\ synced' = bytes
     /\ torn' = isTorn
     /\ UNCHANGED <<id, bytes>>
     /\ Mishap(kinds)
  \/ /\ "fsync" \in kinds
     /\ \E s \in {[file |-> file \o b, buf |-> <<>>]} \cup PartFlush(file, b) :
          seg' = [seg EXCEPT ![id] = s.file] /\ buf' = s.buf
     /\ torn' = isTorn
     /\ UNCHANGED <<present, dur, id, bytes, synced>>
     /\ Mishap(kinds)

\* At most one of the calls a roll makes fails.
RollFaults == {{}, {"fsync"}, {"create"}, {"leftover"}}

\* State::open is Some.
Opened == id # 0

\* WalWriter::append_bytes, Ok: BufWriter copies what is smaller than the room
\* left, else flushes first, and bypasses the buffer for what is as large as it.
AppendBytes(n) ==
  LET u == Encoded(n) IN
  /\ Opened /\ ~torn /\ sent + n <= MaxFrame
  /\ IF Len(u) >= BufCap
     THEN seg' = [seg EXCEPT ![id] = @ \o buf \o u] /\ buf' = <<>>
     ELSE IF Len(buf) + Len(u) > BufCap
     THEN seg' = [seg EXCEPT ![id] = @ \o buf] /\ buf' = u
     ELSE seg' = seg /\ buf' = buf \o u
  /\ bytes' = bytes + Len(u)
  /\ sent' = sent + n /\ acked' = acked \cup ((sent + 1)..(sent + n))
  /\ UNCHANGED <<present, dur, id, synced, torn, stop, thread, mishaps>>

\* Mutant: a torn frame does not refuse later appends.
AppendBytesFailsOpen(n) ==
  LET u == Encoded(n) IN
  /\ Opened /\ ~torn /\ sent + n <= MaxFrame /\ Len(u) >= BufCap
  /\ Mishap({"write"})
  /\ \E k \in 0..(Len(u) - 1) : seg' = [seg EXCEPT ![id] = @ \o buf \o Take(u, k)]
  /\ buf' = <<>> /\ sent' = sent + n
  /\ UNCHANGED <<present, dur, id, bytes, synced, torn, acked, stop, thread>>

\* WalWriter::append_bytes, Err: the write stopped partway, leaving perhaps a
\* torn frame, and the segment is rolled so that it stays at its tail.
AppendBytesFails(n) ==
  LET u == Encoded(n) IN
  /\ Opened /\ ~torn /\ sent + n <= MaxFrame
  /\ Len(u) >= BufCap \/ Len(buf) + Len(u) > BufCap
  /\ \E kinds \in RollFaults,
        s \in PartFlush(seg[id], buf) \cup
              (IF Len(u) < BufCap THEN {}
               ELSE {[file |-> seg[id] \o buf \o Take(u, k), buf |-> <<>>] :
                       k \in 0..(Len(u) - 1)}) :
       Roll(s.file, s.buf, TRUE, {"write"} \cup kinds)
  /\ sent' = sent + n
  /\ UNCHANGED <<acked, stop, thread>>

\* WalWriter::seal, for the flush: an empty segment is not rolled.
Seal ==
  /\ Opened /\ bytes > 0
  /\ \E kinds \in RollFaults : Roll(seg[id], buf, torn, kinds)
  /\ UNCHANGED <<stop, thread, hist>>

\* WalWriter::close, up to joining the committer.
CloseBegin ==
  /\ Opened /\ ~stop /\ Mishap({"close"})
  /\ stop' = TRUE
  /\ UNCHANGED <<disk, active, torn, thread, hist>>

\* WalWriter::close after the join: sync_in_lock, and the segment is dropped
\* whatever that returned; dropping a BufWriter flushes it once more.
CloseEnd ==
  /\ Opened /\ stop /\ pc = "gone"
  /\ \/ /\ seg' = [seg EXCEPT ![id] = @ \o buf]
        /\ dur' = [dur EXCEPT ![id] = Len(seg[id] \o buf)]
        /\ UNCHANGED mishaps
     \/ /\ Mishap({"closesync"})
        /\ \E k \in 0..Len(buf) : seg' = [seg EXCEPT ![id] = @ \o Take(buf, k)]
        /\ UNCHANGED dur
  /\ id' = 0 /\ buf' = <<>> /\ bytes' = 0 /\ synced' = 0
  /\ UNCHANGED <<present, torn, stop, thread, hist>>
----------------------------------------------------------------------------
\* Mutant: the committer leaves only when nothing is dirty.
CommitterStopClean ==
  /\ pc = "wait" /\ stop /\ bytes = synced
  /\ pc' = "gone"
  /\ UNCHANGED <<disk, active, torn, stop, cap, retry, hist, mishaps>>

\* committer, first critical section: told to stop.
CommitterStop ==
  /\ pc = "wait" /\ stop
  /\ pc' = "gone"
  /\ UNCHANGED <<disk, active, torn, stop, cap, retry, hist, mishaps>>

\* committer, first critical section: no commit is due yet.
CommitterIdle ==
  /\ pc = "wait" /\ ~stop /\ ~retry
  /\ pc' = "roll"
  /\ UNCHANGED <<disk, active, torn, stop, cap, retry, hist, mishaps>>

\* committer, first critical section: a commit is due (an elapsed interval, a
\* full window, or a retry), so the buffer is flushed.
CommitterFlush ==
  /\ pc = "wait" /\ ~stop /\ (retry \/ bytes > synced)
  /\ \/ /\ seg' = [seg EXCEPT ![id] = @ \o buf] /\ buf' = <<>>
        /\ cap' = [id |-> id, upto |-> bytes] /\ pc' = "sync"
        /\ UNCHANGED <<retry, mishaps>>
     \/ /\ Mishap({"write"})
        /\ \E s \in PartFlush(seg[id], buf) :
             seg' = [seg EXCEPT ![id] = s.file] /\ buf' = s.buf
        /\ retry' = TRUE /\ pc' = "roll"
        /\ UNCHANGED cap
  /\ UNCHANGED <<present, dur, id, bytes, synced, torn, stop, hist>>

\* Mutant: a failed sync_data is taken for a success.
CommitterSyncBlind ==
  /\ pc = "sync" /\ pc' = "mark" /\ retry' = FALSE
  /\ \/ dur' = [dur EXCEPT ![cap.id] = Len(seg[cap.id])] /\ UNCHANGED mishaps
     \/ Mishap({"fsync"}) /\ UNCHANGED dur
  /\ UNCHANGED <<present, seg, active, torn, stop, cap, hist>>

\* committer: sync_data of the captured descriptor, outside the lock.
CommitterSync ==
  /\ pc = "sync"
  /\ \/ /\ dur' = [dur EXCEPT ![cap.id] = Len(seg[cap.id])]
        /\ retry' = FALSE /\ pc' = "mark"
        /\ UNCHANGED mishaps
     \/ /\ Mishap({"fsync"})
        /\ retry' = TRUE /\ pc' = "roll"
        /\ UNCHANGED dur
  /\ UNCHANGED <<present, seg, active, torn, stop, cap, hist>>

\* Mutant: the captured length is credited to whatever segment is active now.
CommitterMarkAny ==
  /\ pc = "mark" /\ pc' = "roll"
  /\ synced' = IF id = 0 THEN synced ELSE Max({synced, cap.upto})
  /\ UNCHANGED <<disk, id, buf, bytes, torn, stop, cap, retry, hist, mishaps>>

\* committer: record the fsync, unless a seal swapped segments meanwhile.
CommitterMark ==
  /\ pc = "mark" /\ pc' = "roll"
  /\ synced' = IF id = cap.id THEN Max({synced, cap.upto}) ELSE synced
  /\ UNCHANGED <<disk, id, buf, bytes, torn, stop, cap, retry, hist, mishaps>>

\* Mutant: only a full segment is rolled, not a torn one.
CommitterRollFull ==
  /\ pc = "roll" /\ pc' = "wait"
  /\ IF bytes >= SegMax
     THEN \E kinds \in RollFaults : Roll(seg[id], buf, torn, kinds)
     ELSE UNCHANGED <<disk, active, torn, mishaps>>
  /\ UNCHANGED <<stop, cap, retry, hist>>

\* committer, last critical section: roll a full or torn segment.
CommitterRoll ==
  /\ pc = "roll" /\ pc' = "wait"
  /\ IF bytes >= SegMax \/ torn
     THEN \E kinds \in RollFaults : Roll(seg[id], buf, torn, kinds)
     ELSE UNCHANGED <<disk, active, torn, mishaps>>
  /\ UNCHANGED <<stop, cap, retry, hist>>
----------------------------------------------------------------------------
\* The process is gone, and its memory with it.
Gone ==
  /\ id' = 0 /\ buf' = <<>> /\ bytes' = 0 /\ synced' = 0
  /\ torn' = FALSE /\ stop' = FALSE
  /\ pc' = "gone" /\ cap' = [id |-> 0, upto |-> 0] /\ retry' = FALSE

\* The process dies, perhaps in the middle of writing its buffer out.
Crash ==
  /\ Opened /\ Mishap({"crash"})
  /\ \E k \in 0..Len(buf) : seg' = [seg EXCEPT ![id] = @ \o Take(buf, k)]
  /\ Gone
  /\ UNCHANGED <<present, dur, hist>>

\* The power fails: each file keeps what was fsynced and perhaps more of it.
PowerCut ==
  LET loose == {i \in present : dur[i] < Len(seg[i])}
      most  == Max({0} \cup {Len(seg[i]) : i \in loose})
  IN
  /\ Mishap({"power"})
  /\ \E keep \in [loose -> 0..most] :
       /\ \A i \in loose : dur[i] <= keep[i] /\ keep[i] <= Len(seg[i])
       /\ seg' = [i \in Ids |-> IF i \in loose THEN Take(seg[i], keep[i]) ELSE seg[i]]
       /\ dur' = [i \in Ids |-> IF i \in loose THEN keep[i] ELSE dur[i]]
  /\ Gone
  /\ UNCHANGED <<present, hist>>

\* recover, then WalWriter::open: the tail is truncated to whole frames, and
\* fsynced only if that removed something; a new segment becomes active.
Open ==
  /\ ~Opened
  /\ \/ present = {} /\ id' = 1 /\ UNCHANGED <<seg, dur>>
     \/ \E tail \in present :
          LET clean == Take(seg[tail], 2 * Whole(seg[tail]))
          IN  /\ \A i \in present : i <= tail
              /\ seg' = [seg EXCEPT ![tail] = clean]
              /\ dur' = IF clean = seg[tail] THEN dur
                        ELSE [dur EXCEPT ![tail] = Len(clean)]
              /\ id' = tail + 1
  /\ id' \in Ids
  /\ present' = present \cup {id'}
  /\ buf' = <<>> /\ bytes' = 0 /\ synced' = 0 /\ torn' = FALSE /\ stop' = FALSE
  /\ pc' = "wait" /\ cap' = [id |-> 0, upto |-> 0] /\ retry' = FALSE
  /\ UNCHANGED <<hist, mishaps>>
----------------------------------------------------------------------------
Committer ==
  \/ CommitterStop \/ CommitterIdle \/ CommitterFlush \/ CommitterSync
  \/ CommitterMark \/ CommitterRoll

Next ==
  \/ \E n \in 1..2 : AppendBytes(n) \/ AppendBytesFails(n)
  \/ Seal \/ CloseBegin \/ CloseEnd
  \/ Committer
  \/ Crash \/ PowerCut \/ Open

Spec == Init /\ [][Next]_vars

\* The committer keeps running; since time passes, a commit that stays owed
\* becomes due; close returns once the committer is gone.
FairSpec ==
  Spec /\ WF_vars(Committer) /\ SF_vars(CommitterFlush) /\ WF_vars(CloseEnd)
----------------------------------------------------------------------------
\* The frames of the log in order, those still buffered included, and the ones
\* that would survive a power cut.
Units(i) == IF i = id THEN seg[i] \o buf ELSE seg[i]
LogNow   == Concat([i \in Ids |-> Frames(Units(i))])
Durable  == UNION {Range(Frames(Take(seg[i], dur[i]))) : i \in present}

\* The counters tell the truth: bytes counts what was handed to the segment,
\* synced never exceeds it (dirty is an unsigned difference) nor what is on the
\* disk (WalStats: dirty_bytes is "what a power cut would cost right now").  The rest
\* of the state has its types.
CountersHonest ==
  /\ TypeOK
  /\ Opened =>
    /\ synced <= bytes /\ synced <= dur[id]
    /\ dur[id] <= Len(seg[id])
    /\ bytes <= Len(seg[id]) + Len(buf)
    /\ ~torn => bytes = Len(seg[id]) + Len(buf)

\* A torn frame "stays at a segment's tail, never mid-segment" (append_bytes):
\* all but perhaps a last half frame of a segment is readable.
TornOnlyAtEnd ==
  \A i \in present : Len(Units(i)) <= 2 * Whole(Units(i)) + 1

\* A segment before the active one is on the disk to its last byte: the roll
\* syncs it in the lock "before its successor exists, because recovery scans only
\* the tail" (writer.rs module doc).
SealedDurable ==
  \A i \in present : i < id => dur[i] = Len(seg[i])

\* Recovery scans only the tail because a segment before it "can't be torn"
\* (recovery.rs module doc).
BeforeTailWhole ==
  \A i \in present : i # Max(present) => Len(seg[i]) = 2 * Whole(seg[i])

\* Every accepted frame becomes durable, whatever writes and fsyncs fail on the
\* way: the committer retries, the roll and the close sync in the lock.
EventuallyDurable ==
  \A f \in Frame : f \in acked ~> f \in Durable

\* Appends refused because of a torn frame are accepted again, unless the log
\* is closed first or an earlier create_segment failed after its create_new:
\* "the committer retries the roll every tick", and only the file such a failure
\* left behind, whose name create_new refuses, can make every retry fail.
AppendsResume == torn ~> ~torn \/ stop \/ id + 1 \in present

\* Closing ends: the committer sees stop and the join returns.
CloseReturns == stop ~> ~Opened

Abstract == INSTANCE Log WITH up <- Opened, log <- LogNow, durable <- Durable

\* The writer implements the abstract log: accepted frames stay, in order,
\* through rolls, torn writes and failed syncs, and only a stop can lose those
\* no fsync covered.
ImplementsLog == Abstract!Spec
=============================================================================
