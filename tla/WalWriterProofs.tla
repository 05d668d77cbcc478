---------------------------- MODULE WalWriterProofs ----------------------------
(***************************************************************************)
(* WalInv is an invariant of the WAL writer, for any number of frames and  *)
(* segments, any buffer and segment size and any mishaps, and with it      *)
(* CountersHonest, TornOnlyAtEnd and, where nothing ends the process with  *)
(* its tail unsynced, SealedDurable.                                       *)
(***************************************************************************)
EXTENDS WalWriterLemmas

\* The larger of two numbers.
LEMMA MaxPair ==
  ASSUME NEW a \in Nat, NEW b \in Nat
  PROVE  /\ Max({a, b}) \in {a, b} /\ Max({a, b}) >= a /\ Max({a, b}) >= b
<1>1. \E x \in {a, b} : \A y \in {a, b} : x >= y
  OBVIOUS
<1> QED  BY <1>1 DEF Max

\* committer, a commit that is due.
LEMMA CommitterFlushStep ==
  Disk /\ Thread /\ CommitterFlush
  => Disk' /\ Thread' /\ Safe /\ Opened' /\ Same
<1>h. HAVE Disk /\ Thread /\ CommitterFlush
<1>0. /\ Opened /\ present' = present /\ dur' = dur /\ id' = id /\ bytes' = bytes
      /\ synced' = synced /\ torn' = torn /\ stop' = stop
  BY <1>h DEF CommitterFlush, Thread
<1>1. /\ id \in Ids /\ id \in Nat /\ seg[id] \in Seq(Unit) /\ Len(seg[id]) \in Nat
      /\ buf \in Seq(Unit) /\ Len(buf) \in Nat /\ dur[id] \in Nat
      /\ dur[id] <= Len(seg[id]) /\ bytes \in Nat
      /\ bytes <= Len(seg[id]) + Len(buf) /\ Len(buf) <= BufCap
  BY <1>h, <1>0, ActiveFacts
<1>2. /\ synced \in Nat /\ synced <= bytes /\ synced <= dur[id] /\ torn \in BOOLEAN
      /\ present \subseteq Ids /\ dur = [dur EXCEPT ![id] = dur[id]]
      /\ BufCap \in Nat /\ bytes <= bytes /\ dur[id] <= dur[id]
  BY <1>h, <1>0, <1>1, WalAssumption DEF Disk
<1>3. ~torn => bytes = Len(seg[id]) + Len(buf) /\ bytes % 2 = 0
  BY <1>h, <1>0 DEF Disk
<1>a. ASSUME NEW X \in Seq(Unit), NEW B \in Seq(Unit),
             seg' = [seg EXCEPT ![id] = X], buf' = B, Len(B) <= Len(buf),
             Begins(X, seg[id]), X \o B = seg[id] \o buf,
             Len(X) + Len(B) = Len(seg[id]) + Len(buf)
      PROVE  Disk' /\ Opened' /\ Carry /\ Safe /\ Same
  <2>1. Len(X) \in Nat /\ Len(B) \in Nat /\ Len(seg[id]) <= Len(X)
    BY <1>a DEF Begins
  <2>2. Len(B) <= BufCap /\ dur[id] <= Len(X)
    BY <1>h, <1>1, <1>2, <1>a, <2>1
  <2>3. /\ Disk' /\ Opened' /\ Carry /\ Safe
        /\ \A i \in Ids : Units(i)' = IF i = id THEN X \o B ELSE Units(i)
    BY <1>h, <1>0, <1>1, <1>2, <1>3, <1>a, <2>2, StayStep, Zenon
  <2>4. Same
    BY <1>a, <2>3, Zenon DEF Same, Units
  <2> QED  BY <2>3, <2>4
<1>4. CASE /\ seg' = [seg EXCEPT ![id] = seg[id] \o buf] /\ buf' = <<>>
           /\ cap' = [id |-> id, upto |-> bytes] /\ pc' = "sync"
           /\ UNCHANGED retry
  <2>1. /\ seg[id] \o buf \in Seq(Unit) /\ Len(seg[id] \o buf) = Len(seg[id]) + Len(buf)
        /\ Begins(seg[id] \o buf, seg[id])
    BY <1>1, Concatenated
  <2>2. /\ <<>> \in Seq(Unit) /\ Len(<<>>) = 0 /\ (seg[id] \o buf) \o <<>> = seg[id] \o buf
        /\ Len(<<>>) <= Len(buf) /\ Len(seg[id] \o buf) + Len(<<>>) = Len(seg[id]) + Len(buf)
    BY <1>1, <2>1, Concatenated
  <2>3. Disk' /\ Opened' /\ Carry /\ Safe /\ Same
    BY <1>4, <1>a, <2>1, <2>2, Zenon
  <2>4. cap' \in [id : 0..MaxSeg, upto : Nat] /\ cap'.id = id /\ cap'.upto = bytes
        /\ id \in 1..id
    BY <1>1, <1>4 DEF Disk, Ids
  <2>5. bytes <= Len(seg'[id])
    BY <1>h, <1>1, <1>4, <2>1 DEF Disk
  <2>6. Thread'
    BY <1>h, <1>0, <1>2, <1>4, <2>3, <2>4, <2>5 DEF Thread
  <2> QED  BY <2>3, <2>6
<1>5. CASE /\ \E s \in PartFlush(seg[id], buf) :
                seg' = [seg EXCEPT ![id] = s.file] /\ buf' = s.buf
           /\ retry' = TRUE /\ pc' = "roll"
           /\ UNCHANGED cap
  <2>1. PICK s \in PartFlush(seg[id], buf) :
          seg' = [seg EXCEPT ![id] = s.file] /\ buf' = s.buf
    BY <1>5, Zenon
  <2>2. /\ s.file \in Seq(Unit) /\ s.buf \in Seq(Unit)
        /\ Len(s.buf) <= Len(buf) /\ Len(s.file) + Len(s.buf) = Len(seg[id]) + Len(buf)
        /\ Begins(s.file, seg[id]) /\ s.file \o s.buf = seg[id] \o buf
    BY <1>1, PartFlushed, Zenon
  <2>3. Disk' /\ Opened' /\ Carry /\ Safe /\ Same
    BY <1>a, <2>1, <2>2, Zenon
  <2>4. Thread'
    BY <1>h, <1>0, <1>5, <2>3 DEF Thread
  <2> QED  BY <2>3, <2>4
<1> QED  BY <1>h, <1>4, <1>5, Zenon DEF CommitterFlush

\* committer, the fsync outside the lock, of a segment a seal may have left.
LEMMA CommitterSyncStep ==
  Disk /\ Thread /\ CommitterSync
  => Disk' /\ Thread' /\ Safe /\ Opened' /\ Same
<1>h. HAVE Disk /\ Thread /\ CommitterSync
<1>0. /\ Opened /\ present' = present /\ seg' = seg /\ id' = id /\ buf' = buf /\ bytes' = bytes
      /\ synced' = synced /\ torn' = torn /\ stop' = stop /\ cap' = cap
  BY <1>h DEF CommitterSync, Thread, active
<1>1. Same
  BY <1>0 DEF Same, Units
<1>2. CASE /\ dur' = [dur EXCEPT ![cap.id] = Len(seg[cap.id])]
           /\ retry' = FALSE /\ pc' = "mark"
  <2>1. /\ cap.id \in Ids /\ id \in Ids /\ cap.id \in 1..id
        /\ cap.id = id => cap.upto <= bytes /\ cap.upto <= Len(seg[id])
    BY <1>h, <1>0, WalAssumption DEF CommitterSync, Thread, Disk, Opened, Ids
  <2>2. /\ seg[cap.id] \in Seq(Unit) /\ dur' \in [Ids -> Nat]
        /\ dur'[cap.id] = Len(seg[cap.id])
        /\ \A i \in Ids : i # cap.id => dur'[i] = dur[i]
    BY <1>h, <1>2, <2>1 DEF Disk
  <2>3. \A i \in Ids : dur[i] \in Nat /\ dur[i] <= Len(seg[i]) /\ seg[i] \in Seq(Unit)
    BY <1>h DEF Disk
  <2>4. \A i \in Ids : dur[i] <= dur'[i] /\ dur'[i] <= Len(seg[i]) /\ dur'[i] \in Nat
    BY <2>1, <2>2, <2>3
  <2>5. synced <= dur'[id]
    <3>1. synced \in Nat /\ synced <= dur[id]
      BY <1>h, <1>0 DEF Disk
    <3> QED  BY <2>1, <2>3, <2>4, <3>1
  <2>6. Disk'
    BY <1>h, <1>0, <2>2, <2>4, <2>5 DEF Disk, Opened
  <2>7. Safe
    <3>1. \A i \in Ids : dur[i] \div 2 <= dur'[i] \div 2
      BY <2>3, <2>4
    <3> QED  BY <1>0, <3>1 DEF Safe
  <2>8. Thread'
    <3>1. cap.id = id => cap.upto <= dur'[id]
      BY <2>1, <2>2
    <3> QED  BY <1>h, <1>0, <1>2, <2>1, <3>1, Zenon DEF Thread, Opened
  <2> QED  BY <1>0, <1>1, <2>6, <2>7, <2>8 DEF Opened
<1>3. CASE /\ retry' = TRUE /\ pc' = "roll"
           /\ UNCHANGED dur
  <2>1. Disk' /\ Opened'
    BY <1>h, <1>0, <1>3 DEF Disk, Opened
  <2>2. Safe
    BY <1>h, <1>0, <1>3 DEF Safe, Disk
  <2>3. Thread'
    BY <1>h, <1>0, <1>3, <2>1 DEF Thread
  <2> QED  BY <1>1, <2>1, <2>2, <2>3
<1> QED  BY <1>h, <1>2, <1>3, Zenon DEF CommitterSync

\* committer, what the fsync covered is credited to the segment if it is still
\* the active one.
LEMMA CommitterMarkStep ==
  Disk /\ Thread /\ CommitterMark
  => Disk' /\ Thread' /\ Safe /\ Opened' /\ Same
<1>h. HAVE Disk /\ Thread /\ CommitterMark
<1>0. /\ Opened /\ present' = present /\ seg' = seg /\ dur' = dur /\ id' = id /\ buf' = buf
      /\ bytes' = bytes /\ torn' = torn /\ stop' = stop /\ cap' = cap /\ retry' = retry
      /\ pc' = "roll"
  BY <1>h DEF CommitterMark, Thread, disk
<1>1. Same /\ Safe
  BY <1>h, <1>0 DEF Same, Units, Safe, Disk
<1>2. synced \in Nat /\ synced <= bytes /\ synced <= dur[id]
  BY <1>h, <1>0 DEF Disk
<1>3. synced' \in Nat /\ synced' <= bytes /\ synced' <= dur[id]
  <2>1. CASE id = cap.id
    <3>1. cap.upto \in Nat /\ cap.upto <= bytes /\ cap.upto <= dur[id]
      BY <1>h, <2>1 DEF Thread, CommitterMark
    <3>2. synced' = Max({synced, cap.upto})
      BY <1>h, <2>1 DEF CommitterMark
    <3>3. Max({synced, cap.upto}) \in {synced, cap.upto}
      BY <1>2, <3>1, MaxPair
    <3> QED  BY <1>2, <3>1, <3>2, <3>3
  <2>2. CASE id # cap.id
    BY <1>h, <1>2, <2>2 DEF CommitterMark
  <2> QED  BY <2>1, <2>2
<1>4. Disk' /\ Opened'
  BY <1>h, <1>0, <1>3 DEF Disk, Opened
<1>5. Thread'
  BY <1>h, <1>0, <1>4 DEF Thread
<1> QED  BY <1>1, <1>4, <1>5

\* What a stop leaves of each segment is a beginning of it.
Shorter == \A i \in Ids : Begins(Units(i), Units(i)')

\* A file with a part of the buffer after it begins what the segment holds.
LEMMA CutBuffer ==
  ASSUME NEW u \in Seq(Unit), NEW v \in Seq(Unit), NEW k \in 0..Len(v)
  PROVE  /\ u \o Take(v, k) \in Seq(Unit) /\ Len(u \o Take(v, k)) = Len(u) + k
         /\ Begins(u \o v, u \o Take(v, k))
<1>1. /\ Take(v, k) \in Seq(Unit) /\ Len(Take(v, k)) = k /\ Drop(v, k) \in Seq(Unit)
      /\ Take(v, k) \o Drop(v, k) = v
  BY TakeDrop, Zenon
<1>2. u \o Take(v, k) \in Seq(Unit) /\ Len(u \o Take(v, k)) = Len(u) + k
  BY <1>1, Concatenated, Zenon
<1>3. Begins((u \o Take(v, k)) \o Drop(v, k), u \o Take(v, k))
  BY <1>1, <1>2, Concatenated, Zenon
<1>4. (u \o Take(v, k)) \o Drop(v, k) = u \o v
  <2>1. Regroups(u, Take(v, k), Drop(v, k))
    BY <1>1, Assoc
  <2> QED  BY <1>1, <2>1, Zenon DEF Regroups
<1> QED  BY <1>2, <1>3, <1>4, Zenon

\* A step that ends the writer and leaves a beginning of every segment, at
\* least as much of it as was on the disk.
LEMMA DownStep ==
  (/\ Disk /\ present' = present /\ id' = 0 /\ buf' = <<>> /\ bytes' = 0 /\ synced' = 0
   /\ torn' \in BOOLEAN /\ seg' \in [Ids -> Seq(Unit)] /\ dur' \in [Ids -> Nat]
   /\ (\A i \in Ids : /\ dur[i] <= dur'[i] /\ dur'[i] <= Len(seg'[i])
                        /\ Begins(Units(i), seg'[i])))
  => Disk' /\ ~Opened' /\ Safe /\ Shorter
<1>h. HAVE /\ Disk /\ present' = present /\ id' = 0 /\ buf' = <<>> /\ bytes' = 0 /\ synced' = 0
           /\ torn' \in BOOLEAN /\ seg' \in [Ids -> Seq(Unit)] /\ dur' \in [Ids -> Nat]
           /\ (\A i \in Ids : /\ dur[i] <= dur'[i] /\ dur'[i] <= Len(seg'[i])
                        /\ Begins(Units(i), seg'[i]))
<1>1. \A i \in Ids : i # id' /\ Units(i)' = seg'[i]
  BY <1>h, WalAssumption DEF Units, Ids
<1>2. Shorter
  BY <1>h, <1>1, Zenon DEF Shorter
<1>3. ASSUME NEW i \in Ids
      PROVE  /\ seg[i] \in Seq(Unit) /\ Units(i) \in Seq(Unit) /\ Begins(Units(i), seg[i])
             /\ dur[i] \in Nat /\ dur[i] <= Len(seg[i]) /\ Len(seg[i]) \in Nat
  <2>1. seg[i] \in Seq(Unit) /\ buf \in Seq(Unit) /\ dur[i] \in Nat /\ dur[i] <= Len(seg[i])
    BY <1>h DEF Disk
  <2>2. seg[i] \o buf \in Seq(Unit) /\ Begins(seg[i] \o buf, seg[i])
    BY <2>1, Concatenated
  <2>3. Begins(seg[i], seg[i])
    BY <2>1 DEF Begins
  <2> QED  BY <2>1, <2>2, <2>3 DEF Units
<1>4. Safe
  <2>1. ASSUME NEW i \in Ids
        PROVE  /\ dur[i] \div 2 <= dur'[i] \div 2
               /\ \A a \in 1..(2 * (dur[i] \div 2)) : seg'[i][a] = seg[i][a]
    <3>1. dur'[i] \in Nat /\ seg'[i] \in Seq(Unit) /\ Len(seg'[i]) \in Nat
      BY <1>h
    <3>2. dur[i] \div 2 <= dur'[i] \div 2
      BY <1>h, <1>3, <3>1
    <3>3. \A a \in 1..(2 * (dur[i] \div 2)) : a \in 1..Len(seg'[i]) /\ a \in 1..Len(seg[i])
      BY <1>h, <1>3, <3>1
    <3>4. /\ \A a \in 1..Len(seg'[i]) : Units(i)[a] = seg'[i][a]
          /\ \A a \in 1..Len(seg[i]) : Units(i)[a] = seg[i][a]
      BY <1>h, <1>3 DEF Begins
    <3> QED  BY <3>2, <3>3, <3>4, Zenon
  <2> QED  BY <1>h, <2>1 DEF Safe
<1>5. Disk'
  <2>1. ASSUME NEW i \in Ids, i \notin present' PROVE seg'[i] = <<>>
    <3>1. Units(i) = <<>>
      BY <1>h, <2>1 DEF Disk, Units, Opened
    <3>2. Len(seg'[i]) <= Len(<<>>) /\ seg'[i] \in Seq(Unit)
      BY <1>h, <3>1 DEF Begins
    <3>3. Len(seg'[i]) = 0
      BY <3>2
    <3> QED  BY <3>2, <3>3
  <2>2. /\ present' \subseteq Ids /\ id' \in 0..MaxSeg /\ buf' \in Seq(Unit) /\ Len(buf') <= BufCap
        /\ bytes' \in Nat /\ synced' \in Nat
    BY <1>h, WalAssumption DEF Disk
  <2> QED  BY <1>h, <2>1, <2>2 DEF Disk, Opened
<1> QED  BY <1>h, <1>2, <1>4, <1>5 DEF Opened

\* A file that ends up with what the kernel had and perhaps some of the buffer.
LEMMA CutStep ==
  ASSUME NEW k \in 0..Len(buf)
  PROVE  Disk /\ Opened /\ seg' = [seg EXCEPT ![id] = seg[id] \o Take(buf, k)]
         => /\ seg' \in [Ids -> Seq(Unit)]
            /\ \A i \in Ids : Len(seg[i]) <= Len(seg'[i]) /\ Begins(Units(i), seg'[i])
            /\ Len(seg'[id]) = Len(seg[id]) + k
<1>h. HAVE Disk /\ Opened /\ seg' = [seg EXCEPT ![id] = seg[id] \o Take(buf, k)]
<1>1. id \in Ids /\ seg[id] \in Seq(Unit) /\ buf \in Seq(Unit)
  BY <1>h, ActiveFacts
<1>2. /\ seg[id] \o Take(buf, k) \in Seq(Unit)
      /\ Len(seg[id] \o Take(buf, k)) = Len(seg[id]) + k
      /\ Begins(seg[id] \o buf, seg[id] \o Take(buf, k))
  BY <1>1, CutBuffer, Zenon
<1>3. /\ seg' \in [Ids -> Seq(Unit)] /\ seg'[id] = seg[id] \o Take(buf, k)
      /\ \A i \in Ids : i # id => seg'[i] = seg[i]
  BY <1>h, <1>1, <1>2 DEF Disk
<1>4. ASSUME NEW i \in Ids
      PROVE  Len(seg[i]) <= Len(seg'[i]) /\ Begins(Units(i), seg'[i])
  <2>1. CASE i = id
    <3>1. Len(seg[id]) <= Len(seg[id]) + k
      BY <1>1
    <3> QED  BY <1>2, <1>3, <2>1, <3>1, Zenon DEF Units
  <2>2. CASE i # id
    <3>1. seg[i] \in Seq(Unit) /\ seg'[i] = seg[i]
      BY <1>3, <2>2 DEF Disk
    <3> QED  BY <2>2, <3>1 DEF Units, Begins
  <2> QED  BY <2>1, <2>2
<1> QED  BY <1>2, <1>3, <1>4

\* WalWriter::close, once the committer has been joined.
LEMMA CloseEndStep ==
  Disk /\ Thread /\ CloseEnd
  => Disk' /\ Thread' /\ Safe /\ ~Opened' /\ Shorter
<1>h. HAVE Disk /\ Thread /\ CloseEnd
<1>0. /\ Opened /\ present' = present /\ id' = 0 /\ buf' = <<>> /\ bytes' = 0 /\ synced' = 0
      /\ torn' = torn /\ stop' = stop /\ pc' = pc /\ pc = "gone" /\ cap' = cap /\ retry' = retry
  BY <1>h DEF CloseEnd, thread
<1>1. /\ id \in Ids /\ seg[id] \in Seq(Unit) /\ buf \in Seq(Unit) /\ Len(buf) \in Nat
      /\ Len(seg[id]) \in Nat
  BY <1>h, <1>0, ActiveFacts
<1>2. ASSUME NEW k \in 0..Len(buf), seg' = [seg EXCEPT ![id] = seg[id] \o Take(buf, k)],
             dur' \in [Ids -> Nat],
             \A i \in Ids : dur[i] <= dur'[i] /\ dur'[i] <= Len(seg'[i])
      PROVE  Disk' /\ ~Opened' /\ Safe /\ Shorter
  <2>1. /\ seg' \in [Ids -> Seq(Unit)]
        /\ \A i \in Ids : Begins(Units(i), seg'[i])
    BY <1>h, <1>0, <1>2, CutStep, Zenon
  <2>2. torn' \in BOOLEAN
    BY <1>h, <1>0 DEF Disk
  <2> QED  BY <1>h, <1>0, <1>2, <2>1, <2>2, DownStep
<1>3. CASE /\ seg' = [seg EXCEPT ![id] = seg[id] \o buf]
           /\ dur' = [dur EXCEPT ![id] = Len(seg[id] \o buf)]
  <2>1. Len(buf) \in 0..Len(buf) /\ Take(buf, Len(buf)) = buf
    <3>1. Len(buf) \in 0..Len(buf)
      BY <1>1
    <3>2. /\ Take(buf, Len(buf)) \in Seq(Unit) /\ Len(Take(buf, Len(buf))) = Len(buf)
          /\ \A a \in 1..Len(buf) : Take(buf, Len(buf))[a] = buf[a]
      BY <1>1, <3>1, TakeDrop, Zenon
    <3> QED  BY <1>1, <3>1, <3>2, SameSeq
  <2>2. seg' = [seg EXCEPT ![id] = seg[id] \o Take(buf, Len(buf))]
    BY <1>3, <2>1
  <2>3. /\ seg' \in [Ids -> Seq(Unit)] /\ Len(seg'[id]) = Len(seg[id]) + Len(buf)
        /\ \A i \in Ids : Len(seg[i]) <= Len(seg'[i])
    BY <1>h, <1>0, <2>1, <2>2, CutStep, Zenon
  <2>4. Len(seg[id] \o buf) = Len(seg[id]) + Len(buf) /\ Len(seg[id] \o buf) \in Nat
    BY <1>1, Concatenated
  <2>5. dur' \in [Ids -> Nat] /\ dur'[id] = Len(seg[id]) + Len(buf)
        /\ \A i \in Ids : i # id => dur'[i] = dur[i]
    BY <1>h, <1>1, <1>3, <2>4 DEF Disk
  <2>6. ASSUME NEW i \in Ids PROVE dur[i] <= dur'[i] /\ dur'[i] <= Len(seg'[i])
    <3>1. /\ dur[i] \in Nat /\ dur[i] <= Len(seg[i]) /\ Len(seg[i]) \in Nat /\ Len(seg'[i]) \in Nat
      BY <1>h, <2>3 DEF Disk
    <3>2. CASE i = id
      <4>1. dur'[i] = Len(seg'[i])
        BY <2>3, <2>5, <3>2
      <4> QED  BY <2>3, <3>1, <4>1
    <3>3. CASE i # id
      <4>1. dur'[i] = dur[i] /\ Len(seg[i]) <= Len(seg'[i])
        BY <2>3, <2>5, <3>3
      <4> QED  BY <3>1, <4>1
    <3> QED  BY <3>2, <3>3
  <2>7. Disk' /\ ~Opened' /\ Safe /\ Shorter
    BY <1>2, <2>1, <2>2, <2>5, <2>6, Zenon
  <2> QED  BY <1>h, <1>0, <2>7 DEF Thread
<1>4. CASE /\ \E k \in 0..Len(buf) : seg' = [seg EXCEPT ![id] = seg[id] \o Take(buf, k)]
           /\ UNCHANGED dur
  <2>1. PICK k \in 0..Len(buf) : seg' = [seg EXCEPT ![id] = seg[id] \o Take(buf, k)]
    BY <1>4, Zenon
  <2>3. /\ seg' \in [Ids -> Seq(Unit)] /\ \A i \in Ids : Len(seg[i]) <= Len(seg'[i])
    BY <1>h, <1>0, <2>1, CutStep, Zenon
  <2>6. ASSUME NEW i \in Ids PROVE dur[i] <= dur'[i] /\ dur'[i] <= Len(seg'[i])
    <3>1. /\ dur[i] \in Nat /\ dur[i] <= Len(seg[i]) /\ Len(seg[i]) \in Nat /\ Len(seg'[i]) \in Nat
      BY <1>h, <2>3 DEF Disk
    <3> QED  BY <1>4, <2>3, <3>1
  <2>5. dur' \in [Ids -> Nat]
    BY <1>h, <1>4 DEF Disk
  <2>7. Disk' /\ ~Opened' /\ Safe /\ Shorter
    BY <1>2, <2>1, <2>5, <2>6, Zenon
  <2> QED  BY <1>h, <1>0, <2>7 DEF Thread
<1> QED  BY <1>h, <1>3, <1>4 DEF CloseEnd

\* A crash of the process: a part of the buffer may reach the file.
LEMMA CrashStep ==
  Disk /\ Thread /\ Crash
  => Disk' /\ Thread' /\ Safe /\ ~Opened' /\ Shorter
<1>h. HAVE Disk /\ Thread /\ Crash
<1>0. /\ Opened /\ present' = present /\ dur' = dur /\ id' = 0 /\ buf' = <<>> /\ bytes' = 0
      /\ synced' = 0 /\ torn' = FALSE /\ stop' = FALSE /\ pc' = "gone" /\ retry' = FALSE
      /\ cap' = [id |-> 0, upto |-> 0]
  BY <1>h DEF Crash, Gone
<1>1. PICK k \in 0..Len(buf) : seg' = [seg EXCEPT ![id] = seg[id] \o Take(buf, k)]
  BY <1>h, Zenon DEF Crash
<1>2. /\ seg' \in [Ids -> Seq(Unit)]
      /\ \A i \in Ids : Len(seg[i]) <= Len(seg'[i]) /\ Begins(Units(i), seg'[i])
  BY <1>h, <1>0, <1>1, CutStep, Zenon
<1>3. ASSUME NEW i \in Ids PROVE dur[i] <= dur'[i] /\ dur'[i] <= Len(seg'[i])
  <2>1. /\ dur[i] \in Nat /\ dur[i] <= Len(seg[i]) /\ Len(seg[i]) \in Nat /\ Len(seg'[i]) \in Nat
    BY <1>h, <1>2 DEF Disk
  <2> QED  BY <1>0, <1>2, <2>1
<1>4. dur' \in [Ids -> Nat] /\ torn' \in BOOLEAN
  BY <1>h, <1>0, Zenon DEF Disk
<1>5. Disk' /\ ~Opened' /\ Safe /\ Shorter
  BY <1>h, <1>0, <1>2, <1>3, <1>4, DownStep
<1>6. cap' \in [id : 0..MaxSeg, upto : Nat]
  BY <1>0, WalAssumption
<1> QED  BY <1>0, <1>5, <1>6, Zenon DEF Thread

\* A power failure: each file keeps at least what was fsynced.
LEMMA PowerCutStep ==
  Disk /\ Thread /\ PowerCut
  => Disk' /\ Thread' /\ Safe /\ ~Opened' /\ Shorter
<1>h. HAVE Disk /\ Thread /\ PowerCut
<1> DEFINE loose == {i \in present : dur[i] < Len(seg[i])}
           most == Max({0} \cup {Len(seg[i]) : i \in loose})
<1>0. /\ present' = present /\ id' = 0 /\ buf' = <<>> /\ bytes' = 0
      /\ synced' = 0 /\ torn' = FALSE /\ stop' = FALSE /\ pc' = "gone" /\ retry' = FALSE
      /\ cap' = [id |-> 0, upto |-> 0]
  BY <1>h DEF PowerCut, Gone
<1>1. PICK keep \in [loose -> 0..most] :
       /\ \A i \in loose : dur[i] <= keep[i] /\ keep[i] <= Len(seg[i])
       /\ seg' = [i \in Ids |-> IF i \in loose THEN Take(seg[i], keep[i]) ELSE seg[i]]
       /\ dur' = [i \in Ids |-> IF i \in loose THEN keep[i] ELSE dur[i]]
  BY <1>h, Zenon DEF PowerCut
<1> HIDE DEF most
<1>2. ASSUME NEW i \in loose
      PROVE  keep[i] \in Nat /\ dur[i] <= keep[i] /\ keep[i] \in 0..Len(seg[i])
  <2>1. keep[i] \in Nat
    BY <1>1
  <2>2. i \in Ids /\ Len(seg[i]) \in Nat
    BY <1>h DEF Disk
  <2> QED  BY <1>1, <2>1, <2>2
<1> HIDE DEF loose
<1>3. ASSUME NEW i \in Ids
      PROVE  /\ seg'[i] \in Seq(Unit) /\ dur'[i] \in Nat
             /\ dur[i] <= dur'[i] /\ dur'[i] <= Len(seg'[i]) /\ Begins(Units(i), seg'[i])
  <2>1. /\ seg[i] \in Seq(Unit) /\ dur[i] \in Nat /\ dur[i] <= Len(seg[i]) /\ buf \in Seq(Unit)
        /\ Len(seg[i]) \in Nat
    BY <1>h DEF Disk
  <2>2. seg[i] \o buf \in Seq(Unit) /\ Begins(seg[i] \o buf, seg[i]) /\ Begins(seg[i], seg[i])
    BY <2>1, Concatenated DEF Begins
  <2>3. Begins(Units(i), seg[i]) /\ Units(i) \in Seq(Unit)
    BY <2>1, <2>2 DEF Units
  <2>4. CASE i \in loose
    <3>1. seg'[i] = Take(seg[i], keep[i]) /\ dur'[i] = keep[i]
      BY <1>1, <2>4
    <3>2. /\ Take(seg[i], keep[i]) \in Seq(Unit) /\ Len(Take(seg[i], keep[i])) = keep[i]
          /\ \A a \in 1..keep[i] : Take(seg[i], keep[i])[a] = seg[i][a]
      BY <1>2, <2>1, <2>4, TakeDrop, Zenon
    <3>3. Begins(seg[i], Take(seg[i], keep[i]))
      BY <1>2, <2>1, <2>4, <3>2 DEF Begins
    <3>4. Begins(Units(i), seg'[i])
      BY <2>1, <2>3, <3>1, <3>2, <3>3, BeginsTrans
    <3>5. keep[i] <= keep[i]
      BY <1>2, <2>4
    <3> QED  BY <1>2, <2>4, <3>1, <3>2, <3>4, <3>5
  <2>5. CASE i \notin loose
    <3>1. seg'[i] = seg[i] /\ dur'[i] = dur[i]
      BY <1>1, <2>5
    <3> QED  BY <2>1, <2>3, <3>1
  <2> QED  BY <2>4, <2>5
<1>4. seg' \in [Ids -> Seq(Unit)] /\ dur' \in [Ids -> Nat]
  <2>1. /\ seg' = [i \in Ids |-> seg'[i]] /\ dur' = [i \in Ids |-> dur'[i]]
    BY <1>1
  <2> QED  BY <1>3, <2>1
<1>5. Disk' /\ ~Opened' /\ Safe /\ Shorter
  BY <1>h, <1>0, <1>3, <1>4, DownStep, Zenon
<1>6. cap' \in [id : 0..MaxSeg, upto : Nat]
  BY <1>0, WalAssumption
<1> QED  BY <1>0, <1>5, <1>6, Zenon DEF Thread

\* What opening leaves of each segment: all its whole frames.
Cleaned ==
  \A i \in Ids : /\ Begins(Units(i), Units(i)')
                 /\ Len(Units(i)') \div 2 = Len(Units(i)) \div 2

\* Arithmetic of whole frames.
LEMMA Halves ==
  ASSUME NEW l \in Nat, NEW d \in Nat
  PROVE  d <= l
         => /\ 2 * (l \div 2) \in 0..l /\ (2 * (l \div 2)) \div 2 = l \div 2
            /\ d \div 2 <= l \div 2
            /\ \A a \in 1..(2 * (d \div 2)) : a \in 1..(2 * (l \div 2))
<1>h. HAVE d <= l
<1>1. /\ 2 * (l \div 2) \in 0..l /\ (2 * (l \div 2)) \div 2 = l \div 2
  OBVIOUS
<1>2. d \div 2 <= l \div 2 /\ d \div 2 \in Nat /\ l \div 2 \in Nat
  BY <1>h
<1>3. \A x, y \in Nat : x <= y => \A a \in 1..(2 * x) : a \in 1..(2 * y)
  OBVIOUS
<1>4. \A a \in 1..(2 * (d \div 2)) : a \in 1..(2 * (l \div 2))
  BY <1>2, <1>3
<1> QED  BY <1>1, <1>2, <1>4

\* recover and WalWriter::open: the tail loses at most half a frame, and the new
\* segment comes after every one there is.
LEMMA OpenStep ==
  Disk /\ Layout /\ Open
  => Disk' /\ Thread' /\ Safe /\ Opened' /\ Cleaned
<1>h. HAVE Disk /\ Layout /\ Open
<1> DEFINE clean(i) == Take(seg[i], 2 * Whole(seg[i]))
<1>0. /\ ~Opened /\ id' \in Ids /\ present' = present \cup {id'}
      /\ buf' = <<>> /\ bytes' = 0 /\ synced' = 0 /\ torn' = FALSE /\ stop' = FALSE
      /\ pc' = "wait" /\ cap' = [id |-> 0, upto |-> 0] /\ retry' = FALSE
  BY <1>h DEF Open
<1>a. present \subseteq Ids /\ seg \in [Ids -> Seq(Unit)] /\ dur \in [Ids -> Nat]
  BY <1>h DEF Disk
<1>1. /\ \A i \in present : i < id'
      /\ seg' = [i \in Ids |-> seg'[i]] /\ dur' = [i \in Ids |-> dur'[i]]
      /\ \A i \in Ids : \/ seg'[i] = seg[i] /\ dur'[i] = dur[i]
                        \/ seg'[i] = clean(i) /\ dur'[i] = Len(clean(i))
  <2>1. CASE present = {}
    <3>1. seg' = seg /\ dur' = dur
      BY <1>h, <2>1 DEF Open
    <3> QED  BY <1>a, <2>1, <3>1
  <2>2. CASE present # {}
    <3>0. PICK tail \in present :
            /\ \A i \in present : i <= tail
            /\ id' = tail + 1
            /\ seg' = [seg EXCEPT ![tail] = clean(tail)]
            /\ dur' = IF clean(tail) = seg[tail] THEN dur
                      ELSE [dur EXCEPT ![tail] = Len(clean(tail))]
      BY <1>h, <2>2 DEF Open
    <3>1. \A i \in present : i < id'
      BY <1>a, <3>0 DEF Ids
    <3> HIDE DEF clean
    <3>2. CASE clean(tail) = seg[tail]
      <4>1. seg' = seg /\ dur' = dur
        BY <1>a, <3>0, <3>2
      <4> QED  BY <1>a, <3>1, <4>1
    <3>3. CASE clean(tail) # seg[tail]
      <4>1. dur' = [dur EXCEPT ![tail] = Len(clean(tail))]
        BY <3>0, <3>3
      <4> QED  BY <1>a, <3>0, <3>1, <4>1, Zenon
    <3> QED  BY <3>2, <3>3
  <2> QED  BY <2>1, <2>2
<1>2. ASSUME NEW i \in Ids
      PROVE  /\ Units(i) = seg[i] /\ seg[i] \in Seq(Unit) /\ Framed(seg[i])
             /\ dur[i] \in Nat /\ dur[i] <= Len(seg[i]) /\ Len(seg[i]) \in Nat
  <2>1. Units(i) = seg[i]
    BY <1>0, WalAssumption DEF Units, Opened, Ids
  <2>2. Tidy(Units(i))
    BY <1>h DEF Layout
  <2> QED  BY <1>h, <2>1, <2>2 DEF Tidy, Disk
<1>4. ASSUME NEW i \in Ids, i >= id' PROVE i \notin present
  BY <1>0, <1>1, <1>4 DEF Ids
<1>5. ASSUME NEW i \in Ids
      PROVE  /\ seg'[i] \in Seq(Unit) /\ dur'[i] \in Nat
             /\ dur'[i] <= Len(seg'[i]) /\ Begins(seg[i], seg'[i])
             /\ Len(seg'[i]) \div 2 = Len(seg[i]) \div 2
             /\ dur[i] \div 2 <= dur'[i] \div 2
             /\ \A a \in 1..(2 * (dur[i] \div 2)) : seg'[i][a] = seg[i][a]
  <2>1. CASE seg'[i] = seg[i] /\ dur'[i] = dur[i]
    BY <1>2, <2>1 DEF Begins
  <2>2. CASE seg'[i] = clean(i) /\ dur'[i] = Len(clean(i))
    <3>1. Whole(seg[i]) = Len(seg[i]) \div 2
      BY <1>2, WholeFramed, Zenon
    <3> DEFINE m == 2 * (Len(seg[i]) \div 2)
    <3>a. Len(seg[i]) \in Nat /\ dur[i] \in Nat /\ dur[i] <= Len(seg[i])
      BY <1>2
    <3>2. /\ m \in 0..Len(seg[i]) /\ m \div 2 = Len(seg[i]) \div 2
          /\ dur[i] \div 2 <= Len(seg[i]) \div 2
          /\ \A a \in 1..(2 * (dur[i] \div 2)) : a \in 1..m
      BY <3>a, Halves, Zenon
    <3>3. clean(i) = Take(seg[i], m)
      BY <2>2, <3>1
    <3> HIDE DEF m, clean
    <3>5. /\ clean(i) \in Seq(Unit) /\ Len(clean(i)) = m
          /\ \A a \in 1..m : clean(i)[a] = seg[i][a]
      BY <1>2, <3>2, <3>3, TakeDrop, Zenon
    <3>6. m <= m /\ m \in Nat /\ m <= Len(seg[i])
      BY <3>a, <3>2
    <3>7. Begins(seg[i], clean(i))
      BY <3>5, <3>6 DEF Begins
    <3> QED  BY <2>2, <3>2, <3>5, <3>6, <3>7, Zenon
  <2> QED  BY <1>1, <2>1, <2>2, Zenon
<1>6. seg' \in [Ids -> Seq(Unit)] /\ dur' \in [Ids -> Nat]
  BY <1>1, <1>5, Zenon
<1>7. ASSUME NEW i \in Ids, i \notin present PROVE seg'[i] = <<>> /\ dur'[i] = 0
  <2>1. seg[i] = <<>>
    BY <1>h, <1>7 DEF Disk
  <2>2. Len(seg'[i]) <= Len(<<>>) /\ seg'[i] \in Seq(Unit) /\ dur'[i] \in Nat /\ dur'[i] <= Len(seg'[i])
    BY <1>5, <2>1, Zenon DEF Begins
  <2>3. Len(seg'[i]) = 0 /\ dur'[i] = 0
    BY <2>2
  <2> QED  BY <2>2, <2>3
<1>8. Opened' /\ id' \in 0..MaxSeg /\ id' \in present' /\ id' \in Nat /\ id' >= id'
  BY <1>0, WalAssumption DEF Opened, Ids
<1>9. seg'[id'] = <<>> /\ dur'[id'] = 0
  BY <1>0, <1>4, <1>7, <1>8
<1>10. Disk'
  <2>1. \A i \in Ids : i > id' => seg'[i] = <<>>
    <3> SUFFICES ASSUME NEW i \in Ids, i > id' PROVE seg'[i] = <<>>
      OBVIOUS
    <3>1. i >= id'
      BY <1>8 DEF Ids
    <3> QED  BY <1>4, <1>7, <3>1
  <2>2. \A i \in Ids : dur'[i] <= Len(seg'[i]) /\ (i \notin present' => seg'[i] = <<>>)
    BY <1>0, <1>5, <1>7, Zenon
  <2>3. present' \subseteq Ids
    BY <1>h, <1>0, Zenon DEF Disk
  <2>4. /\ bytes' \in Nat /\ synced' \in Nat /\ torn' \in BOOLEAN /\ buf' \in Seq(Unit)
        /\ Len(buf') <= BufCap /\ synced' <= bytes' /\ synced' <= dur'[id']
        /\ bytes' = Len(seg'[id']) + Len(buf') /\ bytes' <= Len(seg'[id']) + Len(buf')
    <3>1. 0 \in Nat /\ FALSE \in BOOLEAN /\ <<>> \in Seq(Unit) /\ Len(<<>>) = 0
          /\ 0 <= BufCap /\ 0 <= 0 /\ 0 = 0 + 0 /\ 0 <= 0 + 0
      BY WalAssumption
    <3> QED  BY <1>0, <1>9, <3>1, Zenon
  <2>5. bytes' % 2 = 0
    BY <1>0
  <2> QED  BY <1>6, <1>8, <2>1, <2>2, <2>3, <2>4, <2>5, Zenon DEF Disk
<1>11. Cleaned
  <2>1. ASSUME NEW i \in Ids PROVE Units(i)' = seg'[i]
    <3>1. CASE i = id'
      <4>1. <<>> \o <<>> = <<>>
        BY Concatenated
      <4> QED  BY <1>0, <1>9, <3>1, <4>1 DEF Units
    <3>2. CASE i # id'
      BY <3>2 DEF Units
    <3> QED  BY <3>1, <3>2
  <2>2. ASSUME NEW i \in Ids
        PROVE  Begins(Units(i), Units(i)') /\ Len(Units(i)') \div 2 = Len(Units(i)) \div 2
    BY <1>2, <1>5, <2>1, Zenon
  <2> QED  BY <2>2, Zenon DEF Cleaned
<1>12. Safe
  BY <1>0, <1>5, Zenon DEF Safe
<1>13. Thread'
  <2>1. cap' \in [id : 0..MaxSeg, upto : Nat]
    BY <1>0, WalAssumption
  <2> QED  BY <1>0, <1>8, <2>1, Zenon DEF Thread
<1> QED  BY <1>8, <1>10, <1>11, <1>12, <1>13

\* A beginning of a sequence is what Take takes of it.
LEMMA BeginsTake ==
  ASSUME NEW u \in Seq(Unit), NEW v \in Seq(Unit)
  PROVE  Begins(u, v)
         => Len(v) \in 0..Len(u) /\ v = Take(u, Len(v))
<1>h. HAVE Begins(u, v)
<1>1. Len(v) \in 0..Len(u)
  BY <1>h DEF Begins
<1>2. /\ Take(u, Len(v)) \in Seq(Unit) /\ Len(Take(u, Len(v))) = Len(v)
      /\ \A a \in 1..Len(v) : Take(u, Len(v))[a] = u[a]
  BY <1>1, TakeDrop
<1> QED  BY <1>h, <1>1, <1>2, SameSeq DEF Begins

\* Cutting segments short keeps the layout.
LEMMA LayoutShort ==
  Layout /\ Disk' /\ sent' = sent /\ Shorter
  => Layout'
<1>h. HAVE Layout /\ Disk' /\ sent' = sent /\ Shorter
<1>1. ASSUME NEW i \in Ids
      PROVE  /\ Tidy(Units(i)') /\ DOMAIN Units(i)' \subseteq DOMAIN Units(i)
             /\ \A a \in DOMAIN Units(i)' : Units(i)'[a] = Units(i)[a]
  <2>1. Tidy(Units(i)) /\ Units(i) \in Seq(Unit)
    BY <1>h DEF Layout, Tidy
  <2>2. \A j \in Ids : Units(j)' \in Seq(Unit)
    <3>1. \A j \in Ids : seg'[j] \in Seq(Unit)
      BY <1>h DEF Disk
    <3>2. buf' \in Seq(Unit)
      BY <1>h DEF Disk
    <3> SUFFICES ASSUME NEW j \in Ids PROVE Units(j)' \in Seq(Unit)
      OBVIOUS
    <3>3. seg'[j] \o buf' \in Seq(Unit)
      BY <3>1, <3>2, Concatenated
    <3> QED  BY <3>1, <3>3 DEF Units
  <2>3. Units(i)' \in Seq(Unit) /\ Begins(Units(i), Units(i)')
    BY <1>h, <2>2 DEF Shorter
  <2> DEFINE u == Units(i)
             v == Units(i)'
  <2> HIDE DEF u, v
  <2>4. u \in Seq(Unit) /\ v \in Seq(Unit) /\ Begins(u, v) /\ Tidy(u)
    BY <2>1, <2>3 DEF u, v
  <2>5. Len(v) \in 0..Len(u) /\ v = Take(u, Len(v))
    BY <2>4, BeginsTake
  <2>6. Tidy(v)
    BY <2>4, <2>5, TidyTake
  <2>7. DOMAIN v \subseteq DOMAIN u /\ \A a \in DOMAIN v : v[a] = u[a]
    BY <2>4, <2>5 DEF Begins
  <2> QED  BY <2>6, <2>7 DEF u, v
<1>2. ASSUME NEW i \in Ids PROVE UpTo(Units(i)', sent')
  BY <1>h, <1>1 DEF Layout, UpTo
<1>3. ASSUME NEW i \in Ids, NEW j \in Ids, i < j PROVE Below(Units(i)', Units(j)')
  <2>1. Below(Units(i), Units(j))
    BY <1>h, <1>3 DEF Layout
  <2> QED  BY <1>1, <2>1, Zenon DEF Below
<1> QED  BY <1>1, <1>2, <1>3 DEF Layout

\* A step that moves no unit between segments keeps the layout.
LEMMA LayoutSame ==
  Layout /\ sent' = sent /\ Same
  => Layout'
<1>h. HAVE Layout /\ sent' = sent /\ Same
<1>1. \A i \in Ids : Units(i)' = Units(i)
  BY <1>h DEF Same
<1>2. \A i \in Ids : Tidy(Units(i)') /\ UpTo(Units(i)', sent')
  BY <1>h, <1>1 DEF Layout
<1>3. \A i, j \in Ids : i < j => Below(Units(i)', Units(j)')
  BY <1>h, <1>1 DEF Layout
<1> QED  BY <1>2, <1>3 DEF Layout

\* Where a segment grows, or not, by units of frames sent after all it holds.
LEMMA TidyGrow ==
  ASSUME NEW i \in Ids, NEW w
  PROVE  (/\ Layout /\ sent \in Nat /\ Tidy(w) /\ Len(Units(i)) % 2 = 0
          /\ (\A a \in DOMAIN w : sent < w[a][1]))
         => Tidy(Units(i) \o w) /\ Frames(Units(i) \o w) = Frames(Units(i)) \o Frames(w)
<1>h. HAVE /\ Layout /\ sent \in Nat /\ Tidy(w) /\ Len(Units(i)) % 2 = 0
           /\ (\A a \in DOMAIN w : sent < w[a][1])
<1>1. Tidy(Units(i)) /\ UpTo(Units(i), sent)
  BY <1>h DEF Layout
<1>2. Below(Units(i), w)
  <2>1. ASSUME NEW a \in DOMAIN Units(i), NEW b \in DOMAIN w
        PROVE  Units(i)[a][1] < w[b][1]
    <3>1. Units(i)[a][1] \in Nat /\ w[b][1] \in Nat
      BY <1>h, <1>1, UnitFacts DEF Tidy
    <3>2. Units(i)[a][1] <= sent /\ sent < w[b][1]
      BY <1>h, <1>1 DEF UpTo
    <3> QED  BY <1>h, <3>1, <3>2
  <2> QED  BY <2>1 DEF Below
<1> QED  BY <1>h, <1>1, <1>2, TidyCat

\* The units of a sequence with another appended are those of the two.
LEMMA ElementsCat ==
  ASSUME NEW u \in Seq(Unit), NEW v \in Seq(Unit), NEW a \in DOMAIN (u \o v)
  PROVE  (\E b \in DOMAIN u : (u \o v)[a] = u[b]) \/ (\E b \in DOMAIN v : (u \o v)[a] = v[b])
<1>1. /\ Len(u \o v) = Len(u) + Len(v) /\ u \o v \in Seq(Unit)
      /\ \A i \in 1..Len(u) + Len(v) :
           (u \o v)[i] = IF i <= Len(u) THEN u[i] ELSE v[i - Len(u)]
  BY Joined
<1>2. /\ a \in 1..Len(u) + Len(v) /\ Len(u) \in Nat /\ Len(v) \in Nat
      /\ DOMAIN u = 1..Len(u) /\ DOMAIN v = 1..Len(v)
  BY <1>1
<1>3. CASE a <= Len(u)
  <2>1. a \in DOMAIN u /\ (u \o v)[a] = u[a]
    BY <1>1, <1>2, <1>3
  <2> QED  BY <2>1
<1>4. CASE ~(a <= Len(u))
  <2>1. a - Len(u) \in DOMAIN v /\ (u \o v)[a] = v[a - Len(u)]
    BY <1>1, <1>2, <1>4
  <2> QED  BY <2>1
<1> QED  BY <1>3, <1>4

\* append_bytes keeps the layout: what it adds goes after everything.
LEMMA LayoutGrow ==
  ASSUME NEW n \in 1..2, NEW k \in 0..(2 * n)
  PROVE  (/\ Disk /\ Layout /\ Opened /\ ~torn /\ sent \in 0..MaxFrame /\ sent + n <= MaxFrame
          /\ sent' = sent + n /\ Grew(Take(Encoded(n), k)))
         => /\ Layout'
            /\ Frames(Take(Encoded(n), k)) \in Seq(Frame)
            /\ \A i \in Ids : /\ Frames(Units(i)') = IF i = id THEN Frames(Units(i)) \o Frames(Take(Encoded(n), k))
                                                           ELSE Frames(Units(i))
                              /\ i > id => Units(i) = <<>>
<1>h. HAVE /\ Disk /\ Layout /\ Opened /\ ~torn /\ sent \in 0..MaxFrame /\ sent + n <= MaxFrame
           /\ sent' = sent + n /\ Grew(Take(Encoded(n), k))
<1> DEFINE w == Take(Encoded(n), k)
<1>0. sent \in Nat /\ n \in Nat /\ sent' \in Nat /\ sent <= sent' /\ id \in Ids /\ id \in Nat
  BY <1>h, ActiveFacts
<1>1. /\ Tidy(Encoded(n)) /\ Len(Encoded(n)) = 2 * n /\ Encoded(n) \in Seq(Unit)
      /\ \A a \in 1..(2 * n) : Encoded(n)[a][1] \in (sent + 1)..(sent + n)
  BY <1>h, EncodedFacts, Zenon DEF Tidy
<1>2. Tidy(w) /\ DOMAIN w = 1..k /\ w \in Seq(Unit)
  BY <1>1, TidyTake DEF Tidy
<1>3. \A a \in DOMAIN w : w[a] = Encoded(n)[a] /\ a \in 1..(2 * n)
  <2>1. \A a \in 1..k : Take(Encoded(n), k)[a] = Encoded(n)[a]
    BY <1>h, <1>1, TakeDrop, Zenon
  <2>2. \A a \in 1..k : a \in 1..(2 * n)
    BY <1>0
  <2> QED  BY <1>2, <2>1, <2>2
<1>4. \A a \in DOMAIN w : sent < w[a][1] /\ w[a][1] <= sent' /\ w[a][1] \in Nat
  <2> SUFFICES ASSUME NEW a \in DOMAIN w
               PROVE  sent < w[a][1] /\ w[a][1] <= sent' /\ w[a][1] \in Nat
    OBVIOUS
  <2>1. w[a][1] \in (sent + 1)..(sent + n)
    BY <1>1, <1>3
  <2> QED  BY <1>h, <1>0, <2>1
<1> HIDE DEF w
<1>5. Len(Units(id)) % 2 = 0
  <2>1. bytes = Len(seg[id]) + Len(buf) /\ bytes % 2 = 0
    BY <1>h DEF Disk
  <2>2. seg[id] \in Seq(Unit) /\ buf \in Seq(Unit)
    BY <1>h, ActiveFacts
  <2>3. Len(seg[id] \o buf) = bytes
    BY <2>1, <2>2, Concatenated
  <2> QED  BY <2>1, <2>3, Zenon DEF Units
<1>6. ASSUME NEW i \in Ids, i > id PROVE Units(i) = <<>>
  BY <1>h, <1>0, <1>6 DEF Disk, Units
<1>7. \A i \in Ids : Units(i)' = IF i = id THEN Units(i) \o w ELSE Units(i)
  BY <1>h, Zenon DEF Grew, w
<1>8. /\ Tidy(Units(id) \o w) /\ Frames(Units(id) \o w) = Frames(Units(id)) \o Frames(w)
  BY <1>h, <1>0, <1>2, <1>4, <1>5, TidyGrow
<1>9. \A i \in Ids : /\ Tidy(Units(i)) /\ UpTo(Units(i), sent) /\ Units(i) \in Seq(Unit)
                     /\ \A a \in DOMAIN Units(i) : Units(i)[a][1] \in Nat /\ Units(i)[a][1] <= sent
  <2> SUFFICES ASSUME NEW i \in Ids
               PROVE  /\ Tidy(Units(i)) /\ UpTo(Units(i), sent) /\ Units(i) \in Seq(Unit)
                      /\ \A a \in DOMAIN Units(i) : Units(i)[a][1] \in Nat /\ Units(i)[a][1] <= sent
    OBVIOUS
  <2>1. Tidy(Units(i)) /\ UpTo(Units(i), sent) /\ Units(i) \in Seq(Unit)
    BY <1>h DEF Layout, Tidy
  <2> QED  BY <2>1, UnitFacts DEF UpTo
<1>10. ASSUME NEW i \in Ids
       PROVE  /\ Tidy(Units(i)')
              /\ Frames(Units(i)') = IF i = id THEN Frames(Units(i)) \o Frames(w) ELSE Frames(Units(i))
  <2>1. CASE i = id
    <3>1. Units(i)' = Units(i) \o w
      BY <1>7, <2>1, Zenon
    <3>2. Tidy(Units(i) \o w) /\ Frames(Units(i) \o w) = Frames(Units(i)) \o Frames(w)
      BY <1>8, <2>1, Zenon
    <3> QED  BY <2>1, <3>1, <3>2, Zenon
  <2>2. CASE i # id
    <3>1. Units(i)' = Units(i)
      BY <1>7, <2>2, Zenon
    <3> QED  BY <1>9, <2>2, <3>1, Zenon
  <2> QED  BY <2>1, <2>2
<1>11. ASSUME NEW i \in Ids, NEW a \in DOMAIN Units(i)'
       PROVE  /\ Units(i)'[a][1] <= sent'
              /\ \/ \E b \in DOMAIN Units(i) : Units(i)'[a] = Units(i)[b]
                 \/ i = id /\ \E b \in DOMAIN w : Units(i)'[a] = w[b]
  <2>0. \A x \in Nat : x <= sent => x <= sent'
    BY <1>0
  <2>1. CASE i = id
    <3>1. Units(i)' = Units(i) \o w
      BY <1>7, <2>1, Zenon
    <3>2. \/ \E b \in DOMAIN Units(i) : Units(i)'[a] = Units(i)[b]
          \/ \E b \in DOMAIN w : Units(i)'[a] = w[b]
      <4> DEFINE u == Units(i)
      <4>1. u \in Seq(Unit)
        BY <1>9
      <4> HIDE DEF u
      <4>2. \A c \in DOMAIN (u \o w) : (\E b \in DOMAIN u : (u \o w)[c] = u[b]) \/ (\E b \in DOMAIN w : (u \o w)[c] = w[b])
        BY <1>2, <4>1, ElementsCat
      <4>3. Units(i)' = u \o w
        BY <3>1 DEF u
      <4> QED  BY <4>2, <4>3, Zenon DEF u
    <3> QED  BY <1>4, <1>9, <2>0, <2>1, <3>2, Zenon
  <2>2. CASE i # id
    <3>1. Units(i)' = Units(i)
      BY <1>7, <2>2, Zenon
    <3> QED  BY <1>9, <2>0, <2>2, <3>1, Zenon
  <2> QED  BY <2>1, <2>2
<1>12. ASSUME NEW i \in Ids, NEW j \in Ids, i < j PROVE Below(Units(i)', Units(j)')
  <2> SUFFICES ASSUME NEW a \in DOMAIN Units(i)', NEW b \in DOMAIN Units(j)'
               PROVE  Units(i)'[a][1] < Units(j)'[b][1]
    BY DEF Below
  <2>1. Below(Units(i), Units(j))
    BY <1>h, <1>12 DEF Layout
  <2>2. CASE i = id
    <3>1. Units(j)' = Units(j) /\ Units(j) = <<>>
      <4>1. j > id /\ j # id
        BY <1>0, <1>12, <2>2 DEF Ids
      <4>2. Units(j) = <<>>
        BY <1>6, <4>1
      <4> QED  BY <1>7, <4>1, <4>2, Zenon
    <3>2. DOMAIN Units(j)' = {}
      BY <3>1
    <3> QED  BY <3>2
  <2>3. CASE i # id
    <3>1. PICK c \in DOMAIN Units(i) : Units(i)'[a] = Units(i)[c]
      BY <1>11, <2>3
    <3>2. CASE \E d \in DOMAIN Units(j) : Units(j)'[b] = Units(j)[d]
      BY <2>1, <3>1, <3>2, Zenon DEF Below
    <3>3. CASE \E d \in DOMAIN w : Units(j)'[b] = w[d]
      <4>1. PICK d \in DOMAIN w : Units(j)'[b] = w[d]
        BY <3>3
      <4>2. /\ Units(i)[c][1] \in Nat /\ Units(i)[c][1] <= sent
            /\ w[d][1] \in Nat /\ sent < w[d][1]
        BY <1>4, <1>9, Zenon
      <4>3. Units(i)[c][1] < w[d][1]
        BY <1>0, <4>2
      <4> QED  BY <3>1, <4>1, <4>3, Zenon
    <3> QED  BY <1>11, <3>2, <3>3
  <2> QED  BY <2>2, <2>3
<1>13. Layout'
  <2>1. \A i \in Ids : Tidy(Units(i)') /\ UpTo(Units(i)', sent')
    BY <1>10, <1>11 DEF UpTo
  <2> QED  BY <1>12, <2>1 DEF Layout
<1>14. Frames(w) \in Seq(Frame)
  BY <1>2, FramesOf DEF Tidy
<1> QED  BY <1>6, <1>10, <1>13, <1>14 DEF w

\* Taking all of a sequence.
LEMMA TakeAll ==
  ASSUME NEW u \in Seq(Unit)
  PROVE  Len(u) \in 0..Len(u) /\ Take(u, Len(u)) = u
<1>1. Begins(u, u)
  BY DEF Begins
<1> QED  BY <1>1, BeginsTake

\* Every step that appends, in one form.
LEMMA AppendForm ==
  ASSUME NEW n \in 1..2
  PROVE  Disk /\ Thread /\ Counted /\ (AppendBytes(n) \/ AppendBytesFails(n))
         => /\ Opened /\ ~torn /\ sent \in 0..MaxFrame /\ sent + n <= MaxFrame /\ sent' = sent + n
            /\ Disk' /\ Thread' /\ Safe /\ Opened'
            /\ \E k \in 0..(2 * n) :
                 /\ Grew(Take(Encoded(n), k))
                 /\ \/ acked' = acked
                    \/ k = 2 * n /\ acked' = acked \cup ((sent + 1)..(sent + n))
<1>h. HAVE Disk /\ Thread /\ Counted /\ (AppendBytes(n) \/ AppendBytesFails(n))
<1>0. Opened /\ ~torn /\ sent \in 0..MaxFrame /\ sent + n <= MaxFrame /\ sent' = sent + n
  BY <1>h, Zenon DEF AppendBytes, AppendBytesFails, Counted
<1>1. CASE AppendBytes(n)
  <2>1. Disk' /\ Thread' /\ Safe /\ Opened' /\ Grew(Encoded(n))
    BY <1>h, <1>1, AppendStep
  <2>2. Encoded(n) \in Seq(Unit) /\ Len(Encoded(n)) = 2 * n
    BY <1>0, EncodedFacts, Zenon DEF Tidy
  <2>3. 2 * n \in 0..(2 * n) /\ Take(Encoded(n), 2 * n) = Encoded(n)
    BY <2>2, TakeAll
  <2>4. acked' = acked \cup ((sent + 1)..(sent + n))
    BY <1>1 DEF AppendBytes
  <2> QED  BY <1>0, <2>1, <2>3, <2>4
<1>2. CASE AppendBytesFails(n)
  <2>1. /\ Disk' /\ Thread' /\ Safe /\ Opened'
        /\ \E k \in 0..(2 * n) : Grew(Take(Encoded(n), k))
    BY <1>h, <1>2, AppendFailStep
  <2>2. acked' = acked
    BY <1>2 DEF AppendBytesFails
  <2> QED  BY <1>0, <2>1, <2>2
<1> QED  BY <1>h, <1>1, <1>2

\* An empty directory satisfies the invariant.
LEMMA WalInit == Init => WalInv
<1> SUFFICES ASSUME Init PROVE WalInv
  OBVIOUS
<1>1. Disk
  <2>1. \A i \in Ids : seg[i] = <<>> /\ dur[i] = 0 /\ Len(seg[i]) = 0
    BY DEF Init
  <2>2. seg \in [Ids -> Seq(Unit)] /\ dur \in [Ids -> Nat]
    BY DEF Init
  <2>3. /\ present = {} /\ id = 0 /\ buf = <<>> /\ bytes = 0 /\ synced = 0 /\ torn = FALSE
    BY DEF Init
  <2>4. 0 <= BufCap /\ 0 <= 0 /\ 0 \in 0..MaxSeg /\ <<>> \in Seq(Unit) /\ Len(<<>>) = 0
    BY WalAssumption
  <2> QED  BY <2>1, <2>2, <2>3, <2>4, Zenon DEF Disk, Opened
<1>2. Thread
  <2>1. stop = FALSE /\ retry = FALSE /\ pc = "gone" /\ cap = [id |-> 0, upto |-> 0]
    BY DEF Init
  <2>2. cap \in [id : 0..MaxSeg, upto : Nat]
    BY <2>1, WalAssumption
  <2> QED  BY <2>1, <2>2, Zenon DEF Thread
<1>3. Layout
  <2>1. \A i \in Ids : Units(i) = <<>>
    <3>1. \A i \in Ids : seg[i] = <<>> /\ i # id
      BY DEF Init, Ids
    <3> QED  BY <3>1 DEF Units
  <2>2. Tidy(<<>>) /\ UpTo(<<>>, sent) /\ Below(<<>>, <<>>)
    BY DEF Tidy, UpTo, Below, Framed, Ordered
  <2> QED  BY <2>1, <2>2 DEF Layout
<1>4. Counted
  BY WalAssumption DEF Init, Counted
<1> QED  BY <1>1, <1>2, <1>3, <1>4 DEF WalInv

\* What a step does to the log, in one of four forms.
Quiet  == Same /\ Opened /\ Opened' /\ sent' = sent /\ acked' = acked
Stops  == Shorter /\ ~Opened' /\ sent' = sent /\ acked' = acked
Starts == Cleaned /\ ~Opened /\ Opened' /\ sent' = sent /\ acked' = acked
Appends ==
  /\ Opened /\ ~torn /\ Opened'
  /\ \E n \in 1..2 :
       /\ sent + n <= MaxFrame /\ sent' = sent + n
       /\ \E k \in 0..(2 * n) :
            /\ Grew(Take(Encoded(n), k))
            /\ \/ acked' = acked
               \/ k = 2 * n /\ acked' = acked \cup ((sent + 1)..(sent + n))

\* Every action keeps the parts of the invariant that concern the files and the
\* threads, loses no frame from the disk, and has one of the four forms.
LEMMA StepForm ==
  ASSUME WalInv, Next
  PROVE  /\ Disk' /\ Thread' /\ Safe
         /\ Quiet \/ Stops \/ Starts \/ Appends
<1>0. Disk /\ Thread /\ Layout /\ Counted
  BY DEF WalInv
<1>1. ASSUME NEW n \in 1..2, AppendBytes(n) \/ AppendBytesFails(n)
      PROVE  Disk' /\ Thread' /\ Safe /\ Appends
  <2>1. /\ Opened /\ ~torn /\ sent + n <= MaxFrame /\ sent' = sent + n
        /\ Disk' /\ Thread' /\ Safe /\ Opened'
        /\ \E k \in 0..(2 * n) :
             /\ Grew(Take(Encoded(n), k))
             /\ \/ acked' = acked
                \/ k = 2 * n /\ acked' = acked \cup ((sent + 1)..(sent + n))
    BY <1>0, <1>1, AppendForm
  <2> QED  BY <2>1, Zenon DEF Appends
<1>2. CASE Seal
  <2>1. Disk' /\ Thread' /\ Safe /\ Opened' /\ Same
    BY <1>0, <1>2, SealStep
  <2>2. Opened /\ sent' = sent /\ acked' = acked
    BY <1>2 DEF Seal, hist
  <2> QED  BY <2>1, <2>2 DEF Quiet
<1>3. CASE CloseBegin \/ CommitterStop \/ CommitterIdle
  <2>1. Disk' /\ Thread' /\ Safe /\ Opened' /\ Same
    BY <1>0, <1>3, QuietStep
  <2>2. Opened /\ sent' = sent /\ acked' = acked
    BY <1>0, <1>3 DEF CloseBegin, CommitterStop, CommitterIdle, hist, Thread
  <2> QED  BY <2>1, <2>2 DEF Quiet
<1>4. CASE CommitterFlush \/ CommitterSync \/ CommitterMark \/ CommitterRoll
  <2>1. Disk' /\ Thread' /\ Safe /\ Opened' /\ Same
    BY <1>0, <1>4, CommitterFlushStep, CommitterSyncStep, CommitterMarkStep, CommitterRollStep
  <2>2. sent' = sent /\ acked' = acked
    BY <1>4, Zenon DEF CommitterFlush, CommitterSync, CommitterMark, CommitterRoll, hist
  <2>3. Opened
    BY <1>0, <1>4, Zenon DEF CommitterFlush, CommitterSync, CommitterMark, CommitterRoll, Thread
  <2> QED  BY <2>1, <2>2, <2>3 DEF Quiet
<1>5. CASE CloseEnd \/ Crash \/ PowerCut
  <2>1. Disk' /\ Thread' /\ Safe /\ ~Opened' /\ Shorter
    BY <1>0, <1>5, CloseEndStep, CrashStep, PowerCutStep
  <2>2. sent' = sent /\ acked' = acked
    BY <1>5 DEF CloseEnd, Crash, PowerCut, hist
  <2> QED  BY <2>1, <2>2 DEF Stops
<1>6. CASE Open
  <2>1. Disk' /\ Thread' /\ Safe /\ Opened' /\ Cleaned
    BY <1>0, <1>6, OpenStep
  <2>2. ~Opened /\ sent' = sent /\ acked' = acked
    BY <1>6 DEF Open, hist
  <2> QED  BY <2>1, <2>2 DEF Starts
<1>7. CASE \E n \in 1..2 : AppendBytes(n) \/ AppendBytesFails(n)
  BY <1>1, <1>7
<1> QED  BY <1>2, <1>3, <1>4, <1>5, <1>6, <1>7 DEF Next, Committer

\* A step that fails is counted, and there are at most MaxMishaps of them.
LEMMA MishapsCounted ==
  mishaps \in 0..MaxMishaps /\ Next => mishaps' \in 0..MaxMishaps
<1>h. HAVE mishaps \in 0..MaxMishaps /\ Next
<1>1. ASSUME NEW file, NEW b, NEW isTorn, NEW kinds, Roll(file, b, isTorn, kinds)
      PROVE  Mishap(kinds)
  BY <1>1 DEF Roll, RollOver
<1>2. mishaps' = mishaps \/ \E kinds : Mishap(kinds)
  <2>1. CASE \E n \in 1..2 : AppendBytes(n) \/ AppendBytesFails(n)
    BY <1>1, <2>1, Zenon DEF AppendBytes, AppendBytesFails
  <2>2. CASE Seal \/ CommitterRoll
    BY <1>1, <2>2 DEF Seal, CommitterRoll
  <2>3. CASE CloseBegin \/ CloseEnd \/ Crash \/ PowerCut \/ Open
    BY <2>3, Zenon DEF CloseBegin, CloseEnd, Crash, PowerCut, Open
  <2>4. CASE CommitterStop \/ CommitterIdle \/ CommitterFlush \/ CommitterSync \/ CommitterMark
    BY <2>4 DEF CommitterStop, CommitterIdle, CommitterFlush, CommitterSync, CommitterMark
  <2> QED  BY <1>h, <2>1, <2>2, <2>3, <2>4 DEF Next, Committer
<1> QED  BY <1>h, <1>2, WalAssumption DEF Mishap

\* The invariant is inductive.
LEMMA WalNext ==
  ASSUME WalInv, Next
  PROVE  WalInv'
<1>1. /\ Disk' /\ Thread'
      /\ Quiet \/ Stops \/ Starts \/ Appends
  BY StepForm
<1>2. Disk /\ Layout /\ sent \in 0..MaxFrame
  BY DEF WalInv, Counted
<1>3. Layout'
  <2>1. CASE Quiet
    BY <1>2, <2>1, LayoutSame DEF Quiet
  <2>2. CASE Stops
    BY <1>1, <1>2, <2>2, LayoutShort DEF Stops
  <2>3. CASE Starts
    <3>1. Shorter /\ sent' = sent
      BY <2>3 DEF Starts, Cleaned, Shorter
    <3> QED  BY <1>1, <1>2, <3>1, LayoutShort
  <2>4. CASE Appends
    <3>1. PICK n \in 1..2 :
           /\ sent + n <= MaxFrame /\ sent' = sent + n
           /\ \E k \in 0..(2 * n) : Grew(Take(Encoded(n), k))
      BY <2>4 DEF Appends
    <3>2. PICK k \in 0..(2 * n) : Grew(Take(Encoded(n), k))
      BY <3>1
    <3> QED  BY <1>2, <2>4, <3>1, <3>2, LayoutGrow DEF Appends
  <2> QED  BY <1>1, <2>1, <2>2, <2>3, <2>4
<1>4. Counted'
  <2>0. sent \in 0..MaxFrame /\ acked \subseteq Frame
    BY DEF WalInv, Counted
  <2>1. ASSUME Quiet \/ Stops \/ Starts PROVE sent' \in 0..MaxFrame /\ acked' \subseteq Frame
    <3>1. sent' = sent /\ acked' = acked
      BY <2>1 DEF Quiet, Stops, Starts
    <3> QED  BY <2>0, <3>1
  <2>2. ASSUME Appends PROVE sent' \in 0..MaxFrame /\ acked' \subseteq Frame
    <3>1. PICK n \in 1..2 :
            /\ sent + n <= MaxFrame /\ sent' = sent + n
            /\ acked' = acked \/ acked' = acked \cup ((sent + 1)..(sent + n))
      BY <2>2 DEF Appends
    <3>2. sent + n \in 0..MaxFrame /\ (sent + 1)..(sent + n) \subseteq 1..MaxFrame
      BY <2>0, <3>1, WalAssumption
    <3>3. acked' \subseteq Frame
      BY <2>0, <3>1, <3>2, Zenon DEF Frame
    <3> QED  BY <3>1, <3>2, <3>3
  <2>3. sent' \in 0..MaxFrame /\ acked' \subseteq Frame
    BY <1>1, <2>1, <2>2
  <2>4. mishaps' \in 0..MaxMishaps
    BY MishapsCounted DEF WalInv, Counted
  <2> QED  BY <2>3, <2>4 DEF Counted
<1> QED  BY <1>1, <1>3, <1>4 DEF WalInv

\* The invariant is inductive, stuttering included.
LEMMA WalStep == WalInv /\ [Next]_vars => WalInv'
<1> SUFFICES ASSUME WalInv, [Next]_vars PROVE WalInv'
  OBVIOUS
<1>1. CASE Next
  BY <1>1, WalNext
<1>2. CASE UNCHANGED vars
  <2>1. /\ UNCHANGED <<present, seg, dur, id, buf, bytes, synced, torn, stop>>
        /\ UNCHANGED <<pc, cap, retry, sent, acked, mishaps>>
    BY <1>2 DEF vars, disk, active, thread, hist
  <2>2. Disk' /\ Thread' /\ Counted'
    BY <2>1 DEF WalInv, Disk, Thread, Counted, Opened
  <2>3. Same /\ sent' = sent /\ Layout
    BY <2>1 DEF Same, Units, WalInv
  <2> QED  BY <2>2, <2>3, LayoutSame DEF WalInv
<1> QED  BY <1>1, <1>2

\* WalInv is an invariant of the writer: however appends, commits, rolls, failed
\* calls, crashes, power failures and reopenings interleave, every segment is a
\* run of whole frames and at most half a frame after them, frames are in the
\* order append got them, within and across segments, and what the committer
\* captured before it released the lock is still true of the segment if it is
\* still the active one.
THEOREM LogLaidOut == Spec => []WalInv
  BY WalInit, WalStep, PTL DEF Spec

\* bytes_written and synced_offset never claim more than is in the active segment
\* and on the disk: a commit that crosses a roll, a failed flush or a failed
\* fsync never counts bytes that a crash can take back.
THEOREM CountersAreHonest == Spec => []CountersHonest
<1>1. WalInv => CountersHonest
  BY Zenon DEF WalInv, Disk, Thread, Counted, CountersHonest, TypeOK, Opened, Ids
<1> QED  BY <1>1, LogLaidOut, PTL

\* A half-written frame is only ever the last thing in its segment: append refuses
\* until the torn segment is rolled, so no good frame comes after a torn one
\* where the reader would stop before it.
THEOREM TornFramesAtTheEnd == Spec => []TornOnlyAtEnd
<1>1. WalInv => TornOnlyAtEnd
  <2> SUFFICES ASSUME WalInv, NEW i \in present
               PROVE  Len(Units(i)) <= 2 * Whole(Units(i)) + 1
    BY DEF TornOnlyAtEnd
  <2>1. i \in Ids
    BY DEF WalInv, Disk
  <2>2. Units(i) \in Seq(Unit) /\ Framed(Units(i))
    BY <2>1 DEF WalInv, Layout, Tidy
  <2>3. Whole(Units(i)) = Len(Units(i)) \div 2 /\ Len(Units(i)) \in Nat
    BY <2>2, WholeFramed
  <2>4. \A l \in Nat : l <= 2 * (l \div 2) + 1
    OBVIOUS
  <2> QED  BY <2>3, <2>4
<1> QED  BY <1>1, LogLaidOut, PTL

\* Every segment but the active one is on the disk to its last byte.
Settled == \A i \in Ids : i # id => dur[i] = Len(seg[i])

\* RollOver fsyncs the segment it leaves behind.
LEMMA RollSettles ==
  ASSUME NEW file \in Seq(Unit), NEW b \in Seq(Unit), NEW isTorn, NEW kinds
  PROVE  Disk /\ Opened /\ Settled /\ Roll(file, b, isTorn, kinds)
         => Settled'
<1>h. HAVE Disk /\ Opened /\ Settled /\ Roll(file, b, isTorn, kinds)
<1>0. id \in Ids /\ id \in Nat /\ seg \in [Ids -> Seq(Unit)] /\ dur \in [Ids -> Nat]
  BY <1>h, ActiveFacts DEF Disk
<1>1. CASE RollOver(file \o b, Len(file \o b), kinds)
  BY <1>h, <1>0, <1>1 DEF RollOver, Settled
<1>2. CASE id' = id /\ dur' = [dur EXCEPT ![id] = Len(file \o b)]
           /\ seg' = [seg EXCEPT ![id] = file \o b]
  BY <1>h, <1>0, <1>2 DEF Settled
<1>3. CASE id' = id /\ dur' = dur /\ \E x : seg' = [seg EXCEPT ![id] = x]
  BY <1>h, <1>0, <1>3 DEF Settled
<1> QED  BY <1>h, <1>1, <1>2, <1>3 DEF Roll

\* Every step leaves all segments but the active one on the disk.
LEMMA SettledNext ==
  Faults \cap {"crash", "closesync"} = {} /\ WalInv /\ Settled /\ Next
  => Settled'
<1>h. HAVE Faults \cap {"crash", "closesync"} = {} /\ WalInv /\ Settled /\ Next
<1>0. Disk /\ Thread /\ Layout /\ Counted /\ seg \in [Ids -> Seq(Unit)] /\ dur \in [Ids -> Nat]
      /\ \A i \in Ids : seg[i] \in Seq(Unit) /\ dur[i] \in Nat
  BY <1>h DEF WalInv, Disk
<1>a. Opened => id \in Ids /\ seg[id] \in Seq(Unit) /\ buf \in Seq(Unit)
  BY <1>0, ActiveFacts
<1>1. ASSUME NEW n \in 1..2, AppendBytes(n) PROVE Settled'
  <2>1. id' = id /\ dur' = dur /\ (seg' = seg \/ \E x : seg' = [seg EXCEPT ![id] = x])
    BY <1>1 DEF AppendBytes
  <2> QED  BY <1>h, <1>0, <2>1 DEF Settled
<1>2. ASSUME NEW n \in 1..2, AppendBytesFails(n) PROVE Settled'
  <2> DEFINE u == Encoded(n)
  <2>0. Opened /\ sent \in 0..MaxFrame /\ sent + n <= MaxFrame
    BY <1>0, <1>2 DEF AppendBytesFails, Counted
  <2>1. u \in Seq(Unit) /\ Len(u) = 2 * n
    BY <2>0, EncodedFacts, Zenon DEF Tidy
  <2>2. PICK kinds \in RollFaults,
             s \in PartFlush(seg[id], buf) \cup
                   (IF Len(u) < BufCap THEN {}
                    ELSE {[file |-> seg[id] \o buf \o Take(u, k), buf |-> <<>>] :
                            k \in 0..(Len(u) - 1)}) :
               Roll(s.file, s.buf, TRUE, {"write"} \cup kinds)
    BY <1>2, Zenon DEF AppendBytesFails
  <2> HIDE DEF u
  <2>3. s.file \in Seq(Unit) /\ s.buf \in Seq(Unit)
    <3>1. CASE s \in PartFlush(seg[id], buf)
      BY <1>a, <2>0, <3>1, PartFlushed, Zenon
    <3>2. CASE s \notin PartFlush(seg[id], buf)
      <4>0. s \in {[file |-> seg[id] \o buf \o Take(u, k), buf |-> <<>>] : k \in 0..(Len(u) - 1)}
        BY <2>2, <3>2, Zenon
      <4>1. PICK k \in 0..(Len(u) - 1) :
              s = [file |-> (seg[id] \o buf) \o Take(u, k), buf |-> <<>>]
        BY <4>0, Zenon
      <4>2. k \in 0..Len(u) /\ seg[id] \o buf \in Seq(Unit)
        BY <1>a, <2>0, <2>1, Concatenated
      <4>3. Take(u, k) \in Seq(Unit)
        BY <2>1, <4>2, TakeDrop
      <4>4. (seg[id] \o buf) \o Take(u, k) \in Seq(Unit)
        BY <4>2, <4>3, Concatenated
      <4>5. s.file = (seg[id] \o buf) \o Take(u, k) /\ s.buf = <<>>
        BY <4>1, Zenon
      <4> QED  BY <4>4, <4>5
    <3> QED  BY <3>1, <3>2, Zenon
  <2> QED  BY <1>h, <1>0, <2>0, <2>2, <2>3, RollSettles, Zenon
<1>3. ASSUME Opened, NEW kinds, Roll(seg[id], buf, torn, kinds) PROVE Settled'
  BY <1>h, <1>0, <1>a, <1>3, RollSettles
<1>4. CASE Seal
  BY <1>3, <1>4 DEF Seal
<1>5. CASE CommitterRoll
  <2>1. Opened
    BY <1>0, <1>5 DEF CommitterRoll, Thread
  <2>2. CASE bytes >= SegMax \/ torn
    BY <1>3, <1>5, <2>1, <2>2 DEF CommitterRoll
  <2>3. CASE ~(bytes >= SegMax \/ torn)
    BY <1>h, <1>5, <2>3 DEF CommitterRoll, disk, active, Settled
  <2> QED  BY <2>2, <2>3
<1>6. CASE CloseBegin \/ CommitterStop \/ CommitterIdle \/ CommitterMark
  BY <1>h, <1>6 DEF CloseBegin, CommitterStop, CommitterIdle, CommitterMark, disk, active, Settled
<1>7. CASE CommitterFlush
  <2>1. id' = id /\ dur' = dur /\ \E x : seg' = [seg EXCEPT ![id] = x]
    BY <1>7, Zenon DEF CommitterFlush
  <2> QED  BY <1>h, <1>0, <2>1 DEF Settled
<1>8. CASE CommitterSync
  <2>1. id' = id /\ seg' = seg /\ (dur' = dur \/ dur' = [dur EXCEPT ![cap.id] = Len(seg[cap.id])])
    BY <1>8 DEF CommitterSync, active
  <2> QED  BY <1>h, <1>0, <2>1 DEF Settled
<1>9. CASE CloseEnd
  <2>1. /\ seg' = [seg EXCEPT ![id] = seg[id] \o buf]
        /\ dur' = [dur EXCEPT ![id] = Len(seg[id] \o buf)]
    BY <1>h, <1>9 DEF CloseEnd, Mishap
  <2> QED  BY <1>h, <1>0, <2>1 DEF Settled
<1>10. CASE Crash
  BY <1>h, <1>10 DEF Crash, Mishap
<1>11. CASE PowerCut
  <2> DEFINE loose == {i \in present : dur[i] < Len(seg[i])}
             most == Max({0} \cup {Len(seg[i]) : i \in loose})
  <2>1. PICK keep \in [loose -> 0..most] :
         /\ \A i \in loose : dur[i] <= keep[i] /\ keep[i] <= Len(seg[i])
         /\ seg' = [i \in Ids |-> IF i \in loose THEN Take(seg[i], keep[i]) ELSE seg[i]]
         /\ dur' = [i \in Ids |-> IF i \in loose THEN keep[i] ELSE dur[i]]
    BY <1>11, Zenon DEF PowerCut
  <2> HIDE DEF most
  <2>2. ASSUME NEW i \in Ids PROVE dur'[i] = Len(seg'[i])
    <3>0. dur[i] \in Nat /\ seg[i] \in Seq(Unit) /\ dur[i] <= Len(seg[i]) /\ Len(seg[i]) \in Nat
      BY <1>0 DEF Disk
    <3>1. CASE i \in loose
      <4>1. keep[i] \in Nat
        BY <2>1, <3>1
      <4>2. keep[i] \in 0..Len(seg[i])
        BY <2>1, <3>0, <3>1, <4>1
      <4>3. Len(Take(seg[i], keep[i])) = keep[i]
        BY <3>0, <4>2, TakeDrop, Zenon
      <4> QED  BY <2>1, <3>1, <4>3
    <3>2. CASE i \notin loose
      <4>1. dur[i] = Len(seg[i])
        <5>1. CASE i \in present
          BY <3>0, <3>2, <5>1
        <5>2. CASE i \notin present
          <6>1. seg[i] = <<>>
            BY <1>0, <5>2 DEF Disk
          <6> QED  BY <3>0, <6>1
        <5> QED  BY <5>1, <5>2
      <4> QED  BY <2>1, <3>2, <4>1
    <3> QED  BY <3>1, <3>2
  <2> QED  BY <2>2 DEF Settled
<1>12. CASE Open
  <2>1. id = 0
    BY <1>12 DEF Open, Opened
  <2>2. \A i \in Ids : dur[i] = Len(seg[i])
    BY <1>h, <2>1 DEF Settled, Ids
  <2>3. seg \in [Ids -> Seq(Unit)] /\ dur \in [Ids -> Nat] /\ present \subseteq Ids
    BY <1>0 DEF Disk
  <2> DEFINE Repaired(t, c) == /\ seg' = [seg EXCEPT ![t] = c]
                               /\ dur' = IF c = seg[t] THEN dur ELSE [dur EXCEPT ![t] = Len(c)]
  <2>4. (seg' = seg /\ dur' = dur) \/ \E t \in present : \E c : Repaired(t, c)
    BY <1>12 DEF Open
  <2>5. CASE seg' = seg /\ dur' = dur
    BY <2>2, <2>5 DEF Settled
  <2>6. CASE ~(seg' = seg /\ dur' = dur)
    <3>0. PICK t \in present : \E c : Repaired(t, c)
      BY <2>4, <2>6
    <3>1. PICK c : Repaired(t, c)
      BY <3>0, Zenon
    <3>2. c # seg[t]
      BY <2>3, <2>6, <3>1
    <3> QED  BY <2>2, <2>3, <3>1, <3>2 DEF Settled
  <2> QED  BY <2>5, <2>6
<1> QED  BY <1>h, <1>1, <1>2, <1>4, <1>5, <1>6, <1>7, <1>8, <1>9, <1>10, <1>11, <1>12
         DEF Next, Committer

\* A sealed segment is on the disk whole, however a seal, the committer and failed
\* calls interleave.  A crash, or a close whose fsync fails, leaves the tail of
\* the last run unsynced when the next one starts; without those two (the two
\* hypotheses on Faults) no sealed segment is ever behind.
THEOREM SealedIsDurable ==
  ASSUME Faults \cap {"crash", "closesync"} = {}
  PROVE  Spec => []SealedDurable
<1>1. Init => Settled
  BY DEF Init, Settled
<1>2. WalInv /\ Settled /\ [Next]_vars => Settled'
  <2>1. WalInv /\ Settled /\ Next => Settled'
    BY SettledNext
  <2>2. Settled /\ UNCHANGED vars => Settled'
    BY DEF Settled, vars, disk, active
  <2> QED  BY <2>1, <2>2
<1>3. WalInv /\ Settled => SealedDurable
  <2> SUFFICES ASSUME WalInv, Settled, NEW i \in present, i < id PROVE dur[i] = Len(seg[i])
    BY DEF SealedDurable
  <2>1. i \in Ids /\ i # id
    BY DEF WalInv, Disk, Ids
  <2> QED  BY <2>1 DEF Settled
<1> QED  BY <1>1, <1>2, <1>3, LogLaidOut, PTL DEF Spec
=============================================================================
