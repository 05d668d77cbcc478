----------------------------- MODULE MergeRuns -----------------------------
(***************************************************************************)
(* flush/merge.rs with the spilling and the hour split of                  *)
(* flush/planner.rs: the records of one (series, epoch) are sorted within  *)
(* a memory budget, through run files of which a bounded number is open at *)
(* a time, and streamed into one staged file per hour.                     *)
(*                                                                         *)
(* A record is <<key, arrival>>: its (ts, id) as one number, and its place *)
(* in the log, which stands for its frame.  Abstracted: the other groups,  *)
(* whose records share nothing but the batch (so a segment may end after   *)
(* any record of this one, and the batch be over budget there); the        *)
(* lengths of frames, hence which run files are the smallest; and the      *)
(* errors, which abandon the whole flush.                                  *)
(***************************************************************************)
EXTENDS Calendar, Columns

CONSTANTS
  Logs,       \* the logs, as the keys of their records in arrival order
  Contents,   \* the declared keys and extra of each arrival
  KeyTypes,   \* the types of the group's declared keys
  FanIns,     \* the values of flush.merge_fan_in
  GroupRows   \* the values of flush.row_group_rows

ASSUME MergeAssumption ==
  /\ FanIns \subseteq Nat /\ GroupRows \subseteq Nat \ {0}
  /\ TicksPerHour \in Nat \ {0}
  /\ \A log \in Logs : DOMAIN log \subseteq DOMAIN Contents

\* Two ids for every timestamp, the empty one first.
Ts(key) == key \div 2
Id(key) == IF key % 2 = 0 THEN <<>> ELSE <<1>>

\* decode_verified, of the frame of a record; its data tells arrivals apart.
RowOf(r) ==
  [ts |-> Ts(r[1]), id |-> Id(r[1]), data |-> <<r[2]>>,
   keys |-> Contents[r[2]].keys, extra |-> Contents[r[2]].extra]

VARIABLES
  fanIn,    \* flush.merge_fan_in
  group,    \* flush.row_group_rows
  input,    \* the keys of the log's records, in arrival order
  pos,      \* records decoded
  phase,    \* decode, plan, premerge, merge or done
  batch,    \* Batch::entries
  runs,     \* the run files
  memory,   \* the in-memory source of the last merge; empty when there is none
  sources,  \* what each source of the merge under way still holds
  heap,     \* indices of the sources that hold something: a binary min-heap
  last,     \* the key last emitted by the merge under way, if any
  out,      \* what a pre-merge has written to its run
  open,     \* the open file: none, or its hour, directory and writer
  staged,   \* the staged file in each directory, as row groups
  dropped   \* MergeStats::deduplicated and Batch::deduplicated, summed

vars == <<fanIn, group, input, pos, phase, batch, runs, memory, sources, heap, last, out,
          open, staged, dropped>>

Init ==
  /\ fanIn \in FanIns
  /\ group \in GroupRows /\ input \in Logs
  /\ pos = 0 /\ phase = "decode" /\ batch = <<>> /\ runs = {} /\ memory = <<>>
  /\ sources = <<>> /\ heap = <<>> /\ last = <<>> /\ out = <<>>
  /\ open = <<>> /\ staged = <<>> /\ dropped = 0
----------------------------------------------------------------------------
(* The sorted order                                                        *)

\* Mutant: the arrival is left out of the comparison.
LessByKey(r, s) == r[1] < s[1]

\* Head::key, and the comparison of Batch::sort: (ts, id), then arrival.
Less(r, s) == r[1] < s[1] \/ (r[1] = s[1] /\ r[2] < s[2])

\* The first record of S in that order.
First(S) == CHOOSE r \in S : \A s \in S \ {r} : Less(r, s)

\* Batch::sort: in order, and of each key the first only.
Sorted(b) ==
  LET kept == {r \in ToSet(b) : \A s \in ToSet(b) : s[1] = r[1] => r[2] <= s[2]}
      From[S \in SUBSET kept] ==
        IF S = {} THEN <<>> ELSE <<First(S)>> \o From[S \ {First(S)}]
  IN  From[kept]
----------------------------------------------------------------------------
(* Phase 1: decode, spilling over budget                                   *)

\* Batch::push.
Push ==
  /\ phase = "decode" /\ pos < Len(input)
  /\ pos' = pos + 1
  /\ batch' = Append(batch, <<input[pos'], pos'>>)
  /\ UNCHANGED <<fanIn, group, input, phase, runs, memory, sources, heap, last, out,
                 open, staged, dropped>>

\* Mutant: a spill's duplicates are not counted.
SpillUncounted ==
  /\ phase = "decode" /\ batch # <<>>
  /\ runs' = runs \cup {Sorted(batch)}
  /\ batch' = <<>>
  /\ UNCHANGED <<fanIn, group, input, pos, phase, memory, sources, heap, last, out, open,
                 staged, dropped>>

\* Batch::spill at the end of a segment that is not the last of the flush.
Spill ==
  /\ phase = "decode" /\ batch # <<>>
  /\ runs' = runs \cup {Sorted(batch)}
  /\ dropped' = dropped + Len(batch) - Len(Sorted(batch))
  /\ batch' = <<>>
  /\ UNCHANGED <<fanIn, group, input, pos, phase, memory, sources, heap, last, out,
                 open, staged>>

\* Batch::into_sources: what is left is merged from memory.
IntoSources ==
  /\ phase = "decode" /\ pos = Len(input)
  /\ memory' = Sorted(batch)
  /\ dropped' = dropped + Len(batch) - Len(Sorted(batch))
  /\ batch' = <<>> /\ phase' = "plan"
  /\ UNCHANGED <<fanIn, group, input, pos, runs, sources, heap, last, out, open, staged>>
----------------------------------------------------------------------------
(* The heap: sift_down and the heapify of merge                            *)

Swap(h, i, j) == [h EXCEPT ![i] = h[j], ![j] = h[i]]

\* Mutant: the right child is never looked at.
LeastLeft(src, h, i) ==
  IF 2*i <= Len(h) /\ Less(src[h[2*i]][1], src[h[i]][1]) THEN 2*i ELSE i

\* The place of the least head among node i and its children.
Least(src, h, i) ==
  LET family == {j \in {i, 2*i, 2*i + 1} : j <= Len(h)}
  IN  IF family = {} THEN i
      ELSE CHOOSE j \in family :
             \A k \in family : ~ Less(src[h[k]][1], src[h[j]][1])

\* sift_down from node i, over the heads of src.
SiftDown(src, heap0, i0) ==
  LET Sift[h \in Seq(Nat), i \in Nat] ==
        LET min == Least(src, h, i)
        IN  IF min = i THEN h ELSE Sift[Swap(h, i, min), min]
  IN  Sift[heap0, i0]

\* The heap over all of src: sifting from the middle down to the root.
Heapify(src) ==
  LET Build[i \in Nat] ==
        IF i > Len(src) \div 2 THEN [j \in DOMAIN src |-> j]
        ELSE SiftDown(src, Build[i + 1], i)
  IN  Build[1]
----------------------------------------------------------------------------
(* Phase 2: merge_bounded                                                  *)

Bound == IF fanIn < 2 THEN 2 ELSE fanIn
Width == Cardinality(runs) + (IF memory = <<>> THEN 0 ELSE 1)

\* The condition of merge_bounded's loop.
TooWide == Width > Bound

\* Mutant: the run that the pre-merge adds is forgotten.
TakeOneLess == LET excess == Width - Bound IN IF excess < Bound THEN excess ELSE Bound

\* How many runs a pre-merge takes: only as many as needed.
Take == LET excess == Width - Bound + 1 IN IF excess < Bound THEN excess ELSE Bound

\* The start of merge over src.
Begin(src) ==
  /\ sources' = src /\ heap' = Heapify(src) /\ last' = <<>> /\ out' = <<>>

\* Pre-merge the smallest runs.  Removing them is best-effort and touches
\* nothing that is read again.
PreMerge ==
  /\ phase = "plan" /\ TooWide
  /\ \E some \in SUBSET runs : \E src \in SetToSeqs(some) :
       /\ Cardinality(some) = Take
       /\ Begin(src)
       /\ runs' = runs \ some
  /\ phase' = "premerge"
  /\ UNCHANGED <<fanIn, group, input, pos, batch, memory, open, staged, dropped>>

\* The last merge: every run, and the in-memory source.
FinalMerge ==
  /\ phase = "plan" /\ ~ TooWide
  /\ \E src \in SetToSeqs(runs) :
       Begin(src \o (IF memory = <<>> THEN <<>> ELSE <<memory>>))
  /\ phase' = "merge"
  /\ UNCHANGED <<fanIn, group, input, pos, batch, runs, memory, open, staged, dropped>>

\* The files once the open one is finished.
Finished ==
  IF open = <<>> THEN staged ELSE (open[1].dir :> Finish(open[1].writer)) @@ staged

\* The sink of the last merge: the file of the row's hour.  When another
\* hour's was open, that is finished, and a file created, truncating what has
\* its name.
Stage(row) ==
  LET hour == row.ts \div TicksPerHour
      dir  == HourPartition(row.ts)
      here == open # <<>> /\ open[1].hour = hour
      file == IF here THEN open[1].writer ELSE CreateWriter(KeyTypes, group)
  IN  /\ staged' = IF here THEN staged ELSE (dir :> <<>>) @@ Finished
      /\ \E writer \in {AddRow(file, row)} :
           open' = <<[hour |-> hour, dir |-> dir, writer |-> CutFull(writer)]>>

\* The sink: a run's writer, or the staged files.
Emit(r) ==
  \/ phase = "premerge" /\ out' = Append(out, r) /\ UNCHANGED <<open, staged>>
  \/ phase = "merge" /\ Stage(RowOf(r)) /\ UNCHANGED out

\* advance, dropping an exhausted source, and the sift that follows.
Advance(top) ==
  /\ sources' = [sources EXCEPT ![top] = Tail(@)]
  /\ heap' = SiftDown(sources',
                      IF sources'[top] = <<>> THEN Front(Swap(heap, 1, Len(heap)))
                      ELSE heap, 1)

\* One turn of merge's loop.
Step ==
  /\ heap # <<>>
  /\ LET r == sources[heap[1]][1]
     IN  /\ IF last = <<r[1]>>
            THEN dropped' = dropped + 1 /\ UNCHANGED <<last, out, open, staged>>
            ELSE last' = <<r[1]>> /\ Emit(r) /\ UNCHANGED dropped
         /\ Advance(heap[1])
  /\ UNCHANGED <<fanIn, group, input, pos, phase, batch, runs, memory>>

\* The pre-merge ends: its output is one more run.
PreMerged ==
  /\ phase = "premerge" /\ heap = <<>>
  /\ runs' = runs \cup {out} /\ out' = <<>> /\ sources' = <<>>
  /\ phase' = "plan"
  /\ UNCHANGED <<fanIn, group, input, pos, batch, memory, heap, last, open, staged,
                 dropped>>

\* The last merge ends; dropping Spill removes the runs.
Merged ==
  /\ phase = "merge" /\ heap = <<>>
  /\ runs' = {} /\ memory' = <<>> /\ sources' = <<>>
  /\ staged' = Finished /\ open' = <<>> /\ phase' = "done"
  /\ UNCHANGED <<fanIn, group, input, pos, batch, heap, last, out, dropped>>

\* The flush goes on with the next group.
Done == phase = "done" /\ UNCHANGED vars

Next ==
  \/ Push \/ Spill \/ IntoSources
  \/ PreMerge \/ FinalMerge \/ Step \/ PreMerged \/ Merged
  \/ Done

Spec == Init /\ [][Next]_vars
----------------------------------------------------------------------------
(* Properties                                                              *)

\* The record that must survive: no earlier one has its (ts, id).
Survives(i) == \A j \in 1..(i - 1) : input[j] # input[i]

\* Whatever was spilled and pre-merged, and in whatever order the runs were
\* opened, the staged files hold the first arrival of each (ts, id), each
\* file sorted: no file is created twice, no later arrival survives an
\* earlier one.
FirstArrivalsStaged ==
  phase = "done" =>
    LET rows == [d \in DOMAIN staged |-> ReadFile(staged[d])]
        Key(row) == 2 * row.ts + Len(row.id)
    IN  /\ UNION {{<<Key(row), row.data[1]>> : row \in ToSet(rows[d])} : d \in DOMAIN rows}
             = {<<input[i], i>> : i \in {j \in DOMAIN input : Survives(j)}}
        /\ \A d \in DOMAIN rows : \A i \in 1..(Len(rows[d]) - 1) :
             Key(rows[d][i]) < Key(rows[d][i + 1])

\* Of the values under each name, the least.
OnePerName(pairs) == {p \in pairs : \A q \in pairs : q[1] = p[1] => ~ StrLess(q[2], p[2])}

\* Whatever the cuts into row groups, a staged row reads back with the keys
\* its frame had, nulls where it had them, and with each extra name once:
\* levels and values of all columns stay in step (Columns::write_group).
RowsReadBack ==
  phase = "done" =>
    \A d \in DOMAIN staged : \A row \in ToSet(ReadFile(staged[d])) :
      LET sent == Contents[row.data[1]]
      IN  /\ \A k \in DOMAIN sent.keys :
               /\ row.keys[k].ty = sent.keys[k].ty
               /\ row.keys[k].ty # "Null" => row.keys[k].v = sent.keys[k].v
          /\ ToSet(row.extra) = OnePerName(ToSet(sent.extra))
          /\ \A i, j \in DOMAIN row.extra : row.extra[i][1] = row.extra[j][1] => i = j

\* The file PartitionWriter streams, a group at a time with fresh cursors, is
\* the one write_file makes of the same rows at once.
StreamedAsWhole ==
  phase = "done" =>
    \A d \in DOMAIN staged :
      staged[d] = WriteFile(ColumnsOf(KeyTypes, ReadFile(staged[d])), group)

\* Days from 1970-01-01 to a date, counting the leap years and the months.
DaysCounted(y, m, d) ==
  LET Months[n \in 1..12] == IF n = 1 THEN 0 ELSE Months[n - 1] + DaysInMonth(y, n - 1)
  IN  365 * (y - 1970) + Cardinality({n \in 1970..(y - 1) : IsLeap(n)}) + Months[m] + d - 1

\* A file's directory names the civil hour all of its rows are in, by a
\* calendar that counts days; ymd_to_days, which reads limits.ts_min, agrees.
FiledByDate ==
  \A dir \in DOMAIN staged :
    /\ dir[3] \in 1..DaysInMonth(dir[1], dir[2])
    /\ YmdToDays(dir[1], dir[2], dir[3]) = DaysCounted(dir[1], dir[2], dir[3])
    /\ \A row \in ToSet(ReadFile(staged[dir])) :
         row.ts \div TicksPerHour = 24 * DaysCounted(dir[1], dir[2], dir[3]) + dir[4]

\* In every state the books of the merge are in order: runs and sources hold
\* records of the log, merge_bounded has no more than fan_in sources open (two
\* at least), and the hand-rolled heap is of distinct sources, none exhausted
\* (head() requires it), with the least head of all on top.
MergeInv ==
  /\ fanIn \in FanIns /\ group \in GroupRows /\ pos \in 0..Len(input)
  /\ dropped \in 0..Len(input)
  /\ phase \in {"decode", "plan", "premerge", "merge", "done"}
  /\ \A s \in {batch, memory, out} \cup runs \cup ToSet(sources) :
       ToSet(s) \subseteq {<<input[i], i>> : i \in DOMAIN input}
  /\ Len(sources) <= Bound
  /\ IsInjective(heap)
  /\ \A i \in DOMAIN heap : sources[heap[i]] # <<>>
  /\ \A i \in DOMAIN heap : ~ Less(sources[heap[i]][1], sources[heap[1]][1])

\* No record goes missing between decode and report: between merges and at
\* the end, those held somewhere and those counted as duplicates are the ones
\* decoded, though duplicates are dropped by sorts and by merges alike.
NoneLost ==
  LET Held(S) == Cardinality(UNION {ToSet(s) : s \in S})
      Rows == SumFunction([d \in DOMAIN staged |-> Len(ReadFile(staged[d]))])
  IN  phase # "merge" =>
        Held({batch, memory, out} \cup runs \cup ToSet(sources)) + Rows + dropped = pos

\* What is still to be done, most significant first: records to decode or to
\* spill, merges to begin, sources to merge into one another, records to emit.
ToDo ==
  LET premerging == IF phase = "premerge" THEN 1 ELSE 0
  IN  <<2 * (Len(input) - pos) + (IF batch = <<>> THEN 0 ELSE 1),
        [decode |-> 3, plan |-> 2, premerge |-> 2, merge |-> 1, done |-> 0][phase],
        Width + premerging,
        Total([i \in DOMAIN sources |-> Len(sources[i])]) + premerging>>

\* merge_bounded's loop makes progress and every merge of a log ends: each
\* step leaves less to do, in an order that has no infinite descent.
Progress ==
  [][\E i \in 1..4 : /\ ToDo'[i] < ToDo[i]
                     /\ \A j \in 1..(i - 1) : ToDo'[j] = ToDo[j]]_vars
=============================================================================
