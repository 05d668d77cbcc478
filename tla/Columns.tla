------------------------------ MODULE Columns ------------------------------
(***************************************************************************)
(* flush/parquet.rs: rows become columns, and columns the row groups of a  *)
(* file.  Values are not indexed by row (nulls have none, maps have any    *)
(* number), so a reader finds them by definition and repetition levels.    *)
(*                                                                         *)
(* A row is [ts, id, keys, extra, data]; a value is [ty, v], v being the   *)
(* value, a sequence of numbers for a string.  Abstracted: encodings,      *)
(* compression, statistics, and the errors, which abandon the flush.       *)
(***************************************************************************)
EXTENDS Extra, FiniteSets
----------------------------------------------------------------------------
(* Columns                                                                 *)

\* StrColumn: all characters, and where each value ends.
NoStrings == [bytes |-> <<>>, ends |-> <<>>]
PushStr(c, s) ==
  [bytes |-> c.bytes \o s, ends |-> Append(c.ends, Len(c.bytes) + Len(s))]
PushAll(c, strings) ==
  LET after[n \in 0..Len(strings)] ==
        IF n = 0 THEN c ELSE PushStr(after[n - 1], strings[n])
  IN  after[Len(strings)]
Start(c, i) == IF i = 0 THEN 0 ELSE c.ends[i]

\* StrColumn::arrays: the values of [from, to), cut out of one shared slice.
Arrays(c, from, to) ==
  LET base   == Start(c, from)
      shared == SubSeq(c.bytes, base + 1, c.ends[to])
  IN  [i \in 1..(to - from) |->
         SubSeq(shared, Start(c, from + i - 1) - base + 1, c.ends[from + i] - base)]

\* KeyColumn: a level for each row, a value for each row that has one.
NoKeys(ty) ==
  [ty |-> ty, defs |-> <<>>, vals |-> IF ty = "Str" THEN NoStrings ELSE <<>>]

\* KeyColumn::append
AppendKey(c, x) ==
  IF x.ty = "Null" THEN [c EXCEPT !.defs = Append(@, 0)]
  ELSE [c EXCEPT !.defs = Append(@, 1),
                 !.vals = IF c.ty = "Str" THEN PushStr(@, x.v) ELSE Append(@, x.v)]

\* The values of [from, to).
Slice(c, from, to) ==
  IF c.ty = "Str" THEN Arrays(c.vals, from, to) ELSE SubSeq(c.vals, from + 1, to)

\* RowBuilder::new
NewColumns(tys) ==
  [rows |-> 0, ts |-> <<>>, id |-> NoStrings,
   keys |-> [i \in DOMAIN tys |-> NoKeys(tys[i])],
   extraKeys |-> NoStrings, extraValues |-> NoStrings, extraCounts |-> <<>>,
   data |-> NoStrings]

\* RowBuilder::append, of a row that fits the columns.
AppendRow(c, row) ==
  LET extra == Canonical(row.extra)
  IN  [rows |-> c.rows + 1,
       ts |-> Append(c.ts, row.ts), id |-> PushStr(c.id, row.id),
       keys |-> [i \in DOMAIN c.keys |-> AppendKey(c.keys[i], row.keys[i])],
       extraKeys |-> PushAll(c.extraKeys, [i \in DOMAIN extra |-> extra[i][1]]),
       extraValues |-> PushAll(c.extraValues, [i \in DOMAIN extra |-> extra[i][2]]),
       extraCounts |-> Append(c.extraCounts, Len(extra)),
       data |-> PushStr(c.data, row.data)]

\* The columns of all the rows.
ColumnsOf(tys, rows) ==
  LET after[n \in 0..Len(rows)] ==
        IF n = 0 THEN NewColumns(tys) ELSE AppendRow(after[n - 1], rows[n])
  IN  after[Len(rows)]

\* Mutant: the key columns keep their values.
ClearKeepsValues(c) ==
  [NewColumns(<<>>) EXCEPT
     !.keys = [i \in DOMAIN c.keys |-> [c.keys[i] EXCEPT !.defs = <<>>]]]

\* RowBuilder::clear
Clear(c) == NewColumns([i \in DOMAIN c.keys |-> c.keys[i].ty])
----------------------------------------------------------------------------
(* Row groups                                                              *)

Occurrences(x, s) == Cardinality({i \in DOMAIN s : s[i] = x})
Total(counts) ==
  LET upto[n \in 0..Len(counts)] == IF n = 0 THEN 0 ELSE upto[n - 1] + counts[n]
  IN  upto[Len(counts)]

\* MapLevels::for_rows: an empty map takes a slot of level 0; the first entry
\* of a map opens a row.
MapLevels(counts) ==
  FlattenSeq([r \in DOMAIN counts |->
    IF counts[r] = 0 THEN <<[keyDef |-> 0, valueDef |-> 0, rep |-> 0]>>
    ELSE [i \in 1..counts[r] |->
            [keyDef |-> 1, valueDef |-> 2, rep |-> IF i = 1 THEN 0 ELSE 1]]])

\* Cursors: how many values of each column earlier groups have taken.
NoCursors(c) == [keys |-> [i \in DOMAIN c.keys |-> 0], extra |-> 0]

\* Where the cursors stand after rows [start, end).
Advanced(c, start, end, cursors) ==
  [keys |-> [i \in DOMAIN c.keys |->
               cursors.keys[i] + Occurrences(1, SubSeq(c.keys[i].defs, start + 1, end))],
   extra |-> cursors.extra + Total(SubSeq(c.extraCounts, start + 1, end))]

\* Columns::write_group, of rows [start, end).
WriteGroup(c, start, end, from) ==
  LET to == Advanced(c, start, end, from)
  IN  [ts |-> SubSeq(c.ts, start + 1, end), id |-> Arrays(c.id, start, end),
       keys |-> [i \in DOMAIN c.keys |->
                   [ty |-> c.keys[i].ty, defs |-> SubSeq(c.keys[i].defs, start + 1, end),
                    vals |-> Slice(c.keys[i], from.keys[i], to.keys[i])]],
       extra |-> [levels |-> MapLevels(SubSeq(c.extraCounts, start + 1, end)),
                  keys |-> Arrays(c.extraKeys, from.extra, to.extra),
                  values |-> Arrays(c.extraValues, from.extra, to.extra)],
       data |-> Arrays(c.data, start, end)]

\* write_file: every row at once, the cursors carried from group to group.
WriteFile(c, groupRows) ==
  LET End(g) == IF g * groupRows < c.rows THEN g * groupRows ELSE c.rows
      Cursor[g \in Nat] ==
        IF g = 0 THEN NoCursors(c) ELSE Advanced(c, End(g - 1), End(g), Cursor[g - 1])
  IN  [g \in 1..((c.rows + groupRows - 1) \div groupRows) |->
         WriteGroup(c, End(g - 1), End(g), Cursor[g - 1])]
----------------------------------------------------------------------------
(* PartitionWriter: one group in memory                                    *)

CreateWriter(tys, groupRows) ==
  [cols |-> NewColumns(tys), groups |-> <<>>, groupRows |-> groupRows]

\* PartitionWriter::write_group, and what finish leaves in the file.
CutGroup(w) ==
  IF w.cols.rows = 0 THEN w
  ELSE [w EXCEPT !.groups = Append(@, WriteGroup(w.cols, 0, w.cols.rows, NoCursors(w.cols))),
                 !.cols = Clear(@)]
Finish(w) == CutGroup(w).groups

\* Mutant: a group is cut one row late.
CutFullLate(w) == IF w.cols.rows > w.groupRows THEN CutGroup(w) ELSE w

\* PartitionWriter::append adds the row, then writes out a full group.
AddRow(w, row) == [w EXCEPT !.cols = AppendRow(@, row)]
CutFull(w) == IF w.cols.rows >= w.groupRows THEN CutGroup(w) ELSE w
----------------------------------------------------------------------------
(* Reading back: the record assembly of a Parquet reader                   *)

ReadGroup(g) ==
  LET levels == g.extra.levels
      Upto(i, Is(_)) == Cardinality({j \in 1..i : Is(j)})
      Key(k, i) == IF k.defs[i] = 0 THEN [ty |-> "Null"]
                   ELSE [ty |-> k.ty, v |-> k.vals[Upto(i, LAMBDA j : k.defs[j] = 1)]]
      Row(s) == Upto(s, LAMBDA j : levels[j].rep = 0)
      Entry(s) == <<g.extra.keys[Upto(s, LAMBDA j : levels[j].keyDef = 1)],
                    g.extra.values[Upto(s, LAMBDA j : levels[j].valueDef = 2)]>>
      Slots(i) == SetToSortSeq({s \in DOMAIN levels : Row(s) = i /\ levels[s].keyDef = 1}, <)
  IN  [i \in DOMAIN g.ts |->
         [ts |-> g.ts[i], id |-> g.id[i], data |-> g.data[i],
          keys |-> [k \in DOMAIN g.keys |-> Key(g.keys[k], i)],
          extra |-> [e \in DOMAIN Slots(i) |-> Entry(Slots(i)[e])]]]

ReadFile(groups) == FlattenSeq([g \in DOMAIN groups |-> ReadGroup(groups[g])])
=============================================================================
