---------------------------- MODULE MCMergeRuns ----------------------------
(* Instances of MergeRuns for TLC: every short log around the end of a leap *)
(* day, and a record on either side of other turns of the calendar.         *)
EXTENDS MergeRuns

CONSTANT MaxRecords   \* bound: records of the group in a log

\* The first of the three keys, the last one being in the next hour.
Base == 2 * (24 * YmdToDays(2024, 2, 29) + 23)

\* First hours of days.
Turns ==
  {24 * YmdToDays(d[1], d[2], d[3]) :
     d \in {<<1970, 1, 2>>, <<2000, 2, 29>>, <<2000, 3, 1>>, <<2023, 3, 1>>,
            <<2024, 1, 1>>, <<2024, 12, 31>>, <<2100, 3, 1>>, <<2101, 1, 1>>,
            <<2400, 2, 29>>, <<2400, 3, 1>>}}

MCLogs ==
  UNION {[1..n -> Base..(Base + 2)] : n \in 0..MaxRecords}
    \cup {<<2 * hour + 1, 2 * hour - 1, 2 * hour>> : hour \in Turns}

Long(n) == [ty |-> "I64", v |-> n]
Text(s) == [ty |-> "Str", v |-> s]
Null == [ty |-> "Null"]

MCKeyTypes == <<"I64", "Str">>

\* Nulls on their own and in a row, the empty string, and extra that is empty,
\* out of order, or has a name twice and not side by side.
MCContents ==
  <<[keys |-> <<Long(5), Null>>, extra |-> <<>>],
    [keys |-> <<Null, Text(<<1, 2>>)>>, extra |-> <<<<<<2>>, <<7>>>>, <<<<1>>, <<>>>>>>],
    [keys |-> <<Long(6), Text(<<>>)>>,
     extra |-> <<<<<<1>>, <<2>>>>, <<<<2>>, <<1>>>>, <<<<1>>, <<1>>>>>>],
    [keys |-> <<Null, Null>>, extra |-> <<<<<<3>>, <<4, 4>>>>>>]>>
=============================================================================
