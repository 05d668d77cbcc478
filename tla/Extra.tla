------------------------------- MODULE Extra -------------------------------
(***************************************************************************)
(* The order of a record's extra pairs, in which codec.rs writes them and  *)
(* flush/parquet.rs puts them when a producer's own encoder did not.  A    *)
(* string is a sequence of numbers, a pair is <<name, value>>.             *)
(***************************************************************************)
EXTENDS Naturals, Sequences, SequencesExt

\* str's Ord.
StrLess(s, t) ==
  \/ IsStrictPrefix(s, t)
  \/ \E i \in DOMAIN s \cap DOMAIN t :
       SubSeq(s, 1, i - 1) = SubSeq(t, 1, i - 1) /\ s[i] < t[i]

PairLess(a, b) == StrLess(a[1], b[1]) \/ (a[1] = b[1] /\ StrLess(a[2], b[2]))

\* is_canonical: names in order, none twice.
IsCanonical(extra) ==
  \A i \in 1..(Len(extra) - 1) : StrLess(extra[i][1], extra[i + 1][1])

\* Mutant: sorted, but a repeated name stays.
CanonicalRepeats(extra) == SortSeq(extra, PairLess)

\* The pairs as they are written: sorted, and of each name the first.
Canonical(extra) ==
  IF IsCanonical(extra) THEN extra
  ELSE FoldLeft(LAMBDA kept, pair :
                  IF kept # <<>> /\ Last(kept)[1] = pair[1] THEN kept
                  ELSE Append(kept, pair),
                <<>>, SortSeq(extra, PairLess))
=============================================================================
