------------------------ MODULE FlushEngineProofs ------------------------
(***************************************************************************)
(* The theorems about FlushEngine.  The invariant IInv is inductive:       *)
(* there is one lemma per action, one step per conjunct, for a flush and a *)
(* startup in FlushEngineLemmas, for appends, stops and power cuts here.   *)
(* Four ideas carry it.                                                    *)
(*   - Keeps: no step takes rows away from a watermark that covers them.   *)
(*   - RollKeeps: a new segment's id is above every watermark and every    *)
(*     file, so nothing is buried under it.                                *)
(*   - CommitCovers: at the commit point the fsynced staged files hold     *)
(*     every row between the old watermark and the new one.                *)
(*   - CutWalBooks, CutOutputBooks: what a power cut takes or brings back  *)
(*     leaves each watermark its rows.                                     *)
(***************************************************************************)
EXTENDS FlushEngineLemmas, WellFoundedInduction

USE DEF wal, outs, mani, job, run, hist, Rest, Mishap

\* A non-empty set of naturals has a least member.
LEMMA LeastMember == LeastNumber
<1>. SUFFICES ASSUME NEW S \in SUBSET Nat, S # {}
             PROVE  \E x \in S : \A y \in S : x <= y
  BY Zenon DEF LeastNumber
<1>1. PICK x \in S : \A y \in S : ~(<<y, x>> \in OpToRel(<, Nat))
  BY WFMin, NatLessThanWellFounded, Zenon
<1>2. \A y \in S : ~(y < x)
  BY <1>1, Zenon DEF OpToRel
<1>. QED
  BY <1>2

---------------------------------------------------------------------------
(* Ingest and the environment. *)

\* A record goes to the active segment, above every watermark.
LEMMA AppendStep ==
  ASSUME NEW r \in Rec, IInv, Append(r)
  PROVE  IInv'
<1>0. /\ UNCHANGED <<files, hdr, aside, loose, unlinked, forfeit, outs, mani, job,
                     run, stable, mishaps>>
      /\ phase = "up" /\ r \notin accepted
      /\ content' = [content EXCEPT ![active] = @ \cup {r}]
      /\ accepted' = accepted \cup {r} /\ volatile' = volatile \cup {r}
  BY Zenon DEF Append
<1>a. /\ active \in Ids /\ active > mem /\ active \in files
      /\ content' \in [Ids -> SUBSET Rec]
      /\ content'[active] = content[active] \cup {r}
      /\ \A i \in Ids : i # active => content'[i] = content[i]
      /\ active \notin loose \cup unlinked /\ Firm' = Firm
  <2>1. active \in files /\ active > mem /\ files \subseteq Ids /\ content \in [Ids -> SUBSET Rec]
    BY <1>0, Zenon DEF IInv, TypeOK, ActiveTop
  <2>2. active \notin loose \cup unlinked
    BY <2>1, Zenon DEF IInv, TypeOK
  <2>3. Firm' = Firm
    BY <1>0, Zenon DEF Firm
  <2>. QED
    BY <1>0, <2>1, <2>2, <2>3, Zenon
<1>1. TypeOK'
  <2>1. WalOK' /\ OutsOK' /\ JobOK' /\ BooksOK' /\ OneMishap
    BY <1>0, <1>a, Zenon DEF IInv, TypeOK, WalOK, OutsOK, JobOK, BooksOK, OneMishap
  <2>. QED
    BY <2>1, TypeParts, Zenon DEF IInv
<1>2. Histories'
  BY <1>0, <1>a, Zenon DEF IInv, Histories
<1>3. Gone'
  BY <1>0, <1>a, Zenon DEF IInv, TypeOK, Gone
<1>4. AllCovered'
  <2>0. \A i \in Ids : i <= mem => i # active
    BY <1>0, <1>a, Running, SegAssumption DEF Ids
  <2>1. \A i \in Ids : i <= manifest \/ i <= manifestDur => i <= mem
    BY <1>0, Running, SegAssumption DEF Ids
  <2>2. Keeps(mem) /\ Keeps(manifest) /\ Keeps(manifestDur)
    BY <1>0, <1>a, <2>0, <2>1, Zenon DEF Keeps
  <2>. QED
    BY <1>0, <2>2, AllCoveredKept, Zenon DEF IInv
<1>5. ShortEmpty'
  BY <1>0, <1>a, Zenon DEF IInv, ShortEmpty
<1>6. OutputComplete'
  <2>1. \A i \in consumed : InFlush({"stage", "commit"}) => i \in Ids /\ i # active
    <3>1. phase = "up" /\ consumed \subseteq Ids
      BY <1>0, Zenon DEF IInv, TypeOK
    <3>2. InFlush({"stage", "commit"}) => \A i \in consumed : i < active
      BY <3>1, Zenon DEF IInv, NoGap, InFlush
    <3>. QED
      BY <1>a, <3>1, <3>2, SegAssumption DEF Ids
  <2>. QED
    BY <2>1, <1>0, <1>a, Zenon DEF IInv, TypeOK, OutputComplete, InFlush
<1>7. Watermarks' /\ UniqueNames' /\ ActiveTop' /\ NoGap' /\ Loops'
  BY <1>0, Zenon DEF IInv, Watermarks, UniqueNames, Distinct, ActiveTop, NoGap, InFlush, Loops
<1>. QED
  BY <1>1, <1>2, <1>3, <1>4, <1>5, <1>6, <1>7, Zenon DEF IInv

\* Records of the active segment become stable: the group commit, and a roll that
\* finds the name of the next segment taken.
LEMMA SyncStep ==
  ASSUME IInv, UNCHANGED <<wal, outs, mani, job, run, mishaps, accepted>>, phase = "up",
         NEW S \in SUBSET (volatile \cap content[active]),
         volatile' = volatile \ S, stable' = stable \cup S
  PROVE  IInv'
<1>a. active \in Ids
  BY Zenon DEF IInv, TypeOK, ActiveTop
<1>b. Firm' = Firm
  BY Zenon DEF Firm
<1>1. TypeOK'
  <2>1. WalOK' /\ OutsOK' /\ JobOK' /\ BooksOK' /\ OneMishap
    BY Zenon DEF IInv, TypeOK, WalOK, OutsOK, JobOK, BooksOK, OneMishap
  <2>. QED
    BY <2>1, TypeParts, Zenon DEF IInv
<1>2. Histories'
  BY <1>a, <1>b, Zenon DEF IInv, Histories
<1>3. Gone' /\ AllCovered'
  BY <1>b, Zenon DEF IInv, Gone, AllCovered, Covered
<1>4. Watermarks' /\ UniqueNames' /\ ShortEmpty' /\ ActiveTop'
  BY Zenon DEF IInv, Watermarks, UniqueNames, Distinct, ShortEmpty, ActiveTop
<1>5. NoGap' /\ OutputComplete' /\ Loops'
  BY Zenon DEF IInv, NoGap, InFlush, OutputComplete, Loops
<1>. QED
  BY <1>1, <1>2, <1>3, <1>4, <1>5, Zenon DEF IInv

\* Records the group commit covers become stable.
LEMMA GroupCommitStep ==
  ASSUME NEW S \in SUBSET volatile, IInv, GroupCommit(S)
  PROVE  IInv'
BY SyncStep, Zenon DEF GroupCommit

\* A roll refused because the name is taken still syncs the segment.
LEMMA RollRefusedStep ==
  ASSUME IInv, RollRefused
  PROVE  IInv'
<1>1. /\ UNCHANGED <<wal, outs, mani, job, run, mishaps, accepted>> /\ phase = "up"
      /\ volatile' = volatile \ (volatile \cap content[active])
      /\ stable' = stable \cup (volatile \cap content[active])
  BY Zenon DEF RollRefused, SyncActive
<1>. QED
  BY <1>1, SyncStep, Zenon

\* A roll, made or failed, leaves no gap in the flush's lists: the new file is
\* above all others.
LEMMA NoGapRolled ==
  ASSUME NoGap, files' = files \cup {active + 1}, \A j \in files : j <= active,
         active \in Nat, files \subseteq Nat, todo \subseteq Nat, consumed \subseteq Nat,
         mem \in Nat, active' \in Nat, active <= active',
         UNCHANGED <<phase, mem, pc, todo, consumed>>
  PROVE  NoGap'
<1>1. InFlush({"plan", "sweep", "orphans", "decode", "stage", "commit"})' =>
        InFlush({"plan", "sweep", "orphans", "decode", "stage", "commit"})
  BY Zenon DEF InFlush
<1>2. ASSUME NEW i \in files', NEW j \in todo \cup consumed,
             todo \cup consumed \subseteq files, i <= j
      PROVE  i \in files
  BY <1>2
<1>3. ASSUME NEW i \in todo \cup consumed, i < active
      PROVE  i < active'
  BY <1>3
<1>. QED
  BY <1>1, <1>2, <1>3, Zenon DEF NoGap

\* The committer rolls a full segment, or fails to after create_new.
LEMMA RollStep ==
  ASSUME IInv, CommitterRoll \/ RollFails
  PROVE  IInv'
<1>0. /\ UNCHANGED <<outs, mani, job, phase, mem>> /\ OneMishap /\ SyncActive
      /\ phase = "up" /\ active < MaxSeg /\ active + 1 \notin files
  BY Zenon DEF CommitterRoll, RollFails, Roll, OneMishap
<1>1. active \in Nat /\ active + 1 \in Ids
  BY <1>0, SegAssumption DEF IInv, TypeOK, Ids
<1>2. PICK h \in {"ok", "short"}, S \in SUBSET Ids :
        /\ active + 1 \in S /\ Create(active + 1, h, S)
        /\ active' = active \/ (h = "ok" /\ active' = active + 1)
  BY <1>1, Zenon DEF CommitterRoll, RollFails, Roll
<1>a. /\ WalOK' /\ OutsOK' /\ active' \in 0..MaxSeg
      /\ accepted' \subseteq Rec /\ stable' \subseteq Rec
      /\ volatile' \subseteq Rec
      /\ files' = files \cup {active + 1}
      /\ \A i \in Ids : i # active + 1 => content'[i] = content[i]
      /\ Histories' /\ Gone' /\ AllCovered' /\ UniqueNames' /\ ShortEmpty' /\ ActiveTop'
  BY <1>0, <1>2, RollKeeps, Zenon
<1>3. TypeOK'
  <2>1. JobOK' /\ BooksOK'
    BY <1>0, <1>a, Zenon DEF IInv, TypeOK, JobOK, BooksOK
  <2>. QED
    BY <1>0, <1>a, <2>1, TypeParts, Zenon DEF IInv
<1>4. NoGap'
  <2>1. active \in Nat /\ files \subseteq Nat /\ todo \subseteq Nat /\ consumed
     \subseteq Nat /\ mem \in Nat
    BY SegAssumption DEF IInv, TypeOK, Ids
  <2>2. \A j \in files : j <= active
    BY <1>0, <2>1 DEF IInv, ActiveTop
  <2>3. active' \in Nat /\ active <= active'
    BY <1>2, <2>1
  <2>. QED
    BY <1>0, <1>a, <2>1, <2>2, <2>3, NoGapRolled, Zenon DEF IInv
<1>5. OutputComplete'
  <2>1. InFlush({"stage", "commit"}) => \A i \in consumed : i < active /\ i \in Ids
    BY <1>0, Zenon DEF IInv, TypeOK, NoGap, InFlush
  <2>2. InFlush({"stage", "commit"}) => \A i \in consumed : i \in Ids /\ i # active + 1
    BY <1>1, <2>1, SegAssumption DEF Ids
  <2>. QED
    BY <2>2, <1>0, <1>a, Zenon DEF IInv, OutputComplete, InFlush
<1>6. Watermarks' /\ Loops'
  BY <1>0, Zenon DEF IInv, Watermarks, Loops
<1>. QED
  BY <1>a, <1>3, <1>4, <1>5, <1>6, Zenon DEF IInv

\* A step that takes volatile records out of the log, and moves nothing else.
LEMMA LoseBooks ==
  ASSUME IInv, content' \in [Ids -> SUBSET Rec],
         \A i \in Ids : content'[i] \subseteq content[i],
         UNCHANGED <<files, hdr, aside, loose, unlinked, forfeit, outs, mani>>,
         mem' \in {mem, 0}, active' = 0
  PROVE  /\ WalOK' /\ OutsOK' /\ Gone' /\ AllCovered' /\ UniqueNames' /\ ShortEmpty'
         /\ Firm' = Firm
<1>1. Firm' = Firm
  BY Zenon DEF Firm
<1>2. WalOK' /\ OutsOK'
  BY Zenon DEF IInv, TypeOK, WalOK, OutsOK
<1>3. Gone'
  <2>1. \A i \in unlinked : i \in Ids
    BY Zenon DEF IInv, TypeOK
  <2>. QED
    BY <1>1, <2>1, Zenon DEF IInv, Gone
<1>4. Keeps(mem) /\ Keeps(manifest) /\ Keeps(manifestDur)
  BY <1>1, Zenon DEF Keeps
<1>5. AllCovered'
  BY <1>4, AllCoveredKept, Zenon DEF IInv
<1>6. UniqueNames'
  BY Zenon DEF IInv, UniqueNames, Distinct
<1>7. ShortEmpty'
  <2>1. 0 \notin Ids
    BY SegAssumption DEF Ids
  <2>. QED
    BY <2>1, Zenon DEF IInv, ShortEmpty
<1>. QED
  BY <1>1, <1>2, <1>3, <1>5, <1>6, <1>7, Zenon

\* Closing loses at most what no fsync covered.
LEMMA CloseStep ==
  ASSUME IInv, Close
  PROVE  IInv'
<1>0. /\ UNCHANGED <<files, hdr, aside, loose, unlinked, forfeit, outs, mani, job, mem>>
      /\ OneMishap /\ phase = "up" /\ phase' = "closed" /\ active' = 0
      /\ \/ SyncActive /\ UNCHANGED content
         \/ /\ \E L \in SUBSET volatile : Lose(L)
            /\ UNCHANGED <<accepted, stable>>
  BY Zenon DEF Close, OneMishap
<1>a. /\ content' \in [Ids -> SUBSET Rec]
      /\ \A i \in Ids : content'[i] \subseteq content[i]
      /\ \A i \in Ids : content[i] \cap stable \subseteq content'[i]
  BY <1>0, Zenon DEF IInv, TypeOK, Histories, Lose
<1>b. /\ WalOK' /\ OutsOK' /\ Gone' /\ AllCovered' /\ UniqueNames' /\ ShortEmpty'
      /\ Firm' = Firm
  BY <1>0, <1>a, LoseBooks, Zenon
<1>1. TypeOK'
  <2>1. BooksOK'
    BY <1>0, Zenon DEF IInv, TypeOK, BooksOK, SyncActive, Lose
  <2>2. JobOK'
    <3>1. 0 \in 0..MaxSeg
      BY SegAssumption
    <3>. QED
      BY <1>0, <3>1, Zenon DEF IInv, TypeOK, JobOK
  <2>. QED
    BY <1>0, <1>b, <2>1, <2>2, TypeParts, Zenon DEF IInv
<1>2. Histories'
  <2>1. active \in Ids
    BY <1>0, Zenon DEF IInv, TypeOK, ActiveTop
  <2>2. CASE SyncActive /\ UNCHANGED content
    BY <1>b, <2>1, <2>2, Zenon DEF IInv, Histories, SyncActive
  <2>3. CASE stable' = stable /\ accepted' = accepted /\ volatile' \subseteq volatile
    BY <1>a, <1>b, <2>3, Zenon DEF IInv, Histories
  <2>. QED
    BY <1>0, <2>2, <2>3, Zenon DEF Lose
<1>3. Watermarks' /\ ActiveTop' /\ NoGap' /\ Loops'
  BY <1>0, Zenon DEF IInv, Watermarks, ActiveTop, NoGap, InFlush, Loops
<1>4. OutputComplete'
  BY <1>0, <1>a, Zenon DEF IInv, TypeOK, OutputComplete, InFlush
<1>. QED
  BY <1>b, <1>1, <1>2, <1>3, <1>4, Zenon DEF IInv

\* The closed engine goes, or the process dies: it loses at most its write buffer.
LEMMA StopStep ==
  ASSUME IInv, Exit \/ Crash
  PROVE  IInv'
<1>0. /\ UNCHANGED <<files, hdr, aside, loose, unlinked, forfeit, outs, mani>>
      /\ OneMishap /\ OpenErr /\ UNCHANGED <<accepted, stable>>
      /\ UNCHANGED <<content, volatile>> \/ \E L \in SUBSET volatile : Lose(L)
  BY Zenon DEF Exit, Crash, OneMishap
<1>a. /\ content' \in [Ids -> SUBSET Rec] /\ volatile' \subseteq volatile
      /\ \A i \in Ids : content'[i] \subseteq content[i]
      /\ \A i \in Ids : content[i] \cap stable \subseteq content'[i]
  BY <1>0, Zenon DEF IInv, TypeOK, Histories, Lose
<1>b. /\ WalOK' /\ OutsOK' /\ Gone' /\ AllCovered' /\ UniqueNames' /\ ShortEmpty'
      /\ Firm' = Firm
  BY <1>0, <1>a, LoseBooks, Zenon DEF OpenErr
<1>1. TypeOK'
  <2>1. BooksOK'
    BY <1>0, <1>a, Zenon DEF IInv, TypeOK, BooksOK
  <2>2. JobOK'
    BY <1>0, EndOK, Zenon DEF IInv
  <2>. QED
    BY <1>0, <1>b, <2>1, <2>2, TypeParts, Zenon DEF IInv
<1>2. Histories'
  BY <1>0, <1>a, <1>b, Zenon DEF IInv, Histories
<1>3. Watermarks'
  BY <1>0, Zenon DEF IInv, Watermarks, OpenErr
<1>4. ActiveTop' /\ NoGap' /\ OutputComplete' /\ Loops'
  BY <1>0, <1>3, JobOver, Zenon
<1>. QED
  BY <1>b, <1>1, <1>2, <1>3, <1>4, Zenon DEF IInv

\* A power cut in wal/ loses no record that an fsync covered, and no segment that
\* was set aside without a trace.
LEMMA CutWalBooks ==
  ASSUME IInv, NEW L \in SUBSET volatile, NEW U \in SUBSET (loose \cup unlinked),
         CutWal(L, U), manifestDur' = manifestDur
  PROVE  /\ WalOK' /\ Gone'
         /\ content' \in [Ids -> SUBSET Rec] /\ hdr' = hdr /\ loose' = {} /\ volatile' = {}
         /\ \A i \in Ids : content'[i] = content[i] \ L
         /\ Firm \ L \subseteq Firm'
         /\ \A i \in loose : i <= manifestDur => content'[i] \subseteq Firm'
<1>1. /\ files' = files \cup U /\ hdr' = hdr
      /\ loose' = {} /\ unlinked' = {} /\ volatile' = {}
  BY Zenon DEF CutWal
<1>2. /\ content' \in [Ids -> SUBSET Rec]
      /\ \A i \in Ids : content'[i] = content[i] \ L
  BY Zenon DEF CutWal, IInv, TypeOK
<1>3. /\ aside' \in [Ids -> SUBSET Rec]
      /\ \A i \in Ids : i \in loose \ U => aside'[i] = content[i] \ L
      /\ \A i \in Ids : i \notin loose \ U => aside'[i] = aside[i] \ L
  BY DEF CutWal, IInv, TypeOK
<1>4. /\ forfeit \subseteq forfeit' /\ forfeit' \subseteq Rec
      /\ \A i \in U \cap loose : i <= manifestDur => content[i] \subseteq forfeit'
  <2>1. \A i \in loose : content[i] \subseteq Rec
    BY Zenon DEF IInv, TypeOK
  <2>. QED
    BY <2>1, Zenon DEF CutWal, IInv, TypeOK
<1>5. loose \subseteq Ids /\ unlinked \subseteq Ids
  BY Zenon DEF IInv, TypeOK
<1>6. WalOK'
  BY <1>1, <1>2, <1>3, <1>4, <1>5, Zenon DEF IInv, TypeOK, WalOK
<1>7. ASSUME NEW r \in Firm, r \notin L PROVE r \in Firm'
  <2>1. CASE r \in forfeit
    BY <1>4, <2>1, Zenon DEF Firm
  <2>2. CASE \E i \in Ids : r \in aside[i]
    <3>1. PICK i \in Ids : r \in aside[i]
      BY <2>2, Zenon
    <3>2. i \notin loose
      BY <3>1, Zenon DEF IInv, Gone
    <3>3. r \in aside'[i]
      BY <1>3, <1>7, <3>1, <3>2, Zenon
    <3>. QED
      BY <3>1, <3>3, Zenon DEF Firm
  <2>. QED
    BY <1>7, <2>1, <2>2, Zenon DEF Firm
<1>8. ASSUME NEW i \in loose \ U PROVE content'[i] \subseteq Firm'
  BY <1>2, <1>3, <1>5, Zenon DEF Firm
<1>9. ASSUME NEW i \in loose, i <= manifestDur PROVE content'[i] \subseteq Firm'
  <2>1. CASE i \in U
    <3>1. content[i] \subseteq forfeit' /\ content'[i] \subseteq content[i]
      BY <1>2, <1>4, <1>5, <1>9, <2>1, Zenon
    <3>. QED
      BY <3>1, Zenon DEF Firm
  <2>. QED
    BY <1>8, <2>1, Zenon
<1>10. Gone'
  <2>1. ASSUME NEW i \in Ids \ files'
        PROVE  i <= manifestDur \/ content'[i] \subseteq Firm'
    <3>1. i \in Ids \ files /\ i \notin U
      BY <1>1, Zenon
    <3>2. CASE i \in loose
      BY <1>8, <3>1, <3>2, Zenon
    <3>3. CASE content[i] \subseteq Firm
      BY <1>2, <1>7, <3>3, Zenon
    <3>. QED
      BY <3>1, <3>2, <3>3, Zenon DEF IInv, Gone
  <2>. QED
    BY <1>1, <2>1, Zenon DEF Gone
<1>. QED
  BY <1>1, <1>2, <1>6, <1>7, <1>9, <1>10, Zenon

\* A power cut in tmp/ and series/ keeps every file that a watermark counts on,
\* or brings it back where it was renamed from.
LEMMA CutOutputBooks ==
  ASSUME IInv, NEW G \in SUBSET (staged \ stagedDur), NEW R \in SUBSET fresh,
         NEW T \in SUBSET tmpGhosts, NEW S \in SUBSET seriesGhosts, CutOutput(G, R, T, S)
  PROVE  /\ OutsOK' /\ UniqueNames' /\ stagedDur \subseteq stagedDur'
         /\ \A f \in series : (\A g \in staged \cup tmpGhosts : ~SameName(g, f)) =>
              \/ f \in stagedDur' /\ f \in fresh
              \/ f \in series' /\ \A g \in staged' \cup tmpGhosts' : ~SameName(g, f)
<1>1. /\ staged' = (staged \ G) \cup R \cup {Stray(f) : f \in T}
      /\ series' = (series \ R) \cup {Stray(f) : f \in S}
      /\ Distinct(staged') /\ Distinct(series')
      /\ stagedDur' = staged' /\ fresh' = {} /\ tmpGhosts' = {} /\ seriesGhosts' = {}
  BY Zenon DEF CutOutput
<1>2. /\ staged \subseteq OutFile /\ stagedDur \subseteq staged
      /\ series \subseteq OutFile /\ fresh \subseteq series
      /\ tmpGhosts \subseteq OutFile /\ seriesGhosts \subseteq OutFile
  BY Zenon DEF IInv, TypeOK
<1>3. \A f \in OutFile : Stray(f) \in OutFile /\ SameName(Stray(f), f)
  BY DEF OutFile, Stray, SameName
<1>4. OutsOK'
  BY <1>1, <1>2, <1>3, Zenon DEF OutsOK
<1>5. UniqueNames'
  BY <1>1, Zenon DEF UniqueNames, Distinct
<1>6. ASSUME NEW f \in series, \A g \in staged \cup tmpGhosts : ~SameName(g, f)
      PROVE  \/ f \in stagedDur' /\ f \in fresh
             \/ f \in series' /\ \A g \in staged' \cup tmpGhosts' : ~SameName(g, f)
  <2>1. CASE f \in R
    BY <1>1, <2>1, Zenon
  <2>2. CASE f \notin R
    <3>1. f \in series'
      BY <1>1, <2>2, Zenon
    <3>2. ASSUME NEW g \in staged' PROVE ~SameName(g, f)
      <4>1. CASE g \in staged
        BY <1>6, <4>1, Zenon
      <4>2. CASE g \in R
        BY <1>2, <2>2, <4>2, Zenon DEF IInv, UniqueNames, Distinct
      <4>3. CASE \E h \in T : g = Stray(h)
        <5>1. PICK h \in T : g = Stray(h)
          BY <4>3, Zenon
        <5>2. h \in tmpGhosts /\ h \in OutFile
          BY <1>2, Zenon
        <5>3. SameName(g, h) /\ ~SameName(h, f)
          BY <1>3, <1>6, <5>1, <5>2, Zenon
        <5>. QED
          BY <5>3, Zenon DEF SameName
      <4>. QED
        BY <1>1, <3>2, <4>1, <4>2, <4>3, Zenon
    <3>. QED
      BY <1>1, <3>1, <3>2, Zenon
  <2>. QED
    BY <2>1, <2>2, Zenon
<1>. QED
  BY <1>1, <1>2, <1>4, <1>5, <1>6, Zenon

\* A power cut loses at most what no fsync covered.
LEMMA PowerCutStep ==
  ASSUME IInv, PowerCut
  PROVE  IInv'
<1>0. /\ OneMishap /\ OpenErr /\ manifest' = manifestDur
      /\ UNCHANGED <<manifestDur, accepted, stable>>
  BY Zenon DEF PowerCut, OneMishap
<1>a. PICK L \in SUBSET volatile, U \in SUBSET (loose \cup unlinked) : CutWal(L, U)
  BY Zenon DEF PowerCut
<1>b. /\ WalOK' /\ Gone'
      /\ content' \in [Ids -> SUBSET Rec] /\ hdr' = hdr /\ loose' = {} /\ volatile' = {}
      /\ \A i \in Ids : content'[i] = content[i] \ L
      /\ Firm \ L \subseteq Firm'
      /\ \A i \in loose : i <= manifestDur => content'[i] \subseteq Firm'
  BY <1>0, <1>a, CutWalBooks, Zenon
<1>c. /\ OutsOK' /\ UniqueNames' /\ stagedDur \subseteq stagedDur'
      /\ \A f \in series : (\A g \in staged \cup tmpGhosts : ~SameName(g, f)) =>
           \/ f \in stagedDur' /\ f \in fresh
           \/ f \in series' /\ \A g \in staged' \cup tmpGhosts' : ~SameName(g, f)
  BY CutOutputBooks, Zenon DEF PowerCut
<1>1. TypeOK'
  <2>1. JobOK'
    BY <1>0, EndOK, Zenon DEF IInv
  <2>2. BooksOK'
    BY <1>0, <1>b, Zenon DEF IInv, TypeOK, BooksOK
  <2>. QED
    BY <1>0, <1>b, <1>c, <2>1, <2>2, TypeParts, Zenon DEF IInv
<1>2. Watermarks'
  BY <1>0, SegAssumption DEF IInv, TypeOK, Watermarks, OpenErr
<1>3. Histories'
  <2>1. \A r \in stable : r \notin L
    BY Zenon DEF IInv, Histories
  <2>. QED
    BY <1>0, <1>b, <2>1, Zenon DEF IInv, Histories
<1>4. AllCovered'
  <2>1. CoveredNext(manifestDur)
    <3>1. SUFFICES ASSUME NEW i \in Ids, i <= manifestDur,
                          NEW r \in content'[i] \ Bad, r \notin Firm'
                   PROVE  \/ \E f \in stagedDur' : f.last <= manifestDur /\ r \in f.recs
                          \/ \E f \in series' :
                               /\ f.last <= manifestDur /\ r \in f.recs
                               /\ \A g \in staged' \cup tmpGhosts' : ~SameName(g, f)
      BY Zenon DEF CoveredIn, CoveredNext
    <3>2. r \in content[i] \ Bad /\ r \notin Firm /\ i \notin loose
      BY <1>b, <3>1, Zenon
    <3>3. CASE \E f \in stagedDur : f.last <= manifestDur /\ r \in f.recs
      BY <1>c, <3>3, Zenon
    <3>4. CASE \E f \in series : /\ f.last <= manifestDur /\ r \in f.recs
                                 /\ \A g \in staged \cup tmpGhosts : ~SameName(g, f)
      BY <1>c, <3>4, Zenon
    <3>. QED
      BY <3>1, <3>2, <3>3, <3>4, Zenon DEF IInv, AllCovered, Covered, CoveredIn
  <2>2. mem' = 0 /\ manifest' = manifestDur /\ manifestDur' = manifestDur
    BY <1>0, Zenon DEF OpenErr
  <2>3. CoveredNext(0)
    BY CoveredZero, Zenon DEF CoveredNext
  <2>. QED
    BY <2>1, <2>2, <2>3, Zenon DEF AllCovered, Covered, CoveredNext
<1>5. ShortEmpty'
  <2>1. 0 \notin Ids
    BY SegAssumption DEF Ids
  <2>. QED
    BY <1>0, <1>b, <2>1, Zenon DEF IInv, ShortEmpty, OpenErr
<1>6. ActiveTop' /\ NoGap' /\ OutputComplete' /\ Loops'
  BY <1>0, <1>2, JobOver, Zenon
<1>. QED
  BY <1>b, <1>c, <1>1, <1>2, <1>3, <1>4, <1>5, <1>6, Zenon DEF IInv

\* The kernel writes the manifest back.
LEMMA WritebackStep ==
  ASSUME IInv, Writeback
  PROVE  IInv'
<1>0. UNCHANGED <<wal, outs, manifest, job, run, hist, mishaps>> /\ manifestDur' = manifest
  BY Zenon DEF Writeback
<1>1. /\ WalOK' /\ OutsOK' /\ BooksOK' /\ Histories' /\ Gone' /\ AllCovered'
      /\ UniqueNames' /\ ShortEmpty'
  BY <1>0, DurableBooks, Zenon
<1>2. TypeOK'
  <2>1. JobOK' /\ OneMishap
    BY <1>0, Zenon DEF IInv, TypeOK, JobOK, OneMishap
  <2>. QED
    BY <1>1, <2>1, TypeParts, Zenon DEF IInv
<1>3. Watermarks'
  BY <1>0, SegAssumption DEF IInv, TypeOK, Watermarks
<1>4. Loops'
  <2>1. todo \subseteq Nat /\ manifest \in Nat /\ manifestDur \in Nat
    BY SegAssumption DEF IInv, TypeOK, Ids
  <2>2. manifestDur <= manifest
    BY Zenon DEF IInv, Watermarks
  <2>3. \A i \in todo : i <= manifestDur => i <= manifest
    BY <2>1, <2>2
  <2>. QED
    BY <1>0, <2>3, Zenon DEF IInv, Loops
<1>5. ActiveTop' /\ NoGap' /\ OutputComplete'
  BY <1>0, Zenon DEF IInv, ActiveTop, NoGap, InFlush, OutputComplete
<1>. QED
  BY <1>1, <1>2, <1>3, <1>4, <1>5, Zenon DEF IInv

\* Damage and another build change headers, which hides no record from recovery
\* or quarantine.
LEMMA HeaderStep ==
  ASSUME IInv, Upgrade \/ \E i \in files : Damage(i)
  PROVE  IInv'
<1>0. /\ UNCHANGED <<files, content, aside, loose, unlinked, forfeit, outs, mani, job,
                     run, hist>>
      /\ OneMishap
  BY Zenon DEF Upgrade, Damage, OneMishap
<1>a. hdr' \in [Ids -> HdrState] /\ \A j \in Ids : hdr'[j] = "short" => hdr[j] = "short"
  BY DEF IInv, TypeOK, HdrState, Upgrade, Damage
<1>b. Firm' = Firm
  BY <1>0, Zenon DEF Firm
<1>1. TypeOK'
  <2>1. WalOK' /\ OutsOK' /\ JobOK' /\ BooksOK'
    BY <1>0, <1>a, Zenon DEF IInv, TypeOK, WalOK, OutsOK, JobOK, BooksOK
  <2>. QED
    BY <1>0, <2>1, TypeParts, Zenon DEF IInv
<1>2. ShortEmpty'
  BY <1>0, <1>a, Zenon DEF IInv, ShortEmpty
<1>3. Watermarks' /\ Histories' /\ Gone' /\ AllCovered' /\ UniqueNames'
  BY <1>0, <1>b, Zenon DEF IInv, Watermarks, Histories, Gone, AllCovered, Covered,
     UniqueNames, Distinct
<1>4. ActiveTop' /\ NoGap' /\ OutputComplete' /\ Loops'
  BY <1>0, Zenon DEF IInv, ActiveTop, NoGap, InFlush, OutputComplete, Loops
<1>. QED
  BY <1>1, <1>2, <1>3, <1>4, Zenon DEF IInv

---------------------------------------------------------------------------
(* The theorems. *)

\* A fresh data directory satisfies the invariant.
LEMMA InitInv ==
  ASSUME Init
  PROVE  IInv
<1>1. 0 \in 0..MaxSeg /\ 1 \in 1..(MaxSeg + 1) /\ 0 \in 0..MaxMishaps
  BY SegAssumption, FaultAssumption
<1>2. TypeOK
  BY <1>1 DEF Init, TypeOK, HdrState, Pc
<1>3. Watermarks /\ Histories /\ Gone
  BY DEF Init, Watermarks, Histories, Gone, Firm
<1>4. AllCovered
  BY CoveredZero, Zenon DEF Init, AllCovered, Covered
<1>5. UniqueNames /\ ShortEmpty /\ ActiveTop /\ NoGap /\ OutputComplete /\ Loops
  BY Zenon DEF Init, UniqueNames, Distinct, ShortEmpty, ActiveTop, NoGap,
     OutputComplete, InFlush, Loops
<1>. QED
  BY <1>2, <1>3, <1>4, <1>5, Zenon DEF IInv

\* Every step of the engine, of the committer and of the environment preserves
\* the invariant, and so does a stuttering step.
LEMMA NextInv ==
  ASSUME IInv, [Next]_vars
  PROVE  IInv'
<1>1. CASE Startup
  BY ZenonT(60), <1>1, LeastMember, OpenEngineStep, SweepStagedStep, SweepOutputStep,
     SweepOrphanStep, RecoverListStep, RecoverPurgeStep, RecoverTailStep,
     OpenWriterStep DEF Startup
<1>2. CASE Flush
  BY ZenonT(60), <1>2, LeastMember, FlushSealStep, FlushListStep, FlushPlanStep, DecodeStep,
     DecodedStep, StageStep, SyncStagingStep, CommitRenameStep,
     CommitSyncStep, PromoteStagedStep, DeleteSegmentStep DEF Flush
<1>3. CASE Ingest
  BY <1>3, AppendStep, GroupCommitStep, RollStep, RollRefusedStep DEF Ingest
<1>4. CASE Environment
  BY Zenon, <1>4, CloseStep, StopStep, PowerCutStep, WritebackStep, HeaderStep
     DEF Environment
<1>5. CASE UNCHANGED vars
  <2>1. TypeOK' /\ Watermarks' /\ Histories' /\ Gone'
    BY ZenonT(60), <1>5 DEF IInv, vars, TypeOK, Watermarks, Histories, Gone, Firm
  <2>2. AllCovered'
    BY <1>5, Zenon DEF IInv, vars, AllCovered, Covered, Firm
  <2>3. UniqueNames' /\ ShortEmpty' /\ ActiveTop'
    BY ZenonT(60), <1>5 DEF IInv, vars, UniqueNames, Distinct, ShortEmpty, ActiveTop
  <2>4. NoGap' /\ OutputComplete' /\ Loops'
    BY <1>5, Zenon DEF IInv, vars, NoGap, OutputComplete, InFlush, Loops
  <2>. QED
    BY ZenonT(60), <2>1, <2>2, <2>3, <2>4 DEF IInv
<1>. QED
  BY <1>1, <1>2, <1>3, <1>4, <1>5, Zenon DEF Next

\* The books of the engine are consistent in every reachable state, for any
\* records, partitions, number of segments and combination of faults.
THEOREM Invariance == Spec => []IInv
<1>1. Init => IInv
  BY InitInv, Zenon
<1>2. IInv /\ [Next]_vars => IInv'
  BY NextInv, Zenon
<1>. QED
  BY <1>1, <1>2, PTL DEF Spec

\* Type correctness of the whole engine state.
THEOREM TypeCorrectness == Spec => []TypeOK
<1>1. IInv => TypeOK
  BY Zenon DEF IInv
<1>. QED
  BY <1>1, Invariance, PTL

\* The invariant at one instant gives back every durable record, but those a
\* quarantined segment lost, to a restart that reads watermark w, when w covers
\* what is gone from the log.
LEMMA KeptWhenCovered ==
  ASSUME IInv, NEW w \in Nat, manifestDur <= w, Covered(w),
         NEW r \in stable \ (Bad \cup forfeit)
  PROVE  KeptAt(r, w)
<1>1. CASE r \in Firm
  BY <1>1, Zenon DEF Firm, KeptAt, Quarantined
<1>2. CASE r \notin Firm
  <2>1. PICK i \in Ids : r \in content[i]
    BY <1>2, Zenon DEF IInv, Histories
  <2>2. CASE i \in loose
    <3>1. r \in UNION {content[j] : j \in loose}
      BY <2>1, <2>2
    <3>. QED
      BY <3>1, Zenon DEF KeptAt, Quarantined
  <2>3. CASE i \notin loose /\ i <= w
    BY <1>2, <2>1, <2>3, Zenon DEF Covered, CoveredIn, KeptAt
  <2>4. CASE i \notin loose /\ i > w
    <3>1. i \in files
      <4>1. i \in Nat /\ manifestDur \in Nat
        BY <2>1, SegAssumption DEF IInv, TypeOK, Ids
      <4>2. ~(i <= manifestDur)
        BY <4>1, <2>4
      <4>. QED
        BY <1>2, <2>1, <2>4, <4>2, Zenon DEF IInv, Gone
    <3>. QED
      BY <2>1, <2>4, <3>1, Zenon DEF KeptAt
  <2>. QED
    BY <2>2, <2>3, <2>4, SegAssumption DEF Ids
<1>. QED
  BY <1>1, <1>2, Zenon

\* In a state with consistent books no durable record is missing, whichever of
\* the two watermarks a restart finds.
LEMMA BooksGiveNoLoss ==
  ASSUME IInv
  PROVE  NoLoss
<1>1. manifest \in Nat /\ manifestDur \in Nat
  BY SegAssumption DEF IInv, TypeOK
<1>2. manifestDur <= manifest /\ manifestDur <= manifestDur
  BY <1>1 DEF IInv, Watermarks
<1>3. Covered(manifest) /\ Covered(manifestDur)
  BY Zenon DEF IInv, AllCovered
<1>4. ASSUME NEW r \in stable \ (Bad \cup forfeit)
      PROVE  KeptAt(r, manifest) /\ KeptAt(r, manifestDur)
  BY <1>1, <1>2, <1>3, KeptWhenCovered, Zenon
<1>. QED
  BY <1>4, Zenon DEF NoLoss

\* No durable record is lost, whatever call fails and wherever the process dies
\* or the power fails: a restart finds it in the log, in a file it keeps or
\* publishes, or in a quarantined segment.  The two ways a quarantined segment
\* itself can be deleted are what forfeit records.
THEOREM Durability == Spec => []NoLoss
<1>1. IInv => NoLoss
  BY BooksGiveNoLoss, Zenon
<1>. QED
  BY <1>1, Invariance, PTL

\* What keeps a settled file settled: it stays in series/ for good, the durable
\* watermark does not go back, and no file of its name gets into tmp/.
LEMMA SettledKept ==
  ASSUME TypeOK, Watermarks, NEW f \in series, Settled(f),
         manifestDur' \in {manifestDur, manifest}, f \in series' \ fresh',
         \A g \in staged' \cup tmpGhosts' : g \in staged \cup tmpGhosts \/ ~SameName(f, g)
  PROVE  Settled(f)'
<1>1. f.last \in Nat /\ manifest \in Nat /\ manifestDur \in Nat
  BY SegAssumption DEF TypeOK, OutFile, Ids
<1>2. f.last <= manifestDur'
  BY <1>1 DEF Settled, Watermarks
<1>. QED
  BY <1>2, Zenon DEF Settled

\* A rename into series/ replaces only the namesakes of the staged file.
LEMMA PromoteSettled ==
  ASSUME NEW f \in series, Settled(f), NEW g \in staged, Promote(g) \/ PromoteUnsynced(g)
  PROVE  f \in series' \ fresh' /\ staged' \cup tmpGhosts' \subseteq staged \cup tmpGhosts
<1>1. ~SameName(g, f) /\ f \notin fresh
  BY Zenon DEF Settled, SameName
<1>2. f # g
  BY <1>1, Zenon DEF SameName
<1>. QED
  BY <1>1, <1>2, Zenon DEF Promote, PromoteUnsynced, Put, Elsewhere

\* The steps that touch neither staged nor published files.
LEMMA QuietSettled ==
  ASSUME IInv, NEW f \in series, Settled(f), UNCHANGED outs,
         manifestDur' \in {manifestDur, manifest}
  PROVE  Settled(f)'
<1>1. f \in series' \ fresh' /\ staged' \cup tmpGhosts' = staged \cup tmpGhosts
  BY Zenon DEF Settled
<1>. QED
  BY <1>1, SettledKept, Zenon DEF IInv

\* A settled file stays through every step of the startup.
LEMMA StartupSettled ==
  ASSUME IInv, Startup, NEW f \in series, Settled(f)
  PROVE  Settled(f)'
<1>1. CASE OpenEngine
  BY <1>1, QuietSettled, Zenon DEF OpenEngine
<1>2. CASE SweepOutput \/ SweepDone
  BY <1>2, QuietSettled, Zenon DEF SweepOutput, SweepDone
<1>3. CASE RecoverList
  BY <1>3, QuietSettled, Zenon DEF RecoverList
<1>4. CASE RecoverPurge \/ RecoverTail \/ OpenWriter
  BY <1>4, QuietSettled, Zenon DEF RecoverPurge, RecoverTail, OpenWriter
<1>5. ASSUME NEW g \in staged, SweepStaged(g)
      PROVE  Settled(f)'
  <2>1. manifestDur' = manifestDur
    BY <1>5, Zenon DEF SweepStaged
  <2>2. CASE Promote(g) \/ PromoteUnsynced(g)
    BY <2>1, <2>2, PromoteSettled, SettledKept, Zenon DEF IInv
  <2>3. CASE /\ staged' = staged \ {g} /\ tmpGhosts' = tmpGhosts \cup {g}
             /\ series' = series /\ fresh' = fresh
    BY <2>1, <2>3, SettledKept, Zenon DEF IInv, Settled
  <2>4. CASE UNCHANGED outs
    BY <2>1, <2>4, QuietSettled, Zenon
  <2>. QED
    BY <1>5, <2>2, <2>3, <2>4, Zenon DEF SweepStaged
<1>6. ASSUME NEW g \in series, SweepOrphan(g)
      PROVE  Settled(f)'
  <2>1. phase # "down"
    BY <1>6 DEF SweepOrphan, IInv, Watermarks
  <2>2. g.last > mem /\ g.last \in Nat
    <3>1. g.last > mem /\ g \in OutFile
      BY <1>6, Zenon DEF SweepOrphan, IInv, Loops, TypeOK
    <3>. QED
      BY <3>1, SegAssumption DEF OutFile, Ids
  <2>3. f # g
    BY <2>1, <2>2, Running DEF Settled
  <2>4. /\ f \in series' \ fresh' /\ staged' \cup tmpGhosts' = staged \cup tmpGhosts
        /\ manifestDur' = manifestDur
    BY <1>6, <2>3, Zenon DEF SweepOrphan, Settled
  <2>. QED
    BY <2>4, SettledKept, Zenon DEF IInv
<1>. QED
  BY <1>1, <1>2, <1>3, <1>4, <1>5, <1>6, Zenon DEF Startup

\* A settled file stays through every step of a flush: what a flush stages is
\* named by segments above the watermark.
LEMMA FlushSettled ==
  ASSUME IInv, Flush, NEW f \in series, Settled(f)
  PROVE  Settled(f)'
<1>1. CASE FlushSeal \/ FlushList \/ FlushPlan \/ Decode \/ Decoded
  BY <1>1, QuietSettled, Zenon DEF FlushSeal, FlushList, FlushPlan, Decode, Decoded
<1>2. CASE CommitRename \/ CommitSync \/ DeleteSegment
  BY <1>2, QuietSettled, Zenon DEF CommitRename, CommitSync, DeleteSegment
<1>3. CASE SyncStaging
  <2>1. /\ f \in series' \ fresh' /\ staged' \cup tmpGhosts' \subseteq staged \cup tmpGhosts
        /\ manifestDur' = manifestDur
    BY <1>3, Zenon DEF SyncStaging, Settled
  <2>. QED
    BY <2>1, SettledKept, Zenon DEF IInv
<1>4. ASSUME NEW g \in out, Stage(g)
      PROVE  Settled(f)'
  <2>1. /\ pc = "stage" /\ manifestDur' = manifestDur
        /\ f \in series' \ fresh' /\ tmpGhosts' = tmpGhosts
    BY <1>4, Zenon DEF Stage, Settled
  <2>2. g.last > mem /\ phase # "down"
    BY <2>1, LeastMember, OutAbove, Zenon
  <2>3. f.last # g.last
    <3>1. f.last \in Nat /\ g.last \in Nat
      BY SegAssumption DEF IInv, TypeOK, OutFile, Ids
    <3>. QED
      BY <2>2, <3>1, Running DEF Settled
  <2>4. ASSUME NEW h \in staged' \cup tmpGhosts', h \notin staged \cup tmpGhosts
        PROVE  ~SameName(f, h)
    <3>1. h = g \/ h = [g EXCEPT !.recs = {}]
      BY <1>4, <2>4 DEF Stage, Put
    <3>2. g \in OutFile
      BY DEF IInv, TypeOK
    <3>3. h.last = g.last
      BY <3>1, <3>2 DEF OutFile
    <3>. QED
      BY <2>3, <3>3 DEF SameName
  <2>. QED
    BY <2>1, <2>4, SettledKept, Zenon DEF IInv
<1>5. ASSUME NEW g \in out, PromoteStaged(g)
      PROVE  Settled(f)'
  <2>1. manifestDur' = manifestDur /\ g \in staged
    BY <1>5 DEF PromoteStaged, IInv, Loops
  <2>2. CASE Promote(g) \/ PromoteUnsynced(g)
    BY <2>1, <2>2, PromoteSettled, SettledKept, Zenon DEF IInv
  <2>3. CASE UNCHANGED outs
    BY <2>1, <2>3, QuietSettled, Zenon
  <2>. QED
    BY <1>5, <2>2, <2>3 DEF PromoteStaged
<1>. QED
  BY <1>1, <1>2, <1>3, <1>4, <1>5, Zenon DEF Flush

\* A settled file stays through appends, rolls, stops and damage.
LEMMA OtherSettled ==
  ASSUME IInv, Ingest \/ Environment \/ UNCHANGED vars, NEW f \in series, Settled(f)
  PROVE  Settled(f)'
<1>1. CASE Ingest
  BY Zenon, <1>1, QuietSettled
     DEF Ingest, Append, GroupCommit, CommitterRoll, RollFails, RollRefused
<1>2. CASE Close \/ Exit \/ Crash \/ Writeback \/ Upgrade \/ \E i \in files : Damage(i)
  BY <1>2, QuietSettled DEF Close, Exit, Crash, Writeback, Upgrade, Damage
<1>3. CASE PowerCut
  <2>1. /\ fresh' = {} /\ manifestDur' = manifestDur
        /\ f \in series' /\ \A g \in staged' \cup tmpGhosts' : ~SameName(g, f)
    BY <1>3, CutOutputBooks, Zenon DEF PowerCut, CutOutput, Settled, SameName
  <2>. QED
    BY <2>1, SettledKept, Zenon DEF IInv, SameName
<1>4. CASE UNCHANGED vars
  BY <1>4, QuietSettled DEF vars
<1>. QED
  BY <1>1, <1>2, <1>3, <1>4, Zenon DEF Environment

\* A file that is published, covered by the durable manifest and about to be
\* replaced by none is there for good, through any flushes, sweeps and stops.
THEOREM Finality == Spec => CommittedFilesStay
<1>1. IInv /\ [Next]_vars => [\A f \in series : Settled(f) => Settled(f)']_vars
  BY StartupSettled, FlushSettled, OtherSettled, Zenon DEF Next
<1>. QED
  BY <1>1, Invariance, PTL DEF Spec, CommittedFilesStay

=============================================================================
