------------------------ MODULE FlushEngineLemmas ------------------------
(***************************************************************************)
(* Facts about FlushEngine that the proofs of its steps share, and one     *)
(* lemma for each step of a flush and of a startup: it preserves the       *)
(* inductive invariant IInv.                                               *)
(***************************************************************************)
EXTENDS FlushEngine, TLAPS

\* A non-empty set of naturals has a least member (FlushEngineProofs proves it).
LeastNumber ==
  \A S \in SUBSET Nat : S # {} => \E x \in S : \A y \in S : x <= y

\* Min of a non-empty set of segment ids.
LEMMA MinProp ==
  ASSUME LeastNumber, NEW S \in SUBSET Ids, S # {}
  PROVE  Min(S) \in S /\ \A y \in S : Min(S) <= y
<1>1. S \in SUBSET Nat
  BY SegAssumption DEF Ids
<1>2. \E x \in S : \A y \in S : x <= y
  BY <1>1, Zenon DEF LeastNumber
<1>. QED
  BY ZenonT(60), <1>1, <1>2 DEF Min

\* Max of a non-empty set of watermarks: the least upper bound belongs to the set.
LEMMA MaxProp ==
  ASSUME LeastNumber, NEW S \in SUBSET (0..MaxSeg), S # {}
  PROVE  Max(S) \in S /\ \A y \in S : Max(S) >= y
<1> DEFINE T == {n \in Nat : \A y \in S : y <= n}
<1>0. S \in SUBSET Nat /\ MaxSeg \in Nat
  BY SegAssumption
<1>1. MaxSeg \in T
  BY <1>0
<1>2. PICK m \in T : \A y \in T : m <= y
  <2>1. T \in SUBSET Nat /\ T # {}
    BY <1>1, Zenon
  <2>. QED
    BY <2>1, Zenon DEF LeastNumber
<1>3. m \in S
  <2>1. SUFFICES ASSUME m \notin S PROVE FALSE
    OBVIOUS
  <2>2. \A y \in S : y < m
    BY <2>1, <1>0, <1>2
  <2>3. m \in Nat /\ m # 0
    <3>1. PICK y \in S : TRUE
      BY ZenonT(60)
    <3>. QED
      BY <3>1, <2>2, <1>0
  <2>4. m - 1 \in T
    BY <2>2, <2>3, <1>0
  <2>. QED
    BY <2>3, <2>4, <1>2
<1>4. \E x \in S : \A y \in S : x >= y
  BY <1>0, <1>2, <1>3, Zenon
<1>. QED
  BY ZenonT(60), <1>0, <1>4 DEF Max

USE DEF wal, outs, mani, job, run, hist, Rest, Mishap

\* Writing a file into a directory, over its namesake.
LEMMA PutType ==
  ASSUME NEW D \in SUBSET OutFile, NEW f \in OutFile
  PROVE  Put(D, f) \in SUBSET OutFile /\ f \in Put(D, f)
BY Zenon DEF Put

\* A step under which the rows of segments up to w stay where they are found.
Keeps(w) ==
  /\ \A i \in Ids : i <= w => content'[i] \subseteq content[i]
  /\ Firm \subseteq Firm'
  /\ \A i \in loose : i \in loose' \/ content'[i] \subseteq Firm'
  /\ \A f \in stagedDur : f.last <= w =>
       \/ f \in stagedDur'
       \/ f \in series' /\ \A g \in staged' \cup tmpGhosts' : ~SameName(g, f)
  /\ \A f \in series :
       f.last <= w /\ (\A g \in staged \cup tmpGhosts : ~SameName(g, f)) =>
         f \in series' /\ \A g \in staged' \cup tmpGhosts' : ~SameName(g, f)

\* Watermark w covers its rows in the next state.
CoveredNext(w) ==
  CoveredIn(w, content', loose', Firm', stagedDur', staged' \cup tmpGhosts', series')

\* A step that keeps what w covers leaves w covering it.
LEMMA CoveredKept ==
  ASSUME NEW w \in Nat, Covered(w), Keeps(w)
  PROVE  CoveredNext(w)
<1>1. SUFFICES ASSUME NEW i \in Ids, i <= w, i \notin loose',
                      NEW r \in content'[i] \ Bad, r \notin Firm'
               PROVE  \/ \E f \in stagedDur' : f.last <= w /\ r \in f.recs
                      \/ \E f \in series' :
                           /\ f.last <= w /\ r \in f.recs
                           /\ \A g \in staged' \cup tmpGhosts' : ~SameName(g, f)
  BY Zenon DEF CoveredIn, CoveredNext
<1>2. r \in content[i] \ Bad /\ r \notin Firm /\ i \notin loose
  BY <1>1, Zenon DEF Keeps
<1>3. CASE \E f \in stagedDur : f.last <= w /\ r \in f.recs
  BY <1>3, Zenon DEF Keeps
<1>4. CASE \E f \in series : /\ f.last <= w /\ r \in f.recs
                             /\ \A g \in staged \cup tmpGhosts : ~SameName(g, f)
  BY <1>4, Zenon DEF Keeps
<1>. QED
  BY <1>1, <1>2, <1>3, <1>4, Zenon DEF Covered, CoveredIn

\* Watermark 0, nothing flushed yet, covers everything it has to.
LEMMA CoveredZero ==
  ASSUME NEW c, NEW l, NEW a, NEW sd, NEW st, NEW se
  PROVE  CoveredIn(0, c, l, a, sd, st, se)
BY SegAssumption DEF CoveredIn, Ids

\* The watermarks of a step that moves none of them, or that ends the process.
LEMMA AllCoveredKept ==
  ASSUME TypeOK, AllCovered, Keeps(mem), Keeps(manifest), Keeps(manifestDur),
         mem' = mem \/ mem' = 0,
         manifest' \in {manifest, manifestDur},
         manifestDur' \in {manifest, manifestDur}
  PROVE  AllCovered'
<1>1. mem \in Nat /\ manifest \in Nat /\ manifestDur \in Nat
  BY SegAssumption DEF TypeOK
<1>2. CoveredNext(manifest) /\ CoveredNext(manifestDur) /\ CoveredNext(mem)
  BY <1>1, CoveredKept, Zenon DEF AllCovered
<1>3. CoveredNext(mem')
  BY <1>2, CoveredZero, Zenon DEF CoveredNext
<1>. QED
  BY <1>2, <1>3, Zenon DEF AllCovered, Covered, CoveredNext

\* What every leaf needs of the watermarks while a process runs.
LEMMA Running ==
  ASSUME IInv, phase # "down"
  PROVE  /\ manifestDur \in Nat /\ manifest \in Nat /\ mem \in Nat
         /\ manifestDur <= manifest /\ manifest <= mem
BY SegAssumption DEF IInv, TypeOK, Watermarks

\* The parts of TypeOK that describe wal/, and tmp/ and series/.
WalOK ==
  /\ files \subseteq Ids /\ content \in [Ids -> SUBSET Rec]
  /\ hdr \in [Ids -> HdrState]
  /\ aside \in [Ids -> SUBSET Rec] /\ forfeit \subseteq Rec
  /\ loose \subseteq Ids \ files /\ unlinked \subseteq Ids \ files

OutsOK ==
  /\ staged \subseteq OutFile /\ stagedDur \subseteq staged
  /\ series \subseteq OutFile /\ fresh \subseteq series
  /\ tmpGhosts \subseteq OutFile /\ seriesGhosts \subseteq OutFile

\* A settled rename keeps what was in quarantine, and adds to it.
LEMMA SettleFacts ==
  ASSUME TypeOK, Gone, NEW S \in SUBSET Ids, Settle(S),
         forfeit \subseteq forfeit', \A i \in S \ loose : aside[i] \subseteq forfeit'
  PROVE  /\ aside' \in [Ids -> SUBSET Rec] /\ loose' = loose \ S
         /\ Firm \subseteq Firm' /\ \A i \in S : content[i] \subseteq Firm'
         /\ \A i \in loose' : aside'[i] = {}
<1>1. /\ \A i \in S : aside'[i] = content[i]
      /\ \A i \in Ids \ S : aside'[i] = aside[i]
  BY Zenon DEF Settle
<1>2. aside' \in [Ids -> SUBSET Rec]
  BY DEF TypeOK, Settle
<1>3. loose' = loose \ S
  BY Zenon DEF Settle
<1>4. \A i \in S : content[i] \subseteq Firm'
  BY <1>1, Zenon DEF Firm
<1>5. ASSUME NEW r \in Firm PROVE r \in Firm'
  <2>1. CASE r \in forfeit
    BY <2>1, Zenon DEF Firm
  <2>2. CASE \E i \in Ids : r \in aside[i]
    <3>1. PICK i \in Ids : r \in aside[i]
      BY <2>2, Zenon
    <3>2. CASE i \in S
      BY <3>1, <3>2, Zenon DEF Firm, Gone
    <3>3. CASE i \notin S
      BY <3>1, <3>3, <1>1, Zenon DEF Firm
    <3>. QED
      BY <3>2, <3>3, Zenon
  <2>. QED
    BY <2>1, <2>2, Zenon DEF Firm
<1>6. \A i \in loose' : aside'[i] = {}
  BY <1>1, <1>3, Zenon DEF Gone, TypeOK
<1>. QED
  BY <1>2, <1>3, <1>4, <1>5, <1>6, Zenon

\* Shared::create_segment touches one segment id, and may settle renames.
LEMMA CreateEffect ==
  ASSUME TypeOK, Gone, NEW id \in Ids \ files, NEW h \in HdrState,
         NEW synced \in SUBSET Ids, id \in synced, Create(id, h, synced),
         id > manifestDur, manifestDur' = manifestDur
  PROVE  /\ WalOK' /\ Gone' /\ files' = files \cup {id}
         /\ content'[id] = {} /\ hdr'[id] = h
         /\ \A i \in Ids \ {id} : content'[i] = content[i] /\ hdr'[i] = hdr[i]
         /\ Firm \subseteq Firm' /\ content[id] \subseteq Firm'
         /\ \A i \in loose : i \in loose' \/ content[i] \subseteq Firm'
<1>1. /\ files' = files \cup {id} /\ forfeit' = forfeit
      /\ unlinked' = unlinked \ synced
      /\ Settle(loose \cap synced) /\ loose \cap synced \in SUBSET Ids
  BY Zenon DEF Create
<1>2. /\ aside' \in [Ids -> SUBSET Rec] /\ loose' = loose \ synced
      /\ Firm \subseteq Firm'
      /\ \A i \in loose \cap synced : content[i] \subseteq Firm'
      /\ \A i \in loose' : aside'[i] = {}
  BY <1>1, SettleFacts
<1>3. /\ content'[id] = {} /\ hdr'[id] = h
      /\ \A i \in Ids \ {id} : content'[i] = content[i] /\ hdr'[i] = hdr[i]
      /\ content' \in [Ids -> SUBSET Rec] /\ hdr' \in [Ids -> HdrState]
  BY Zenon DEF TypeOK, Create
<1>4. WalOK'
  BY <1>1, <1>2, <1>3, Zenon DEF WalOK, TypeOK
<1>5. \A i \in loose : i \in loose' \/ content[i] \subseteq Firm'
  BY <1>2, Zenon
<1>6. content[id] \subseteq Firm'
  <2>1. ~(id <= manifestDur)
    BY SegAssumption DEF TypeOK, Ids
  <2>. QED
    BY <1>2, <2>1, Zenon DEF Gone
<1>7. ASSUME NEW i \in Ids \ files'
      PROVE  i <= manifestDur' \/ i \in loose' \/ content'[i] \subseteq Firm'
  BY <1>1, <1>2, <1>3, <1>5, Zenon DEF Gone
<1>8. ASSUME NEW i \in unlinked' PROVE i <= manifestDur' \/ content'[i] = {}
  BY <1>1, <1>3, Zenon DEF Gone, TypeOK
<1>9. Gone'
  BY <1>2, <1>7, <1>8, Zenon DEF Gone
<1>. QED
  BY <1>1, <1>2, <1>3, <1>4, <1>5, <1>6, <1>9, Zenon

\* The ways a job moves a segment out of wal/: quarantined, or removed once it is
\* committed or empty; or it moves none, and may fsync the directory.
Shelves(id) ==
  \/ UNCHANGED wal
  \/ SyncWal
  \/ id \in files /\ (SetAside(id) \/ SetAsideUnsynced(id))
  \/ /\ id \in Ids /\ (id <= manifestDur \/ content[id] = {})
     /\ Unlink(id) \/ UnlinkSynced(id)

\* Such a step keeps wal/ well formed and what is gone accounted for.
LEMMA ShelvesWal ==
  ASSUME TypeOK, Gone, NEW id, Shelves(id), manifestDur' = manifestDur
  PROVE  /\ WalOK' /\ Gone' /\ content' = content /\ hdr' = hdr
         /\ files' \subseteq files /\ files \ {id} \subseteq files'
         /\ Firm \subseteq Firm'
         /\ \A i \in loose : i \in loose' \/ content[i] \subseteq Firm'
<1>0. content' = content /\ hdr' = hdr
  BY Zenon DEF Shelves, SyncWal, SetAside, SetAsideUnsynced, Unlink, UnlinkSynced
<1>1. CASE UNCHANGED wal
  <2>1. UNCHANGED <<files, content, hdr, aside, forfeit, loose, unlinked>>
    BY <1>1, Zenon
  <2>2. Firm' = Firm
    BY <2>1, Zenon DEF Firm
  <2>. QED
    BY <2>1, <2>2, Zenon DEF WalOK, TypeOK, Gone
<1>2. CASE SyncWal
  <2>1. files' = files /\ forfeit' = forfeit /\ unlinked' = {} /\ Settle(loose)
    BY <1>2, Zenon DEF SyncWal
  <2>2. /\ aside' \in [Ids -> SUBSET Rec] /\ loose' = loose \ loose
        /\ Firm \subseteq Firm' /\ \A i \in loose : content[i] \subseteq Firm'
        /\ \A i \in loose' : aside'[i] = {}
    <3>1. loose \in SUBSET Ids
      BY Zenon DEF TypeOK
    <3>. QED
      BY <2>1, <3>1, SettleFacts, Zenon
  <2>. QED
    BY <1>0, <2>1, <2>2, Zenon DEF WalOK, TypeOK, Gone
<1>3. CASE id \in files /\ SetAside(id)
  <2>1. /\ files' = files \ {id} /\ forfeit' = forfeit \cup aside[id]
        /\ unlinked' = {} /\ Settle(loose \cup {id})
    BY <1>3, Zenon DEF SetAside
  <2>2. loose \cup {id} \in SUBSET Ids /\ aside[id] \subseteq Rec
    BY <1>3, Zenon DEF TypeOK
  <2>3. /\ aside' \in [Ids -> SUBSET Rec] /\ loose' = loose \ (loose \cup {id})
        /\ Firm \subseteq Firm'
        /\ \A i \in loose \cup {id} : content[i] \subseteq Firm'
        /\ \A i \in loose' : aside'[i] = {}
    BY <2>1, <2>2, SettleFacts
  <2>. QED
    BY <1>0, <2>1, <2>2, <2>3, Zenon DEF WalOK, TypeOK, Gone
<1>4. CASE id \in files /\ SetAsideUnsynced(id)
  <2>1. /\ files' = files \ {id} /\ forfeit' = forfeit \cup aside[id]
        /\ unlinked' = unlinked /\ loose' = loose \cup {id}
        /\ aside' = [aside EXCEPT ![id] = {}]
    BY <1>4, Zenon DEF SetAsideUnsynced
  <2>2. /\ aside' \in [Ids -> SUBSET Rec] /\ aside[id] \subseteq Rec
        /\ aside'[id] = {} /\ \A i \in Ids \ {id} : aside'[i] = aside[i]
    BY <1>4, <2>1, Zenon DEF TypeOK
  <2>3. Firm \subseteq Firm'
    BY <2>1, <2>2, Zenon DEF Firm
  <2>4. \A i \in loose' : aside'[i] = {}
    BY <2>1, <2>2, Zenon DEF Gone, TypeOK
  <2>5. WalOK'
    BY <1>0, <1>4, <2>1, <2>2, Zenon DEF WalOK, TypeOK
  <2>. QED
    BY <1>0, <2>1, <2>3, <2>4, <2>5, Zenon DEF Gone
<1>5. CASE id \in Ids /\ (id <= manifestDur \/ content[id] = {}) /\ Unlink(id)
  <2>1. /\ files' = files \ {id} /\ unlinked' = unlinked \cup {id}
        /\ UNCHANGED <<aside, forfeit, loose>>
    BY <1>5, Zenon DEF Unlink
  <2>2. Firm' = Firm
    BY <2>1, Zenon DEF Firm
  <2>3. WalOK'
    BY <1>0, <1>5, <2>1, Zenon DEF WalOK, TypeOK
  <2>. QED
    BY <1>0, <1>5, <2>1, <2>2, <2>3, Zenon DEF Gone
<1>6. CASE id \in Ids /\ (id <= manifestDur \/ content[id] = {}) /\ UnlinkSynced(id)
  <2>1. files' = files \ {id} /\ forfeit' = forfeit /\ unlinked' = {} /\ Settle(loose)
    BY <1>6, Zenon DEF UnlinkSynced
  <2>2. /\ aside' \in [Ids -> SUBSET Rec] /\ loose' = loose \ loose
        /\ Firm \subseteq Firm' /\ \A i \in loose : content[i] \subseteq Firm'
        /\ \A i \in loose' : aside'[i] = {}
    <3>1. loose \in SUBSET Ids
      BY Zenon DEF TypeOK
    <3>. QED
      BY <2>1, <3>1, SettleFacts, Zenon
  <2>. QED
    BY <1>0, <1>6, <2>1, <2>2, Zenon DEF WalOK, TypeOK, Gone
<1>. QED
  BY <1>1, <1>2, <1>3, <1>4, <1>5, <1>6, Zenon DEF Shelves

\* And it disturbs none of the other books.
LEMMA ShelvesKeeps ==
  ASSUME IInv, NEW id, Shelves(id), UNCHANGED <<outs, mani, hist>>,
         mem' \in {mem, 0}, active' \in {active, 0}
  PROVE  /\ WalOK' /\ Gone' /\ Histories' /\ AllCovered' /\ UniqueNames' /\ ShortEmpty'
         /\ files' \subseteq files /\ files \ {id} \subseteq files'
<1>1. /\ WalOK' /\ Gone' /\ content' = content /\ hdr' = hdr
      /\ files' \subseteq files /\ files \ {id} \subseteq files'
      /\ Firm \subseteq Firm'
      /\ \A i \in loose : i \in loose' \/ content[i] \subseteq Firm'
  BY ShelvesWal, Zenon DEF IInv
<1>2. Histories'
  BY <1>1, Zenon DEF IInv, Histories
<1>3. Keeps(mem) /\ Keeps(manifest) /\ Keeps(manifestDur)
  BY <1>1, Zenon DEF Keeps
<1>4. AllCovered'
  BY <1>3, AllCoveredKept, Zenon DEF IInv
<1>5. UniqueNames'
  BY Zenon DEF IInv, UniqueNames, Distinct
<1>6. ShortEmpty'
  <2>1. 0 \notin Ids
    BY SegAssumption DEF Ids
  <2>. QED
    BY <1>1, <2>1, Zenon DEF IInv, ShortEmpty
<1>. QED
  BY <1>1, <1>2, <1>4, <1>5, <1>6, Zenon

\* A rename into series/, fsynced or not, keeps what the watermarks cover.
LEMMA PromoteKeeps ==
  ASSUME IInv, NEW f \in staged, Promote(f) \/ PromoteUnsynced(f) \/ UNCHANGED outs,
         UNCHANGED wal
  PROVE  /\ OutsOK' /\ UniqueNames' /\ staged \ {f} \subseteq staged'
         /\ \A w : Keeps(w)
<1>0. UNCHANGED <<content, loose, aside, forfeit>> /\ Firm' = Firm
  BY Zenon DEF Firm
<1>1. CASE UNCHANGED outs
  <2>1. UNCHANGED <<staged, stagedDur, series, fresh, tmpGhosts, seriesGhosts>>
    BY <1>1, Zenon
  <2>. QED
    BY <1>0, <2>1, Zenon DEF IInv, TypeOK, OutsOK, UniqueNames, Distinct, Keeps
<1>2. CASE Promote(f) \/ PromoteUnsynced(f)
  <2>1. /\ staged' = staged \ {f} /\ stagedDur' = stagedDur \ {f}
        /\ series' = Put(series, f) /\ tmpGhosts' = tmpGhosts
        /\ seriesGhosts' \subseteq seriesGhosts \cup series
    BY <1>2, Zenon DEF Promote, PromoteUnsynced, Elsewhere, Put
  <2>2. /\ staged \subseteq OutFile /\ stagedDur \subseteq staged
        /\ series \subseteq OutFile /\ fresh \subseteq series
        /\ tmpGhosts \subseteq OutFile /\ seriesGhosts \subseteq OutFile
    BY Zenon DEF IInv, TypeOK
  <2>3. fresh' \subseteq series'
    <3>1. CASE Promote(f)
      <4>1. ASSUME NEW g \in fresh' PROVE g \in series'
        <5>1. g \in fresh /\ g.part # f.part
          BY <3>1, <4>1, Zenon DEF Promote, Elsewhere
        <5>. QED
          BY <2>1, <2>2, <5>1, Zenon DEF Put, SameName
      <4>. QED
        BY <4>1, Zenon
    <3>2. CASE PromoteUnsynced(f)
      BY <2>2, <3>2, Zenon DEF PromoteUnsynced, Put
    <3>. QED
      BY <1>2, <3>1, <3>2, Zenon
  <2>4. OutsOK'
    BY <2>1, <2>2, <2>3, Zenon DEF OutsOK, Put
  <2>5. \A g \in staged \ {f} : ~SameName(g, f)
    BY Zenon DEF IInv, UniqueNames, Distinct
  <2>6. \A g \in tmpGhosts : f \in stagedDur => ~SameName(g, f)
    BY Zenon DEF IInv, UniqueNames, SameName
  <2>7. f \in series' /\ \A g \in series : ~SameName(f, g) => g \in series'
    BY <2>1, Zenon DEF Put
  <2>8. UniqueNames'
    <3>1. Distinct(series')
      BY <2>1, Zenon DEF IInv, UniqueNames, Distinct, Put, SameName
    <3>2. Distinct(staged')
      BY <2>1, Zenon DEF IInv, UniqueNames, Distinct
    <3>. QED
      BY <2>1, <3>1, <3>2, Zenon DEF IInv, UniqueNames, Distinct
  <2>9. ASSUME NEW w PROVE Keeps(w)
    BY <1>0, <2>1, <2>5, <2>6, <2>7, ZenonT(60) DEF Keeps
  <2>. QED
    BY <2>1, <2>4, <2>8, <2>9, Zenon
<1>. QED
  BY <1>1, <1>2, Zenon

\* A step that leaves wal/, tmp/, series/ and the manifest alone keeps the books.
LEMMA QuietBooks ==
  ASSUME IInv, UNCHANGED <<wal, outs, mani, hist>>, mem' \in {mem, 0},
         active' \in {active, 0}
  PROVE  WalOK' /\ OutsOK' /\ Histories' /\ Gone' /\ AllCovered' /\ UniqueNames' /\ ShortEmpty'
<1>1. Shelves(0)
  BY Zenon DEF Shelves
<1>2. OutsOK'
  BY Zenon DEF IInv, TypeOK, OutsOK
<1>. QED
  BY <1>1, <1>2, ShelvesKeeps, Zenon

\* Shared::roll and its failure: creating the successor of the active segment
\* disturbs none of the books.
LEMMA RollKeeps ==
  ASSUME IInv, phase = "up", active < MaxSeg, active + 1 \notin files,
         SyncActive, NEW h \in {"ok", "short"}, NEW synced \in SUBSET Ids,
         active + 1 \in synced, Create(active + 1, h, synced),
         active' = active \/ (h = "ok" /\ active' = active + 1),
         phase' = phase, mem' = mem, UNCHANGED <<outs, mani>>
  PROVE  /\ WalOK' /\ OutsOK' /\ active' \in 0..MaxSeg
         /\ accepted' \subseteq Rec /\ stable' \subseteq Rec
         /\ volatile' \subseteq Rec
         /\ files' = files \cup {active + 1}
         /\ \A i \in Ids : i # active + 1 => content'[i] = content[i]
         /\ Histories' /\ Gone' /\ AllCovered' /\ UniqueNames' /\ ShortEmpty' /\ ActiveTop'
<1>1. /\ active \in Ids /\ active > mem /\ active + 1 \in Ids
      /\ active + 1 > manifestDur /\ active \in files /\ active \in Nat
      /\ \A i \in files : i \in Nat /\ i <= active + 1
  BY Running, SegAssumption DEF IInv, TypeOK, ActiveTop, Ids
<1>2. /\ WalOK' /\ Gone' /\ files' = files \cup {active + 1}
      /\ content'[active + 1] = {} /\ hdr'[active + 1] = h
      /\ \A i \in Ids \ {active + 1} : /\ content'[i] = content[i]
                                       /\ hdr'[i] = hdr[i]
      /\ Firm \subseteq Firm' /\ content[active + 1] \subseteq Firm'
      /\ \A i \in loose : i \in loose' \/ content[i] \subseteq Firm'
  <2>1. h \in HdrState /\ active + 1 \in Ids \ files /\ manifestDur' = manifestDur
    BY <1>1, Zenon DEF HdrState
  <2>. QED
    BY <1>1, <2>1, CreateEffect, Zenon DEF IInv
<1>4. /\ accepted' = accepted /\ volatile' \subseteq volatile
      /\ stable' = stable \cup (volatile \cap content[active])
      /\ volatile' = volatile \ content[active]
  BY Zenon DEF SyncActive
<1>5. Histories'
  <2>1. ASSUME NEW r \in stable' PROVE r \in Firm' \/ \E i \in Ids : r \in content'[i]
    <3>1. CASE r \in stable
      <4>1. CASE r \in Firm
        BY <4>1, <1>2, Zenon
      <4>2. CASE r \notin Firm
        <5>1. PICK i \in Ids : r \in content[i]
          BY <3>1, <4>2, Zenon DEF IInv, Histories
        <5>. QED
          BY <5>1, <1>2, Zenon
      <4>. QED
        BY <4>1, <4>2, Zenon
    <3>2. CASE r \in content[active]
      <4>1. active # active + 1
        BY <1>1, Zenon
      <4>. QED
        BY <3>2, <4>1, <1>1, <1>2, Zenon
    <3>. QED
      BY <2>1, <3>1, <3>2, <1>4, Zenon
  <2>2. stable' \cup volatile' \subseteq accepted' /\ volatile' \cap stable' = {}
    BY <1>4, Zenon DEF IInv, Histories
  <2>. QED
    BY <2>1, <2>2, Zenon DEF Histories
<1>7. AllCovered'
  <2>1. \A i \in Ids : content'[i] \subseteq content[i]
    BY <1>2, Zenon
  <2>2. \A i \in loose : i \in loose' \/ content'[i] \subseteq Firm'
    BY <1>2, <2>1, Zenon DEF IInv, TypeOK
  <2>3. Keeps(mem) /\ Keeps(manifest) /\ Keeps(manifestDur)
    BY <1>2, <2>1, <2>2, Zenon DEF Keeps
  <2>. QED
    BY <2>3, AllCoveredKept, Zenon DEF IInv
<1>8. ShortEmpty'
  BY <1>1, <1>2, Zenon DEF IInv, ShortEmpty
<1>9. ActiveTop'
  BY <1>1, <1>2, SegAssumption DEF IInv, ActiveTop, TypeOK, Ids
<1>10. active' \in 0..MaxSeg
  BY <1>1, SegAssumption DEF Ids
<1>11. accepted' \subseteq Rec /\ stable' \subseteq Rec /\ volatile' \subseteq Rec
  BY <1>4, Zenon DEF IInv, TypeOK
<1>12. UniqueNames' /\ OutsOK'
  BY Zenon DEF IInv, TypeOK, OutsOK, UniqueNames, Distinct
<1>. QED
  BY <1>2, <1>5, <1>7, <1>8, <1>9, <1>10, <1>11, <1>12, Zenon

\* The output files of a flush are named after its last segment and hold every
\* row of the consumed segments.
LEMMA OutputFacts ==
  ASSUME LeastNumber, TypeOK, consumed # {}
  PROVE  /\ Output \subseteq OutFile
         /\ \A f \in Output : f.last = Max(consumed)
         /\ \A i \in consumed : \A r \in content[i] \ Bad :
              \E f \in Output : r \in f.recs
<1> DEFINE File(p) == [part |-> p, first |-> Min(consumed),
                       last |-> Max(consumed), recs |-> Rows(p),
                       stray |-> FALSE]
<1>1. Output = {File(p) : p \in {q \in Part : Rows(q) # {}}}
  BY Zenon DEF Output
<1>2. Min(consumed) \in Ids /\ Max(consumed) \in Ids
  <2>1. consumed \in SUBSET Ids /\ consumed \in SUBSET (0..MaxSeg)
    BY SegAssumption DEF TypeOK, Ids
  <2>2. Min(consumed) \in consumed /\ Max(consumed) \in consumed
    BY <2>1, MinProp, MaxProp, Zenon
  <2>. QED
    BY ZenonT(60), <2>1, <2>2
<1>3. \A p \in Part : Rows(p) \in SUBSET Rec
  BY DEF TypeOK, Rows
<1>4. \A p \in Part : File(p) \in OutFile
  BY <1>2, <1>3, Zenon DEF OutFile
<1>5. ASSUME NEW i \in consumed, NEW r \in content[i] \ Bad
      PROVE  \E f \in Output : r \in f.recs
  <2>1. r \in Rec /\ PartOf[r] \in Part
    BY RecAssumption, Zenon DEF TypeOK
  <2>2. r \in UNION {content[j] : j \in consumed}
    OBVIOUS
  <2>3. r \in Rows(PartOf[r])
    BY <2>2, Zenon DEF Rows
  <2>4. File(PartOf[r]) \in Output /\ r \in File(PartOf[r]).recs
    BY <1>1, <2>1, <2>3, Zenon
  <2>. QED
    BY <2>4, Zenon
<1>6. \A p \in Part : File(p).last = Max(consumed)
  OBVIOUS
<1> HIDE DEF File
<1>. QED
  BY ZenonT(60), <1>1, <1>4, <1>5, <1>6

\* At the commit point the new watermark covers its segments: what the manifest
\* rename is about to declare flushed is in fsynced staged files.
LEMMA CommitCovers ==
  ASSUME LeastNumber, IInv, pc = "commit"
  PROVE  /\ Max(consumed) \in consumed /\ \A i \in consumed : i <= Max(consumed)
         /\ Max(consumed) \in Ids /\ Max(consumed) > mem
         /\ Max({mem, Max(consumed)}) = Max(consumed)
         /\ Covered(Max(consumed))
<1> DEFINE M == Max(consumed)
<1>1. InFlush({"commit"}) /\ phase # "down" /\ InFlush({"stage", "commit"})
      /\ InFlush({"plan", "sweep", "orphans", "decode", "stage", "commit"})
  BY Zenon DEF IInv, TypeOK, InFlush, Loops, Watermarks
<1>2. consumed # {} /\ todo = {} /\ consumed \subseteq files
      /\ (\A f \in out : f.last = M) /\ out \subseteq stagedDur
  BY <1>1, Zenon DEF IInv, OutputComplete, NoGap
<1>3. M \in consumed /\ \A i \in consumed : i <= M
  <2>1. consumed \in SUBSET (0..MaxSeg)
    BY SegAssumption DEF IInv, TypeOK, Ids
  <2>2. consumed \subseteq Nat
    BY SegAssumption DEF IInv, TypeOK, Ids
  <2>3. M \in consumed /\ \A i \in consumed : M >= i
    BY <2>1, <1>2, MaxProp, Zenon
  <2>. QED
    BY <2>2, <2>3, Zenon
<1>4. M \in Ids /\ M \in Nat /\ M > mem /\ mem \in Nat
  <2>1. M > mem
    BY <1>1, <1>3, Zenon DEF IInv, NoGap
  <2>2. M \in Ids
    BY <1>3, Zenon DEF IInv, TypeOK
  <2>3. M \in Nat
    BY <2>2, SegAssumption DEF Ids
  <2>. QED
    BY <2>1, <2>2, <2>3, <1>1, Running, Zenon
<1>5. Max({mem, M}) = M
  <2>1. {mem, M} \in SUBSET (0..MaxSeg) /\ {mem, M} # {}
    BY <1>4, SegAssumption DEF IInv, TypeOK, Ids
  <2>2. Max({mem, M}) \in {mem, M} /\ Max({mem, M}) >= M
    BY <2>1, MaxProp, Zenon
  <2>. QED
    BY <2>2, <1>4
<1>6. Covered(M)
  <2>1. SUFFICES ASSUME NEW i \in Ids, i <= M, i \notin loose,
                        NEW r \in content[i] \ Bad, r \notin Firm
                 PROVE  \/ \E f \in stagedDur : f.last <= M /\ r \in f.recs
                        \/ \E f \in series : /\ f.last <= M /\ r \in f.recs
                                             /\ \A g \in staged \cup tmpGhosts : ~SameName(g, f)
    BY Zenon DEF Covered, CoveredIn
  <2>2. \A f \in stagedDur \cup series : f.last \in Nat
    BY SegAssumption DEF IInv, TypeOK, OutFile, Ids
  <2>3. CASE i <= mem
    <3>1. \/ \E f \in stagedDur : f.last <= mem /\ r \in f.recs
          \/ \E f \in series : /\ f.last <= mem /\ r \in f.recs
                               /\ \A g \in staged \cup tmpGhosts : ~SameName(g, f)
      BY <2>1, <2>3, Zenon DEF IInv, AllCovered, Covered, CoveredIn
    <3>. QED
      BY SMTT(60), <3>1, <2>2, <1>4
  <2>4. CASE i > mem
    <3>1. i \in files
      BY SMTT(60), <2>1, <2>4, Running, <1>1, SegAssumption DEF IInv, Gone, Ids
    <3>2. i \in consumed
      BY ZenonT(60), <2>1, <2>4, <3>1, <1>1, <1>2, <1>3 DEF IInv, NoGap
    <3>3. PICK f \in out : r \in f.recs
      BY <3>2, <1>1, Zenon DEF IInv, OutputComplete
    <3>. QED
      BY <3>3, <1>2, <1>4
  <2>. QED
    BY <2>3, <2>4, <1>4, SegAssumption DEF Ids
<1>. QED
  BY <1>3, <1>4, <1>5, <1>6, Zenon

\* The part of TypeOK that a job writes.
JobOK ==
  /\ phase \in {"down", "opening", "up", "closed"} /\ pc \in Pc
  /\ active \in 0..MaxSeg /\ mem \in 0..MaxSeg /\ failures \in 0..1
  /\ met \subseteq Ids /\ todo \subseteq Ids /\ consumed \subseteq Ids
  /\ out \subseteq OutFile /\ next \in 1..(MaxSeg + 1)

\* At most one thing goes wrong in a step.
OneMishap == mishaps' = mishaps \/ (mishaps < MaxMishaps /\ mishaps' = mishaps + 1)

\* The count of mishaps keeps its type.
LEMMA MishapCounted ==
  ASSUME TypeOK, OneMishap
  PROVE  mishaps' \in 0..MaxMishaps
<1>1. mishaps \in 0..MaxMishaps
  BY Zenon DEF TypeOK
<1>. QED
  BY <1>1, FaultAssumption DEF OneMishap

\* A job that ends leaves its locals well typed.
LEMMA EndOK ==
  ASSUME TypeOK, FlushErr \/ FlushOk \/ OpenErr
  PROVE  JobOK'
<1>1. 1 \in 1..(MaxSeg + 1) /\ 0 \in 0..MaxSeg
  BY SegAssumption
<1>2. CASE FlushErr
  BY <1>1, <1>2 DEF TypeOK, JobOK, FlushErr, Pc
<1>3. CASE FlushOk
  BY <1>1, <1>3 DEF TypeOK, JobOK, FlushOk, Pc
<1>4. CASE OpenErr
  BY <1>1, <1>4 DEF TypeOK, JobOK, OpenErr, Pc
<1>. QED
  BY <1>2, <1>3, <1>4, Zenon

\* The types of the watermarks and the histories.
BooksOK ==
  /\ manifest \in 0..MaxSeg /\ manifestDur \in 0..MaxSeg
  /\ accepted \subseteq Rec /\ stable \subseteq Rec /\ volatile \subseteq Rec

\* The parts of TypeOK make it up.
LEMMA TypeParts ==
  ASSUME TypeOK, WalOK', OutsOK', JobOK', BooksOK', OneMishap
  PROVE  TypeOK'
<1>1. mishaps' \in 0..MaxMishaps
  BY MishapCounted
<1>. QED
  BY <1>1, Zenon DEF TypeOK, WalOK, OutsOK, JobOK, BooksOK

---------------------------------------------------------------------------
(* The steps of a flush. *)

\* The flush seals the active segment.
LEMMA FlushSealStep ==
  ASSUME IInv, FlushSeal
  PROVE  IInv'
<1>0. OneMishap /\ BooksOK /\ UNCHANGED <<outs, mani>> /\ pc' = "list"
      /\ phase = "up" /\ pc = "idle"
  BY Zenon DEF IInv, TypeOK, BooksOK, OneMishap, FlushSeal
<1>a. CASE content[active] # {} /\ Roll
  <2>0. phase' = phase /\ mem' = mem
    BY <1>a, Zenon DEF Roll
  <2>a. /\ WalOK' /\ OutsOK' /\ active' \in 0..MaxSeg
        /\ accepted' \subseteq Rec /\ stable' \subseteq Rec /\ volatile' \subseteq Rec
        /\ Histories' /\ Gone' /\ AllCovered' /\ UniqueNames' /\ ShortEmpty' /\ ActiveTop'
    <3>1. active + 1 \in Ids
      BY <1>a, SegAssumption DEF IInv, TypeOK, Roll, Ids
    <3>. QED
      BY <1>0, <1>a, <3>1, RollKeeps, Zenon DEF Roll
  <2>1. TypeOK'
    <3>1. JobOK'
      BY <2>0, <2>a, Zenon DEF IInv, TypeOK, JobOK, Pc, FlushSeal
    <3>2. BooksOK'
      BY <1>0, <2>a, Zenon DEF BooksOK
    <3>. QED
      BY <1>0, <2>a, <3>1, <3>2, TypeParts, Zenon DEF IInv
  <2>2. Watermarks'
    BY <2>0, Zenon DEF IInv, Watermarks, FlushSeal
  <2>3. NoGap' /\ OutputComplete'
    BY Zenon DEF NoGap, OutputComplete, InFlush, FlushSeal
  <2>4. Loops'
    BY <2>0, Zenon DEF IInv, Loops, FlushSeal
  <2>. QED
    BY <2>a, <2>1, <2>2, <2>3, <2>4, Zenon DEF IInv
<1>b. CASE UNCHANGED <<wal, run, hist>>
  <2>0. WalOK' /\ OutsOK' /\ Histories' /\ Gone' /\ AllCovered' /\ UniqueNames' /\ ShortEmpty'
    BY <1>0, <1>b, QuietBooks, Zenon
  <2>1. TypeOK'
    <3>1. JobOK'
      BY <1>b, Zenon DEF IInv, TypeOK, JobOK, Pc, FlushSeal
    <3>2. BooksOK'
      BY <1>0, <1>b, Zenon DEF BooksOK
    <3>. QED
      BY <1>0, <2>0, <3>1, <3>2, TypeParts, Zenon DEF IInv
  <2>2. Watermarks' /\ ActiveTop'
    BY <1>b, Zenon DEF IInv, Watermarks, ActiveTop, FlushSeal
  <2>4. NoGap' /\ OutputComplete' /\ Loops'
    BY <1>b, Zenon DEF IInv, NoGap, OutputComplete, InFlush, Loops, FlushSeal
  <2>. QED
    BY <2>0, <2>1, <2>2, <2>4, Zenon DEF IInv
<1>. QED
  BY <1>a, <1>b, Zenon DEF FlushSeal

\* Listing the log.
LEMMA FlushListStep ==
  ASSUME IInv, FlushList
  PROVE  IInv'
<1>0. UNCHANGED <<wal, outs, mani, run, hist, mishaps, failures, consumed, met, out, next>>
      /\ pc = "list" /\ pc' = "plan" /\ todo' = files
  BY Zenon DEF FlushList
<1>1. WalOK' /\ OutsOK' /\ Histories' /\ Gone' /\ AllCovered' /\ UniqueNames' /\ ShortEmpty'
  BY <1>0, QuietBooks, Zenon
<1>2. TypeOK'
  <2>1. JobOK' /\ BooksOK' /\ OneMishap
    BY <1>0, Zenon DEF IInv, TypeOK, JobOK, BooksOK, OneMishap, Pc
  <2>. QED
    BY <1>1, <2>1, TypeParts, Zenon DEF IInv
<1>3. Watermarks' /\ ActiveTop'
  BY <1>0, Zenon DEF IInv, Watermarks, ActiveTop, Loops
<1>4. NoGap' /\ OutputComplete' /\ Loops'
  BY <1>0, Zenon DEF IInv, NoGap, OutputComplete, InFlush, Loops
<1>. QED
  BY <1>1, <1>2, <1>3, <1>4, Zenon DEF IInv

\* Choosing the consumable segments leaves no gap.
LEMMA FlushPlanStep ==
  ASSUME IInv, FlushPlan
  PROVE  IInv'
<1>0. UNCHANGED <<wal, outs, mani, run, hist, mishaps, failures, consumed, met, next>>
      /\ pc = "plan" /\ pc' \in {"sweep", "decode"} /\ out' \in {out, staged}
  BY Zenon DEF FlushPlan
<1>1. WalOK' /\ OutsOK' /\ Histories' /\ Gone' /\ AllCovered' /\ UniqueNames' /\ ShortEmpty'
  BY <1>0, QuietBooks, Zenon
<1>2. TypeOK'
  <2>1. JobOK' /\ BooksOK' /\ OneMishap
    BY <1>0, Zenon DEF IInv, TypeOK, JobOK, BooksOK, OneMishap, Pc, FlushPlan
  <2>. QED
    BY <1>1, <2>1, TypeParts, Zenon DEF IInv
<1>3. NoGap'
  <2>1. phase \in {"up", "closed"} => InFlush({"plan", "sweep", "orphans",
     "decode", "stage", "commit"})
    BY Zenon DEF InFlush, FlushPlan
  <2>2. phase \in {"up", "closed"} =>
          /\ todo \subseteq files /\ consumed = {}
          /\ \A i \in files, j \in todo : mem < i /\ i <= j => i \in todo
    BY <2>1, Zenon DEF IInv, NoGap, FlushPlan
  <2>3. todo \subseteq Nat /\ files \subseteq Nat /\ mem \in Nat /\ active \in
     Nat
    BY SegAssumption DEF IInv, TypeOK, Ids
  <2>4. /\ todo' \subseteq todo /\ \A i \in todo' : i < active /\ i > mem
        /\ \A i \in todo : i < active /\ i > mem => i \in todo'
    BY Zenon DEF FlushPlan
  <2>5. phase \in {"up", "closed"} =>
          \A i \in files, j \in todo' : mem < i /\ i <= j => i \in todo'
    BY <2>2, <2>3, <2>4
  <2>6. UNCHANGED <<phase, files, mem, active, consumed>> /\ pc' # "plan"
    BY Zenon DEF FlushPlan
  <2>. QED
    BY <2>2, <2>4, <2>5, <2>6, Zenon DEF NoGap, InFlush
<1>4. Watermarks' /\ ActiveTop' /\ OutputComplete' /\ Loops'
  BY <1>0, Zenon DEF IInv, Watermarks, ActiveTop, OutputComplete, InFlush, Loops
<1>. QED
  BY <1>1, <1>2, <1>3, <1>4, Zenon DEF IInv

\* Decoding in id order keeps the consumed segments gap free.
LEMMA DecodeStep ==
  ASSUME LeastNumber, IInv, Decode
  PROVE  IInv'
<1> DEFINE id == Min(todo)
<1>a. id \in todo /\ id \in Ids /\ \A i \in todo : id <= i
  BY MinProp, Zenon DEF IInv, TypeOK, Decode
<1>b. InFlush({"plan", "sweep", "orphans", "decode", "stage", "commit"})
  BY Zenon DEF IInv, TypeOK, InFlush, Loops, Watermarks, Decode
<1>c. /\ todo \cup consumed \subseteq files
      /\ \A i \in files, j \in todo \cup consumed :
           mem < i /\ i <= j => i \in todo \cup consumed
      /\ \A j \in consumed, i \in todo : j < i
      /\ \A i \in todo \cup consumed : i > mem /\ (phase = "up" => i < active)
  BY <1>b, Zenon DEF IInv, NoGap, Decode
<1>d. /\ UNCHANGED <<outs, mani, run, hist>> /\ pc = "decode" /\ OneMishap
      /\ UNCHANGED wal \/ SetAside(id) \/ SetAsideUnsynced(id)
  BY Zenon DEF Decode, FlushErr, OneMishap
<1>e. /\ files \subseteq Nat /\ todo \subseteq Nat /\ consumed \subseteq Nat
      /\ mem \in Nat /\ active \in Nat
  <2>1. files \subseteq Ids /\ todo \subseteq Ids /\ consumed \subseteq Ids
    BY Zenon DEF IInv, TypeOK
  <2>2. mem \in 0..MaxSeg /\ active \in 0..MaxSeg
    BY Zenon DEF IInv, TypeOK
  <2>. QED
    BY <2>1, <2>2, SegAssumption DEF Ids
<1> HIDE DEF id
<1>1. /\ WalOK' /\ Gone' /\ Histories' /\ AllCovered' /\ UniqueNames' /\ ShortEmpty'
      /\ files' \subseteq files /\ files \ {id} \subseteq files'
  <2>1. Shelves(id)
    BY <1>a, <1>c, <1>d, Zenon DEF Shelves
  <2>. QED
    BY <1>d, <2>1, ShelvesKeeps, Zenon
<1>2. TypeOK'
  <2>1. JobOK'
    <3>1. CASE FlushErr
      BY <3>1, EndOK, Zenon DEF IInv
    <3>2. CASE ~FlushErr
      BY <1>a, <1>d, <3>2, Zenon DEF IInv, TypeOK, JobOK, Decode, id
    <3>. QED
      BY <3>1, <3>2, Zenon
  <2>2. OutsOK' /\ BooksOK'
    BY <1>d, Zenon DEF IInv, TypeOK, OutsOK, BooksOK
  <2>. QED
    BY <1>1, <1>d, <2>1, <2>2, TypeParts, Zenon DEF IInv
<1>3. Watermarks'
  BY Zenon DEF IInv, Watermarks, Decode, FlushErr
<1>4. ActiveTop'
  <2>1. phase = "up" => id # active
    BY <1>a, <1>c, <1>e
  <2>. QED
    BY <1>1, <1>d, <2>1, Zenon DEF IInv, ActiveTop
<1>5. NoGap'
  <2>1. CASE UNCHANGED <<files, pc, consumed>> /\ todo' = {}
    <3>1. \A i \in files, j \in consumed : mem < i /\ i <= j => i \in consumed
      BY <1>c, <1>e
    <3>. QED
      BY <1>c, <1>d, <2>1, <3>1, Zenon DEF NoGap
  <2>2. CASE UNCHANGED <<files, pc>> /\ consumed' = consumed \cup {id} /\ todo' = todo \ {id}
    <3>1. todo' \cup consumed' = todo \cup consumed
      BY <1>a, <2>2, Zenon
    <3>2. \A j \in consumed', i \in todo' : j < i
      BY <1>a, <1>c, <1>e, <2>2
    <3>. QED
      BY <1>c, <1>d, <2>2, <3>1, <3>2, Zenon DEF NoGap
  <2>3. CASE files' = files \ {id} /\ UNCHANGED <<pc, consumed>> /\ todo' \in {{}, todo \ {id}}
    <3>1. id \notin consumed
      BY <1>a, <1>c, <1>e
    <3>2. ASSUME NEW i \in files', NEW j \in todo' \cup consumed, mem < i, i <= j
          PROVE  i \in todo' \cup consumed
      <4>1. i \in todo \cup consumed /\ i # id
        BY <1>c, <2>3, <3>2, Zenon
      <4>2. CASE todo' = {}
        <5>1. j \in consumed /\ (i \in todo => j < i)
          BY <1>c, <3>2, <4>2, Zenon
        <5>2. i \in Nat /\ j \in Nat
          BY <1>e, <4>1, <5>1, Zenon
        <5>. QED
          BY <3>2, <4>1, <5>1, <5>2
      <4>. QED
        BY <2>3, <4>1, <4>2, Zenon
    <3>3. todo' \cup consumed \subseteq files'
      BY <1>c, <2>3, <3>1, Zenon
    <3>. QED
      BY <1>c, <1>d, <2>3, <3>2, <3>3, Zenon DEF NoGap
  <2>4. CASE FlushErr
    BY <2>4, Zenon DEF NoGap, InFlush, FlushErr
  <2>. QED
    BY <2>1, <2>2, <2>3, <2>4, Zenon DEF Decode, SetAside, SetAsideUnsynced, id
<1>6. OutputComplete'
  BY Zenon DEF OutputComplete, InFlush, Decode, FlushErr
<1>7. Loops'
  <2>1. pc' \in {"decode", "idle"} /\ (pc' = "idle" => consumed' = {})
    BY Zenon DEF Decode, FlushErr
  <2>2. phase' = phase /\ phase # "opening"
    BY <1>b, <1>d, Zenon DEF InFlush
  <2>. QED
    BY <2>1, <2>2, Zenon DEF Loops
<1>. QED
  BY <1>1, <1>2, <1>3, <1>4, <1>5, <1>6, <1>7, Zenon DEF IInv

\* The output of phase 1 holds every decoded row.
LEMMA DecodedStep ==
  ASSUME LeastNumber, IInv, Decoded
  PROVE  IInv'
<1>a. consumed # {} => /\ Output \subseteq OutFile
                       /\ \A f \in Output : f.last = Max(consumed)
                       /\ \A i \in consumed : \A r \in content[i] \ Bad :
                            \E f \in Output : r \in f.recs
  BY OutputFacts, Zenon DEF IInv
<1>b. /\ UNCHANGED <<wal, outs, mani, run, hist, mishaps>> /\ pc = "decode" /\ todo = {}
      /\ \/ FlushOk
         \/ /\ pc' = "stage" /\ out' = Output /\ consumed # {}
            /\ UNCHANGED <<failures, todo, consumed, met, next>>
  BY Zenon DEF Decoded, FlushOk
<1>1. WalOK' /\ OutsOK' /\ Histories' /\ Gone' /\ AllCovered' /\ UniqueNames' /\ ShortEmpty'
  BY <1>b, QuietBooks, Zenon
<1>2. TypeOK'
  <2>1. JobOK'
    <3>1. CASE FlushOk
      BY <3>1, EndOK, Zenon DEF IInv
    <3>2. CASE ~FlushOk
      BY <3>2, <1>a, <1>b, Zenon DEF IInv, TypeOK, JobOK, Pc
    <3>. QED
      BY <3>1, <3>2, Zenon
  <2>2. BooksOK' /\ OneMishap
    BY <1>b, Zenon DEF IInv, TypeOK, BooksOK, OneMishap
  <2>. QED
    BY <1>1, <2>1, <2>2, TypeParts, Zenon DEF IInv
<1>3. Watermarks' /\ ActiveTop'
  BY <1>b, Zenon DEF IInv, Watermarks, ActiveTop, FlushOk, Loops
<1>4. NoGap'
  BY <1>b, Zenon DEF IInv, NoGap, InFlush, FlushOk
<1>5. OutputComplete'
  BY <1>a, <1>b, Zenon DEF OutputComplete, InFlush, FlushOk
<1>6. Loops'
  <2>1. pc' \in {"idle", "stage"} /\ (pc' = "idle" => consumed' = {})
    BY <1>b, Zenon DEF FlushOk
  <2>2. phase' = phase /\ phase # "opening"
    BY <1>b, Zenon DEF IInv, Loops
  <2>. QED
    BY <2>1, <2>2, Zenon DEF Loops
<1>. QED
  BY <1>1, <1>2, <1>3, <1>4, <1>5, <1>6, Zenon DEF IInv

\* What a flush is about to stage is named by a segment above the watermark.
LEMMA OutAbove ==
  ASSUME LeastNumber, IInv, pc = "stage", NEW f \in out
  PROVE  /\ f \in OutFile /\ phase # "down" /\ f.last > mem
         /\ f.last \in Nat /\ [f EXCEPT !.recs = {}] \in OutFile
<1>1. /\ InFlush({"stage", "commit"}) /\ phase # "down"
      /\ InFlush({"plan", "sweep", "orphans", "decode", "stage", "commit"})
  BY Zenon DEF IInv, TypeOK, InFlush, Loops, Watermarks
<1>2. consumed # {} /\ f.last = Max(consumed)
  BY <1>1, Zenon DEF IInv, OutputComplete
<1>3. f.last \in consumed
  <2>1. consumed \in SUBSET (0..MaxSeg)
    BY SegAssumption DEF IInv, TypeOK, Ids
  <2>. QED
    BY <2>1, <1>2, MaxProp, Zenon
<1>4. f.last > mem
  BY <1>1, <1>3, Zenon DEF IInv, NoGap
<1>5. f \in OutFile /\ [f EXCEPT !.recs = {}] \in OutFile
  BY DEF IInv, TypeOK, OutFile
<1>6. f.last \in Nat
  BY <1>5, SegAssumption DEF OutFile, Ids
<1>. QED
  BY <1>1, <1>4, <1>5, <1>6, Zenon

\* Staging replaces no file that a watermark covers.
LEMMA StageStep ==
  ASSUME LeastNumber, NEW f \in out, IInv, Stage(f)
  PROVE  IInv'
<1>0. /\ UNCHANGED <<wal, series, fresh, tmpGhosts, seriesGhosts, mani, hist, run>>
      /\ pc = "stage" /\ OneMishap
      /\ UNCHANGED job \/ FlushErr
  BY Zenon DEF Stage, FlushErr, OneMishap
<1>a. /\ f \in OutFile /\ phase # "down" /\ f.last > mem
      /\ f.last \in Nat /\ [f EXCEPT !.recs = {}] \in OutFile
  BY <1>0, OutAbove, Zenon
<1>b. PICK g \in OutFile : /\ staged' = Put(staged, g) /\ g.last = f.last
                           /\ SameName(g, f)
  <2>1. SameName(f, f) /\ SameName([f EXCEPT !.recs = {}], f)
        /\ [f EXCEPT !.recs = {}].last = f.last
    BY <1>a DEF SameName, OutFile
  <2>. QED
    BY <1>a, <2>1, Zenon DEF Stage
<1>c. staged' \subseteq OutFile /\ stagedDur' = stagedDur \cap staged'
  BY <1>b, PutType, Zenon DEF IInv, TypeOK, Stage
<1>1. TypeOK'
  <2>1. JobOK'
    <3>1. CASE FlushErr
      BY <3>1, EndOK, Zenon DEF IInv
    <3>2. CASE UNCHANGED job
      BY <3>2, <1>0, Zenon DEF IInv, TypeOK, JobOK
    <3>. QED
      BY <1>0, <3>1, <3>2, Zenon
  <2>2. WalOK' /\ OutsOK' /\ BooksOK'
    BY <1>0, <1>c, Zenon DEF IInv, TypeOK, WalOK, OutsOK, BooksOK
  <2>. QED
    BY <1>0, <2>1, <2>2, TypeParts, Zenon DEF IInv
<1>2. Watermarks' /\ ActiveTop'
  BY <1>0, Zenon DEF IInv, Watermarks, ActiveTop, FlushErr
<1>d. Firm' = Firm
  BY <1>0, Zenon DEF Firm
<1>3. AllCovered'
  <2>1. ASSUME NEW w \in Nat, w <= mem PROVE Keeps(w)
    <3>0. \A h \in stagedDur \cup series : h \in OutFile
      BY Zenon DEF IInv, TypeOK
    <3>1. ASSUME NEW h \in OutFile, h.last <= w PROVE ~SameName(g, h) /\ ~SameName(h, g)
      <4>1. h.last \in Nat /\ mem \in Nat
        BY <3>1, <1>a, Running, SegAssumption DEF OutFile, Ids
      <4>2. h.last # g.last
        BY <4>1, <3>1, <2>1, <1>a, <1>b
      <4>. QED
        BY <4>2, Zenon DEF SameName
    <3>2. \A h \in stagedDur : h.last <= w => h \in stagedDur'
      BY <3>0, <3>1, <1>b, <1>c, Zenon DEF IInv, TypeOK, Put
    <3>3. \A h \in staged' : h = g \/ h \in staged
      BY <1>b, Zenon DEF Put
    <3>. QED
      BY <3>0, <3>1, <3>2, <3>3, <1>0, <1>d, ZenonT(60) DEF Keeps
  <2>2. Keeps(mem) /\ Keeps(manifest) /\ Keeps(manifestDur)
    BY <2>1, <1>a, Running
  <2>. QED
    BY <2>2, <1>0, AllCoveredKept, Zenon DEF IInv
<1>4. UniqueNames'
  <2>1. Distinct(staged')
    BY <1>b, Zenon DEF IInv, UniqueNames, Distinct, SameName, Put
  <2>. QED
    BY <2>1, <1>0, <1>c, Zenon DEF IInv, UniqueNames, Distinct
<1>5. NoGap'
  BY <1>0, Zenon DEF IInv, NoGap, InFlush, FlushErr
<1>6. OutputComplete'
  BY <1>0, Zenon DEF IInv, OutputComplete, InFlush, FlushErr
<1>7. Loops'
  BY <1>0, Zenon DEF IInv, Loops, FlushErr
<1>8. Histories' /\ Gone' /\ ShortEmpty'
  BY <1>0, <1>d, Zenon DEF IInv, Histories, Gone, ShortEmpty
<1>. QED
  BY <1>1, <1>2, <1>3, <1>4, <1>5, <1>6, <1>7, <1>8, Zenon DEF IInv

\* Staged names become durable.
LEMMA SyncStagingStep ==
  ASSUME IInv, SyncStaging
  PROVE  IInv'
<1> DEFINE Beside(dir) == {f \in dir : \E g \in out : g.part = f.part}
<1>0. /\ UNCHANGED <<wal, staged, series, fresh, seriesGhosts, mani, hist, run>>
      /\ pc = "stage" /\ OneMishap /\ out \subseteq staged
      /\ \/ /\ stagedDur' = stagedDur \cup Beside(staged)
            /\ tmpGhosts' = tmpGhosts \ Beside(tmpGhosts) /\ pc' = "commit"
            /\ UNCHANGED <<failures, todo, consumed, met, out, next>>
         \/ FlushErr /\ UNCHANGED <<stagedDur, tmpGhosts>>
  BY Zenon DEF SyncStaging, FlushErr, OneMishap
<1>1. TypeOK'
  <2>1. JobOK'
    <3>1. CASE FlushErr
      BY <3>1, EndOK, Zenon DEF IInv
    <3>2. CASE ~FlushErr
      BY <3>2, <1>0, Zenon DEF IInv, TypeOK, JobOK, Pc
    <3>. QED
      BY <3>1, <3>2, Zenon
  <2>2. WalOK' /\ OutsOK' /\ BooksOK'
    BY <1>0, Zenon DEF IInv, TypeOK, WalOK, OutsOK, BooksOK
  <2>. QED
    BY <1>0, <2>1, <2>2, TypeParts, Zenon DEF IInv
<1>a. Firm' = Firm
  BY <1>0, Zenon DEF Firm
<1>2. Watermarks' /\ ActiveTop'
  BY <1>0, Zenon DEF IInv, Watermarks, ActiveTop, FlushErr
<1>3. AllCovered'
  <2>1. Keeps(mem) /\ Keeps(manifest) /\ Keeps(manifestDur)
    <3>1. stagedDur \subseteq stagedDur' /\ tmpGhosts' \subseteq tmpGhosts
      BY <1>0, Zenon
    <3>. QED
      BY <3>1, <1>0, <1>a, Zenon DEF Keeps
  <2>. QED
    BY <2>1, <1>0, AllCoveredKept, Zenon DEF IInv
<1>4. UniqueNames'
  <2>1. ASSUME NEW f \in stagedDur', NEW g \in tmpGhosts' PROVE ~SameName(f, g)
    <3>1. g \in tmpGhosts
      BY <1>0, <2>1, Zenon
    <3>2. CASE f \in stagedDur
      BY <3>1, <3>2, Zenon DEF IInv, UniqueNames
    <3>3. CASE f \notin stagedDur
      <4>1. f \in Beside(staged) /\ g \notin Beside(tmpGhosts)
        BY <1>0, <2>1, <3>3, Zenon
      <4>2. PICK h \in out : h.part = f.part
        BY <4>1, Zenon
      <4>3. h.part # g.part
        BY <3>1, <4>1, <4>2, Zenon
      <4>. QED
        BY <4>2, <4>3, Zenon DEF SameName
    <3>. QED
      BY <3>2, <3>3, Zenon
  <2>. QED
    BY <1>0, <2>1, Zenon DEF IInv, UniqueNames, Distinct
<1>5. NoGap'
  BY <1>0, Zenon DEF IInv, NoGap, InFlush, FlushErr
<1>6. OutputComplete'
  <2>1. stagedDur' = stagedDur \cup Beside(staged) => out \subseteq stagedDur'
    BY <1>0, Zenon
  <2>. QED
    BY <1>0, <2>1, Zenon DEF IInv, OutputComplete, InFlush, FlushErr
<1>7. Loops'
  BY <1>0, Zenon DEF IInv, Loops, FlushErr
<1>8. Histories' /\ Gone' /\ ShortEmpty'
  BY <1>0, <1>a, Zenon DEF IInv, Histories, Gone, ShortEmpty
<1>. QED
  BY <1>1, <1>2, <1>3, <1>4, <1>5, <1>6, <1>7, <1>8, Zenon DEF IInv

\* The commit point.
LEMMA CommitRenameStep ==
  ASSUME LeastNumber, IInv, CommitRename
  PROVE  IInv'
<1>0. /\ UNCHANGED <<wal, outs, manifestDur, hist, phase, active>> /\ pc = "commit"
      /\ OneMishap /\ manifest' \in {manifest, mem'}
      /\ \/ /\ manifest' = mem' /\ pc' = "commitsync"
            /\ UNCHANGED <<failures, todo, consumed, met, out, next>>
         \/ pc' = "idle" /\ failures' = 1 /\ Rest
  BY Zenon DEF CommitRename, OneMishap
<1>a. /\ Max(consumed) \in consumed /\ \A i \in consumed : i <= Max(consumed)
      /\ Max(consumed) \in Ids /\ Max(consumed) > mem
      /\ mem' = Max(consumed) /\ Covered(Max(consumed))
  BY CommitCovers, Zenon DEF CommitRename
<1>b. /\ phase # "down" /\ phase # "opening"
      /\ InFlush({"plan", "sweep", "orphans", "decode", "stage", "commit"})
      /\ InFlush({"stage", "commit"})
  BY <1>0, Zenon DEF IInv, TypeOK, InFlush, Loops, Watermarks
<1>c. mem' \in 0..MaxSeg
  BY <1>a, SegAssumption DEF Ids
<1>1. TypeOK'
  <2>1. JobOK'
    <3>1. 1 \in 1..(MaxSeg + 1) /\ 1 \in 0..1
      BY SegAssumption
    <3>. QED
      BY <1>0, <1>c, <3>1, Zenon DEF IInv, TypeOK, JobOK, Pc
  <2>2. WalOK' /\ OutsOK' /\ BooksOK'
    BY <1>0, <1>c, Zenon DEF IInv, TypeOK, WalOK, OutsOK, BooksOK
  <2>. QED
    BY <1>0, <2>1, <2>2, TypeParts, Zenon DEF IInv
<1>2. Watermarks'
  <2>1. manifestDur <= manifest /\ manifest <= mem /\ mem <= mem'
    BY <1>a, <1>b, Running DEF Ids
  <2>3. manifestDur \in Nat /\ manifest \in Nat /\ mem \in Nat /\ mem' \in Nat
    BY <1>a, <1>b, Running DEF Ids
  <2>. QED
    BY <1>0, <1>b, <2>1, <2>3 DEF Watermarks
<1>3. AllCovered'
  <2>1. Firm' = Firm
    BY <1>0, Zenon DEF Firm
  <2>2. Covered(manifest) /\ Covered(manifestDur) /\ Covered(mem')
    BY <1>a, Zenon DEF IInv, AllCovered
  <2>. QED
    BY <1>0, <2>1, <2>2, Zenon DEF AllCovered, Covered
<1>4. ActiveTop'
  <2>1. phase = "up" => Max(consumed) < active
    BY <1>0, <1>a, <1>b, Zenon DEF IInv, NoGap
  <2>. QED
    BY <1>0, <2>1, <1>a, Zenon DEF IInv, ActiveTop
<1>5. NoGap'
  BY <1>0, Zenon DEF NoGap, InFlush
<1>6. OutputComplete'
  BY <1>0, Zenon DEF OutputComplete, InFlush
<1>7. Loops'
  <2>1. consumed # {} /\ out \subseteq staged
    BY <1>0, <1>b, Zenon DEF IInv, TypeOK, OutputComplete
  <2>. QED
    BY <2>1, <1>0, <1>a, <1>b, Zenon DEF Loops
<1>8. Histories' /\ Gone' /\ UniqueNames' /\ ShortEmpty'
  BY <1>0, Zenon DEF IInv, Histories, Gone, Firm, UniqueNames, Distinct, ShortEmpty
<1>. QED
  BY <1>1, <1>2, <1>3, <1>4, <1>5, <1>6, <1>7, <1>8, Zenon DEF IInv

\* The manifest on disk becomes the durable one: what is gone stays accounted for,
\* what the watermarks cover stays covered.
LEMMA DurableBooks ==
  ASSUME IInv, UNCHANGED <<wal, outs, hist, manifest>>, manifestDur' \in {manifestDur, manifest},
         mem' = mem, active' = active
  PROVE  /\ WalOK' /\ OutsOK' /\ BooksOK' /\ Histories' /\ Gone' /\ AllCovered'
         /\ UniqueNames' /\ ShortEmpty'
<1>1. Firm' = Firm
  BY Zenon DEF Firm
<1>2. \A i \in Ids : i <= manifestDur => i <= manifestDur'
  BY SegAssumption DEF IInv, TypeOK, Watermarks, Ids
<1>3. Gone'
  BY <1>1, <1>2, Zenon DEF IInv, TypeOK, Gone
<1>4. AllCovered'
  BY <1>1, Zenon DEF IInv, AllCovered, Covered
<1>5. WalOK' /\ OutsOK' /\ BooksOK'
  BY Zenon DEF IInv, TypeOK, WalOK, OutsOK, BooksOK
<1>6. Histories' /\ UniqueNames' /\ ShortEmpty'
  BY <1>1, Zenon DEF IInv, Histories, UniqueNames, Distinct, ShortEmpty
<1>. QED
  BY <1>3, <1>4, <1>5, <1>6, Zenon

\* The manifest becomes durable.
LEMMA CommitSyncStep ==
  ASSUME IInv, CommitSync
  PROVE  IInv'
<1>0. /\ UNCHANGED <<wal, outs, manifest, hist, run>> /\ pc = "commitsync" /\ OneMishap
      /\ \/ /\ manifestDur' = manifest /\ pc' = "promote" /\ todo' = consumed
            /\ UNCHANGED <<failures, consumed, met, out, next>>
         \/ FlushErr /\ UNCHANGED manifestDur
  BY Zenon DEF CommitSync, FlushErr, OneMishap
<1>1. /\ WalOK' /\ OutsOK' /\ BooksOK' /\ Histories' /\ Gone' /\ AllCovered'
      /\ UniqueNames' /\ ShortEmpty'
  BY <1>0, DurableBooks, Zenon
<1>2. TypeOK'
  <2>1. JobOK'
    <3>1. CASE FlushErr
      BY <3>1, EndOK, Zenon DEF IInv
    <3>2. CASE ~FlushErr
      BY <3>2, <1>0, Zenon DEF IInv, TypeOK, JobOK, Pc
    <3>. QED
      BY <3>1, <3>2, Zenon
  <2>. QED
    BY <1>0, <1>1, <2>1, TypeParts, Zenon DEF IInv
<1>3. Watermarks'
  BY <1>0 DEF IInv, TypeOK, Watermarks, FlushErr
<1>4. ActiveTop' /\ NoGap' /\ OutputComplete'
  BY <1>0, Zenon DEF IInv, ActiveTop, NoGap, OutputComplete, InFlush, FlushErr
<1>5. Loops'
  BY <1>0, Zenon DEF IInv, Loops, FlushErr
<1>. QED
  BY <1>1, <1>2, <1>3, <1>4, <1>5, Zenon DEF IInv

\* Publishing keeps what is covered.
LEMMA PromoteStagedStep ==
  ASSUME NEW f \in out, IInv, PromoteStaged(f)
  PROVE  IInv'
<1>0. /\ UNCHANGED <<wal, mani, hist, run>> /\ pc = "promote" /\ OneMishap
      /\ Promote(f) \/ PromoteUnsynced(f) \/ UNCHANGED outs
      /\ \/ out' = out \ {f} /\ UNCHANGED <<pc, failures, todo, consumed, met, next>>
         \/ FlushErr
  BY Zenon DEF PromoteStaged, FlushErr, OneMishap
<1>a. f \in staged
  BY <1>0, Zenon DEF IInv, Loops
<1>b. OutsOK' /\ UniqueNames' /\ staged \ {f} \subseteq staged' /\ \A w : Keeps(w)
  BY <1>0, <1>a, PromoteKeeps, Zenon
<1>1. TypeOK'
  <2>1. JobOK'
    <3>1. CASE FlushErr
      BY <3>1, EndOK, Zenon DEF IInv
    <3>2. CASE ~FlushErr
      BY <3>2, <1>0, Zenon DEF IInv, TypeOK, JobOK
    <3>. QED
      BY <3>1, <3>2, Zenon
  <2>2. WalOK' /\ BooksOK'
    BY <1>0, Zenon DEF IInv, TypeOK, WalOK, BooksOK
  <2>. QED
    BY <1>0, <1>b, <2>1, <2>2, TypeParts, Zenon DEF IInv
<1>2. AllCovered'
  BY <1>0, <1>b, AllCoveredKept, Zenon DEF IInv
<1>3. Watermarks' /\ ActiveTop' /\ NoGap' /\ OutputComplete'
  BY <1>0, Zenon DEF IInv, Watermarks, ActiveTop, NoGap, OutputComplete, InFlush, FlushErr
<1>4. Loops'
  BY <1>0, <1>b, Zenon DEF IInv, Loops, FlushErr
<1>5. Histories' /\ Gone' /\ ShortEmpty'
  BY <1>0, Zenon DEF IInv, Histories, Gone, Firm, ShortEmpty
<1>. QED
  BY <1>1, <1>2, <1>3, <1>4, <1>5, <1>b, Zenon DEF IInv

\* The flush deletes only segments the durable manifest covers.
LEMMA DeleteSegmentStep ==
  ASSUME LeastNumber, IInv, DeleteSegment
  PROVE  IInv'
<1> DEFINE id == Min(todo)
<1>a. todo # {} => id \in todo /\ id \in Ids
  BY MinProp, Zenon DEF IInv, TypeOK
<1>0. /\ UNCHANGED <<outs, mani, hist, run>> /\ pc = "promote" /\ OneMishap
      /\ UNCHANGED wal \/ SyncWal \/ (todo # {} /\ Unlink(id))
      /\ \/ /\ todo # {} /\ todo' = todo \ {id}
            /\ UNCHANGED <<pc, failures, consumed, met, out, next>>
         \/ FlushErr \/ FlushOk
  BY Zenon DEF DeleteSegment, FlushErr, FlushOk, OneMishap
<1> HIDE DEF id
<1>1. /\ WalOK' /\ Gone' /\ Histories' /\ AllCovered' /\ UniqueNames' /\ ShortEmpty'
      /\ files' \subseteq files /\ files \ {id} \subseteq files'
      /\ files' # files => todo # {}
  <2>1. CASE UNCHANGED wal \/ SyncWal
    <3>1. Shelves(id) /\ files' = files
      BY <2>1, Zenon DEF Shelves, SyncWal
    <3>. QED
      BY <1>0, <3>1, ShelvesKeeps, Zenon
  <2>2. CASE todo # {} /\ Unlink(id)
    <3>1. id <= manifestDur
      BY <1>0, <1>a, <2>2, Zenon DEF IInv, Loops
    <3>2. Shelves(id)
      BY <1>a, <2>2, <3>1, Zenon DEF Shelves
    <3>. QED
      BY <1>0, <2>2, <3>2, ShelvesKeeps, Zenon
  <2>. QED
    BY <1>0, <2>1, <2>2, Zenon
<1>2. TypeOK'
  <2>1. JobOK'
    <3>1. CASE FlushErr \/ FlushOk
      BY <3>1, EndOK, Zenon DEF IInv
    <3>2. CASE ~(FlushErr \/ FlushOk)
      BY <3>2, <1>0, Zenon DEF IInv, TypeOK, JobOK
    <3>. QED
      BY <3>1, <3>2, Zenon
  <2>2. OutsOK' /\ BooksOK'
    BY <1>0, Zenon DEF IInv, TypeOK, OutsOK, BooksOK
  <2>. QED
    BY <1>0, <1>1, <2>1, <2>2, TypeParts, Zenon DEF IInv
<1>3. Watermarks'
  BY <1>0, Zenon DEF IInv, Watermarks, FlushErr, FlushOk
<1>4. ActiveTop'
  <2>1. phase = "up" /\ todo # {} => id <= manifestDur /\ id \in Nat
    BY <1>0, <1>a, SegAssumption DEF IInv, Loops, Ids
  <2>2. phase = "up" /\ todo # {} => id # active
    BY <2>1, Running DEF IInv, ActiveTop
  <2>. QED
    BY <1>0, <1>1, <2>2, Zenon DEF IInv, ActiveTop
<1>5. NoGap' /\ OutputComplete'
  BY <1>0, Zenon DEF NoGap, OutputComplete, InFlush, FlushErr, FlushOk
<1>6. Loops'
  BY <1>0, Zenon DEF IInv, Loops, FlushErr, FlushOk
<1>. QED
  BY <1>1, <1>2, <1>3, <1>4, <1>5, <1>6, Zenon DEF IInv

---------------------------------------------------------------------------
(* Startup. *)

\* Loading the manifest sets the watermark in memory to the one on disk.
LEMMA OpenEngineStep ==
  ASSUME IInv, OpenEngine
  PROVE  IInv'
<1>0. /\ UNCHANGED <<wal, outs, active, failures, todo, consumed, met, next, hist, mishaps>>
      /\ UNCHANGED manifest /\ manifestDur' \in {manifestDur, manifest}
      /\ phase = "down" /\ phase' = "opening" /\ mem' = manifest /\ pc' = "sweep"
      /\ out' = staged
  BY Zenon DEF OpenEngine
<1>1. Firm' = Firm
  BY <1>0, Zenon DEF Firm
<1>2. TypeOK'
  <2>1. WalOK' /\ OutsOK' /\ BooksOK' /\ JobOK' /\ OneMishap
    BY <1>0, Zenon DEF IInv, TypeOK, WalOK, OutsOK, BooksOK, JobOK, OneMishap, Pc
  <2>. QED
    BY <2>1, TypeParts, Zenon DEF IInv
<1>3. Watermarks'
  BY <1>0, SegAssumption DEF IInv, TypeOK, Watermarks
<1>4. Gone'
  <2>1. \A i \in Ids : i <= manifestDur => i <= manifestDur'
    BY <1>0, SegAssumption DEF IInv, TypeOK, Watermarks, Ids
  <2>. QED
    BY <1>0, <1>1, <2>1, Zenon DEF IInv, TypeOK, Gone
<1>5. AllCovered'
  BY <1>0, <1>1, Zenon DEF IInv, AllCovered, Covered
<1>6. ActiveTop' /\ NoGap' /\ OutputComplete' /\ Loops'
  BY <1>0, Zenon DEF IInv, ActiveTop, NoGap, OutputComplete, InFlush, Loops
<1>7. Histories' /\ UniqueNames' /\ ShortEmpty'
  BY <1>0, <1>1, Zenon DEF IInv, Histories, UniqueNames, Distinct, ShortEmpty
<1>. QED
  BY <1>2, <1>3, <1>4, <1>5, <1>6, <1>7, Zenon DEF IInv

\* A job that ends in an error, or goes on, leaves no more than it had: what the
\* sweep's and recovery's steps share.
LEMMA JobOver ==
  ASSUME IInv, OpenErr
  PROVE  Watermarks' => ActiveTop' /\ NoGap' /\ OutputComplete' /\ Loops'
BY Zenon DEF ActiveTop, NoGap, OutputComplete, InFlush, Loops, OpenErr

\* The sweep publishes what the watermark covers and deletes only what it does not.
LEMMA SweepStagedStep ==
  ASSUME NEW f \in staged, IInv, SweepStaged(f)
  PROVE  IInv'
<1>0. /\ UNCHANGED <<wal, mani, hist>> /\ pc = "sweep" /\ OneMishap
      /\ \/ Promote(f) \/ PromoteUnsynced(f) \/ UNCHANGED outs
         \/ /\ ~(f.last <= mem) /\ staged' = staged \ {f} /\ stagedDur' = stagedDur \ {f}
            /\ tmpGhosts' = tmpGhosts \cup {f} /\ UNCHANGED <<series, fresh, seriesGhosts>>
      /\ \/ out' = out \ {f} /\ UNCHANGED <<run, pc, failures, todo, consumed, met, next>>
         \/ phase = "opening" /\ OpenErr
         \/ phase # "opening" /\ FlushErr
  BY Zenon DEF SweepStaged, SweepErr, OneMishap
<1>a. phase # "down" /\ mem' \in {mem, 0} /\ active' \in {active, 0}
  BY <1>0, Zenon DEF IInv, Watermarks, OpenErr, FlushErr
<1>b. OutsOK' /\ UniqueNames' /\ AllCovered'
  <2>1. CASE Promote(f) \/ PromoteUnsynced(f) \/ UNCHANGED outs
    <3>1. OutsOK' /\ UniqueNames' /\ \A w : Keeps(w)
      BY <1>0, <2>1, PromoteKeeps, Zenon
    <3>. QED
      BY <1>0, <1>a, <3>1, AllCoveredKept, Zenon DEF IInv
  <2>2. CASE /\ ~(f.last <= mem) /\ staged' = staged \ {f} /\ stagedDur' = stagedDur \ {f}
             /\ tmpGhosts' = tmpGhosts \cup {f} /\ UNCHANGED <<series, fresh, seriesGhosts>>
    <3>1. OutsOK'
      BY <2>2, Zenon DEF IInv, TypeOK, OutsOK
    <3>2. UniqueNames'
      <4>1. ASSUME NEW h \in stagedDur', NEW g \in tmpGhosts' PROVE ~SameName(h, g)
        <5>1. h \in stagedDur /\ h # f /\ h \in staged
          BY <2>2, <4>1, Zenon DEF IInv, TypeOK
        <5>2. CASE g \in tmpGhosts
          BY <5>1, <5>2, Zenon DEF IInv, UniqueNames
        <5>3. CASE g = f
          BY <5>1, <5>3, Zenon DEF IInv, UniqueNames, Distinct
        <5>. QED
          BY <2>2, <4>1, <5>2, <5>3, Zenon
      <4>. QED
        BY <2>2, <4>1, Zenon DEF IInv, UniqueNames, Distinct
    <3>3. ASSUME NEW w \in Nat, w <= mem PROVE Keeps(w)
      <4>1. Firm' = Firm /\ content' = content /\ loose' = loose
        BY <1>0, Zenon DEF Firm
      <4>2. ~(f.last <= w)
        <5>1. f.last \in Nat /\ mem \in Nat
          BY <1>a, Running, SegAssumption DEF IInv, TypeOK, OutFile, Ids
        <5>. QED
          BY <2>2, <3>3, <5>1
      <4>3. staged' \cup tmpGhosts' = staged \cup tmpGhosts
        BY <2>2, Zenon
      <4>. QED
        BY <2>2, <4>1, <4>2, <4>3, Zenon DEF Keeps
    <3>4. Keeps(mem) /\ Keeps(manifest) /\ Keeps(manifestDur)
      BY <1>a, <3>3, Running
    <3>. QED
      BY <1>0, <1>a, <3>1, <3>2, <3>4, AllCoveredKept, Zenon DEF IInv
  <2>. QED
    BY <1>0, <2>1, <2>2, Zenon
<1>1. TypeOK'
  <2>1. JobOK'
    <3>1. CASE FlushErr \/ OpenErr
      BY <3>1, EndOK, Zenon DEF IInv
    <3>2. CASE ~(FlushErr \/ OpenErr)
      BY <3>2, <1>0, Zenon DEF IInv, TypeOK, JobOK
    <3>. QED
      BY <3>1, <3>2, Zenon
  <2>2. WalOK' /\ BooksOK'
    BY <1>0, Zenon DEF IInv, TypeOK, WalOK, BooksOK
  <2>. QED
    BY <1>0, <1>b, <2>1, <2>2, TypeParts, Zenon DEF IInv
<1>2. Watermarks'
  BY <1>0, Zenon DEF IInv, Watermarks, FlushErr, OpenErr
<1>3. ActiveTop' /\ NoGap' /\ OutputComplete' /\ Loops'
  <2>1. CASE OpenErr
    BY <1>2, <2>1, JobOver, Zenon
  <2>2. CASE ~OpenErr
    BY <1>0, <2>2, Zenon DEF IInv, ActiveTop, NoGap, OutputComplete, InFlush, Loops, FlushErr
  <2>. QED
    BY <2>1, <2>2, Zenon
<1>4. Histories' /\ Gone'
  <2>1. Firm' = Firm
    BY <1>0, Zenon DEF Firm
  <2>2. UNCHANGED <<files, content, loose, unlinked, aside, manifestDur, accepted, stable, volatile>>
    BY <1>0, Zenon
  <2>. QED
    BY <2>1, <2>2, Zenon DEF IInv, Histories, Gone
<1>5. ShortEmpty'
  <2>1. 0 \notin Ids
    BY SegAssumption DEF Ids
  <2>. QED
    BY <1>0, <1>a, <2>1, Zenon DEF IInv, ShortEmpty
<1>. QED
  BY <1>1, <1>2, <1>3, <1>4, <1>5, <1>b, Zenon DEF IInv

\* Listing the uncommitted files of series/, and leaving the sweep.
LEMMA SweepOutputStep ==
  ASSUME IInv, SweepOutput \/ SweepDone
  PROVE  IInv'
<1>0. /\ UNCHANGED <<wal, outs, mani, run, failures, todo, consumed, met, next, hist, mishaps>>
      /\ \/ pc = "sweep" /\ pc' = "orphans" /\ out' = {f \in series : f.last > mem}
         \/ /\ pc = "orphans" /\ out' = out
            /\ pc' = IF phase = "opening" THEN "recover" ELSE "decode"
  BY Zenon DEF SweepOutput, SweepDone
<1>1. WalOK' /\ OutsOK' /\ Histories' /\ Gone' /\ AllCovered' /\ UniqueNames' /\ ShortEmpty'
  BY <1>0, QuietBooks, Zenon
<1>2. TypeOK'
  <2>1. JobOK' /\ BooksOK' /\ OneMishap
    BY <1>0, Zenon DEF IInv, TypeOK, JobOK, BooksOK, OneMishap, Pc
  <2>. QED
    BY <1>1, <2>1, TypeParts, Zenon DEF IInv
<1>3. Watermarks' /\ ActiveTop'
  BY <1>0, Zenon DEF IInv, Watermarks, ActiveTop
<1>4. NoGap'
  BY <1>0, Zenon DEF IInv, NoGap, InFlush
<1>5. OutputComplete'
  BY <1>0, Zenon DEF OutputComplete, InFlush
<1>6. Loops'
  BY <1>0, Zenon DEF Loops
<1>. QED
  BY <1>1, <1>2, <1>3, <1>4, <1>5, <1>6, Zenon DEF IInv

\* Only files above the watermark are removed from series/.
LEMMA SweepOrphanStep ==
  ASSUME NEW f \in series, IInv, SweepOrphan(f)
  PROVE  IInv'
<1>0. /\ UNCHANGED <<wal, staged, stagedDur, tmpGhosts, mani, run, pc, failures, todo,
                     consumed, met, next, hist>>
      /\ pc = "orphans" /\ OneMishap /\ f \in out /\ out' = out \ {f}
      /\ fresh' = fresh \ {f} /\ seriesGhosts' \subseteq seriesGhosts \cup {f}
      /\ series \ {f} \subseteq series' /\ series' \subseteq (series \ {f}) \cup {Stray(f)}
  BY Zenon DEF SweepOrphan, OneMishap
<1>a. /\ f.last > mem /\ phase # "down" /\ f.last \in Nat /\ f \in OutFile
      /\ Stray(f) \in OutFile /\ SameName(f, Stray(f))
  <2>1. f.last > mem /\ phase # "down" /\ f \in OutFile
    BY <1>0, Zenon DEF IInv, TypeOK, Loops, Watermarks
  <2>2. f.last \in Nat
    BY <2>1, SegAssumption DEF OutFile, Ids
  <2>3. Stray(f) \in OutFile /\ SameName(f, Stray(f))
    BY <2>1 DEF OutFile, Stray, SameName
  <2>. QED
    BY <2>1, <2>2, <2>3, Zenon
<1>b. Firm' = Firm
  BY <1>0, Zenon DEF Firm
<1>1. TypeOK'
  <2>1. OutsOK'
    BY <1>0, <1>a, Zenon DEF IInv, TypeOK, OutsOK
  <2>2. JobOK' /\ WalOK' /\ BooksOK'
    BY <1>0, Zenon DEF IInv, TypeOK, JobOK, WalOK, BooksOK
  <2>. QED
    BY <1>0, <2>1, <2>2, TypeParts, Zenon DEF IInv
<1>2. AllCovered'
  <2>1. ASSUME NEW w \in Nat, w <= mem PROVE Keeps(w)
    <3>1. ~(f.last <= w)
      BY <2>1, <1>a, Running
    <3>. QED
      BY <1>0, <1>b, <3>1, Zenon DEF Keeps
  <2>2. Keeps(mem) /\ Keeps(manifest) /\ Keeps(manifestDur)
    BY <1>a, <2>1, Running
  <2>. QED
    BY <1>0, <2>2, AllCoveredKept, Zenon DEF IInv
<1>3. UniqueNames'
  <2>1. Distinct(series')
    <3>1. \A g \in series : SameName(Stray(f), g) \/ SameName(g, Stray(f)) => g = f
      BY <1>a, Zenon DEF IInv, UniqueNames, Distinct, SameName
    <3>. QED
      BY <1>0, <3>1, Zenon DEF IInv, UniqueNames, Distinct
  <2>. QED
    BY <1>0, <2>1, Zenon DEF IInv, UniqueNames, Distinct
<1>4. Watermarks' /\ ActiveTop' /\ NoGap' /\ OutputComplete' /\ Loops'
  BY <1>0, Zenon DEF IInv, Watermarks, ActiveTop, NoGap, OutputComplete, InFlush, Loops
<1>5. Histories' /\ Gone' /\ ShortEmpty'
  BY <1>0, <1>b, Zenon DEF IInv, Histories, Gone, ShortEmpty
<1>. QED
  BY <1>1, <1>2, <1>3, <1>4, <1>5, Zenon DEF IInv

\* The next segment id is above every file and the watermark.
LEMMA RecoverListStep ==
  ASSUME LeastNumber, IInv, RecoverList
  PROVE  IInv'
<1>0. /\ UNCHANGED <<wal, outs, manifest, run, failures, consumed, met, out, hist, mishaps>>
      /\ pc = "recover" /\ pc' = "purge" /\ manifestDur' = manifest
      /\ next' = Max(files \cup {mem}) + 1 /\ todo' = {i \in files : i <= mem}
  BY Zenon DEF RecoverList
<1>d. /\ next' \in 1..(MaxSeg + 1) /\ next' > mem
      /\ \A i \in files : i < next'
  <2>1. files \cup {mem} \in SUBSET (0..MaxSeg)
    BY SegAssumption DEF IInv, TypeOK, Ids
  <2>2. /\ Max(files \cup {mem}) \in files \cup {mem}
        /\ \A i \in files \cup {mem} : Max(files \cup {mem}) >= i
    BY <2>1, MaxProp, Zenon
  <2> DEFINE m == Max(files \cup {mem})
  <2>3. /\ m \in 0..MaxSeg /\ m >= mem /\ \A i \in files : m >= i
    BY <2>1, <2>2, Zenon
  <2>4. next' = m + 1
    BY <1>0, Zenon
  <2> HIDE DEF m
  <2>. QED
    BY <2>1, <2>3, <2>4, SegAssumption
<1>1. /\ WalOK' /\ OutsOK' /\ BooksOK' /\ Histories' /\ Gone' /\ AllCovered'
      /\ UniqueNames' /\ ShortEmpty'
  BY <1>0, DurableBooks, Zenon
<1>2. TypeOK'
  <2>1. JobOK' /\ OneMishap
    BY <1>0, <1>d, Zenon DEF IInv, TypeOK, JobOK, OneMishap, Pc
  <2>. QED
    BY <1>1, <2>1, TypeParts, Zenon DEF IInv
<1>3. Watermarks'
  <2>1. manifest <= manifest
    BY SegAssumption DEF IInv, TypeOK
  <2>. QED
    BY <1>0, <2>1, Zenon DEF IInv, Watermarks, Loops
<1>4. ActiveTop' /\ NoGap' /\ OutputComplete'
  BY <1>0, Zenon DEF IInv, ActiveTop, NoGap, OutputComplete, InFlush, Loops
<1>5. Loops'
  BY <1>0, <1>d, Zenon DEF IInv, Loops, Watermarks
<1>. QED
  BY <1>1, <1>2, <1>3, <1>4, <1>5, Zenon DEF IInv

\* Recovery deletes only segments the durable manifest covers.
LEMMA RecoverPurgeStep ==
  ASSUME LeastNumber, IInv, RecoverPurge
  PROVE  IInv'
<1> DEFINE id == Min(todo)
<1>a. todo # {} => id \in todo /\ id \in Ids
  BY MinProp, Zenon DEF IInv, TypeOK
<1>0. /\ UNCHANGED <<outs, mani, hist>> /\ pc = "purge" /\ OneMishap
      /\ \/ /\ todo = {} /\ pc' = "tail" /\ consumed' = {}
            /\ UNCHANGED wal \/ SyncWal
            /\ UNCHANGED <<run, failures, todo, met, out, next>>
         \/ /\ todo # {} /\ Unlink(id) /\ todo' = todo \ {id}
            /\ consumed' = consumed \cup {id}
            /\ UNCHANGED <<run, pc, failures, met, out, next>>
         \/ OpenErr /\ UNCHANGED wal
  BY Zenon DEF RecoverPurge, OneMishap
<1>b. mem' \in {mem, 0} /\ active' \in {active, 0} /\ phase = "opening"
  BY <1>0, Zenon DEF OpenErr, IInv, Loops
<1> HIDE DEF id
<1>1. /\ WalOK' /\ Gone' /\ Histories' /\ AllCovered' /\ UniqueNames' /\ ShortEmpty'
      /\ files' \subseteq files
  <2>1. CASE UNCHANGED wal \/ SyncWal
    <3>1. Shelves(id)
      BY <2>1, Zenon DEF Shelves
    <3>. QED
      BY <1>0, <1>b, <3>1, ShelvesKeeps, Zenon
  <2>2. CASE todo # {} /\ Unlink(id)
    <3>1. id <= manifestDur
      BY <1>0, <1>a, <2>2, Zenon DEF IInv, Loops
    <3>2. Shelves(id)
      BY <1>a, <2>2, <3>1, Zenon DEF Shelves
    <3>. QED
      BY <1>0, <1>b, <3>2, ShelvesKeeps, Zenon
  <2>. QED
    BY <1>0, <2>1, <2>2, Zenon
<1>2. TypeOK'
  <2>1. JobOK'
    <3>1. CASE OpenErr
      BY <3>1, EndOK, Zenon DEF IInv
    <3>2. CASE ~OpenErr
      BY <3>2, <1>0, <1>a, Zenon DEF IInv, TypeOK, JobOK, Pc
    <3>. QED
      BY <3>1, <3>2, Zenon
  <2>2. OutsOK' /\ BooksOK'
    BY <1>0, Zenon DEF IInv, TypeOK, OutsOK, BooksOK
  <2>. QED
    BY <1>0, <1>1, <2>1, <2>2, TypeParts, Zenon DEF IInv
<1>3. Watermarks'
  BY <1>0, Zenon DEF IInv, Watermarks, OpenErr
<1>4. ActiveTop' /\ NoGap' /\ OutputComplete' /\ Loops'
  <2>1. CASE OpenErr
    BY <1>3, <2>1, JobOver, Zenon
  <2>2. CASE ~OpenErr
    BY <1>0, <1>1, <1>b, <2>2, Zenon
       DEF IInv, ActiveTop, NoGap, OutputComplete, InFlush, Loops
  <2>. QED
    BY <2>1, <2>2, Zenon
<1>. QED
  BY <1>1, <1>2, <1>3, <1>4, Zenon DEF IInv

\* The tail that recovery removes is empty, or else set aside.
LEMMA RecoverTailStep ==
  ASSUME LeastNumber, IInv, RecoverTail
  PROVE  IInv'
<1> DEFINE id == Max(files)
<1>a. files # {} => id \in files /\ id \in Ids
  <2>1. files \in SUBSET (0..MaxSeg) /\ files \subseteq Ids
    BY SegAssumption DEF IInv, TypeOK, Ids
  <2>. QED
    BY <2>1, MaxProp, Zenon
<1>0. /\ UNCHANGED <<outs, mani, hist>> /\ pc = "tail" /\ OneMishap
      /\ \/ UNCHANGED wal
         \/ /\ files # {} /\ hdr[id] = "short"
            /\ Unlink(id) \/ UnlinkSynced(id)
         \/ files # {} /\ (SetAside(id) \/ SetAsideUnsynced(id))
      /\ \/ pc' = "create" /\ UNCHANGED <<run, failures, todo, consumed, met, out, next>>
         \/ OpenErr
  BY Zenon DEF RecoverTail, OneMishap
<1>b. mem' \in {mem, 0} /\ active' \in {active, 0} /\ phase = "opening"
  BY <1>0, Zenon DEF OpenErr, IInv, Loops
<1> HIDE DEF id
<1>1. /\ WalOK' /\ Gone' /\ Histories' /\ AllCovered' /\ UniqueNames' /\ ShortEmpty'
      /\ files' \subseteq files
  <2>1. Shelves(id)
    BY <1>0, <1>a, Zenon DEF Shelves, IInv, ShortEmpty
  <2>. QED
    BY <1>0, <1>b, <2>1, ShelvesKeeps, Zenon
<1>2. TypeOK'
  <2>1. JobOK'
    <3>1. CASE OpenErr
      BY <3>1, EndOK, Zenon DEF IInv
    <3>2. CASE ~OpenErr
      BY <3>2, <1>0, Zenon DEF IInv, TypeOK, JobOK, Pc
    <3>. QED
      BY <3>1, <3>2, Zenon
  <2>2. OutsOK' /\ BooksOK'
    BY <1>0, Zenon DEF IInv, TypeOK, OutsOK, BooksOK
  <2>. QED
    BY <1>0, <1>1, <2>1, <2>2, TypeParts, Zenon DEF IInv
<1>3. Watermarks'
  BY <1>0, Zenon DEF IInv, Watermarks, OpenErr
<1>4. ActiveTop' /\ NoGap' /\ OutputComplete' /\ Loops'
  <2>1. CASE OpenErr
    BY <1>3, <2>1, JobOver, Zenon
  <2>2. CASE ~OpenErr
    BY <1>0, <1>1, <1>b, <2>2, Zenon
       DEF IInv, ActiveTop, NoGap, OutputComplete, InFlush, Loops
  <2>. QED
    BY <2>1, <2>2, Zenon
<1>. QED
  BY <1>1, <1>2, <1>3, <1>4, Zenon DEF IInv

\* The first segment of a run, created or half created.
LEMMA OpenWriterStep ==
  ASSUME IInv, OpenWriter
  PROVE  IInv'
<1>a. /\ phase = "opening" /\ next \in Ids \ files /\ next > mem
      /\ next > manifestDur /\ \A i \in files : i < next
  <2>1. /\ pc = "create" /\ next <= MaxSeg /\ phase = "opening"
        /\ next > mem /\ \A i \in files : i < next
    BY Zenon DEF IInv, Loops, OpenWriter
  <2>2. next \in 1..(MaxSeg + 1) /\ files \subseteq Ids
    BY Zenon DEF IInv, TypeOK
  <2>3. manifestDur \in Nat /\ mem \in Nat /\ manifestDur <= mem
    <3>1. phase # "down"
      BY <2>1
    <3>. QED
      BY <3>1, Running
  <2>4. next \in Ids /\ next > manifestDur
    BY <2>1, <2>2, <2>3, SegAssumption DEF Ids
  <2>5. next \notin files
    BY <2>1, <2>2, SegAssumption DEF Ids
  <2>. QED
    BY <2>1, <2>4, <2>5, Zenon
<1>0. /\ UNCHANGED <<outs, mani, hist>> /\ OneMishap
      /\ \/ /\ Create(next, "ok", Ids) /\ phase' = "up" /\ active' = next
            /\ UNCHANGED <<mem, failures>> /\ pc' = "idle" /\ Rest
         \/ OpenErr /\ \E h \in {"ok", "short"} : Create(next, h, {next})
  BY Zenon DEF OpenWriter, OneMishap
<1>b. PICK h \in {"ok", "short"}, S \in SUBSET Ids :
        next \in S /\ Create(next, h, S) /\ (h = "ok" \/ OpenErr)
  BY <1>0, <1>a, Zenon
<1>c. /\ WalOK' /\ Gone' /\ files' = files \cup {next}
      /\ content'[next] = {} /\ hdr'[next] = h
      /\ \A i \in Ids \ {next} : content'[i] = content[i] /\ hdr'[i] = hdr[i]
      /\ Firm \subseteq Firm' /\ content[next] \subseteq Firm'
      /\ \A i \in loose : i \in loose' \/ content[i] \subseteq Firm'
  <2>1. h \in HdrState /\ manifestDur' = manifestDur
    BY <1>0, Zenon DEF HdrState
  <2>. QED
    BY <1>a, <1>b, <2>1, CreateEffect, Zenon DEF IInv
<1>d. mem' \in {mem, 0} /\ active' \in {0, next} /\ (active' = next => h = "ok")
  <2>1. next # 0
    BY <1>a, SegAssumption DEF Ids
  <2>. QED
    BY <1>0, <1>b, <2>1, Zenon DEF OpenErr
<1>1. TypeOK'
  <2>1. next \in 0..MaxSeg /\ 1 \in 1..(MaxSeg + 1)
    BY <1>a, SegAssumption DEF Ids
  <2>2. JobOK'
    <3>1. CASE OpenErr
      BY <3>1, EndOK, Zenon DEF IInv
    <3>2. CASE ~OpenErr
      BY <3>2, <1>0, <2>1, Zenon DEF IInv, TypeOK, JobOK, Pc
    <3>. QED
      BY <3>1, <3>2, Zenon
  <2>3. OutsOK' /\ BooksOK'
    BY <1>0, Zenon DEF IInv, TypeOK, OutsOK, BooksOK
  <2>. QED
    BY <1>0, <1>c, <2>2, <2>3, TypeParts, Zenon DEF IInv
<1>2. Watermarks'
  BY <1>0, <1>a, Zenon DEF IInv, Watermarks, OpenErr
<1>3. Histories'
  <2>1. ASSUME NEW r \in stable PROVE r \in Firm' \/ \E i \in Ids : r \in content'[i]
    <3>1. CASE r \in Firm
      BY <3>1, <1>c, Zenon
    <3>2. CASE r \notin Firm
      BY <3>2, <1>c, Zenon DEF IInv, Histories
    <3>. QED
      BY <3>1, <3>2, Zenon
  <2>. QED
    BY <2>1, <1>0, Zenon DEF IInv, Histories
<1>5. AllCovered'
  <2>1. \A i \in Ids : content'[i] \subseteq content[i]
    BY <1>c, Zenon
  <2>2. \A i \in loose : i \in loose' \/ content'[i] \subseteq Firm'
    BY <1>c, <2>1, Zenon DEF IInv, TypeOK
  <2>3. Keeps(mem) /\ Keeps(manifest) /\ Keeps(manifestDur)
    BY <1>0, <1>c, <2>1, <2>2, Zenon DEF Keeps
  <2>. QED
    BY <1>0, <1>d, <2>3, AllCoveredKept, Zenon DEF IInv
<1>6. UniqueNames'
  BY <1>0, Zenon DEF IInv, UniqueNames, Distinct
<1>7. ShortEmpty'
  <2>1. 0 \notin Ids
    BY SegAssumption DEF Ids
  <2>2. h = "ok" => hdr'[next] # "short"
    BY <1>c
  <2>. QED
    BY <1>c, <1>d, <2>1, <2>2, Zenon DEF IInv, ShortEmpty
<1>8. ActiveTop'
  <2>1. \A i \in files' : i <= next + 1
    BY <1>a, <1>c, SegAssumption DEF IInv, TypeOK, Ids
  <2>. QED
    BY <2>1, <1>0, <1>a, <1>c, Zenon DEF ActiveTop, OpenErr
<1>9. NoGap' /\ OutputComplete'
  BY <1>0, Zenon DEF NoGap, OutputComplete, InFlush, OpenErr
<1>10. Loops'
  BY <1>0, Zenon DEF Loops, OpenErr
<1>. QED
  BY <1>1, <1>2, <1>3, <1>c, <1>5, <1>6, <1>7, <1>8, <1>9, <1>10, Zenon DEF IInv
============================================================================
