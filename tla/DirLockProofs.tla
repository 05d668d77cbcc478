---------------------------- MODULE DirLockProofs ----------------------------
(***************************************************************************)
(* For any set of processes, the directory lock admits one engine, and an  *)
(* engine removes only its own lock, provided that starts do not overlap,  *)
(* that no live process lets the lock go stale and that --force-unlock is  *)
(* not used: hazards = {}.  Processes may be killed anywhere, writes and   *)
(* starts may fail.                                                        *)
(***************************************************************************)
EXTENDS DirLock, TLAPS

\* acquire's three ways in: nobody else is past idle when a process creates
\* the file or finds it stale, and none of its own steps lets another in.
LEMMA AcquireStep ==
  ASSUME hazards = {}, Alone, NEW p \in Proc,
         Create(p) \/ WritePid(p) \/ Check(p) \/ TakeOver(p) \/ ReadBack(p)
  PROVE  Alone'
<1> USE LockAssumption DEF Alone, TypeOK, Goto, Write, Mishap,
                           Acquiring, Owning, Writing
<1>1. CASE Create(p)
  <2>1. \A q \in Proc : pc[q] = "idle"
    BY <1>1 DEF Create
  <2> QED  BY <1>1, <2>1 DEF Create, Start
<1>2. CASE WritePid(p)
  <2>1. CASE Write(p) /\ UNCHANGED mishaps
    <3>1. \/ pc[p] = "made" /\ Goto(p, "starting")
          \/ pc[p] = "taking" /\ Goto(p, "wrote")
          \/ pc[p] = "beating" /\ Goto(p, "running")
      BY <1>2, <2>1, LockAssumption DEF WritePid
    <3> QED  BY <1>2, <2>1, <3>1 DEF WritePid
  <2>2. CASE Mishap /\ UNCHANGED <<file, age>>
    BY <1>2, <2>2 DEF WritePid
  <2> QED  BY <1>2, <2>1, <2>2 DEF WritePid
<1>3. CASE Check(p)
  <2>1. Forced = {FALSE}
    BY DEF Forced
  <2>2. CASE age >= Stale
    <3>1. \A q \in Proc : pc[q] = "idle"
      BY <1>3, <2>2 DEF Check, Start
    <3> QED  BY <1>3, <2>1, <2>2, <3>1 DEF Check, Start
  <2>3. CASE ~ (age >= Stale)
    <3>1. pc' = [pc EXCEPT ![p] = "idle"]
      BY <1>3, <2>1, <2>3 DEF Check
    <3> QED  BY <1>3, <3>1 DEF Check, Start
  <2> QED  BY <2>2, <2>3
<1>4. CASE TakeOver(p)
  BY <1>4 DEF TakeOver
<1>5. CASE ReadBack(p)
  BY <1>5 DEF ReadBack
<1> QED  BY <1>1, <1>2, <1>3, <1>4, <1>5

\* The steps of an engine that holds the lock, and kill -9.
LEMMA OwnerStep ==
  ASSUME hazards = {}, Alone, NEW p \in Proc,
         \/ Open(p) \/ Heartbeat(p) \/ Close(p) \/ DropRead(p) \/ Remove(p)
         \/ Kill(p)
  PROVE  Alone'
<1> USE LockAssumption DEF Alone, TypeOK, Goto, Write, Mishap,
                           Acquiring, Owning, Writing
<1>1. CASE Open(p)
  BY <1>1 DEF Open
<1>2. CASE Heartbeat(p)
  BY <1>2 DEF Heartbeat
<1>3. CASE Close(p)
  BY <1>3 DEF Close
<1>4. CASE DropRead(p)
  BY <1>4 DEF DropRead
<1>5. CASE Remove(p)
  <2>1. \A q \in Proc : q # p => pc[q] = "idle"
    BY <1>5 DEF Remove
  <2>2. pc' = [q \in Proc |-> "idle"] /\ unlinked' = {}
    BY <1>5, <2>1 DEF Remove
  <2> QED  BY <1>5, <2>2 DEF Remove
<1>6. CASE Kill(p)
  BY <1>6 DEF Kill
<1> QED  BY <1>1, <1>2, <1>3, <1>4, <1>5, <1>6

\* Time passes without making a lock stale that a live process has written.
LEMMA TickStep ==
  ASSUME hazards = {}, Alone, Tick
  PROVE  Alone'
  BY LockAssumption DEF Alone, TypeOK, Tick

\* The induction behind the theorem.
LEMMA LockInductive ==
  /\ Init => LockInv
  /\ LockInv /\ [Next]_vars => LockInv'
<1>1. Init => LockInv
  BY LockAssumption DEF Init, LockInv, Alone, TypeOK, Acquiring, Owning, Writing
<1>2. ASSUME LockInv, UNCHANGED vars PROVE LockInv'
  BY <1>2 DEF LockInv, Alone, TypeOK, vars
<1>3. ASSUME LockInv, Next PROVE LockInv'
  <2>1. hazards' = hazards
    BY <1>3 DEF Next, Step, Tick, Create, WritePid, Check, TakeOver, ReadBack, Open,
                Heartbeat, Close, DropRead, Remove, Kill
  <2>2. CASE hazards = {}
    <3>1. Alone
      BY <1>3, <2>2 DEF LockInv
    <3>2. Alone'
      BY <1>3, <2>2, <3>1, AcquireStep, OwnerStep, TickStep DEF Next, Step
    <3> QED  BY <3>2 DEF LockInv
  <2> QED  BY <2>1, <2>2 DEF LockInv
<1> QED  BY <1>1, <1>2, <1>3

\* What the invariant gives.
LEMMA LockInvEnough == LockInv => OneEngine /\ RemovesOwn
  BY DEF LockInv, Alone, OneEngine, RemovesOwn, Owning

\* The invariant holds, for any number of processes, staleness bound and number
\* of kills, I/O errors and failed starts.
LEMMA LockInvariance == Spec => []LockInv
  BY LockInductive, PTL DEF Spec

\* At most one engine is between acquire's return and its Drop, unless starts
\* overlap, a live engine stalls for longer than the staleness bound or the lock
\* is forced.
THEOREM Exclusion == Spec => []OneEngine
  BY LockInvariance, LockInvEnough, PTL

\* Drop's remove_file, which goes by name and comes after the pid was read, removes
\* the remover's own lock and never that of an engine that took over in between,
\* but for the same three hazards.
THEOREM OwnLockRemoved == Spec => []RemovesOwn
  BY LockInvariance, LockInvEnough, PTL

\* Why no LOCK file is left over: without mishaps a file without a pid is open
\* in a process that is about to write it, and a file with a pid has that process
\* somewhere on its way from the write to the removal.
Cared ==
  /\ file \in Proc \cup {Absent, Empty}
  /\ pc \in [Proc -> Acquiring \cup Owning \cup {"idle", "removing"}]
  /\ file = Empty => \E p \in Proc \ unlinked : pc[p] \in Writing
  /\ unlinked \subseteq {p \in Proc : pc[p] \in Writing}
  /\ \A p \in Proc : file = p => pc[p] \in {"wrote", "removing"} \cup Owning

\* Every step of a process without a mishap leaves the file cared for.
LEMMA CaredStep ==
  ASSUME NEW p \in Proc
  PROVE  Cared /\ Step(p) /\ mishaps' = mishaps /\ mishaps = 0 => Cared'
<1>h. HAVE Cared /\ Step(p) /\ mishaps' = mishaps /\ mishaps = 0
<1>0. ~Mishap
  BY <1>h DEF Mishap
<1>1. CASE Create(p)
  BY <1>h, <1>1, LockAssumption DEF Create, Start, Write, Goto, Cared, Acquiring, Owning, Writing
<1>2. CASE WritePid(p)
  <2>1. /\ pc[p] \in Writing /\ unlinked' = unlinked \ {p}
        /\ \E l \in {"starting", "wrote", "running"} : pc' = [pc EXCEPT ![p] = l]
        /\ IF p \in unlinked THEN UNCHANGED file ELSE file' = p
    BY <1>0, <1>2 DEF WritePid, Writing, Goto, Write
  <2> QED  BY <1>h, <2>1, LockAssumption DEF Cared, Acquiring, Owning, Writing
<1>3. CASE Check(p)
  <2>1. /\ pc[p] = "idle" /\ UNCHANGED <<file, unlinked>>
        /\ pc' = [pc EXCEPT ![p] = "checked"] \/ pc' = [pc EXCEPT ![p] = "idle"]
    BY <1>3 DEF Check, Start, Goto
  <2> QED  BY <1>h, <2>1 DEF Cared, Acquiring, Owning, Writing
<1>4. CASE TakeOver(p)
  BY <1>h, <1>4, LockAssumption DEF TakeOver, Write, Goto, Cared, Acquiring, Owning, Writing
<1>5. CASE ReadBack(p)
  BY <1>h, <1>5 DEF ReadBack, Goto, Cared, Acquiring, Owning, Writing
<1>6. CASE Open(p)
  BY <1>h, <1>0, <1>6 DEF Open, Goto, Cared, Acquiring, Owning, Writing
<1>7. CASE Heartbeat(p)
  BY <1>h, <1>7, LockAssumption DEF Heartbeat, Write, Goto, Cared, Acquiring, Owning, Writing
<1>8. CASE Close(p)
  BY <1>h, <1>8 DEF Close, Goto, Cared, Acquiring, Owning, Writing
<1>9. CASE DropRead(p)
  BY <1>h, <1>9 DEF DropRead, Goto, Cared, Acquiring, Owning, Writing
<1>10. CASE Remove(p)
  BY <1>h, <1>10, LockAssumption DEF Remove, Goto, Cared, Acquiring, Owning, Writing
<1> QED  BY <1>h, <1>0, <1>1, <1>2, <1>3, <1>4, <1>5, <1>6, <1>7, <1>8, <1>9, <1>10
         DEF Step, Kill

\* A LOCK file never outlives the engines, however their starts, takeovers and
\* exits cross and whether or not one stalls or is forced, as long as none is
\* killed or meets an I/O error.
THEOREM NothingLeftBehind == Spec => []CleanExit
<1> DEFINE Inv == mishaps \in Nat /\ (mishaps = 0 => Cared)
<1>1. Init => Inv
  BY LockAssumption DEF Init, Cared, Acquiring, Owning, Writing
<1>2. Inv /\ [Next]_vars => Inv'
  <2> SUFFICES ASSUME Inv, [Next]_vars PROVE Inv'
    OBVIOUS
  <2>1. UNCHANGED mishaps \/ Mishap
    BY DEF Next, Step, vars, Tick, Create, WritePid, Check, TakeOver, ReadBack, Open,
           Heartbeat, Close, DropRead, Remove, Kill
  <2>2. CASE Mishap \/ mishaps # 0
    BY <2>1, <2>2 DEF Mishap
  <2>3. CASE mishaps = 0 /\ UNCHANGED mishaps
    <3>1. CASE \E p \in Proc : Step(p)
      BY <2>3, <3>1, CaredStep
    <3>2. CASE UNCHANGED <<file, pc, unlinked>>
      BY <2>3, <3>2 DEF Cared
    <3> QED  BY <3>1, <3>2 DEF Next, vars, Tick
  <2> QED  BY <2>1, <2>2, <2>3
<1>3. Inv => CleanExit
  BY DEF Cared, CleanExit, Owning, Writing
<1> QED  BY <1>1, <1>2, <1>3, PTL DEF Spec
=============================================================================
