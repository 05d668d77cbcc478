------------------------------ MODULE DirLock ------------------------------
(***************************************************************************)
(* wal/recovery.rs's DirLock: advisory ownership of a data directory by a  *)
(* LOCK file that holds the owner's pid and whose age is the time since    *)
(* the last write; the WAL committer rewrites it while the engine runs.    *)
(*                                                                         *)
(* Processes stand for their pids, whose decimal forms differ in length by *)
(* at most one: a pid written over another then replaces it.  Opening the  *)
(* file, with truncation, and writing the pid are two steps.  Time moves   *)
(* only by Tick.                                                           *)
(***************************************************************************)
EXTENDS Naturals, FiniteSets

CONSTANTS
  Proc,        \* engine processes
  Stale,       \* LOCK_STALE_MS, in ticks
  Absent,      \* no LOCK file
  Empty,       \* a LOCK file without a pid
  HazardSets,  \* what may happen together: "overlap": starts overlap; "stall": a
               \* live process lets the lock go stale; "force": --force-unlock
  MaxMishaps   \* bound: kill -9, failed writes and failed starts

ASSUME LockAssumption ==
  /\ Stale \in Nat \ {0} /\ MaxMishaps \in Nat
  /\ HazardSets \subseteq SUBSET {"overlap", "stall", "force"}
  /\ Absent # Empty /\ {Absent, Empty} \cap Proc = {}

VARIABLES
  hazards, \* those of HazardSets that this history may meet
  file,    \* what LOCK holds
  age,     \* ticks since it was last written, up to Stale
  pc,      \* where each process is
  unlinked,\* those whose open descriptor is of a LOCK file since removed
  mishaps  \* mishaps so far

vars == <<hazards, file, age, pc, unlinked, mishaps>>

Init ==
  /\ hazards \in HazardSets
  /\ file = Absent /\ age = 0
  /\ pc = [p \in Proc |-> "idle"] /\ unlinked = {}
  /\ mishaps = 0

Goto(p, l) == pc' = [pc EXCEPT ![p] = l]
Write(f) == file' = f /\ age' = 0
Mishap == mishaps < MaxMishaps /\ mishaps' = mishaps + 1

\* Where a process is inside acquire, where it holds the lock, and where it has
\* opened the file to write its pid.
Acquiring == {"made", "checked", "taking", "wrote"}
Owning == {"starting", "running", "beating", "closing"}
Writing == {"made", "taking", "beating"}

\* The start of acquire.
Start(p) ==
  /\ pc[p] = "idle"
  /\ "overlap" \in hazards \/ \A q \in Proc : pc[q] \notin Acquiring
----------------------------------------------------------------------------
(* acquire                                                                 *)

\* create_new succeeds.
Create(p) ==
  /\ Start(p) /\ file = Absent
  /\ Write(Empty) /\ Goto(p, "made")
  /\ UNCHANGED <<hazards, unlinked, mishaps>>

\* write_pid, after create_new, in a takeover or in a heartbeat, whether or not
\* the file is still the one with the name.  It may fail: in acquire that is its
\* error, in a heartbeat it is only logged.
WritePid(p) ==
  /\ pc[p] \in Writing /\ unlinked' = unlinked \ {p}
  /\ \/ /\ Goto(p, CASE pc[p] = "made"    -> "starting"
                      [] pc[p] = "taking"  -> "wrote"
                      [] pc[p] = "beating" -> "running")
        /\ IF p \in unlinked THEN UNCHANGED <<file, age>> ELSE Write(p)
        /\ UNCHANGED mishaps
     \/ /\ Mishap /\ Goto(p, IF pc[p] = "beating" THEN "running" ELSE "idle")
        /\ UNCHANGED <<file, age>>
  /\ UNCHANGED hazards

\* The values of acquire's force_unlock.
Forced == IF "force" \in hazards THEN BOOLEAN ELSE {FALSE}

\* Mutant: a lock is stale one tick early.
CheckEarly(p) ==
  /\ Start(p) /\ file # Absent
  /\ \E force_unlock \in Forced :
       Goto(p, IF age >= Stale - 1 \/ force_unlock THEN "checked" ELSE "idle")
  /\ UNCHANGED <<hazards, file, age, unlinked, mishaps>>

\* Mutant: the file is opened with truncation before it is looked at.
CheckTruncating(p) ==
  /\ Start(p) /\ file # Absent
  /\ \E force_unlock \in Forced :
       IF age >= Stale \/ force_unlock
       THEN Goto(p, "checked") /\ UNCHANGED <<file, age>>
       ELSE Write(Empty) /\ UNCHANGED pc
  /\ UNCHANGED <<hazards, unlinked, mishaps>>

\* The file exists: only a stale lock may be taken over, or any by force;
\* otherwise acquire returns Locked.
Check(p) ==
  /\ Start(p) /\ file # Absent
  /\ \E force_unlock \in Forced :
       Goto(p, IF age >= Stale \/ force_unlock THEN "checked" ELSE "idle")
  /\ UNCHANGED <<hazards, file, age, unlinked, mishaps>>

\* The takeover truncates the file.  One that is gone is acquire's error.
TakeOver(p) ==
  /\ pc[p] = "checked"
  /\ \/ file # Absent /\ Write(Empty) /\ Goto(p, "taking")
     \/ file = Absent /\ Goto(p, "idle") /\ UNCHANGED <<file, age>>
  /\ UNCHANGED <<hazards, unlinked, mishaps>>

\* The pid is read back.
ReadBack(p) ==
  /\ pc[p] = "wrote"
  /\ Goto(p, IF file = p THEN "starting" ELSE "idle")
  /\ UNCHANGED <<hazards, file, age, unlinked, mishaps>>
----------------------------------------------------------------------------
(* The engine                                                              *)

\* Engine::open gets as far as spawning the committer, or fails and drops
\* the lock.
Open(p) ==
  /\ pc[p] = "starting"
  /\ \/ Goto(p, "running") /\ UNCHANGED mishaps
     \/ Mishap /\ Goto(p, "closing")
  /\ UNCHANGED <<hazards, file, age, unlinked>>

\* touch_lock, by the committer, truncates the file: nothing is checked, and a
\* missing file is not created.
Heartbeat(p) ==
  /\ pc[p] = "running" /\ file # Absent
  /\ Write(Empty) /\ Goto(p, "beating")
  /\ UNCHANGED <<hazards, unlinked, mishaps>>

\* The committer has been joined.
Close(p) ==
  /\ pc[p] = "running" /\ Goto(p, "closing")
  /\ UNCHANGED <<hazards, file, age, unlinked, mishaps>>

\* Mutant: drop removes the lock unread.
DropReadAny(p) ==
  /\ pc[p] = "closing" /\ Goto(p, "removing")
  /\ UNCHANGED <<hazards, file, age, unlinked, mishaps>>

\* Drop: a lock that is not ours is left alone.
DropRead(p) ==
  /\ pc[p] = "closing" /\ Goto(p, IF file = p THEN "removing" ELSE "idle")
  /\ UNCHANGED <<hazards, file, age, unlinked, mishaps>>

\* Drop's remove_file, of whatever has the name by now.
Remove(p) ==
  /\ pc[p] = "removing" /\ Goto(p, "idle")
  /\ file' = Absent /\ age' = 0
  /\ unlinked' = {q \in Proc : pc[q] \in Writing}
  /\ UNCHANGED <<hazards, mishaps>>

\* kill -9.
Kill(p) ==
  /\ pc[p] # "idle" /\ Mishap
  /\ Goto(p, "idle") /\ unlinked' = unlinked \ {p}
  /\ UNCHANGED <<hazards, file, age>>

\* Time passes.  Unless processes stall, one that has written the lock acts
\* again before it is stale: LOCK_HEARTBEAT_MS is well under LOCK_STALE_MS.
Tick ==
  /\ file # Absent /\ age < Stale
  /\ "stall" \notin hazards /\ age + 1 >= Stale =>
       \A p \in Proc : pc[p] \in {"idle", "checked"}
  /\ age' = age + 1
  /\ UNCHANGED <<hazards, file, pc, unlinked, mishaps>>

Step(p) ==
  \/ Create(p) \/ WritePid(p) \/ Check(p) \/ TakeOver(p) \/ ReadBack(p)
  \/ Open(p) \/ Heartbeat(p) \/ Close(p) \/ DropRead(p) \/ Remove(p)
  \/ Kill(p)

Next == Tick \/ \E p \in Proc : Step(p)

Spec == Init /\ [][Next]_vars

\* Time passes, a process goes on with what it has begun and a start that
\* was refused is tried again; closing is up to the operator.
FairSpec ==
  /\ Spec /\ WF_vars(Tick)
  /\ \A p \in Proc :
       /\ WF_vars(Create(p) \/ Check(p))
       /\ WF_vars(WritePid(p) \/ TakeOver(p) \/ ReadBack(p) \/ Open(p)
                    \/ DropRead(p) \/ Remove(p))
       /\ WF_vars(Heartbeat(p))
----------------------------------------------------------------------------
(* Properties                                                              *)

\* The shape of the state.
TypeOK ==
  /\ file \in Proc \cup {Absent, Empty} /\ age \in 0..Stale
  /\ pc \in [Proc -> Acquiring \cup Owning \cup {"idle", "removing"}]
  /\ unlinked \subseteq {p \in Proc : pc[p] \in Writing}
  /\ mishaps \in 0..MaxMishaps

\* At most one engine works on a directory, from the return of acquire to the
\* drop of the lock, unless starts overlap, owners stall or one is forced.
OneEngine ==
  hazards = {} =>
    \A p, q \in Proc : pc[p] \in Owning /\ pc[q] \in Owning => p = q

\* When Drop removes the file, it is still the remover's: the read that comes
\* before is not outrun by a takeover, but for those hazards.
RemovesOwn ==
  hazards = {} => \A p \in Proc : pc[p] = "removing" => file = p

\* Why the two hold while starts do not overlap and nobody stalls: a process
\* past its staleness check or holding the lock is alone, its file exists,
\* and once it has written the lock, the lock is not stale.
Alone ==
  /\ TypeOK
  /\ unlinked = {}
  /\ \A p, q \in Proc : pc[p] # "idle" /\ pc[q] # "idle" => p = q
  /\ \A p \in Proc :
       /\ pc[p] # "idle" => file # Absent
       /\ pc[p] \notin {"idle", "checked"} => age < Stale
       /\ pc[p] = "removing" => file = p

LockInv == hazards = {} => Alone

\* A LOCK file does not outlive engines none of which was killed or met an
\* I/O error, whatever takeovers and heartbeats crossed.
CleanExit ==
  mishaps = 0 /\ (\A p \in Proc : pc[p] = "idle") => file = Absent

\* kill -9 self-heals: a lock nobody holds does not keep the directory shut,
\* unless starts overlap for ever, each undoing the other's takeover.
SelfHeals ==
  (hazards = {} /\ file # Absent /\ \A p \in Proc : pc[p] = "idle")
    ~> \E p \in Proc : pc[p] = "running"
=============================================================================
