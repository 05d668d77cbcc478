------------------------------- MODULE Schema -------------------------------
(***************************************************************************)
(* Schema epochs: manifest.rs, the checks of engine.rs and planner.rs that *)
(* use them, the schema a client of client.rs remembers, and the view over *)
(* the files of all epochs (flush/view.rs).                                *)
(*                                                                         *)
(* One series.  A layout is a sequence of keys [name, ty, nullable]; the   *)
(* manifest's history is the sequence of its layouts, epoch e at index     *)
(* e + 1.  A frame carries its epoch and the types of its values, in       *)
(* order; the layout its producer had in mind is history.  Watermark and   *)
(* output files are FlushEngine's subject: here a flush consumes the log.  *)
(***************************************************************************)
EXTENDS Naturals, Sequences, FiniteSets

CONSTANTS
  Layouts,     \* the key lists the configuration may declare
  Rows,        \* the rows producers offer, each the types of its values
  Absent,      \* the configuration without the series
  Stale,       \* no view.sql, or one older than rows now published
  MaxEpoch,    \* u32::MAX
  MaxFrames,   \* bound: frames
  Faults,      \* commit, view (I/O errors), crash, power
  MaxMishaps   \* bound: faults

KeyDef == [name : STRING, ty : STRING, nullable : BOOLEAN]

\* Config::validate refuses a series that declares a key twice.
ASSUME SchemaAssumption ==
  /\ Layouts \subseteq Seq(KeyDef) /\ Rows \subseteq Seq(STRING)
  /\ \A keys \in Layouts : \A i, j \in DOMAIN keys :
       keys[i].name = keys[j].name => i = j
  /\ Absent \notin Layouts /\ Layouts # {}
  /\ {MaxEpoch, MaxFrames, MaxMishaps} \subseteq Nat
  /\ Faults \subseteq {"commit", "view", "crash", "power"}

VARIABLES
  pc,        \* down, commit, renamed, recover, up or views (up, ending a flush)
  conf,      \* the layout the running process is configured with
  mem,       \* the history of the process's manifest
  disk,      \* the history in manifest.json
  safe,      \* the history a power cut would leave there
  wal,       \* frames in the log
  synced,    \* those a power cut would leave
  client,    \* what the client learned: none, or an epoch and a layout
  out,       \* frames in Parquet, each with the layout it was decoded with
  rejected,  \* frames in rejects/
  view,      \* the key columns of view.sql, or Stale
  frames,    \* number of frames made so far
  mishaps    \* number of faults so far

vars == <<pc, conf, mem, disk, safe, wal, synced, client, out, rejected, view,
          frames, mishaps>>

Frame == [epoch : 0..MaxEpoch, keys : Layouts, vals : Rows]
Histories == {h \in Seq(Layouts) : Len(h) <= MaxEpoch + 1}

\* The type invariant: a history has an epoch for each of its entries.
TypeOK ==
  /\ pc \in {"down", "commit", "renamed", "recover", "up", "views"}
  /\ conf \in Layouts \cup {Absent}
  /\ {mem, disk, safe} \subseteq Histories
  /\ wal \subseteq Frame /\ synced \subseteq wal
  /\ client = <<>> \/ client \in [epoch : 0..MaxEpoch, keys : Layouts]
  /\ out \subseteq [frame : Frame, keys : Layouts] /\ rejected \subseteq Frame
  /\ view = Stale \/ view \subseteq [name : STRING, ty : STRING, coalesced : BOOLEAN]
  /\ frames \in 0..MaxFrames /\ mishaps \in 0..MaxMishaps

Init ==
  /\ pc = "down" /\ conf = Absent
  /\ mem = <<>> /\ disk = <<>> /\ safe = <<>>
  /\ wal = {} /\ synced = {} /\ client = <<>> /\ out = {} /\ rejected = {}
  /\ view = Stale /\ frames = 0 /\ mishaps = 0
----------------------------------------------------------------------------
\* What an epoch stands for: the order, names and types of the keys.
Layout(keys) == [i \in DOMAIN keys |-> <<keys[i].name, keys[i].ty>>]

Last(h) == h[Len(h)]

Retypes(old, new) ==
  \E i \in DOMAIN old, j \in DOMAIN new :
    old[i].name = new[j].name /\ old[i].ty # new[j].ty

\* Mutant: only the current epoch is compared.
NoRetypeLast(h, keys) == h # <<>> => ~Retypes(Last(h), keys)

\* check_no_retype: against every epoch the series has had.
NoRetype(h, keys) == \A i \in DOMAIN h : ~Retypes(h[i], keys)

SameLayout(h, keys) == h # <<>> /\ Layout(Last(h)) = Layout(keys)

\* Manifest::reconcile, for a configuration it accepts.
Reconcile(h, keys) ==
  IF keys = Absent THEN h
  ELSE IF SameLayout(h, keys) THEN [h EXCEPT ![Len(h)] = keys]
  ELSE Append(h, keys)

\* Mutant: the epoch is incremented unchecked.
ReconcilableUnchecked(h, keys) == keys # Absent => NoRetype(h, keys)

Reconcilable(h, keys) ==
  keys # Absent =>
    NoRetype(h, keys) /\ (SameLayout(h, keys) \/ Len(h) <= MaxEpoch)

\* matches_schema, after the reader's check of the number of keys.
MatchesSchema(keys, vals) ==
  /\ Len(keys) = Len(vals)
  /\ \A i \in DOMAIN keys : vals[i] \in {keys[i].ty, "null"}

\* Inner::check_row: at ingest, nullability counts too.
CheckRow(keys, vals) ==
  /\ MatchesSchema(keys, vals)
  /\ \A i \in DOMAIN keys : vals[i] = "null" => keys[i].nullable

\* The process ends, and its memory with it.
Down == pc' = "down" /\ conf' = Absent /\ mem' = <<>>

Mishap(kind) ==
  kind \in Faults /\ mishaps < MaxMishaps /\ mishaps' = mishaps + 1
----------------------------------------------------------------------------
\* Mutant: the new epoch is used without being committed.
OpenUncommitted(c) ==
  /\ pc = "down" /\ Reconcilable(disk, c)
  /\ conf' = c /\ mem' = Reconcile(disk, c) /\ pc' = "recover"
  /\ UNCHANGED <<disk, safe, wal, synced, client, out, rejected, view, frames, mishaps>>

\* Engine::open_with loads the manifest and folds the configuration into it; a
\* configuration it cannot accept is refused.
Open(c) ==
  /\ pc = "down" /\ Reconcilable(disk, c)
  /\ conf' = c /\ mem' = Reconcile(disk, c)
  /\ pc' = IF mem' # disk THEN "commit" ELSE "recover"
  /\ UNCHANGED <<disk, safe, wal, synced, client, out, rejected, view, frames, mishaps>>

\* Manifest::commit: the rename, or an error before it.
CommitRename ==
  /\ pc = "commit"
  /\ \/ disk' = mem /\ pc' = "renamed" /\ UNCHANGED <<conf, mem, mishaps>>
     \/ Mishap("commit") /\ Down /\ UNCHANGED disk
  /\ UNCHANGED <<safe, wal, synced, client, out, rejected, view, frames>>

\* Manifest::commit: the fsync of the directory, or an error after the rename.
CommitSync ==
  /\ pc = "renamed"
  /\ \/ safe' = disk /\ pc' = "recover" /\ UNCHANGED <<conf, mem, mishaps>>
     \/ Mishap("commit") /\ Down /\ UNCHANGED safe
  /\ UNCHANGED <<disk, wal, synced, client, out, rejected, view, frames>>

\* Mutant: recovery does not fsync the data directory.
RecoverUnsynced ==
  /\ pc = "recover" /\ pc' = "up"
  /\ UNCHANGED <<conf, mem, disk, safe, wal, synced, client, out, rejected, view,
                 frames, mishaps>>

\* recover fsyncs the data directory, so a manifest an earlier start renamed
\* without its fsync is durable before a frame can name its epochs.
Recover ==
  /\ pc = "recover"
  /\ \/ safe' = disk /\ pc' = "up" /\ UNCHANGED <<conf, mem, mishaps>>
     \/ Mishap("commit") /\ Down /\ UNCHANGED safe
  /\ UNCHANGED <<disk, wal, synced, client, out, rejected, view, frames>>
----------------------------------------------------------------------------
Running == pc \in {"up", "views"}

\* SeriesHandle::epoch
Epoch == Len(mem) - 1

Log(epoch, keys, vals) ==
  /\ frames < MaxFrames /\ frames' = frames + 1
  /\ wal' = wal \cup {[epoch |-> epoch, keys |-> keys, vals |-> vals]}
  /\ UNCHANGED <<pc, conf, mem, disk, safe, synced, client, out, rejected, view,
                 mishaps>>

\* Engine::append and append_batch, of a row check_row accepts.
AppendRow(vals) ==
  /\ Running /\ conf # Absent /\ CheckRow(conf, vals)
  /\ Log(Epoch, conf, vals)

\* Engine::append_raw, of a frame the client stamped with the epoch it knows.
AppendRaw(vals) ==
  /\ Running /\ conf # Absent
  /\ client # <<>> /\ Epoch >= client.epoch
  /\ Log(client.epoch, client.keys, vals)

\* Client::refresh_schema
RefreshSchema ==
  /\ Running /\ conf # Absent
  /\ client' = [epoch |-> Epoch, keys |-> conf]
  /\ UNCHANGED <<pc, conf, mem, disk, safe, wal, synced, out, rejected, view,
                 frames, mishaps>>

\* The committer makes the log durable.
SyncWal ==
  /\ Running /\ synced # wal /\ synced' = wal
  /\ UNCHANGED <<pc, conf, mem, disk, safe, wal, client, out, rejected, view,
                 frames, mishaps>>

\* decode_segment: the frame's epoch is known and its values fit that layout.
Decodes(f) == f.epoch < Len(mem) /\ MatchesSchema(mem[f.epoch + 1], f.vals)

\* Engine::flush: every frame is published or rejected; the commit writes the
\* history again.  A frame whose epoch is known has the view rewritten after it.
Flush ==
  /\ pc = "up" /\ wal # {}
  /\ out' = out \cup {[frame |-> f, keys |-> mem[f.epoch + 1]] :
                        f \in {g \in wal : Decodes(g)}}
  /\ rejected' = rejected \cup {f \in wal : ~Decodes(f)}
  /\ wal' = {} /\ synced' = {} /\ disk' = mem /\ safe' = mem
  /\ pc' = IF \E f \in wal : f.epoch < Len(mem) THEN "views" ELSE "up"
  /\ view' = IF out' = out THEN view ELSE Stale
  /\ UNCHANGED <<conf, mem, client, frames, mishaps>>

Declared(keys) == {keys[i].name : i \in DOMAIN keys}

\* The keys of all epochs, each by its first declaration.
AllKeys(h) ==
  UNION {{h[e][i] : i \in {j \in DOMAIN h[e] :
                             \A d \in 1..(e - 1) : h[e][j].name \notin Declared(h[d])}} :
           e \in DOMAIN h}

\* Mutant: only a key the current epoch lacks is looked up in extra.
ViewSqlLast(h) ==
  {[name |-> k.name, ty |-> k.ty, coalesced |-> k.name \notin Declared(Last(h))] :
     k \in AllKeys(h)}

\* view_sql: a key that some epoch lacks is read from extra where its own column
\* is null.
ViewSql(h) ==
  {[name |-> k.name, ty |-> k.ty,
    coalesced |-> \E e \in DOMAIN h : k.name \notin Declared(h[e])] : k \in AllKeys(h)}

\* regenerate_views, or an error after the commit: a promotion or deletion that
\* fails ends the flush before it, a write that fails is only logged.
RegenerateViews ==
  /\ pc = "views" /\ pc' = "up"
  /\ \/ view' = ViewSql(mem) /\ UNCHANGED mishaps
     \/ Mishap("view") /\ view' = Stale
  /\ UNCHANGED <<conf, mem, disk, safe, wal, synced, client, out, rejected, frames>>

\* Engine::close
Close ==
  /\ pc = "up" /\ Down /\ synced' = wal
  /\ UNCHANGED <<disk, safe, wal, client, out, rejected, view, frames, mishaps>>

\* The process dies; what it wrote stays.
Crash ==
  /\ pc # "down" /\ Mishap("crash") /\ Down
  /\ UNCHANGED <<disk, safe, wal, synced, client, out, rejected, view, frames>>

\* The machine dies: unsynced frames may go, an unsynced rename may revert.
PowerCut ==
  /\ Mishap("power") /\ Down
  /\ disk' \in {disk, safe} /\ safe' = disk'
  /\ \E gone \in SUBSET (wal \ synced) : wal' = wal \ gone
  /\ synced' = wal' /\ view' \in {view, Stale}
  /\ UNCHANGED <<client, out, rejected, frames>>

Next ==
  \/ \E c \in Layouts \cup {Absent} : Open(c)
  \/ CommitRename \/ CommitSync \/ Recover
  \/ \E vals \in Rows : AppendRow(vals) \/ AppendRaw(vals)
  \/ RefreshSchema \/ SyncWal \/ Flush \/ RegenerateViews
  \/ Close \/ Crash \/ PowerCut

Spec == Init /\ [][Next]_vars
----------------------------------------------------------------------------
\* A row is published under the layout its producer encoded it for, across
\* restarts with other configurations, failed commits and power cuts: an epoch
\* is never minted again for other keys (Engine::open_with, recover).
DecodedAsEncoded ==
  \A o \in out : Layout(o.keys) = Layout(o.frame.keys)

\* A row that fits its producer's layout is never rejected for its schema: its
\* epoch stays in the manifest as long as a frame can name it.
NoneUnknown ==
  \A f \in rejected : ~MatchesSchema(f.keys, f.vals)

\* All files of the series can be read together, union by name: a key has one
\* type in all of them, also a key that was removed and comes back
\* (check_no_retype).
OneTypePerKey ==
  \A o, p \in out : ~Retypes(o.keys, p.keys)

\* A view.sql that no fault has kept back shows every published row whole,
\* whatever epochs the series has had: each key the row's file has is a column of
\* its type, and a key that file lacks is looked up in the row's extra (view_sql).
ViewSpansEras ==
  view # Stale =>
    \A o \in out :
      /\ \A i \in DOMAIN o.keys :
           \E c \in view : c.name = o.keys[i].name /\ c.ty = o.keys[i].ty
      /\ \A c \in view : c.name \notin Declared(o.keys) => c.coalesced
----------------------------------------------------------------------------
(* The inductive invariant behind these properties, in named parts. *)

\* History g has all epochs of h, with the layouts they have there.
Extends(h, g) ==
  Len(h) <= Len(g) /\ \A i \in 1..Len(h) : Layout(h[i]) = Layout(g[i])

OneType(h) == \A i, j \in DOMAIN h : ~Retypes(h[i], h[j])

\* Epoch e of history h has the layout of these keys.
Names(h, e, keys) == e < Len(h) /\ Layout(h[e + 1]) = Layout(keys)

\* A history only grows, from the durable one to the process's; while the engine
\* runs they are one, and its last epoch is the configuration's.
Chain ==
  /\ Extends(safe, disk) /\ OneType(disk) /\ OneType(mem)
  /\ pc = "commit" => Extends(disk, mem)
  /\ pc \notin {"down", "commit"} => mem = disk
  /\ Running => safe = disk
  /\ pc # "down" /\ conf # Absent => mem # <<>> /\ Layout(Last(mem)) = Layout(conf)

\* Whatever carries an epoch means by it what the durable history says.
Named ==
  /\ \A f \in wal : Names(safe, f.epoch, f.keys)
  /\ client # <<>> => Names(safe, client.epoch, client.keys)
  /\ \A o \in out : /\ Names(safe, o.frame.epoch, o.frame.keys)
                     /\ Layout(o.keys) = Layout(o.frame.keys)

\* In every state, through every commit, stop and restart, an epoch that a frame,
\* a client or a file carries is in the durable history with the layout meant.
SchemaInv == TypeOK /\ Chain /\ Named
=============================================================================
