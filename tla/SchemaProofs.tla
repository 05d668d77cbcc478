---------------------------- MODULE SchemaProofs ----------------------------
(***************************************************************************)
(* Proofs about Schema.  SchemaInv is inductive: histories only grow, and  *)
(* whatever carries an epoch carries one of the durable history.  What is  *)
(* published and rejected, and what the view shows, follow from it.        *)
(***************************************************************************)
EXTENDS Schema, WellFoundedInduction, TLAPS

\* Two lists of keys with one layout have the same names and types.
LEMMA LayoutFacts ==
  ASSUME NEW a \in Seq(KeyDef), NEW b \in Seq(KeyDef), Layout(a) = Layout(b)
  PROVE  /\ DOMAIN a = DOMAIN b /\ Len(a) = Len(b)
         /\ \A i \in DOMAIN a : a[i].name = b[i].name /\ a[i].ty = b[i].ty
<1>1. DOMAIN Layout(a) = DOMAIN a /\ DOMAIN Layout(b) = DOMAIN b
  BY DEF Layout
<1>2. DOMAIN a = DOMAIN b
  BY <1>1
<1>3. Len(a) = Len(b)
  BY <1>2
<1>4. ASSUME NEW i \in DOMAIN a
      PROVE  a[i].name = b[i].name /\ a[i].ty = b[i].ty
  <2>1. Layout(a)[i] = <<a[i].name, a[i].ty>>
    BY DEF Layout
  <2>2. Layout(b)[i] = <<b[i].name, b[i].ty>>
    BY <1>2 DEF Layout
  <2>. QED
    BY <2>1, <2>2
<1>. QED
  BY <1>2, <1>3, <1>4

\* Whether a key changes its type is a matter of the layouts.
LEMMA RetypesLayout ==
  ASSUME NEW a \in Seq(KeyDef), NEW b \in Seq(KeyDef),
         NEW c \in Seq(KeyDef), NEW d \in Seq(KeyDef),
         Layout(a) = Layout(c), Layout(b) = Layout(d), ~Retypes(a, b)
  PROVE  ~Retypes(c, d)
<1>1. /\ DOMAIN a = DOMAIN c
      /\ \A i \in DOMAIN a : a[i].name = c[i].name /\ a[i].ty = c[i].ty
  BY LayoutFacts
<1>2. /\ DOMAIN b = DOMAIN d
      /\ \A i \in DOMAIN b : b[i].name = d[i].name /\ b[i].ty = d[i].ty
  BY LayoutFacts
<1>. QED
  BY <1>1, <1>2 DEF Retypes

\* No key changes its type in a history that another, sound one extends.
LEMMA OneTypeDown ==
  ASSUME NEW h \in Histories, NEW g \in Histories, Extends(h, g), OneType(g)
  PROVE  OneType(h)
<1>1. h \in Seq(Seq(KeyDef)) /\ g \in Seq(Seq(KeyDef))
  BY SchemaAssumption DEF Histories
<1>2. ASSUME NEW i \in DOMAIN h, NEW j \in DOMAIN h
      PROVE  ~Retypes(h[i], h[j])
  <2>0. i \in 1..Len(h) /\ j \in 1..Len(h) /\ Len(h) <= Len(g)
    BY <1>1 DEF Extends
  <2>a. i \in 1..Len(g) /\ j \in 1..Len(g)
    BY <1>1, <2>0
  <2>b. Layout(g[i]) = Layout(h[i]) /\ Layout(g[j]) = Layout(h[j])
    BY <2>0 DEF Extends
  <2>1. /\ i \in DOMAIN g /\ j \in DOMAIN g
        /\ h[i] \in Seq(KeyDef) /\ h[j] \in Seq(KeyDef)
        /\ g[i] \in Seq(KeyDef) /\ g[j] \in Seq(KeyDef)
    BY <1>1, <2>0, <2>a
  <2>2. ~Retypes(g[i], g[j])
    BY <2>1 DEF OneType
  <2>. QED
    BY <2>1, <2>b, <2>2, RetypesLayout
<1>. QED
  BY <1>2 DEF OneType

\* What an epoch means in a history it means in every longer one.
LEMMA NamesUp ==
  ASSUME NEW h \in Histories, NEW g \in Histories, Extends(h, g),
         NEW e \in Nat, NEW keys, Names(h, e, keys)
  PROVE  Names(g, e, keys)
<1>1. h \in Seq(Layouts) /\ g \in Seq(Layouts)
  BY DEF Histories
<1>2. e + 1 \in 1..Len(h) /\ e < Len(g)
  BY <1>1 DEF Names, Extends
<1>. QED
  BY <1>2 DEF Names, Extends

\* Extension is reflexive and transitive.
LEMMA ExtendsOrder ==
  ASSUME NEW h \in Histories, NEW g \in Histories, NEW k \in Histories
  PROVE  /\ Extends(h, h)
         /\ Extends(h, g) /\ Extends(g, k) => Extends(h, k)
<1>1. h \in Seq(Layouts) /\ g \in Seq(Layouts) /\ k \in Seq(Layouts)
  BY DEF Histories
<1>. QED
  BY <1>1 DEF Extends

\* A list of keys that repeats no name retypes none of its own keys.
LEMMA SelfType ==
  ASSUME NEW c \in Layouts
  PROVE  ~Retypes(c, c)
BY SchemaAssumption DEF Retypes

\* Manifest::reconcile extends the history by at most one epoch, that of the
\* configuration, and lets no key change its type.
LEMMA ReconcileFacts ==
  ASSUME NEW h \in Histories, NEW c \in Layouts \cup {Absent},
         Reconcilable(h, c), OneType(h)
  PROVE  /\ Reconcile(h, c) \in Histories
         /\ Extends(h, Reconcile(h, c)) /\ OneType(Reconcile(h, c))
         /\ c # Absent => /\ Reconcile(h, c) # <<>>
                          /\ Layout(Last(Reconcile(h, c))) = Layout(c)
<1>0. h \in Seq(Layouts) /\ Len(h) <= MaxEpoch + 1 /\ Len(h) \in Nat /\ MaxEpoch \in Nat
  BY SchemaAssumption DEF Histories
<1>1. CASE c = Absent
  BY <1>1, ExtendsOrder DEF Reconcile
<1>2. CASE c # Absent /\ SameLayout(h, c)
  <2> DEFINE g == [h EXCEPT ![Len(h)] = c]
  <2>1. c \in Layouts /\ Len(h) \in 1..Len(h) /\ h # <<>>
    BY <1>0, <1>2 DEF SameLayout
  <2>2. g \in Seq(Layouts) /\ Len(g) = Len(h)
    BY <1>0, <2>1
  <2>3. g \in Histories
    BY <1>0, <2>2 DEF Histories
  <2>4. Layout(h[Len(h)]) = Layout(c)
    BY <1>2 DEF SameLayout, Last
  <2>5. \A i \in 1..Len(h) : Layout(h[i]) = Layout(g[i])
    BY <1>0, <2>1, <2>4
  <2>6. Extends(h, g) /\ Extends(g, h)
    <3>. HIDE DEF g
    <3>. QED
      BY <1>0, <2>2, <2>5 DEF Extends
  <2>7. OneType(g)
    BY <2>3, <2>6, OneTypeDown
  <2>8. g # <<>> /\ Last(g) = c
    BY <1>0, <2>1, <2>2 DEF Last
  <2>9. Reconcile(h, c) = g
    BY <1>2 DEF Reconcile
  <2>. QED
    BY <2>3, <2>6, <2>7, <2>8, <2>9
<1>3. CASE c # Absent /\ ~SameLayout(h, c)
  <2> DEFINE g == Append(h, c)
  <2>1. c \in Layouts /\ Len(h) <= MaxEpoch /\ NoRetype(h, c)
    BY <1>3 DEF Reconcilable
  <2>2. /\ g \in Seq(Layouts) /\ Len(g) = Len(h) + 1
        /\ \A i \in 1..Len(h) : g[i] = h[i]
        /\ g[Len(h) + 1] = c
    BY <1>0, <2>1
  <2>3. g \in Histories
    BY <1>0, <2>1, <2>2 DEF Histories
  <2>4. Extends(h, g)
    BY <1>0, <2>2 DEF Extends
  <2>5. ASSUME NEW i \in DOMAIN g, NEW j \in DOMAIN g
        PROVE  ~Retypes(g[i], g[j])
    <3>1. (i \in DOMAIN h /\ g[i] = h[i]) \/ g[i] = c
      BY <1>0, <2>2
    <3>2. (j \in DOMAIN h /\ g[j] = h[j]) \/ g[j] = c
      BY <1>0, <2>2
    <3>3. \A k \in DOMAIN h : ~Retypes(h[k], c) /\ ~Retypes(c, h[k])
      BY <2>1 DEF NoRetype, Retypes
    <3>. QED
      BY <2>1, <3>1, <3>2, <3>3, SelfType DEF OneType
  <2>6. OneType(g)
    BY <2>5 DEF OneType
  <2>7. g # <<>> /\ Last(g) = c
    BY <1>0, <2>2 DEF Last
  <2>8. Reconcile(h, c) = g
    BY <1>3 DEF Reconcile
  <2>. QED
    BY <2>3, <2>4, <2>6, <2>7, <2>8
<1>. QED
  BY <1>1, <1>2, <1>3

\* What carries an epoch keeps its meaning when the durable history grows.
LEMMA NamedKept ==
  ASSUME TypeOK, Named, safe' \in Histories, Extends(safe, safe'),
         wal' \subseteq wal, client' = client, out' = out
  PROVE  Named'
<1>0. safe \in Histories
  BY DEF TypeOK
<1>1. ASSUME NEW f \in wal'
      PROVE  Names(safe', f.epoch, f.keys)
  <2>1. f \in Frame /\ Names(safe, f.epoch, f.keys)
    BY <1>1 DEF TypeOK, Named
  <2>2. f.epoch \in Nat
    BY <2>1, SchemaAssumption DEF Frame
  <2>. QED
    BY Zenon, <1>0, <2>1, <2>2, NamesUp
<1>2. ASSUME client # <<>>
      PROVE  Names(safe', client.epoch, client.keys)
  <2>1. client.epoch \in Nat
    BY <1>2, SchemaAssumption DEF TypeOK
  <2>. QED
    BY Zenon, <1>0, <1>2, <2>1, NamesUp DEF Named
<1>3. ASSUME NEW o \in out
      PROVE  /\ Names(safe', o.frame.epoch, o.frame.keys)
             /\ Layout(o.keys) = Layout(o.frame.keys)
  <2>1. o.frame.epoch \in Nat
    BY SchemaAssumption DEF TypeOK, Frame
  <2>. QED
    BY Zenon, <1>0, <2>1, NamesUp DEF Named
<1>. QED
  BY Zenon, <1>1, <1>2, <1>3 DEF Named

\* The empty history, a process that is down.
LEMMA DownFacts ==
  /\ <<>> \in Histories /\ OneType(<<>>)
  /\ \A h \in Histories : Extends(<<>>, h)
<1>1. <<>> \in Histories
  BY SchemaAssumption DEF Histories
<1>2. ASSUME NEW h \in Histories
      PROVE  Extends(<<>>, h)
  BY DEF Histories, Extends
<1>. QED
  BY <1>1, <1>2 DEF OneType

\* A fresh data directory.
LEMMA InitSchema ==
  ASSUME Init
  PROVE  SchemaInv /\ NoneUnknown /\ ViewSpansEras
<1>1. TypeOK
  BY DownFacts, SchemaAssumption DEF Init, TypeOK
<1>2. Chain
  BY DownFacts DEF Init, Chain, Running
<1>3. Named /\ NoneUnknown /\ ViewSpansEras
  BY DEF Init, Named, NoneUnknown, ViewSpansEras
<1>. QED
  BY <1>1, <1>2, <1>3 DEF SchemaInv

\* A step that leaves the log, the files and the durable history alone needs only
\* its types and its chain of histories looked at.
LEMMA QuietStep ==
  ASSUME SchemaInv, TypeOK', Chain', UNCHANGED <<safe, wal, client, out>>
  PROVE  SchemaInv'
<1>1. Extends(safe, safe') /\ safe' \in Histories
  BY ExtendsOrder DEF SchemaInv, TypeOK
<1>. QED
  BY <1>1, NamedKept DEF SchemaInv

\* A process that ends leaves an empty memory.
LEMMA DownStep ==
  ASSUME SchemaInv, Down, UNCHANGED <<client, out, rejected, frames>>,
         wal' \subseteq wal, synced' \subseteq wal',
         view' \in {view, Stale}, mishaps' \in 0..MaxMishaps,
         disk' \in {disk, safe}, safe' \in {safe, disk'}
  PROVE  SchemaInv'
<1>0. safe \in Histories /\ disk \in Histories /\ safe' \in Histories
  BY DEF SchemaInv, TypeOK
<1>1. TypeOK'
  BY <1>0, DownFacts DEF SchemaInv, TypeOK, Down
<1>2. Extends(safe, disk) /\ OneType(disk) /\ OneType(safe)
  BY <1>0, OneTypeDown DEF SchemaInv, Chain
<1>3. Extends(safe', disk') /\ OneType(disk')
  BY <1>0, <1>2, ExtendsOrder
<1>4. Chain'
  BY <1>3, DownFacts DEF Chain, Down, Running
<1>5. Extends(safe, safe')
  BY <1>0, <1>2, ExtendsOrder
<1>. QED
  BY <1>0, <1>1, <1>4, <1>5, NamedKept DEF SchemaInv

\* Engine::open_with up to the commit.
LEMMA OpenStep ==
  ASSUME SchemaInv, NEW c \in Layouts \cup {Absent}, Open(c)
  PROVE  SchemaInv'
<1>1. disk \in Histories /\ OneType(disk)
  BY DEF SchemaInv, TypeOK, Chain
<1>2. /\ mem' \in Histories /\ Extends(disk, mem') /\ OneType(mem')
      /\ c # Absent => mem' # <<>> /\ Layout(Last(mem')) = Layout(c)
  BY <1>1, ReconcileFacts DEF Open
<1>3. TypeOK'
  BY <1>2 DEF Open, SchemaInv, TypeOK
<1>4. Chain'
  BY <1>2 DEF Open, SchemaInv, Chain, Running, Last
<1>. QED
  BY <1>3, <1>4, QuietStep DEF Open

\* Manifest::commit, its rename and its fsync, and the fsync of recover.
LEMMA CommitSteps ==
  ASSUME SchemaInv, CommitRename \/ CommitSync \/ Recover
  PROVE  SchemaInv'
<1>0. safe \in Histories /\ disk \in Histories /\ mem \in Histories
  BY DEF SchemaInv, TypeOK
<1>1. CASE Down
  <2>1. mishaps' \in 0..MaxMishaps
    BY SchemaAssumption DEF SchemaInv, TypeOK, CommitRename, CommitSync, Recover, Mishap
  <2>2. UNCHANGED <<disk, safe, wal, synced, client, out, rejected, view, frames>>
    BY <1>1 DEF CommitRename, CommitSync, Recover, Down
  <2>3. synced' \subseteq wal'
    BY <2>2 DEF SchemaInv, TypeOK
  <2>. QED
    BY <1>1, <2>1, <2>2, <2>3, DownStep
<1>2. CASE CommitRename /\ disk' = mem /\ pc' = "renamed" /\ UNCHANGED <<conf, mem, mishaps>>
  <2>1. Extends(safe, mem)
    BY <1>0, <1>2, ExtendsOrder DEF CommitRename, SchemaInv, Chain
  <2>2. TypeOK'
    BY <1>2 DEF CommitRename, SchemaInv, TypeOK
  <2>3. Chain'
    BY <1>2, <2>1 DEF CommitRename, SchemaInv, Chain, Running, Last
  <2>. QED
    BY <1>2, <2>2, <2>3, QuietStep DEF CommitRename
<1>3. CASE (CommitSync \/ Recover) /\ safe' = disk /\ pc' \in {"recover", "up"}
            /\ UNCHANGED <<conf, mem, mishaps>>
  <2>1. UNCHANGED <<disk, wal, synced, client, out, rejected, view, frames>>
    BY <1>3 DEF CommitSync, Recover
  <2>2. TypeOK'
    BY <1>3, <2>1 DEF SchemaInv, TypeOK
  <2>3. Extends(disk, disk) /\ mem = disk
    BY <1>0, <1>3, ExtendsOrder DEF CommitSync, Recover, SchemaInv, Chain
  <2>4. Chain'
    BY <1>3, <2>1, <2>3 DEF CommitSync, Recover, SchemaInv, Chain, Running, Last
  <2>. QED
    BY <1>0, <1>3, <2>1, <2>2, <2>4, NamedKept DEF SchemaInv, Chain
<1>. QED
  BY <1>1, <1>2, <1>3 DEF CommitRename, CommitSync, Recover

\* While the engine runs, the durable history is its own.
LEMMA RunningFacts ==
  ASSUME SchemaInv, Running
  PROVE  /\ safe = mem /\ disk = mem /\ mem \in Histories /\ OneType(mem)
         /\ Len(mem) \in Nat /\ mem \in Seq(Layouts) /\ Len(mem) <= MaxEpoch + 1
         /\ conf # Absent => /\ conf \in Layouts /\ Epoch \in 0..MaxEpoch
                             /\ Names(safe, Epoch, conf)
<1>1. safe = mem /\ disk = mem /\ OneType(mem)
  BY DEF SchemaInv, Chain, Running
<1>2. mem \in Seq(Layouts) /\ Len(mem) <= MaxEpoch + 1 /\ mem \in Histories /\ Len(mem) \in Nat
  BY DEF SchemaInv, TypeOK, Histories
<1>3. ASSUME conf # Absent
      PROVE  conf \in Layouts /\ Epoch \in 0..MaxEpoch /\ Names(safe, Epoch, conf)
  <2>1. mem # <<>> /\ Layout(mem[Len(mem)]) = Layout(conf)
    BY <1>3 DEF SchemaInv, Chain, Running, Last
  <2>2. Len(mem) \in 1..(MaxEpoch + 1)
    BY <1>2, <2>1
  <2>3. Epoch \in 0..MaxEpoch /\ Epoch + 1 = Len(mem) /\ Epoch < Len(mem)
    BY <1>2, <2>2, SchemaAssumption DEF Epoch
  <2>. QED
    BY <1>1, <1>3, <2>1, <2>3 DEF Names, SchemaInv, TypeOK
<1>. QED
  BY <1>1, <1>2, <1>3

\* A frame that goes into the log carries an epoch of the durable history.
LEMMA LogStep ==
  ASSUME SchemaInv, Running, NEW e \in 0..MaxEpoch, NEW keys \in Layouts,
         NEW vals \in Rows, Names(safe, e, keys), Log(e, keys, vals)
  PROVE  SchemaInv'
<1> DEFINE new == [epoch |-> e, keys |-> keys, vals |-> vals]
<1>1. new \in Frame
  BY DEF Frame
<1>2. new.epoch = e /\ new.keys = keys
  OBVIOUS
<1>3. wal' = wal \cup {new}
  BY DEF Log
<1>. HIDE DEF new
<1>4. frames' \in 0..MaxFrames
  BY SchemaAssumption DEF SchemaInv, TypeOK, Log
<1>5. UNCHANGED <<pc, conf, mem, disk, safe, synced, client, out, rejected, view,
                  mishaps>>
  BY DEF Log
<1>6. TypeOK'
  BY <1>1, <1>3, <1>4, <1>5 DEF SchemaInv, TypeOK
<1>7. Chain'
  BY <1>5 DEF SchemaInv, Chain, Running, Last
<1>8. Named'
  BY <1>2, <1>3, <1>5 DEF SchemaInv, Named
<1>. QED
  BY <1>6, <1>7, <1>8 DEF SchemaInv

\* Engine::append, append_batch and append_raw; Client::refresh_schema.
LEMMA IngestSteps ==
  ASSUME SchemaInv,
         (\E vals \in Rows : AppendRow(vals) \/ AppendRaw(vals)) \/ RefreshSchema
  PROVE  SchemaInv'
<1>1. ASSUME NEW vals \in Rows, AppendRow(vals)
      PROVE  SchemaInv'
  BY <1>1, RunningFacts, LogStep DEF AppendRow
<1>2. ASSUME NEW vals \in Rows, AppendRaw(vals)
      PROVE  SchemaInv'
  <2>1. /\ client.epoch \in 0..MaxEpoch /\ client.keys \in Layouts
        /\ Names(safe, client.epoch, client.keys)
    BY <1>2 DEF AppendRaw, SchemaInv, TypeOK, Named
  <2>. QED
    BY <1>2, <2>1, LogStep DEF AppendRaw
<1>3. CASE RefreshSchema
  <2>1. /\ conf \in Layouts /\ Epoch \in 0..MaxEpoch /\ Names(safe, Epoch, conf)
    BY <1>3, RunningFacts DEF RefreshSchema
  <2>2. /\ client' = [epoch |-> Epoch, keys |-> conf]
        /\ UNCHANGED <<pc, conf, mem, disk, safe, wal, synced, out, rejected, view,
                       frames, mishaps>>
    BY <1>3 DEF RefreshSchema
  <2>3. client'.epoch = Epoch /\ client'.keys = conf
        /\ client' \in [epoch : 0..MaxEpoch, keys : Layouts]
    BY <2>1, <2>2
  <2>4. TypeOK'
    BY <2>2, <2>3 DEF SchemaInv, TypeOK
  <2>5. Chain'
    BY <2>2 DEF SchemaInv, Chain, Running, Last
  <2>6. Named'
    BY <2>1, <2>2, <2>3 DEF SchemaInv, Named
  <2>. QED
    BY <2>4, <2>5, <2>6 DEF SchemaInv
<1>. QED
  BY <1>1, <1>2, <1>3

\* Whether values fit is a matter of the layout.
LEMMA MatchesLayout ==
  ASSUME NEW a \in Layouts, NEW b \in Layouts, Layout(a) = Layout(b), NEW vals,
         MatchesSchema(b, vals)
  PROVE  MatchesSchema(a, vals)
<1>1. a \in Seq(KeyDef) /\ b \in Seq(KeyDef)
  BY SchemaAssumption
<1>2. /\ DOMAIN a = DOMAIN b /\ Len(a) = Len(b)
      /\ \A i \in DOMAIN a : a[i].ty = b[i].ty
  BY <1>1, LayoutFacts
<1>. QED
  BY <1>2 DEF MatchesSchema

\* Engine::flush: what it publishes has the layout it was encoded with, what it
\* rejects did not fit that layout.
LEMMA FlushStep ==
  ASSUME SchemaInv, NoneUnknown, Flush
  PROVE  SchemaInv' /\ NoneUnknown'
<1>0. /\ safe = mem /\ disk = mem /\ mem \in Histories /\ OneType(mem)
      /\ Len(mem) \in Nat /\ mem \in Seq(Layouts)
  BY RunningFacts DEF Flush, Running
<1>1. ASSUME NEW f \in wal
      PROVE  /\ f \in Frame /\ f.epoch < Len(mem) /\ f.keys \in Layouts
             /\ mem[f.epoch + 1] \in Layouts
             /\ Layout(mem[f.epoch + 1]) = Layout(f.keys)
  <2>1. f \in Frame /\ f.epoch \in Nat /\ f.keys \in Layouts
    BY SchemaAssumption DEF SchemaInv, TypeOK, Frame
  <2>2. f.epoch < Len(mem) /\ Layout(mem[f.epoch + 1]) = Layout(f.keys)
    BY <1>0, <2>1 DEF SchemaInv, Named, Names
  <2>3. f.epoch + 1 \in 1..Len(mem)
    BY <1>0, <2>1, <2>2
  <2>. QED
    BY <1>0, <2>1, <2>2, <2>3
<1>2. /\ disk' = mem /\ safe' = mem /\ wal' = {} /\ synced' = {}
      /\ pc' \in {"up", "views"} /\ view' \in {view, Stale}
      /\ UNCHANGED <<conf, mem, client, frames, mishaps>>
  BY DEF Flush
<1>3. ASSUME NEW o \in out', o \notin out
      PROVE  \E f \in wal : o = [frame |-> f, keys |-> mem[f.epoch + 1]]
  BY <1>3 DEF Flush
<1>4. out' \subseteq [frame : Frame, keys : Layouts]
  <2>1. out \subseteq [frame : Frame, keys : Layouts]
    BY DEF SchemaInv, TypeOK
  <2>. QED
    BY <1>1, <1>3, <2>1
<1>5. rejected' \subseteq Frame
  BY <1>1 DEF Flush, SchemaInv, TypeOK
<1>6. TypeOK'
  BY <1>0, <1>2, <1>4, <1>5 DEF SchemaInv, TypeOK
<1>7. Chain'
  BY <1>0, <1>2, ExtendsOrder DEF SchemaInv, Chain, Running, Last, Flush
<1>8. ASSUME NEW o \in out'
      PROVE  /\ Names(mem, o.frame.epoch, o.frame.keys)
             /\ Layout(o.keys) = Layout(o.frame.keys)
  <2>1. CASE o \in out
    BY <1>0, <2>1 DEF SchemaInv, Named
  <2>2. CASE o \notin out
    <3>1. PICK f \in wal : o = [frame |-> f, keys |-> mem[f.epoch + 1]]
      BY <1>3, <2>2
    <3>2. o.frame = f /\ o.keys = mem[f.epoch + 1]
      BY <3>1
    <3>. QED
      BY <1>1, <3>2 DEF Names
  <2>. QED
    BY <2>1, <2>2
<1>9. Named'
  BY Zenon, <1>0, <1>2, <1>8 DEF SchemaInv, Named
<1>10. NoneUnknown'
  <2>1. ASSUME NEW f \in rejected'
        PROVE  ~MatchesSchema(f.keys, f.vals)
    <3>1. CASE f \in rejected
      BY <3>1 DEF NoneUnknown
    <3>2. CASE f \notin rejected
      <4>1. f \in wal /\ ~Decodes(f)
        BY <3>2 DEF Flush
      <4>2. ~MatchesSchema(mem[f.epoch + 1], f.vals)
        BY <1>1, <4>1 DEF Decodes
      <4>. QED
        BY <1>1, <4>1, <4>2, MatchesLayout
    <3>. QED
      BY <3>1, <3>2
  <2>. QED
    BY <2>1 DEF NoneUnknown
<1>. QED
  BY <1>6, <1>7, <1>9, <1>10 DEF SchemaInv

\* The committer, and the ways to stop.
LEMMA OtherSteps ==
  ASSUME SchemaInv, SyncWal \/ Close \/ Crash \/ PowerCut
  PROVE  SchemaInv'
<1>1. CASE SyncWal
  <2>1. TypeOK'
    BY <1>1 DEF SyncWal, SchemaInv, TypeOK
  <2>2. Chain'
    BY <1>1 DEF SyncWal, SchemaInv, Chain, Running, Last
  <2>. QED
    BY <1>1, <2>1, <2>2, QuietStep DEF SyncWal
<1>2. CASE Close
  <2>1. mishaps' \in 0..MaxMishaps
    BY <1>2 DEF Close, SchemaInv, TypeOK
  <2>. QED
    BY <1>2, <2>1, DownStep DEF Close
<1>3. CASE Crash
  <2>1. mishaps' \in 0..MaxMishaps /\ synced' \subseteq wal'
    BY <1>3, SchemaAssumption DEF Crash, Mishap, SchemaInv, TypeOK
  <2>. QED
    BY <1>3, <2>1, DownStep DEF Crash
<1>4. CASE PowerCut
  <2>1. mishaps' \in 0..MaxMishaps
    BY <1>4, SchemaAssumption DEF PowerCut, Mishap, SchemaInv, TypeOK
  <2>2. wal' \subseteq wal /\ synced' \subseteq wal'
    BY <1>4 DEF PowerCut
  <2>. QED
    BY <1>4, <2>1, <2>2, DownStep DEF PowerCut
<1>. QED
  BY <1>1, <1>2, <1>3, <1>4

\* A set of numbers that is not empty has a least member.
LEMMA LeastEpoch ==
  ASSUME NEW S \in SUBSET Nat, S # {}
  PROVE  \E x \in S : \A y \in S : x <= y
<1>1. PICK x \in S : \A y \in S : ~(<<y, x>> \in OpToRel(<, Nat))
  BY WFMin, NatLessThanWellFounded, Zenon
<1>2. \A y \in S : ~(y < x)
  BY <1>1, Zenon DEF OpToRel
<1>. QED
  BY <1>2

\* view_sql's list of keys has every key of every epoch, with its type.
LEMMA AllKeysFacts ==
  ASSUME NEW h \in Histories, OneType(h)
  PROVE  /\ AllKeys(h) \subseteq KeyDef
         /\ \A e \in DOMAIN h : \A i \in DOMAIN h[e] :
              \E k \in AllKeys(h) : k.name = h[e][i].name /\ k.ty = h[e][i].ty
<1>0. h \in Seq(Seq(KeyDef)) /\ Len(h) \in Nat
  BY SchemaAssumption DEF Histories
<1>1. AllKeys(h) \subseteq KeyDef
  <2>1. ASSUME NEW e \in DOMAIN h, NEW i \in DOMAIN h[e]
        PROVE  h[e][i] \in KeyDef
    BY <1>0
  <2>. QED
    BY <2>1 DEF AllKeys
<1>2. ASSUME NEW e \in DOMAIN h, NEW i \in DOMAIN h[e]
      PROVE  \E k \in AllKeys(h) : k.name = h[e][i].name /\ k.ty = h[e][i].ty
  <2> DEFINE S == {d \in DOMAIN h : h[e][i].name \in Declared(h[d])}
  <2>1. e \in S
    BY DEF Declared
  <2>2. S \in SUBSET Nat
    BY <1>0
  <2>3. PICK d \in S : \A y \in S : d <= y
    BY <2>1, <2>2, LeastEpoch, Zenon
  <2>4. PICK j \in DOMAIN h[d] : h[d][j].name = h[e][i].name
    BY <2>3 DEF Declared
  <2>5. \A y \in 1..(d - 1) : h[d][j].name \notin Declared(h[y])
    <3>1. ASSUME NEW y \in 1..(d - 1), h[e][i].name \in Declared(h[y])
          PROVE  FALSE
      <4>1. d \in 1..Len(h)
        BY <1>0, <2>3
      <4>2. y \in DOMAIN h /\ ~(d <= y)
        BY <1>0, <4>1
      <4>. QED
        BY <2>3, <3>1, <4>2
    <3>. QED
      BY <2>4, <3>1
  <2>6. h[d][j] \in AllKeys(h)
    BY <2>3, <2>4, <2>5 DEF AllKeys
  <2>7. h[d][j].ty = h[e][i].ty
    BY <2>3, <2>4 DEF OneType, Retypes
  <2>. QED
    BY <2>4, <2>6, <2>7
<1>. QED
  BY <1>1, <1>2

\* regenerate_views writes a view that shows every published row whole.
LEMMA ViewStep ==
  ASSUME SchemaInv, ViewSpansEras, RegenerateViews
  PROVE  SchemaInv' /\ ViewSpansEras'
<1>0. /\ safe = mem /\ mem \in Histories /\ OneType(mem)
      /\ mem \in Seq(Layouts) /\ Len(mem) \in Nat
  BY RunningFacts DEF RegenerateViews, Running
<1>1. UNCHANGED <<conf, mem, disk, safe, wal, synced, client, out, rejected, frames>>
  BY DEF RegenerateViews
<1>2. ViewSql(mem) \subseteq [name : STRING, ty : STRING, coalesced : BOOLEAN]
  <2>1. AllKeys(mem) \subseteq KeyDef
    BY <1>0, AllKeysFacts
  <2>2. ASSUME NEW v \in ViewSql(mem)
        PROVE  v \in [name : STRING, ty : STRING, coalesced : BOOLEAN]
    <3>1. PICK k \in AllKeys(mem) :
            v = [name |-> k.name, ty |-> k.ty,
                 coalesced |-> \E d \in DOMAIN mem : k.name \notin Declared(mem[d])]
      BY DEF ViewSql
    <3>2. k.name \in STRING /\ k.ty \in STRING
      BY <2>1 DEF KeyDef
    <3>3. (\E d \in DOMAIN mem : k.name \notin Declared(mem[d])) \in BOOLEAN
      OBVIOUS
    <3>. QED
      BY Zenon, <3>1, <3>2, <3>3
  <2>. QED
    BY Zenon, <2>2
<1>3. view' = Stale \/ view' = ViewSql(mem)
  BY DEF RegenerateViews
<1>4. mishaps' \in 0..MaxMishaps
  BY SchemaAssumption DEF RegenerateViews, Mishap, SchemaInv, TypeOK
<1>5. TypeOK'
  BY <1>1, <1>2, <1>3, <1>4 DEF RegenerateViews, SchemaInv, TypeOK
<1>6. Chain'
  BY <1>1 DEF RegenerateViews, SchemaInv, Chain, Running, Last
<1>7. SchemaInv'
  BY <1>1, <1>5, <1>6, QuietStep
<1>8. ASSUME NEW o \in out
      PROVE  /\ \A i \in DOMAIN o.keys : \E c \in ViewSql(mem) :
                  c.name = o.keys[i].name /\ c.ty = o.keys[i].ty
             /\ \A c \in ViewSql(mem) : c.name \notin Declared(o.keys) => c.coalesced
  <2> DEFINE e == o.frame.epoch + 1
  <2>1. o.frame.epoch \in Nat /\ o.keys \in Seq(KeyDef)
    BY SchemaAssumption DEF SchemaInv, TypeOK, Frame
  <2>2. o.frame.epoch < Len(mem) /\ Layout(mem[e]) = Layout(o.keys)
    BY <1>0 DEF SchemaInv, Named, Names
  <2>3. e \in DOMAIN mem
    BY <1>0, <2>1, <2>2
  <2>. HIDE DEF e
  <2>4. mem[e] \in Seq(KeyDef)
    BY <1>0, <2>3, SchemaAssumption
  <2>5. /\ DOMAIN mem[e] = DOMAIN o.keys
        /\ \A i \in DOMAIN o.keys : mem[e][i].name = o.keys[i].name
                                    /\ mem[e][i].ty = o.keys[i].ty
    BY <2>1, <2>2, <2>4, LayoutFacts DEF e
  <2>6. ASSUME NEW i \in DOMAIN o.keys
        PROVE  \E c \in ViewSql(mem) : c.name = o.keys[i].name /\ c.ty = o.keys[i].ty
    <3>1. PICK k \in AllKeys(mem) : k.name = mem[e][i].name /\ k.ty = mem[e][i].ty
      BY <1>0, <2>3, <2>5, AllKeysFacts
    <3> DEFINE c == [name |-> k.name, ty |-> k.ty,
                     coalesced |-> \E d \in DOMAIN mem : k.name \notin Declared(mem[d])]
    <3>2. c \in ViewSql(mem)
      BY <3>1 DEF ViewSql
    <3>3. c.name = k.name /\ c.ty = k.ty
      OBVIOUS
    <3>. QED
      BY <2>5, <3>1, <3>2, <3>3
  <2>7. Declared(mem[e]) = Declared(o.keys)
    BY <2>5 DEF Declared
  <2>8. ASSUME NEW c \in ViewSql(mem), c.name \notin Declared(o.keys)
        PROVE  c.coalesced
    <3>1. PICK k \in AllKeys(mem) :
            c = [name |-> k.name, ty |-> k.ty,
                 coalesced |-> \E d \in DOMAIN mem : k.name \notin Declared(mem[d])]
      BY <2>8 DEF ViewSql
    <3>2. k.name \notin Declared(mem[e])
      BY <2>7, <2>8, <3>1
    <3>. QED
      BY <2>3, <3>1, <3>2
  <2>. QED
    BY <2>6, <2>8
<1>9. ViewSpansEras'
  <2>1. CASE view' = Stale
    BY <2>1 DEF ViewSpansEras
  <2>2. CASE view' = ViewSql(mem)
    BY Zenon, <1>1, <1>8, <2>2 DEF ViewSpansEras
  <2>. QED
    BY <1>3, <2>1, <2>2
<1>. QED
  BY <1>7, <1>9

\* Every step preserves the invariant, what is said of rejected rows, and what
\* is said of the view.
LEMMA NextSchema ==
  ASSUME SchemaInv, NoneUnknown, ViewSpansEras, [Next]_vars
  PROVE  SchemaInv' /\ NoneUnknown' /\ ViewSpansEras'
<1>1. ASSUME SchemaInv', UNCHANGED <<out, rejected>>, view' \in {view, Stale}
      PROVE  SchemaInv' /\ NoneUnknown' /\ ViewSpansEras'
  BY Zenon, <1>1 DEF NoneUnknown, ViewSpansEras
<1>2. ASSUME NEW c \in Layouts \cup {Absent}, Open(c)
      PROVE  SchemaInv' /\ NoneUnknown' /\ ViewSpansEras'
  BY <1>1, <1>2, OpenStep DEF Open
<1>3. CASE CommitRename \/ CommitSync \/ Recover
  BY <1>1, <1>3, CommitSteps DEF CommitRename, CommitSync, Recover
<1>4. ASSUME NEW vals \in Rows, AppendRow(vals) \/ AppendRaw(vals)
      PROVE  SchemaInv' /\ NoneUnknown' /\ ViewSpansEras'
  BY <1>1, <1>4, IngestSteps DEF AppendRow, AppendRaw, Log
<1>5. CASE RefreshSchema
  BY <1>1, <1>5, IngestSteps DEF RefreshSchema
<1>6. CASE SyncWal \/ Close \/ Crash \/ PowerCut
  BY <1>1, <1>6, OtherSteps DEF SyncWal, Close, Crash, PowerCut
<1>7. CASE Flush
  <2>1. out' = out \/ view' = Stale
    BY <1>7 DEF Flush
  <2>2. view' \in {view, Stale}
    BY <1>7 DEF Flush
  <2>3. ViewSpansEras'
    BY Zenon, <2>1, <2>2 DEF ViewSpansEras
  <2>. QED
    BY <1>7, <2>3, FlushStep
<1>8. CASE RegenerateViews
  <2>1. rejected' = rejected
    BY <1>8 DEF RegenerateViews
  <2>2. NoneUnknown'
    BY <2>1 DEF NoneUnknown
  <2>. QED
    BY <1>8, <2>2, ViewStep
<1>9. CASE UNCHANGED vars
  <2>1. TypeOK'
    BY <1>9 DEF vars, SchemaInv, TypeOK
  <2>2. Chain'
    BY <1>9 DEF vars, SchemaInv, Chain, Running, Last
  <2>. QED
    BY <1>1, <1>9, <2>1, <2>2, QuietStep DEF vars
<1>. QED
  BY Zenon, <1>2, <1>3, <1>4, <1>5, <1>6, <1>7, <1>8, <1>9 DEF Next

\* For any configurations, rows, numbers of epochs and faults: an epoch that a
\* frame, a client or a file carries is in the durable history as it was meant.
THEOREM SchemaInvariance == Spec => [](SchemaInv /\ NoneUnknown /\ ViewSpansEras)
<1>1. Init => SchemaInv /\ NoneUnknown /\ ViewSpansEras
  BY InitSchema
<1>2. (SchemaInv /\ NoneUnknown /\ ViewSpansEras) /\ [Next]_vars
        => (SchemaInv /\ NoneUnknown /\ ViewSpansEras)'
  BY NextSchema
<1>. QED
  BY <1>1, <1>2, PTL DEF Spec

\* Every row is published with the layout it was encoded for.
THEOREM DecodingIsRight == Spec => []DecodedAsEncoded
<1>1. SchemaInv => DecodedAsEncoded
  BY DEF SchemaInv, Named, DecodedAsEncoded
<1>. QED
  BY <1>1, SchemaInvariance, PTL

\* A flush rejects no row that fits the layout it was encoded for: the history it
\* decodes by knows the epoch of every frame in the log.
THEOREM NothingRejected == Spec => []NoneUnknown
  BY SchemaInvariance, PTL

\* A view that is not stale shows every published row whole, the keys dropped since
\* it was published included.
THEOREM NothingHidden == Spec => []ViewSpansEras
  BY SchemaInvariance, PTL

\* A key has one type in all files of a series, whatever was dropped and declared
\* again in between.
THEOREM TypesAreForGood == Spec => []OneTypePerKey
<1>1. ASSUME SchemaInv
      PROVE  OneTypePerKey
  <2>0. safe \in Histories /\ disk \in Histories /\ safe \in Seq(Layouts)
    BY <1>1 DEF SchemaInv, TypeOK, Histories
  <2>1. OneType(safe)
    BY <1>1, <2>0, OneTypeDown DEF SchemaInv, Chain
  <2>2. ASSUME NEW o \in out
        PROVE  /\ o.keys \in Seq(KeyDef) /\ o.frame.epoch + 1 \in DOMAIN safe
               /\ safe[o.frame.epoch + 1] \in Seq(KeyDef)
               /\ Layout(safe[o.frame.epoch + 1]) = Layout(o.keys)
    <3>1. o.keys \in Seq(KeyDef) /\ o.frame.epoch \in Nat
      BY <1>1, SchemaAssumption DEF SchemaInv, TypeOK, Frame
    <3>2. o.frame.epoch < Len(safe) /\ Layout(safe[o.frame.epoch + 1]) = Layout(o.keys)
      BY <1>1 DEF SchemaInv, Named, Names
    <3>3. o.frame.epoch + 1 \in 1..Len(safe)
      BY <2>0, <3>1, <3>2
    <3>. QED
      BY <2>0, <3>1, <3>2, <3>3, SchemaAssumption
  <2>3. ASSUME NEW o \in out, NEW p \in out
        PROVE  ~Retypes(o.keys, p.keys)
    <3>1. ~Retypes(safe[o.frame.epoch + 1], safe[p.frame.epoch + 1])
      BY <2>1, <2>2 DEF OneType
    <3>. QED
      BY <2>2, <3>1, RetypesLayout
  <2>. QED
    BY <2>3 DEF OneTypePerKey
<1>. QED
  BY <1>1, SchemaInvariance, PTL
=============================================================================
