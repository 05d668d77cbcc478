--------------------------- MODULE IngestProofs ---------------------------
(***************************************************************************)
(* Accounted is an invariant of Ingest, for any records, sizes, limits,    *)
(* queue capacities and faults and any number of requests and restarts.    *)
(*                                                                         *)
(* Accounted is inductive as it stands.  Split restates its part about the *)
(* six places flatly, so that a step that moves records from one place to  *)
(* another is a fact about sets; the lemmas on queues say which sets       *)
(* Append, Head and Tail move.                                             *)
(***************************************************************************)
EXTENDS Ingest, TLAPS

\* g is the disjoint union of the other six.
Split(g, a, b, c, d, e, f) ==
  /\ g = a \cup b \cup c \cup d \cup e \cup f
  /\ a \cap (b \cup c \cup d \cup e \cup f) = {}
  /\ b \cap (c \cup d \cup e \cup f) = {}
  /\ c \cap (d \cup e \cup f) = {}
  /\ d \cap (e \cup f) = {} /\ e \cap f = {}

\* The queues and what is known of their records.
Queues ==
  /\ Buffered \subseteq tried /\ Apart(wire) /\ Apart(inq)
  /\ given \cap held = {} /\ given \cap late = {} /\ held \cap late = {}
  /\ Split(Buffered, buf, Records(wire), Records(inq), appended, dropped, lost)

\* A running server was started, and the request poll saw is there until it is
\* served.
Held ==
  /\ server # "closed" => starts > 0
  /\ server = "control" => "control" \in ready
  /\ server \in {"ingest", "control"} /\ "control" \in ready => calls # <<>>

\* What Records of the six places is, and when they are apart.
LEMMA SixPlaces ==
  ASSUME NEW g, NEW a, NEW b, NEW c, NEW d, NEW e, NEW f
  PROVE  Split(g, a, b, c, d, e, f)
           <=> g = Records(<<a, b, c, d, e, f>>) /\ Apart(<<a, b, c, d, e, f>>)
<1> DEFINE p == <<a, b, c, d, e, f>>
<1>1. /\ DOMAIN p = {1, 2, 3, 4, 5, 6}
      /\ p[1] = a /\ p[2] = b /\ p[3] = c /\ p[4] = d /\ p[5] = e /\ p[6] = f
  OBVIOUS
<1> HIDE DEF p
<1>2. Records(p) = a \cup b \cup c \cup d \cup e \cup f
  BY <1>1 DEF Records, Range
<1>3. Apart(p) <=> /\ a \cap b = {} /\ a \cap c = {} /\ a \cap d = {}
                   /\ a \cap e = {} /\ a \cap f = {} /\ b \cap c = {}
                   /\ b \cap d = {} /\ b \cap e = {} /\ b \cap f = {}
                   /\ c \cap d = {} /\ c \cap e = {} /\ c \cap f = {}
                   /\ d \cap e = {} /\ d \cap f = {} /\ e \cap f = {}
  BY <1>1 DEF Apart
<1>4. Split(g, a, b, c, d, e, f) <=> g = Records(p) /\ Apart(p)
  BY <1>2, <1>3 DEF Split
<1> QED  BY <1>4 DEF p

\* When the three histories are apart.
LEMMA ThreeApart ==
  ASSUME NEW a, NEW b, NEW c
  PROVE  Apart(<<a, b, c>>) <=> a \cap b = {} /\ a \cap c = {} /\ b \cap c = {}
<1> DEFINE p == <<a, b, c>>
<1>1. DOMAIN p = {1, 2, 3} /\ p[1] = a /\ p[2] = b /\ p[3] = c
  OBVIOUS
<1> HIDE DEF p
<1>2. Apart(p) <=> a \cap b = {} /\ a \cap c = {} /\ b \cap c = {}
  BY <1>1 DEF Apart
<1> QED  BY <1>2 DEF p

\* Accounted in terms of the flat form.
LEMMA Flat == Accounted <=> TypeOK /\ Queues /\ Held
BY SixPlaces, ThreeApart DEF Accounted, Queues, Held, Places

\* The same of the state after a step.
LEMMA FlatPrime == Accounted' <=> TypeOK' /\ Queues' /\ Held'
BY SixPlaces, ThreeApart DEF Accounted, Queues, Held, Places

\* Send, flush and Deliver append a batch of records no batch of the queue has.
LEMMA Appended ==
  ASSUME NEW q \in Seq(SUBSET Rec), NEW b \in SUBSET Rec
  PROVE  /\ Append(q, b) \in Seq(SUBSET Rec) /\ Len(Append(q, b)) = Len(q) + 1
         /\ Records(Append(q, b)) = Records(q) \cup b
         /\ Apart(q) /\ Records(q) \cap b = {} => Apart(Append(q, b))
<1> DEFINE r == Append(q, b)
<1>1. /\ r \in Seq(SUBSET Rec) /\ Len(r) = Len(q) + 1 /\ Len(q) \in Nat
      /\ DOMAIN q = 1..Len(q) /\ DOMAIN r = 1..(Len(q) + 1)
      /\ r[Len(q) + 1] = b /\ \A i \in 1..Len(q) : r[i] = q[i]
  OBVIOUS
<1> HIDE DEF r
<1>2. ASSUME NEW i \in DOMAIN r
      PROVE  i = Len(q) + 1 \/ i \in DOMAIN q
  BY <1>1, <1>2
<1>3. DOMAIN q \subseteq DOMAIN r /\ Len(q) + 1 \in DOMAIN r /\ Len(q) + 1 \notin DOMAIN q
  BY <1>1
<1>4. \A i \in DOMAIN q : r[i] = q[i]
  BY <1>1
<1>5. Records(r) = Records(q) \cup b
  <2>1. ASSUME NEW x \in Records(r) PROVE x \in Records(q) \cup b
    <3>1. PICK i \in DOMAIN r : x \in r[i]
      BY <2>1 DEF Records, Range
    <3> QED  BY <3>1, <1>1, <1>2, <1>4 DEF Records, Range
  <2>2. ASSUME NEW x \in Records(q) PROVE x \in Records(r)
    <3>1. PICK i \in DOMAIN q : x \in q[i]
      BY <2>2 DEF Records, Range
    <3> QED  BY <3>1, <1>3, <1>4 DEF Records, Range
  <2>3. b \subseteq Records(r)
    BY <1>1, <1>3 DEF Records, Range
  <2> QED  BY <2>1, <2>2, <2>3
<1>6. ASSUME Apart(q), Records(q) \cap b = {} PROVE Apart(r)
  <2>1. \A i \in DOMAIN q : q[i] \cap b = {}
    BY <1>6 DEF Records, Range
  <2> SUFFICES ASSUME NEW i \in DOMAIN r, NEW j \in DOMAIN r, i # j
               PROVE  r[i] \cap r[j] = {}
    BY DEF Apart
  <2>2. CASE i \in DOMAIN q /\ j \in DOMAIN q
    BY <2>2, <1>4, <1>6 DEF Apart
  <2>3. CASE i = Len(q) + 1 /\ j \in DOMAIN q
    BY <2>1, <2>3, <1>1, <1>4
  <2>4. CASE i \in DOMAIN q /\ j = Len(q) + 1
    BY <2>1, <2>4, <1>1, <1>4
  <2> QED  BY <2>2, <2>3, <2>4, <1>2
<1> QED  BY <1>1, <1>5, <1>6 DEF r

\* Deliver and ingest_batch take the oldest batch, whose records no other batch
\* of the queue has.
LEMMA Taken ==
  ASSUME NEW q \in Seq(SUBSET Rec), q # <<>>, Apart(q)
  PROVE  /\ Head(q) \in SUBSET Rec /\ Tail(q) \in Seq(SUBSET Rec)
         /\ Len(Tail(q)) = Len(q) - 1 /\ Apart(Tail(q))
         /\ Records(q) = Head(q) \cup Records(Tail(q))
         /\ Head(q) \cap Records(Tail(q)) = {}
<1> DEFINE t == Tail(q)
<1>1. /\ Head(q) = q[1] /\ t \in Seq(SUBSET Rec) /\ Len(t) = Len(q) - 1
      /\ DOMAIN q = 1..Len(q) /\ DOMAIN t = 1..(Len(q) - 1)
      /\ \A i \in 1..(Len(q) - 1) : t[i] = q[i + 1]
      /\ Len(q) \in Nat \ {0} /\ q[1] \in SUBSET Rec
  OBVIOUS
<1> HIDE DEF t
<1>2. \A i \in DOMAIN t : i + 1 \in DOMAIN q /\ i + 1 # 1 /\ t[i] = q[i + 1]
  BY <1>1
<1>3. \A i \in DOMAIN q : i = 1 \/ (i - 1 \in DOMAIN t /\ t[i - 1] = q[i])
  BY <1>1
<1>4. 1 \in DOMAIN q
  BY <1>1
<1>5. Apart(t)
  <2> SUFFICES ASSUME NEW i \in DOMAIN t, NEW j \in DOMAIN t, i # j
               PROVE  t[i] \cap t[j] = {}
    BY DEF Apart
  <2>1. i + 1 # j + 1
    BY <1>1
  <2> QED  BY <2>1, <1>2 DEF Apart
<1>6. Head(q) \cap Records(t) = {}
  <2> SUFFICES ASSUME NEW x \in q[1], NEW i \in DOMAIN t, x \in t[i] PROVE FALSE
    BY <1>1 DEF Records, Range
  <2> QED  BY <1>2, <1>4 DEF Apart
<1>7. Records(q) = Head(q) \cup Records(t)
  <2>1. ASSUME NEW x \in Records(q) PROVE x \in Head(q) \cup Records(t)
    <3>1. PICK i \in DOMAIN q : x \in q[i]
      BY <2>1 DEF Records, Range
    <3> QED  BY <3>1, <1>1, <1>3 DEF Records, Range
  <2>2. ASSUME NEW x \in Records(t) PROVE x \in Records(q)
    <3>1. PICK i \in DOMAIN t : x \in t[i]
      BY <2>2 DEF Records, Range
    <3> QED  BY <3>1, <1>2 DEF Records, Range
  <2>3. Head(q) \subseteq Records(q)
    BY <1>1, <1>4 DEF Records, Range
  <2> QED  BY <2>1, <2>2, <2>3
<1> QED  BY <1>1, <1>5, <1>6, <1>7 DEF t

\* The bounds are naturals, and zero is within each.
LEMMA Numbers ==
  /\ {SndHwm, RcvHwm, MaxPoll, MaxStart} \subseteq Nat \ {0} /\ MaxReq \in Nat
  /\ SndHwm >= 0 /\ RcvHwm >= 0 /\ 0 \in 0..MaxPoll /\ 0 \in 0..MaxStart
  /\ 0 \in 0..MaxReq
BY IngestAssumption

\* Taking the oldest control request leaves a queue of requests.
LEMMA CallQueue ==
  ASSUME NEW S, NEW q \in Seq(S)
  PROVE  <<>> \in Seq(S) /\ (q # <<>> => Head(q) \in S /\ Tail(q) \in Seq(S))
OBVIOUS

\* An empty queue holds no record.
LEMMA EmptyQueue ==
  <<>> \in Seq(SUBSET Rec) /\ Len(<<>>) = 0 /\ Records(<<>>) = {} /\ Apart(<<>>)
BY DEF Records, Range, Apart
----------------------------------------------------------------------------
\* push.send puts the batch into the queue or into the count of the dropped.
LEMMA Pushed ==
  ASSUME TypeOK, Apart(wire), NEW b \in SUBSET Rec, Records(wire) \cap b = {}, Push(b)
  PROVE  /\ wire' \in Seq(SUBSET Rec) /\ Len(wire') <= SndHwm /\ Apart(wire')
         /\ dropped' \subseteq Rec
         /\ \/ Records(wire') = Records(wire) \cup b /\ dropped' = dropped
            \/ Records(wire') = Records(wire) /\ dropped' = dropped \cup b
<1>1. CASE Len(wire) < SndHwm /\ wire' = Append(wire, b) /\ dropped' = dropped
  <2>1. wire \in Seq(SUBSET Rec) /\ Len(wire) \in Nat /\ SndHwm \in Nat
    BY IngestAssumption DEF TypeOK
  <2>2. /\ wire' \in Seq(SUBSET Rec) /\ Len(wire') = Len(wire) + 1
        /\ Records(wire') = Records(wire) \cup b /\ Apart(wire')
    BY <1>1, <2>1, Appended
  <2>3. Len(wire') <= SndHwm
    BY <1>1, <2>1, <2>2
  <2> QED  BY <1>1, <2>2, <2>3 DEF TypeOK
<1>2. CASE dropped' = dropped \cup b /\ wire' = wire
  BY <1>2 DEF TypeOK
<1> QED  BY <1>1, <1>2 DEF Push

\* ingest_batch takes the records of the oldest batch to the engine or to the
\* losses.
LEMMA Ingested ==
  ASSUME TypeOK, Apart(inq), inq # <<>>, IngestHead
  PROVE  /\ inq' \in Seq(SUBSET Rec) /\ Len(inq') <= RcvHwm /\ Apart(inq')
         /\ appended' \subseteq Rec /\ lost' \subseteq Rec
         /\ Records(inq) = Head(inq) \cup Records(inq')
         /\ Head(inq) \cap Records(inq') = {}
         /\ \E A \in SUBSET Head(inq) :
              appended' = appended \cup A /\ lost' = lost \cup (Head(inq) \ A)
<1>1. inq \in Seq(SUBSET Rec) /\ Len(inq) <= RcvHwm /\ Len(inq) \in Nat
  BY DEF TypeOK
<1>2. inq' = Tail(inq)
  BY DEF IngestHead
<1>3. /\ Head(inq) \in SUBSET Rec /\ inq' \in Seq(SUBSET Rec)
      /\ Len(inq') = Len(inq) - 1 /\ Apart(inq')
      /\ Records(inq) = Head(inq) \cup Records(inq')
      /\ Head(inq) \cap Records(inq') = {}
  BY <1>1, <1>2, Taken
<1>4. Len(inq') <= RcvHwm
  BY <1>1, <1>3, IngestAssumption
<1> QED  BY <1>3, <1>4 DEF IngestHead, TypeOK

\* What the first part of send does, in terms of the sets of records.
LEMMA Sent ==
  ASSUME TypeOK, Queues, NEW r \in Rec, Send(r)
  PROVE  /\ r \notin tried /\ tried' = tried \cup {r} /\ late = {} /\ held' = held
         /\ wire' \in Seq(SUBSET Rec) /\ Len(wire') <= SndHwm /\ Apart(wire')
         /\ dropped' \subseteq Rec /\ buf' \subseteq Rec
         /\ \/ UNCHANGED <<buf, wire, dropped, late, given>>
            \/ /\ \/ given' = given \cup {r} /\ late' = {}
                  \/ given' = given /\ late' = {r}
               /\ \/ /\ buf' = {r} /\ Records(wire') = Records(wire) \cup buf
                     /\ dropped' = dropped
                  \/ /\ buf' = {r} /\ Records(wire') = Records(wire)
                     /\ dropped' = dropped \cup buf
                  \/ buf' = buf \cup {r} /\ UNCHANGED <<wire, dropped>>
<1>1. /\ r \notin tried /\ tried' = tried \cup {r} /\ late = {} /\ held' = held
      /\ buf \in SUBSET Rec /\ Apart(wire)
      /\ wire \in Seq(SUBSET Rec) /\ Len(wire) <= SndHwm /\ dropped \subseteq Rec
  BY DEF Send, Idle, TypeOK, Queues
<1>2. Records(wire) \cap buf = {}
  BY DEF Queues, Split
<1>3. ASSUME NEW b, Buffer(b, r)
      PROVE  /\ buf' = b \cup {r}
             /\ \/ given' = given \cup {r} /\ late' = {}
                \/ given' = given /\ late' = {r}
  BY <1>1, <1>3 DEF Buffer
<1>4. CASE UNCHANGED <<buf, wire, dropped, late, given>>
  BY <1>1, <1>4
<1>5. CASE Push(buf) /\ Buffer({}, r)
  <2>1. /\ wire' \in Seq(SUBSET Rec) /\ Len(wire') <= SndHwm /\ Apart(wire')
        /\ dropped' \subseteq Rec
        /\ \/ Records(wire') = Records(wire) \cup buf /\ dropped' = dropped
           \/ Records(wire') = Records(wire) /\ dropped' = dropped \cup buf
    BY <1>1, <1>2, <1>5, Pushed
  <2>2. buf' = {r}
    BY <1>3, <1>5
  <2> QED  BY <1>1, <1>3, <1>5, <2>1, <2>2
<1>6. CASE Buffer(buf, r) /\ UNCHANGED <<wire, dropped>>
  BY <1>1, <1>3, <1>6
<1> QED  BY <1>4, <1>5, <1>6 DEF Send, Flush, FlushErr

\* A record that send buffers is new to every place.
LEMMA SendAccounted ==
  ASSUME TypeOK, Queues, Held, NEW r \in Rec, Send(r)
  PROVE  TypeOK' /\ Queues' /\ Held'
<1> DEFINE W == Records(wire)  V == Records(wire')  Q == Records(inq)
<1>1. UNCHANGED <<client, limit, req, svars, inq, calls, reply, lost>>
  BY DEF Send
<1>2. Held'
  BY <1>1 DEF Held, svars
<1>3. /\ Split(Buffered, buf, W, Q, appended, dropped, lost) /\ Buffered \subseteq tried
      /\ given \cap held = {} /\ given \cap late = {} /\ held \cap late = {}
  BY DEF Queues
<1>4. /\ r \notin tried /\ tried' = tried \cup {r} /\ late = {} /\ held' = held
      /\ wire' \in Seq(SUBSET Rec) /\ Len(wire') <= SndHwm /\ Apart(wire')
      /\ dropped' \subseteq Rec /\ buf' \subseteq Rec
      /\ \/ UNCHANGED <<buf, wire, dropped, late, given>>
         \/ /\ \/ given' = given \cup {r} /\ late' = {}
               \/ given' = given /\ late' = {r}
            /\ \/ buf' = {r} /\ V = W \cup buf /\ dropped' = dropped
               \/ buf' = {r} /\ V = W /\ dropped' = dropped \cup buf
               \/ buf' = buf \cup {r} /\ UNCHANGED <<wire, dropped>>
  BY Sent
<1>5. CASE UNCHANGED <<buf, wire, dropped, late, given>>
  <2>1. Queues'
    BY <1>1, <1>4, <1>5 DEF Queues, Buffered, svars
  <2>2. TypeOK'
    BY <1>1, <1>4, <1>5 DEF TypeOK, svars
  <2> QED  BY <1>2, <2>1, <2>2
<1>6. CASE /\ \/ given' = given \cup {r} /\ late' = {}
              \/ given' = given /\ late' = {r}
           /\ \/ buf' = {r} /\ V = W \cup buf /\ dropped' = dropped
              \/ buf' = {r} /\ V = W /\ dropped' = dropped \cup buf
              \/ buf' = buf \cup {r} /\ V = W /\ dropped' = dropped
  <2>1. r \notin Buffered /\ Buffered' = Buffered \cup {r}
    BY <1>3, <1>4, <1>6 DEF Buffered
  <2>2. Split(Buffered', buf', V, Q, appended, dropped', lost)
    <3> HIDE DEF W, Q, V
    <3> QED  BY <1>3, <1>6, <2>1 DEF Split
  <2>3. /\ given' \cap held' = {} /\ given' \cap late' = {} /\ held' \cap late' = {}
        /\ Buffered' \subseteq tried'
    BY <1>3, <1>4, <1>6, <2>1 DEF Buffered
  <2>4. Queues'
    BY <1>1, <1>4, <2>2, <2>3 DEF Queues, svars
  <2>5. given' \subseteq Rec /\ held' \subseteq Rec /\ late' \subseteq Rec /\ tried' \subseteq Rec
    BY <1>4, <1>6 DEF TypeOK
  <2>6. TypeOK'
    BY <1>1, <1>4, <2>5 DEF TypeOK, svars
  <2> QED  BY <1>2, <2>4, <2>6
<1> QED  BY <1>4, <1>5, <1>6

\* A flush, send's own or the owner's, moves the buffer as a whole or not at all.
LEMMA FlushAccounted ==
  ASSUME TypeOK, Queues, Held, SendFull \/ ClientFlush \/ ClientDrop
  PROVE  TypeOK' /\ Queues' /\ Held'
<1> DEFINE W == Records(wire)  V == Records(wire')  Q == Records(inq)
<1>1. UNCHANGED <<limit, req, tried, svars, inq, calls, reply>>
  BY DEF SendFull, ClientFlush, ClientDrop
<1>2. Held'
  BY <1>1 DEF Held, svars
<1>3. /\ Split(Buffered, buf, W, Q, appended, dropped, lost)
      /\ Apart(wire) /\ Apart(inq) /\ Buffered \subseteq tried
      /\ given \cap held = {} /\ given \cap late = {} /\ held \cap late = {}
  BY DEF Queues
<1>4. W \cap buf = {} /\ buf \in SUBSET Rec
  BY <1>3 DEF Split, TypeOK
<1>5. /\ wire' \in Seq(SUBSET Rec) /\ Len(wire') <= SndHwm /\ Apart(wire')
      /\ dropped' \subseteq Rec /\ lost' \subseteq Rec /\ buf' \subseteq Rec
      /\ \/ buf' = {} /\ V = W \cup buf /\ dropped' = dropped /\ lost' = lost
         \/ buf' = {} /\ V = W /\ dropped' = dropped \cup buf /\ lost' = lost
         \/ buf' = {} /\ V = W /\ dropped' = dropped /\ lost' = lost \cup buf
         \/ buf' = buf /\ V = W /\ dropped' = dropped /\ lost' = lost
  <2>1. CASE Push(buf) /\ buf' = {} /\ lost' = lost
    BY <2>1, <1>3, <1>4, Pushed DEF TypeOK
  <2>2. CASE buf' = {} /\ lost' = lost \cup buf /\ UNCHANGED <<wire, dropped>>
    BY <2>2, <1>3, <1>4 DEF TypeOK
  <2>3. CASE buf' = buf /\ UNCHANGED <<wire, dropped, lost>>
    BY <2>3, <1>3, <1>4 DEF TypeOK
  <2> QED  BY <2>1, <2>2, <2>3 DEF SendFull, ClientFlush, ClientDrop, Flush, FlushErr
<1>6. /\ Buffered' = Buffered
      /\ given' \cap held' = {} /\ given' \cap late' = {} /\ held' \cap late' = {}
      /\ given' \subseteq Rec /\ held' \subseteq Rec /\ late' \subseteq Rec
  <2>1. CASE late' = {} /\ given' = given \cup late /\ held' = held
    BY <1>3, <2>1 DEF Buffered, TypeOK
  <2>2. CASE late' = {} /\ given' = given /\ held' = held \cup late
    BY <1>3, <2>2 DEF Buffered, TypeOK
  <2>3. CASE UNCHANGED <<late, given, held>>
    BY <1>3, <2>3 DEF Buffered, TypeOK
  <2> QED  BY <2>1, <2>2, <2>3 DEF SendFull, ClientFlush, ClientDrop
<1>7. Split(Buffered, buf', V, Q, appended, dropped', lost')
  <2> HIDE DEF W, Q, V
  <2> QED  BY <1>3, <1>5 DEF Split
<1>8. Queues'
  BY <1>1, <1>3, <1>5, <1>6, <1>7 DEF Queues, svars
<1>9. client' \in {"new", "idle", "waiting", "gone"}
  BY DEF SendFull, ClientFlush, ClientDrop, TypeOK
<1>10. TypeOK'
  BY <1>1, <1>5, <1>6, <1>9 DEF TypeOK, svars
<1> QED  BY <1>2, <1>8, <1>10

\* libzmq moves a batch from one queue to the other, or drops it.
LEMMA DeliverAccounted ==
  ASSUME TypeOK, Queues, Held, Deliver
  PROVE  TypeOK' /\ Queues' /\ Held'
<1> DEFINE W == Records(wire)  Q == Records(inq)  V == Records(Tail(wire))
<1>1. UNCHANGED <<cvars, svars, calls, reply>> /\ wire' = Tail(wire) /\ wire # <<>>
  BY DEF Deliver
<1>2. Held'
  BY <1>1 DEF Held, svars
<1>3. Split(Buffered, buf, W, Q, appended, dropped, lost) /\ Apart(wire) /\ Apart(inq)
  BY DEF Queues
<1>4. /\ wire \in Seq(SUBSET Rec) /\ inq \in Seq(SUBSET Rec) /\ Len(wire) <= SndHwm
      /\ Len(wire) \in Nat /\ Len(inq) \in Nat /\ SndHwm \in Nat /\ RcvHwm \in Nat
  BY IngestAssumption DEF TypeOK
<1>5. /\ Head(wire) \in SUBSET Rec /\ wire' \in Seq(SUBSET Rec)
      /\ Len(wire') = Len(wire) - 1 /\ Apart(wire') /\ Records(wire') = V
      /\ W = Head(wire) \cup V /\ Head(wire) \cap V = {}
  BY <1>1, <1>3, <1>4, Taken
<1>6. Len(wire') <= SndHwm
  BY <1>4, <1>5
<1>7. Q \cap Head(wire) = {}
  <2> HIDE DEF W, Q, V
  <2> QED  BY <1>3, <1>5 DEF Split
<1>8. /\ inq' \in Seq(SUBSET Rec) /\ Len(inq') <= RcvHwm /\ Apart(inq')
      /\ lost' \subseteq Rec
      /\ \/ Records(inq') = Q /\ lost' = lost \cup Head(wire)
         \/ Records(inq') = Q \cup Head(wire) /\ lost' = lost
  <2>1. CASE lost' = lost \cup Head(wire) /\ inq' = inq
    BY <2>1, <1>3, <1>5 DEF TypeOK
  <2>2. CASE inq' = Append(inq, Head(wire)) /\ lost' = lost /\ Len(inq) < RcvHwm
    <3>1. /\ inq' \in Seq(SUBSET Rec) /\ Len(inq') = Len(inq) + 1 /\ Apart(inq')
          /\ Records(inq') = Q \cup Head(wire)
      BY <2>2, <1>3, <1>4, <1>5, <1>7, Appended
    <3>2. Len(inq') <= RcvHwm
      BY <2>2, <3>1, <1>4
    <3> QED  BY <2>2, <3>1, <3>2 DEF TypeOK
  <2> QED  BY <2>1, <2>2 DEF Deliver
<1>9. Split(Buffered, buf, Records(wire'), Records(inq'), appended, dropped, lost')
  <2> DEFINE P == Records(inq')  h == Head(wire)
  <2>1. W = h \cup V /\ h \cap V = {}
    BY <1>5
  <2>2. Split(Buffered, buf, V, P, appended, dropped, lost')
    <3> HIDE DEF W, V, Q, P, h
    <3>1. \/ P = Q /\ lost' = lost \cup h
          \/ P = Q \cup h /\ lost' = lost
      BY <1>8 DEF P, h
    <3> QED  BY <1>3, <2>1, <3>1 DEF Split
  <2> QED  BY <2>2, <1>5
<1>10. Queues'
  BY <1>1, <1>5, <1>8, <1>9 DEF Queues, Buffered, cvars, svars
<1>11. TypeOK'
  BY <1>1, <1>5, <1>6, <1>8 DEF TypeOK, cvars, svars
<1> QED  BY <1>2, <1>10, <1>11

\* Another producer's batch holds none of the records.
LEMMA FloodAccounted ==
  ASSUME TypeOK, Queues, Held, Flood
  PROVE  TypeOK' /\ Queues' /\ Held'
<1>1. /\ UNCHANGED <<cvars, svars, wire, calls, reply, lost>>
      /\ inq' = Append(inq, {}) /\ Len(inq) < RcvHwm
  BY DEF Flood
<1>2. /\ inq \in Seq(SUBSET Rec) /\ {} \in SUBSET Rec /\ Apart(inq)
      /\ Len(inq) \in Nat /\ RcvHwm \in Nat
  BY IngestAssumption DEF TypeOK, Queues
<1>3. /\ inq' \in Seq(SUBSET Rec) /\ Len(inq') = Len(inq) + 1 /\ Apart(inq')
      /\ Records(inq') = Records(inq)
  BY <1>1, <1>2, Appended
<1>4. Len(inq') <= RcvHwm
  BY <1>1, <1>2, <1>3
<1>5. Held'
  BY <1>1 DEF Held, svars
<1>6. Queues'
  BY <1>1, <1>3 DEF Queues, Buffered, cvars, svars
<1>7. TypeOK'
  BY <1>1, <1>3, <1>4 DEF TypeOK, cvars, svars
<1> QED  BY <1>5, <1>6, <1>7

\* The server takes a batch, record by record, to the engine or to the losses.
LEMMA IngestAccounted ==
  ASSUME TypeOK, Queues, Held, IngestBatch \/ DrainBatch
  PROVE  TypeOK' /\ Queues' /\ Held'
<1> DEFINE Q == Records(inq)  P == Records(inq')  h == Head(inq)
<1>1. /\ IngestHead /\ inq # <<>> /\ served' \in 0..MaxPoll
      /\ UNCHANGED <<cvars, wire, calls, reply, server, ready, stop, limits, starts>>
  <2>1. /\ IngestHead /\ inq # <<>>
        /\ (served < MaxPoll /\ served' = served + 1) \/ served' = 1
        /\ UNCHANGED <<cvars, wire, calls, reply, server, ready, stop, limits, starts>>
    BY DEF IngestBatch, DrainBatch
  <2>2. served \in 0..MaxPoll
    BY DEF TypeOK
  <2>3. served' \in 0..MaxPoll
    BY <2>1, <2>2, Numbers
  <2> QED  BY <2>1, <2>3
<1>2. Split(Buffered, buf, Records(wire), Q, appended, dropped, lost) /\ Apart(inq)
  BY DEF Queues
<1>3. /\ inq' \in Seq(SUBSET Rec) /\ Len(inq') <= RcvHwm /\ Apart(inq')
      /\ appended' \subseteq Rec /\ lost' \subseteq Rec
      /\ Q = h \cup P /\ h \cap P = {}
      /\ \E A \in SUBSET h : appended' = appended \cup A /\ lost' = lost \cup (h \ A)
  BY <1>1, <1>2, Ingested
<1>4. Split(Buffered, buf, Records(wire), P, appended', dropped, lost')
  <2> DEFINE W == Records(wire)
  <2> HIDE DEF W, Q, P, h
  <2> QED  BY <1>2, <1>3 DEF Split, W
<1>5. Held'
  BY <1>1 DEF Held
<1>6. Queues'
  BY <1>1, <1>3, <1>4 DEF Queues, Buffered, cvars
<1>7. TypeOK'
  BY <1>1, <1>3 DEF TypeOK, cvars
<1> QED  BY <1>5, <1>6, <1>7

\* A server that goes loses what its queue holds.
LEMMA StopAccounted ==
  ASSUME TypeOK, Queues, Held, CloseServer \/ Crash
  PROVE  TypeOK' /\ Queues' /\ Held'
<1> DEFINE W == Records(wire)  Q == Records(inq)
<1>1. /\ server' = "closed" /\ lost' = lost \cup Q /\ inq' = <<>>
      /\ UNCHANGED <<cvars, wire, calls, reply, served, ready, stop, limits,
                     appended, starts>>
  BY DEF CloseServer, Crash
<1>2. Split(Buffered, buf, W, Q, appended, dropped, lost)
  BY DEF Queues
<1>3. Split(Buffered, buf, W, {}, appended, dropped, lost \cup Q) /\ Q \subseteq Buffered
  <2> HIDE DEF W, Q
  <2> QED  BY <1>2 DEF Split
<1>4. Held'
  BY <1>1 DEF Held
<1>5. Queues'
  BY <1>1, <1>3, EmptyQueue DEF Queues, Buffered, cvars
<1>6. lost' \subseteq Rec /\ inq' \in Seq(SUBSET Rec) /\ Len(inq') <= RcvHwm
  <2>1. Buffered \subseteq Rec
    BY DEF TypeOK, Buffered
  <2> HIDE DEF W, Q
  <2>2. Q \subseteq Rec
    BY <1>3, <2>1
  <2>3. lost' \subseteq Rec
    BY <1>1, <2>2 DEF TypeOK
  <2> QED  BY <1>1, <2>3, IngestAssumption
<1>7. TypeOK'
  BY <1>1, <1>6 DEF TypeOK, cvars
<1> QED  BY <1>4, <1>5, <1>7
----------------------------------------------------------------------------
\* Steps that move no record.
LEMMA QuietQueues ==
  ASSUME Queues,
         UNCHANGED <<buf, dropped, late, given, held, tried, wire, inq, appended, lost>>
  PROVE  Queues'
BY DEF Queues, Buffered

\* A control request joins the queue of requests.
LEMMA ControlAccounted ==
  ASSUME TypeOK, Queues, Held, NEW op \in Ops, Control(op)
  PROVE  TypeOK' /\ Queues' /\ Held'
<1>1. Queues'
  BY QuietQueues DEF Control, svars
<1>2. req \in 0..MaxReq /\ req < MaxReq /\ MaxReq \in Nat
  BY IngestAssumption DEF Control, TypeOK
<1>3. req' \in 0..MaxReq /\ req' \in 1..MaxReq
  BY <1>2 DEF Control
<1>4. [n |-> req', op |-> op] \in [n : 1..MaxReq, op : Ops]
  BY <1>3
<1>5. calls' \in Seq([n : 1..MaxReq, op : Ops]) /\ calls' # <<>>
  <2>1. calls \in Seq([n : 1..MaxReq, op : Ops])
    BY DEF TypeOK
  <2>2. calls' = Append(calls, [n |-> req', op |-> op])
    BY DEF Control
  <2> HIDE DEF Ops
  <2> QED  BY <1>4, <2>1, <2>2
<1>6. Held'
  BY <1>5 DEF Control, Held, svars
<1>7. TypeOK'
  BY <1>3, <1>5 DEF Control, TypeOK, svars
<1> QED  BY <1>1, <1>6, <1>7

\* A reply, or its absence, changes at most the limit.
LEMMA ReplyAccounted ==
  ASSUME TypeOK, Queues, Held, ControlReply \/ ControlTimeout
  PROVE  TypeOK' /\ Queues' /\ Held'
<1>1. Queues'
  BY QuietQueues DEF ControlReply, ControlTimeout, svars
<1>2. Held'
  BY DEF ControlReply, ControlTimeout, Held, svars
<1>3. limit' \in Nat
  <2>1. ASSUME NEW m \in Nat, NEW n \in Nat PROVE Min({m, n}) \in Nat
    BY <2>1 DEF Min
  <2>2. reply.limit \in Nat /\ Configured \in Nat /\ limit \in Nat
    BY IngestAssumption DEF TypeOK
  <2>3. Min({Configured, reply.limit}) \in Nat
    BY <2>1, <2>2
  <2> QED  BY <2>2, <2>3 DEF ControlReply, ControlTimeout
<1>4. client' \in {"new", "idle", "waiting", "gone"}
  BY DEF ControlReply, ControlTimeout
<1>5. TypeOK'
  BY <1>3, <1>4 DEF ControlReply, ControlTimeout, TypeOK, svars
<1> QED  BY <1>1, <1>2, <1>5

\* A request that poll saw is there to be served.
LEMMA ServeAccounted ==
  ASSUME TypeOK, Queues, Held, ServeControl
  PROVE  TypeOK' /\ Queues' /\ Held'
<1>1. Queues'
  BY QuietQueues DEF ServeControl, cvars
<1>2. Held'
  BY DEF ServeControl, Held
<1>3. calls # <<>> /\ calls \in Seq([n : 1..MaxReq, op : Ops])
  BY DEF ServeControl, Held, TypeOK
<1>4. Head(calls) \in [n : 1..MaxReq, op : Ops]
      /\ calls' \in Seq([n : 1..MaxReq, op : Ops])
  <2>1. calls' = Tail(calls)
    BY DEF ServeControl
  <2> QED  BY <1>3, <2>1, CallQueue
<1>5. reply' \in [n : 0..MaxReq, limit : Nat] /\ stop' \in BOOLEAN
  <2>1. Head(calls).n \in 0..MaxReq /\ SrvLimit \in Nat
    <3>1. Head(calls).n \in 1..MaxReq
      BY <1>4
    <3>2. limits \in [1..MaxStart -> Nat \ {0}] /\ MaxReq \in Nat /\ MaxStart \in Nat
      BY IngestAssumption DEF TypeOK
    <3>3. starts \in 1..MaxStart
      BY <3>2 DEF TypeOK, Held, ServeControl
    <3>4. SrvLimit \in Nat
      BY <3>2, <3>3 DEF SrvLimit
    <3> QED  BY <3>1, <3>2, <3>4
  <2>2. stop' \in BOOLEAN
    BY DEF ServeControl, TypeOK
  <2> DEFINE n == Head(calls).n
             lim == IF Head(calls).op = "schema" THEN SrvLimit ELSE 0
  <2>3. reply' = [n |-> n, limit |-> lim]
    BY DEF ServeControl
  <2>4. n \in 0..MaxReq /\ lim \in Nat
    BY <2>1
  <2> HIDE DEF n, lim
  <2>5. reply' \in [n : 0..MaxReq, limit : Nat]
    BY <2>3, <2>4
  <2> QED  BY <2>2, <2>5
<1>6. TypeOK'
  BY <1>4, <1>5 DEF ServeControl, TypeOK, cvars
<1> QED  BY <1>1, <1>2, <1>6

\* The server's own control steps move no record.
LEMMA LoopAccounted ==
  ASSUME TypeOK, Queues, Held,
         Start \/ Poll \/ IngestDone \/ StopHandle \/ DrainEnd
  PROVE  TypeOK' /\ Queues' /\ Held'
<1>1. Queues'
  BY QuietQueues DEF Start, Poll, IngestDone, StopHandle, DrainEnd, cvars
<1>2. calls \in Seq([n : 1..MaxReq, op : Ops]) /\ (Len(calls) > 0 => calls # <<>>)
  BY DEF TypeOK
<1>3. CASE Start
  <2>1. Held'
    BY <1>3 DEF Start, Held, TypeOK
  <2>2. starts' \in 0..MaxStart
    <3>1. starts \in 0..MaxStart /\ starts < MaxStart /\ starts' = starts + 1
      BY <1>3 DEF Start, TypeOK
    <3>2. MaxStart \in Nat
      BY IngestAssumption
    <3> QED  BY <3>1, <3>2
  <2>3. calls' \in Seq([n : 1..MaxReq, op : Ops])
    <3>1. calls' = calls \/ calls' = <<>>
      BY <1>3 DEF Start
    <3> QED  BY <1>2, <3>1, CallQueue
  <2>4. served' \in 0..MaxPoll /\ ready' \subseteq {"ingest", "control"}
        /\ stop' \in BOOLEAN
        /\ server' \in {"poll", "ingest", "control", "drain", "closing", "closed"}
    BY <1>3, Numbers DEF Start
  <2>5. UNCHANGED <<cvars, wire, inq, reply, limits, appended, lost>>
    BY <1>3 DEF Start
  <2>6. TypeOK'
    BY <2>2, <2>3, <2>4, <2>5 DEF TypeOK, cvars
  <2> QED  BY <1>1, <2>1, <2>6
<1>4. CASE Poll
  <2>1. Held'
    BY <1>2, <1>4 DEF Poll, Held
  <2>2. served' \in 0..MaxPoll /\ ready' \subseteq {"ingest", "control"}
        /\ server' \in {"poll", "ingest", "control", "drain", "closing", "closed"}
    BY <1>4, Numbers DEF Poll
  <2>3. UNCHANGED <<cvars, wire, inq, calls, reply, stop, limits, appended, lost,
                    starts>>
    BY <1>4 DEF Poll
  <2>4. TypeOK'
    BY <2>2, <2>3 DEF TypeOK, cvars
  <2> QED  BY <1>1, <2>1, <2>4
<1>5. CASE IngestDone
  <2>1. Held'
    BY <1>5 DEF IngestDone, Held
  <2>2. TypeOK'
    BY <1>5 DEF IngestDone, TypeOK, cvars
  <2> QED  BY <1>1, <2>1, <2>2
<1>6. CASE StopHandle
  BY <1>1, <1>6 DEF StopHandle, TypeOK, Held, cvars
<1>7. CASE DrainEnd
  BY <1>1, <1>7 DEF DrainEnd, TypeOK, Held, cvars
<1> QED  BY <1>3, <1>4, <1>5, <1>6, <1>7
----------------------------------------------------------------------------
\* Every record that Client::send buffered, whatever it then returned, is in
\* exactly one place, for any sizes, limits, queue capacities and faults:
\* buffered, in one batch of one queue, appended, counted as dropped, or lost.
THEOREM Accounting == Spec => []Accounted
<1>1. Init => Accounted
  <2> SUFFICES ASSUME Init PROVE TypeOK /\ Queues /\ Held
    BY Flat
  <2>1. TypeOK
    <3>1. /\ limit \in Nat /\ req \in 0..MaxReq /\ served \in 0..MaxPoll
          /\ starts \in 0..MaxStart /\ limits \in Limits
          /\ reply \in [n : 0..MaxReq, limit : Nat]
      BY Numbers, IngestAssumption DEF Init
    <3>2. wire = <<>> /\ inq = <<>> /\ calls = <<>>
      BY DEF Init
    <3>3. wire \in Seq(SUBSET Rec) /\ inq \in Seq(SUBSET Rec)
      BY <3>2
    <3>4. calls \in Seq([n : 1..MaxReq, op : Ops])
      BY <3>2
    <3>5. Len(wire) <= SndHwm /\ Len(inq) <= RcvHwm
      BY <3>2, Numbers
    <3> QED  BY <3>1, <3>3, <3>4, <3>5 DEF Init, TypeOK
  <2>2. Queues
    BY EmptyQueue DEF Init, Queues, Buffered, Split
  <2>3. Held
    BY DEF Init, Held
  <2> QED  BY <2>1, <2>2, <2>3
<1>2. Accounted /\ [Next]_vars => Accounted'
  <2> SUFFICES ASSUME TypeOK, Queues, Held, [Next]_vars
               PROVE  TypeOK' /\ Queues' /\ Held'
    BY Flat, FlatPrime
  <2>1. CASE Client
    BY <2>1, SendAccounted, FlushAccounted, ControlAccounted, ReplyAccounted
       DEF Client
  <2>2. CASE Server
    BY <2>2, IngestAccounted, StopAccounted, ServeAccounted, LoopAccounted
       DEF Server
  <2>3. CASE Deliver \/ Flood \/ Start \/ StopHandle \/ Crash
    BY <2>3, DeliverAccounted, FloodAccounted, LoopAccounted, StopAccounted
  <2>4. CASE UNCHANGED vars
    <3>1. Queues' /\ Held'
      BY <2>4, QuietQueues DEF vars, cvars, svars, Held
    <3>2. TypeOK'
      BY <2>4 DEF vars, cvars, svars, TypeOK
    <3> QED  BY <3>1, <3>2
  <2> QED  BY <2>1, <2>2, <2>3, <2>4 DEF Next
<1> QED  BY <1>1, <1>2, PTL DEF Spec
=============================================================================
