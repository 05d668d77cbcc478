------------------------------ MODULE Ingest ------------------------------
(***************************************************************************)
(* Remote ingest: client.rs, server.rs and the libzmq sockets between them *)
(* (PUSH to PULL for records, REQ to REP for control).                     *)
(*                                                                         *)
(* A client is one thread: send, flush and control calls do not overlap.   *)
(* The server is one thread: poll, a bounded drain of the ingest queue,    *)
(* at most one control request, again.  A batch is the set of its records; *)
(* sizes are in units, the batch header being one.  Other producers are    *)
(* the batches of Flood, whose records are not tracked.                    *)
(***************************************************************************)
EXTENDS Naturals, Sequences, FiniteSets, FiniteSetsExt

CONSTANTS
  Rec,         \* records the client has to send
  Size,        \* the encoded size of each
  Batch,       \* ClientBuilder::batch
  Configured,  \* ClientBuilder::max_batch_bytes
  Limits,      \* server.max_batch_bytes at each start: the ways it may change
  OnFull,      \* Block or Drop
  SndHwm,      \* capacity of the client's queue (sndhwm), in batches
  RcvHwm,      \* capacity of the server's queue (rcv_hwm), in batches
  MaxPoll,     \* MAX_BATCHES_PER_POLL
  MaxReq,      \* bound: control requests of the client
  MaxStart,    \* bound: starts of the server
  Faults       \* send (push.send fails), refuse (of records by the engine),
               \* crash (of the server), flood

ASSUME IngestAssumption ==
  /\ Size \in [Rec -> Nat \ {0}] /\ Limits # {}
  /\ Limits \subseteq [1..MaxStart -> Nat \ {0}]
  /\ {Batch, SndHwm, RcvHwm, MaxPoll, MaxStart} \subseteq Nat \ {0}
  /\ Configured \in Nat /\ MaxReq \in Nat
  /\ OnFull \in {"Block", "Drop"} /\ Faults \subseteq {"send", "refuse", "crash", "flood"}

VARIABLES
  client,     \* new, idle, waiting (for a control reply) or gone
  buf,        \* the client's buffered records
  limit,      \* Client::max_batch_bytes
  req,        \* number of the latest control request
  wire,       \* batches on the client's side of the connection
  dropped,    \* records counted in ClientStats::records_dropped
  late,       \* the record whose send is at its last flush, if any
  given,      \* history: records send returned Ok for
  held,       \* history: records left buffered by a send that returned Err
  tried,      \* history: records handed to send
  server,     \* poll, ingest, control, drain, closing or closed
  served,     \* batches read since the poll
  ready,      \* the sockets the last poll found readable
  stop,       \* Server::stop
  limits,     \* the one of Limits that this history has
  inq,        \* batches in the server's receive queue
  calls,      \* control requests in the REP queue
  reply,      \* the latest reply: its request, and the limit it carries
  appended,   \* records the engine has appended
  lost,       \* records lost after that: refused, oversized, or left behind
  starts      \* starts of the server so far

cvars == <<client, buf, limit, req, dropped, late, given, held, tried>>
svars == <<server, served, ready, stop, limits, appended, starts>>
vars  == <<cvars, svars, wire, inq, calls, reply, lost>>

Ops == {"schema", "flush", "shutdown"}

\* The type invariant of client, server and queues.
TypeOK ==
  /\ client \in {"new", "idle", "waiting", "gone"}
  /\ buf \subseteq Rec /\ limit \in Nat /\ req \in 0..MaxReq
  /\ wire \in Seq(SUBSET Rec) /\ Len(wire) <= SndHwm
  /\ dropped \subseteq Rec /\ late \subseteq Rec
  /\ given \subseteq Rec /\ held \subseteq Rec /\ tried \subseteq Rec
  /\ server \in {"poll", "ingest", "control", "drain", "closing", "closed"}
  /\ served \in 0..MaxPoll /\ ready \subseteq {"ingest", "control"}
  /\ stop \in BOOLEAN /\ limits \in Limits
  /\ inq \in Seq(SUBSET Rec) /\ Len(inq) <= RcvHwm
  /\ calls \in Seq([n : 1..MaxReq, op : Ops])
  /\ reply \in [n : 0..MaxReq, limit : Nat]
  /\ appended \subseteq Rec /\ lost \subseteq Rec
  /\ starts \in 0..MaxStart

Init ==
  /\ client = "new" /\ buf = {} /\ limit = Configured /\ req = 0
  /\ wire = <<>> /\ dropped = {} /\ late = {} /\ given = {} /\ held = {} /\ tried = {}
  /\ server = "closed" /\ served = 0 /\ ready = {} /\ stop = FALSE
  /\ limits \in Limits
  /\ inq = <<>> /\ calls = <<>> /\ reply = [n |-> 0, limit |-> 0]
  /\ appended = {} /\ lost = {} /\ starts = 0
----------------------------------------------------------------------------
\* The size of a message: its batch header and its frames.
Bytes(b) == 1 + MapThenSumSet(LAMBDA r : Size[r], b)

\* push.send of batch b: into the queue, or, when that is full, dropped and
\* counted; a blocking send waits, which is a step not taken yet.
Push(b) ==
  \/ /\ Len(wire) < SndHwm
     /\ wire' = Append(wire, b) /\ UNCHANGED dropped
  \/ /\ Len(wire) = SndHwm /\ OnFull = "Drop"
     /\ dropped' = dropped \cup b /\ UNCHANGED wire

\* Mutant: the size bound forgets the batch header.
TooLargeBare(b) == Bytes(b) - 1 > limit

TooLarge(b) == Bytes(b) > limit

\* Client::flush of the buffered records b, when it returns Ok; and when it
\* returns Err, which leaves them buffered.
Flush(b) == ~TooLarge(b) /\ Push(b)

FlushErr(b) == (TooLarge(b) \/ "send" \in Faults) /\ UNCHANGED <<wire, dropped>>

\* Between two calls of the client's owner.
Idle == client = "idle" /\ late = {}

\* Mutant: the split sends the earlier records and forgets the new one.
SendLosing(r) ==
  /\ Idle /\ r \in Rec \ tried
  /\ tried' = tried \cup {r} /\ given' = given \cup {r}
  /\ IF buf # {} /\ TooLarge(buf \cup {r})
     THEN Flush(buf) /\ buf' = {}
     ELSE buf' = buf \cup {r} /\ UNCHANGED <<wire, dropped>>
  /\ UNCHANGED <<client, limit, req, late, held, svars, inq, calls, reply, lost>>

\* The new record is buffered: send returns, or has a full batch to flush.
Buffer(b, r) ==
  /\ buf' = b \cup {r}
  /\ IF Cardinality(buf') < Batch
     THEN given' = given \cup {r} /\ UNCHANGED late
     ELSE late' = {r} /\ UNCHANGED given

\* Client::send up to the count of the batch.  A record too large on its own is
\* refused.  One that does not fit goes into the next batch, unless the flush of
\* the earlier ones fails, which also refuses the record.
Send(r) ==
  /\ Idle /\ r \in Rec \ tried
  /\ tried' = tried \cup {r}
  /\ \/ TooLarge({r}) /\ UNCHANGED <<buf, wire, dropped, late, given>>
     \/ /\ ~TooLarge({r}) /\ buf # {} /\ TooLarge(buf \cup {r})
        /\ \/ Flush(buf) /\ Buffer({}, r)
           \/ FlushErr(buf) /\ UNCHANGED <<buf, late, given>>
     \/ /\ ~TooLarge(buf \cup {r})
        /\ Buffer(buf, r) /\ UNCHANGED <<wire, dropped>>
  /\ UNCHANGED <<client, limit, req, held, svars, inq, calls, reply, lost>>

\* Client::send flushes the full batch.  When that fails it returns Err, with
\* the record still buffered: a later flush sends it.
SendFull ==
  /\ late # {} /\ late' = {}
  /\ \/ Flush(buf) /\ buf' = {} /\ given' = given \cup late /\ UNCHANGED held
     \/ FlushErr(buf) /\ held' = held \cup late /\ UNCHANGED <<buf, given>>
  /\ UNCHANGED <<client, limit, req, tried, svars, inq, calls, reply, lost>>

\* Client::flush; one that fails changes nothing.
ClientFlush ==
  /\ Idle /\ buf # {} /\ Flush(buf) /\ buf' = {}
  /\ UNCHANGED <<client, limit, req, late, given, held, tried, svars, inq, calls,
                 reply, lost>>

\* The drop of a client is a flush too, whatever it returns.
ClientDrop ==
  /\ Idle
  /\ client' = "gone" /\ buf' = {}
  /\ \/ buf = {} /\ UNCHANGED <<wire, dropped, lost>>
     \/ buf # {} /\ Flush(buf) /\ UNCHANGED lost
     \/ buf # {} /\ FlushErr(buf) /\ lost' = lost \cup buf
  /\ UNCHANGED <<limit, req, late, given, held, tried, svars, inq, calls, reply>>

\* Client::control; connect makes the first call, for the schema.
Control(op) ==
  /\ Idle \/ (client = "new" /\ op = "schema")
  /\ req < MaxReq
  /\ req' = req + 1 /\ client' = "waiting"
  /\ calls' = Append(calls, [n |-> req + 1, op |-> op])
  /\ UNCHANGED <<buf, limit, dropped, late, given, held, tried, svars, wire, inq,
                 reply, lost>>

\* The reply arrives; refresh_schema takes the smaller limit.  The sockets are
\* RELAXED and CORRELATE, so only the reply to the latest request is seen.
ControlReply ==
  /\ client = "waiting" /\ reply.n = req
  /\ client' = "idle"
  /\ limit' = IF reply.limit = 0 THEN limit ELSE Min({Configured, reply.limit})
  /\ UNCHANGED <<buf, req, dropped, late, given, held, tried, svars, wire, inq,
                 calls, reply, lost>>

\* The reply does not come in time: a failed connect yields no client.
ControlTimeout ==
  /\ client = "waiting" /\ reply.n # req
  /\ client' = IF req = 1 THEN "gone" ELSE "idle"
  /\ UNCHANGED <<buf, limit, req, dropped, late, given, held, tried, svars, wire,
                 inq, calls, reply, lost>>
----------------------------------------------------------------------------
\* server.max_batch_bytes
SrvLimit == limits[starts]

\* libzmq moves the oldest batch to the server's queue; one larger than
\* ZMQ_MAXMSGSIZE is dropped without a word.
Deliver ==
  /\ wire # <<>> /\ server # "closed"
  /\ \/ /\ Bytes(Head(wire)) > SrvLimit
        /\ lost' = lost \cup Head(wire) /\ UNCHANGED inq
     \/ /\ Bytes(Head(wire)) <= SrvLimit /\ Len(inq) < RcvHwm
        /\ inq' = Append(inq, Head(wire)) /\ UNCHANGED lost
  /\ wire' = Tail(wire)
  /\ UNCHANGED <<cvars, svars, calls, reply>>

\* Another producer's batch arrives.
Flood ==
  /\ "flood" \in Faults /\ server # "closed" /\ Len(inq) < RcvHwm
  /\ inq' = Append(inq, {})
  /\ UNCHANGED <<cvars, svars, wire, calls, reply, lost>>

\* Server::bind, with the configuration of this start.  A request the previous
\* server had received is lost with it.
Start ==
  /\ server = "closed" /\ starts < MaxStart
  /\ server' = "poll" /\ starts' = starts + 1 /\ stop' = FALSE
  /\ served' = 0 /\ ready' = {}
  /\ calls' \in {calls, <<>>}
  /\ UNCHANGED <<cvars, wire, inq, reply, limits, appended, lost>>

\* Server::serve, one round: leave, or note which sockets are readable.
Poll ==
  /\ server = "poll"
  /\ IF stop THEN server' = "drain" /\ ready' = {}
     ELSE /\ inq # <<>> \/ calls # <<>>
          /\ server' = "ingest"
          /\ ready' = {x \in {"ingest", "control"} :
                         (IF x = "ingest" THEN Len(inq) ELSE Len(calls)) > 0}
  /\ served' = 0
  /\ UNCHANGED <<cvars, wire, inq, calls, reply, stop, limits, appended, lost,
                 starts>>

\* Server::ingest_batch: append_raw takes the frames of A and skips, or stops at,
\* the others; its error loses the batch.
IngestHead ==
  /\ inq' = Tail(inq)
  /\ \E A \in SUBSET Head(inq) :
       /\ A = Head(inq) \/ "refuse" \in Faults
       /\ appended' = appended \cup A /\ lost' = lost \cup (Head(inq) \ A)

\* Mutant: the drain reads until the queue is empty.
IngestBatchUncapped ==
  /\ server = "ingest" /\ "ingest" \in ready /\ inq # <<>>
  /\ IngestHead
  /\ UNCHANGED <<cvars, wire, calls, reply, server, served, ready, stop, limits,
                 starts>>

\* Server::drain_ingest, one batch.
IngestBatch ==
  /\ server = "ingest" /\ "ingest" \in ready /\ inq # <<>> /\ served < MaxPoll
  /\ IngestHead
  /\ served' = served + 1
  /\ UNCHANGED <<cvars, wire, calls, reply, server, ready, stop, limits, starts>>

\* Server::drain_ingest returns.
IngestDone ==
  /\ server = "ingest"
  /\ "ingest" \notin ready \/ inq = <<>> \/ served = MaxPoll
  /\ server' = IF "control" \in ready THEN "control" ELSE "poll"
  /\ UNCHANGED <<cvars, wire, inq, calls, reply, served, ready, stop, limits,
                 appended, lost, starts>>

\* Server::serve_control and handle: one request, always answered.
ServeControl ==
  /\ server = "control" /\ server' = "poll"
  /\ LET call == Head(calls)
     IN  /\ reply' = [n |-> call.n,
                      limit |-> IF call.op = "schema" THEN SrvLimit ELSE 0]
         /\ stop' = (stop \/ call.op = "shutdown")
  /\ calls' = Tail(calls)
  /\ UNCHANGED <<cvars, wire, inq, served, ready, limits, appended, lost, starts>>

\* A stop_handle is flipped.
StopHandle ==
  /\ server \in {"poll", "ingest", "control"} /\ ~stop
  /\ stop' = TRUE
  /\ UNCHANGED <<cvars, wire, inq, calls, reply, server, served, ready, limits,
                 appended, lost, starts>>

\* Server::drain_for_shutdown, one batch.
DrainBatch ==
  /\ server = "drain" /\ inq # <<>>
  /\ IngestHead
  /\ served' = 1
  /\ UNCHANGED <<cvars, wire, calls, reply, server, ready, stop, limits, starts>>

\* Mutant: the deadline is looked at only when the queue is empty.
DrainEndEmpty ==
  /\ server = "drain" /\ inq = <<>>
  /\ server' = "closing"
  /\ UNCHANGED <<cvars, wire, inq, calls, reply, served, ready, stop, limits,
                 appended, lost, starts>>

\* Server::drain_for_shutdown returns: the queue is empty, or after a batch the
\* deadline has passed.
DrainEnd ==
  /\ server = "drain" /\ (inq = <<>> \/ served = 1)
  /\ server' = "closing"
  /\ UNCHANGED <<cvars, wire, inq, calls, reply, served, ready, stop, limits,
                 appended, lost, starts>>

\* The records of a sequence of batches.
Records(q) == UNION Range(q)

\* The engine is closed and the sockets go, with what arrived since.
CloseServer ==
  /\ server = "closing" /\ server' = "closed"
  /\ lost' = lost \cup Records(inq) /\ inq' = <<>>
  /\ UNCHANGED <<cvars, wire, calls, reply, served, ready, stop, limits,
                 appended, starts>>

\* The server process dies.
Crash ==
  /\ "crash" \in Faults /\ server # "closed" /\ server' = "closed"
  /\ lost' = lost \cup Records(inq) /\ inq' = <<>>
  /\ UNCHANGED <<cvars, wire, calls, reply, served, ready, stop, limits,
                 appended, starts>>
----------------------------------------------------------------------------
Client ==
  \/ \E r \in Rec : Send(r)
  \/ \E op \in Ops : Control(op)
  \/ SendFull \/ ClientFlush \/ ClientDrop \/ ControlReply \/ ControlTimeout

Server ==
  \/ Poll \/ IngestBatch \/ IngestDone \/ ServeControl
  \/ DrainBatch \/ DrainEnd \/ CloseServer

Next == Client \/ Server \/ Deliver \/ Flood \/ Start \/ StopHandle \/ Crash

Spec == Init /\ [][Next]_vars

\* The server's loop runs; time passes, so a drain that never finds the queue
\* empty reaches its deadline.
FairSpec == Spec /\ WF_vars(Server) /\ SF_vars(DrainEnd)
----------------------------------------------------------------------------
\* No two of the sets of a sequence share a member.
Apart(q) == \A i, j \in DOMAIN q : i # j => q[i] \cap q[j] = {}

\* The records that send has put into the client's buffer.
Buffered == given \cup held \cup late

\* Where such a record can be.
Places == <<buf, Records(wire), Records(inq), appended, dropped, lost>>

\* Every record that send buffered, also when it then returned Err, is in exactly
\* one place: the client's buffer, one batch of one queue, the engine, the count
\* of dropped records or what the engine refused or a server, or the drop of a
\* client, lost.  None is forgotten when a batch is split or a flush fails, none
\* goes twice, and no record that send refused goes at all.  No queue exceeds its
\* high-water mark, and serve_control, which is called after the ingest queue was
\* read, still finds the request that poll saw.
Accounted ==
  /\ TypeOK
  /\ Buffered \subseteq tried /\ Buffered = Records(Places)
  /\ Apart(<<given, held, late>>)
  /\ Apart(Places) /\ Apart(wire) /\ Apart(inq)
  /\ server # "closed" => starts > 0
  /\ server = "control" => "control" \in ready
  /\ server \in {"ingest", "control"} /\ "control" \in ready => calls # <<>>

\* Until the server comes back with another limit, no batch on the wire is larger
\* than its limit, so libzmq drops none silently (Client::send: "The size bound
\* matters").
LimitRespected ==
  starts <= 1 => \A i \in DOMAIN wire : Bytes(wire[i]) <= SrvLimit

\* A control request that reaches a running server is answered however fast
\* other producers send: a poll reads at most MAX_BATCHES_PER_POLL batches.
ControlAnswered ==
  \A n \in 1..MaxReq :
    (server # "closed" /\ \E i \in DOMAIN calls : calls[i].n = n)
      ~> (reply.n >= n \/ server = "closed")

\* A server told to stop ends, however fast other producers send: the drain has
\* a deadline.
ServerStops == stop /\ server # "closed" ~> server = "closed"
=============================================================================
