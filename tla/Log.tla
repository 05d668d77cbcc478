-------------------------------- MODULE Log --------------------------------
(***************************************************************************)
(* What the write-ahead log promises, with no mention of segments, buffers *)
(* or a committer: frames in arrival order that only a stop can lose, and  *)
(* of which those an fsync has covered survive any stop.  WalWriter is     *)
(* shown to implement it.                                                  *)
(***************************************************************************)
EXTENDS Naturals, Sequences, Functions

VARIABLES
  up,       \* a writer is open
  log,      \* the frames in the log, in order
  durable,  \* those a power cut cannot take
  acked     \* those append has returned Ok for

Init == up = FALSE /\ log = <<>> /\ durable = {} /\ acked = {}

\* While the writer is open the log only grows at its end, by every frame that
\* append accepts and perhaps by frames of a batch it refused.
Write(old, new) ==
  /\ up /\ up'
  /\ Len(old) <= Len(new) /\ old = SubSeq(new, 1, Len(old)) /\ IsInjective(new)
  /\ acked \subseteq acked' /\ acked' \ acked \subseteq Range(new) \ Range(old)

\* Opening, with recovery, loses nothing.
Start(old, new) ==
  /\ ~up /\ up'
  /\ new = old /\ UNCHANGED acked

\* The pairs of frames of which the first comes before the second.
Order(s) ==
  UNION {{<<s[i], s[j]>> : i \in {k \in DOMAIN s : k < j}} : j \in DOMAIN s}

\* A close, a crash or a power cut: what remains keeps its order.
Stop(old, new) ==
  /\ ~up'
  /\ Range(new) \subseteq Range(old) /\ Order(new) \subseteq Order(old)
  /\ UNCHANGED acked

\* In every step, what was durable remains in the log.
Next ==
  \E old \in {log}, new \in {log'}, kept \in {durable'} :
    /\ Write(old, new) \/ Start(old, new) \/ Stop(old, new)
    /\ durable \subseteq kept /\ kept \subseteq Range(new)

Spec == Init /\ [][Next]_<<up, log, durable, acked>>
=============================================================================
