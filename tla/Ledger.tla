------------------------------- MODULE Ledger -------------------------------
(***************************************************************************)
(* What the storage engine promises about each record it accepts, with no  *)
(* mention of segments, files, watermarks or processes: FlushEngine is     *)
(* shown to implement this specification.                                  *)
(***************************************************************************)
CONSTANTS Rec, Bad

VARIABLES
  accepted,   \* every record append has returned Ok for
  live,       \* those in the log
  stable,     \* those an fsync has covered
  published,  \* those in the dataset
  aside       \* those in segments moved aside for manual recovery

ledger == <<accepted, live, stable, published, aside>>

Init ==
  /\ accepted = {} /\ live = {} /\ stable = {}
  /\ published = {} /\ aside = {}

Accept(r) ==
  /\ r \in Rec \ accepted
  /\ accepted' = accepted \cup {r} /\ live' = live \cup {r}
  /\ UNCHANGED <<stable, published, aside>>

Sync(S) ==
  /\ S \subseteq live
  /\ stable' = stable \cup S
  /\ UNCHANGED <<accepted, live, published, aside>>

\* One commit: the records of S leave the log for good, the readable ones for
\* the dataset, the others for rejects/.
Publish(S) ==
  /\ S \subseteq live
  /\ live' = live \ S
  /\ published' = published \cup (S \ Bad)
  /\ UNCHANGED <<accepted, stable, aside>>

\* The records of S are moved aside; those of F were in a file that this
\* replaced.
SetAside(S, F) ==
  /\ S \subseteq live /\ F \subseteq aside
  /\ live' = live \ S /\ aside' = (aside \ F) \cup S
  /\ UNCHANGED <<accepted, stable, published>>

\* A crash or a power cut: the log loses only what no fsync had covered (L); of
\* what was moved aside, some may be back in the log (R) or gone (F).
Stop(L, R, F) ==
  /\ L \subseteq live \ stable /\ R \cup F \subseteq aside
  /\ live' = (live \ L) \cup R /\ aside' = aside \ (R \cup F)
  /\ UNCHANGED <<accepted, stable, published>>

Next ==
  \/ \E r \in Rec : Accept(r)
  \/ \E S \in SUBSET live : Sync(S) \/ Publish(S)
  \/ \E S \in SUBSET live, F \in SUBSET aside : SetAside(S, F)
  \/ \E L \in SUBSET live, R \in SUBSET aside, F \in SUBSET aside : Stop(L, R, F)

Spec == Init /\ [][Next]_ledger
=============================================================================
