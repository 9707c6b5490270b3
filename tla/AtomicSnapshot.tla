--------------------------- MODULE AtomicSnapshot ---------------------------
(***************************************************************************)
(* What ADR-0020 promises of @ogp/mobile-storage: one durable snapshot of  *)
(* several components that a commit replaces at one instant.  A commit     *)
(* that is acknowledged has replaced it, a commit that is refused has not, *)
(* and a commit cut short by a crash may have done either, but nothing in  *)
(* between.                                                                *)
(***************************************************************************)
CONSTANTS Snapshots, NoSnapshot

VARIABLES
  snapshot,   \* the durable snapshot, or NoSnapshot
  request,    \* the snapshot the running commit wants to publish
  published,  \* whether the running commit has replaced the snapshot
  reply       \* what the last call to return answered

Answer(kind, values) == [answer |-> kind, values |-> values]

vars == <<snapshot, request, published, reply>>

Init ==
  /\ snapshot = NoSnapshot
  /\ request = NoSnapshot
  /\ published = FALSE
  /\ reply = Answer("lost", NoSnapshot)

BeginCommit(v) ==
  /\ request = NoSnapshot
  /\ request' = v
  /\ UNCHANGED <<snapshot, published, reply>>

Publish ==
  /\ request # NoSnapshot /\ ~published
  /\ snapshot' = request
  /\ published' = TRUE
  /\ UNCHANGED <<request, reply>>

EndCommit(answer) ==
  /\ request # NoSnapshot
  /\ answer = "committed" => published
  /\ answer = "refused" => ~published
  /\ request' = NoSnapshot
  /\ published' = FALSE
  /\ reply' = Answer(answer, NoSnapshot)
  /\ UNCHANGED snapshot

\* A load answers the snapshot, or fails closed.
Load ==
  /\ request = NoSnapshot
  /\ reply' \in {Answer("loaded", snapshot), Answer("refused", NoSnapshot),
                Answer("lost", NoSnapshot)}
  /\ UNCHANGED <<snapshot, request, published>>

Next ==
  \/ \E v \in Snapshots : BeginCommit(v)
  \/ Publish
  \/ \E a \in {"committed", "refused", "lost"} : EndCommit(a)
  \/ Load

Spec == Init /\ [][Next]_vars
=============================================================================
