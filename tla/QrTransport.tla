---------------------------- MODULE QrTransport ----------------------------
(***************************************************************************)
(* Messages between the payer's and the merchant's phones, carried by      *)
(* animated QR codes (@ogp/transports), and what each side checks of them. *)
(*                                                                         *)
(* A payment is named by the merchant's request it answers.  A branch is   *)
(* the sequence of requests paid since genesis: the hash of a credential   *)
(* determines its whole branch, so a branch also stands for the hash of    *)
(* its last credential.  A payload is a sequence of units (a challenge, a  *)
(* certificate, a credential) and its SHA-256 is taken to be injective.    *)
(***************************************************************************)
EXTENDS Integers, Sequences, FiniteSets, SequencesExt

CONSTANTS
  Requests,      \* challenges a camera may see
  Foreign,       \* those of another environment
  Own,           \* those whose merchant is the payer's own wallet
  Amount,        \* request -> amount asked for
  Limit,         \* branch_spending_limit
  MaxDepth,      \* max_branch_depth
  ChunkUnits,    \* units of a credential bundle in one frame
  MaxFrames      \* MAX_FRAME_COUNT

Certificate == "certificate"

ASSUME TransportAssumption ==
  /\ Foreign \subseteq Requests /\ Own \subseteq Requests
  /\ Certificate \notin Requests
  /\ Amount \in [Requests -> Nat \ {0}]
  /\ Limit \in Nat /\ MaxDepth \in Nat
  /\ ChunkUnits \in Nat \ {0} /\ MaxFrames \in Nat \ {0}

Payees == Requests \ (Foreign \cup Own)

OfflineMessageKind == {"challenge", "bundle", "receipt"}

\* No payload: receive threw, or there is nothing to send.
Nothing == <<>>

-----------------------------------------------------------------------------
\* decodeChallenge's fields reduce to the request, a receipt names a
\* credential and its challenge, a bundle is the certificate and the branch.
EncodeChallenge(r) == <<r>>

EncodeBundle(branch) == <<Certificate>> \o branch

EncodeReceipt(branch) == Append(branch, Last(branch))

\* A challenge and a receipt fit one frame; a bundle is cut into chunks.
ChunkSize(kind, payload) == IF kind = "bundle" THEN ChunkUnits ELSE Len(payload)

FrameCount(kind, payload) ==
  (Len(payload) + ChunkSize(kind, payload) - 1) \div ChunkSize(kind, payload)

ChunkOf(kind, payload, i) ==
  SubSeq(payload, i * ChunkSize(kind, payload) + 1,
         Min({Len(payload), (i + 1) * ChunkSize(kind, payload)}))

\* frame(): the frames of the carousel, each with the hash of the whole.
Frames(kind, payload) ==
  {[kind |-> kind, hash |-> payload, index |-> i,
    count |-> FrameCount(kind, payload), chunk |-> ChunkOf(kind, payload, i)] :
     i \in 0..(FrameCount(kind, payload) - 1)}

\* frame() throws when the payload needs too many frames.
Sendable(kind, payload) == FrameCount(kind, payload) <= MaxFrames

\* parseFrame
WellFormed(f) ==
  /\ f.kind \in OfflineMessageKind
  /\ f.count <= MaxFrames
  /\ f.index < f.count

\* The chunks of a complete set of frames, in index order.
Joined(frames, count) ==
  FlattenSeq([i \in 1..count |->
                (CHOOSE f \in frames : f.index = i - 1).chunk])

\* No two frames of different transfers, and no two chunks for one index.
OneTransfer(frames) ==
  \A f, g \in frames :
    /\ f.hash = g.hash /\ f.count = g.count
    /\ f.index = g.index => f.chunk = g.chunk

Complete(frames) ==
  \A f \in frames : {g.index : g \in frames} = 0..(f.count - 1)

\* assemble(): the payload, or Nothing when it throws.  Every code the camera
\* reports stays in the set until the scan is started again, so one stray code
\* makes every later call throw.
Assemble(kind, frames) ==
  IF /\ frames # {}
     /\ \A f \in frames : WellFormed(f) /\ f.kind = kind
     /\ OneTransfer(frames)
     /\ Complete(frames)
     /\ \A f \in frames : Joined(frames, f.count) = f.hash
  THEN (CHOOSE f \in frames : TRUE).hash
  ELSE Nothing

-----------------------------------------------------------------------------
\* ParentState.remaining at the tip of a branch.
Remaining(branch) ==
  Limit - FoldLeft(LAMBDA sum, r : sum + Amount[r], 0, branch)

\* createPaymentCredential: the checks on the new payment.
Payable(branch, r) ==
  /\ r \notin Own
  /\ Amount[r] <= Remaining(branch)
  /\ Len(branch) < MaxDepth

\* validateCredentialProofBundle: every credential extends the one before it.
ValidBranch(branch) ==
  \A i \in 1..Len(branch) : Payable(SubSeq(branch, 1, i - 1), branch[i])

\* decodeBundle, then validateCredentialProofBundle; Nothing when they throw
\* or the bundle holds no payment.
ReceiveCredential(frames) ==
  LET payload == Assemble("bundle", frames)
  IN  IF payload # Nothing /\ ValidBranch(Tail(payload))
      THEN Tail(payload) ELSE Nothing

\* The bundle ends in a payment of this merchant's outstanding challenge.
ValidateMerchantResponse(r, branch) ==
  branch # Nothing /\ r \notin Foreign /\ Last(branch) = r
=============================================================================
