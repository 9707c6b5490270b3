------------------------------ MODULE PayerApp ------------------------------
(***************************************************************************)
(* The payer application and the merchants it meets: a request is scanned, *)
(* authorized, stored and shown; a merchant scans and stores the proof;    *)
(* the payer scans the receipt.  Taps, cameras and the store interleave,   *)
(* and the payer's app may be killed at any moment.                        *)
(*                                                                         *)
(* createPayerCrashConsistentStorage runs load and commit one after the    *)
(* other (`exclusive`).  A call waits in `queue` with the values that its  *)
(* closure captured; the store answers it at one instant or refuses it and *)
(* changes nothing, as AtomicSnapshot promises and CrashStore provides.    *)
(***************************************************************************)
EXTENDS QrTransport

CONSTANT MaxPending   \* bound: store calls that the payer has waiting at once

ASSUME PendingAssumption == MaxPending \in Nat

VARIABLES
  durable,     \* the branch-state component of the durable snapshot
  queue,       \* store calls in the order they were made
  ui,          \* React state of PayerApplication
  received,    \* receivedFrames, a ref that outlives renders
  merchant,    \* request -> the merchant app that shows it
  overlapped   \* history: a payment was authorized while another one waited

vars == <<durable, queue, ui, received, merchant, overlapped>>

\* StoredPayerBranchStateV1: the frames of the proof, the tip they must lead
\* to, and whether a receipt is still missing.
Snapshot(frames, parent, pending) ==
  [frames |-> frames, parent |-> parent, pending |-> pending]

BundleFrames(branch) == Frames("bundle", EncodeBundle(branch))

\* The tip that restoreOnchainSession derives from the stored frames.
RestoredTip(s) == IF s.frames = {} THEN <<>> ELSE ReceiveCredential(s.frames)

\* restoreOnchainSession accepts a snapshot; createPersistedOnchainSession
\* makes the same check before it returns one.
Restorable(s) ==
  /\ s.pending => s.frames # {}
  /\ RestoredTip(s) = s.parent

Stopped ==
  [status |-> "stopped", screen |-> "home", challenge |-> Nothing,
   branch |-> <<>>, last |-> <<>>, outgoing |-> {}]

Waiting ==
  [screen |-> "show-challenge", received |-> {}, validated |-> Nothing,
   stored |-> {}, accepted |-> Nothing]

\* A session just provisioned: no payment, nothing to deliver.
Init ==
  /\ durable = Snapshot({}, <<>>, FALSE)
  /\ queue = <<>>
  /\ ui = Stopped
  /\ received = {}
  /\ merchant = [r \in Payees |-> Waiting]
  /\ overlapped = FALSE

-----------------------------------------------------------------------------
(***************************************************************************)
(* Start and end of the process.                                           *)
(***************************************************************************)
MutantResumed(s) ==
  [Stopped EXCEPT !.status = "ready", !.branch = s.parent, !.last = s.parent]

\* The boot effect: an unacknowledged delivery is shown again.
Resumed(s) ==
  [Stopped EXCEPT
     !.status = "ready", !.branch = s.parent, !.last = s.parent,
     !.outgoing = IF s.pending THEN s.frames ELSE {},
     !.screen = IF s.pending THEN "show-credential" ELSE "home"]

\* evaluatePayerRecovery while not connected: complete and valid local
\* material is enough; a load that fails asks for a connection.
Boot ==
  /\ ui.status = "stopped"
  /\ ui' \in {IF Restorable(durable) THEN Resumed(durable)
              ELSE [Stopped EXCEPT !.status = "online-recovery-required"],
              [Stopped EXCEPT !.status = "online-recovery-required"]}
  /\ UNCHANGED <<durable, queue, received, merchant, overlapped>>

Written(op) ==
  IF op.kind = "load" THEN durable ELSE op.snapshot

\* A commit that was running may have reached its publication.
Kill ==
  /\ ui.status # "stopped"
  /\ ui' = Stopped
  /\ queue' = <<>>
  /\ received' = {}
  /\ durable' \in {durable} \cup {Written(queue[i]) : i \in 1..Min({1, Len(queue)})}
  /\ UNCHANGED <<merchant, overlapped>>

-----------------------------------------------------------------------------
(***************************************************************************)
(* The payer's taps and camera.                                            *)
(***************************************************************************)
At(screen) == ui.status = "ready" /\ ui.screen = screen

Call(op) ==
  /\ Len(queue) < MaxPending
  /\ queue' = Append(queue, op)

StartScan(from, to) ==
  /\ At(from)
  /\ received' = {}
  /\ ui' = [ui EXCEPT !.screen = to]
  /\ UNCHANGED <<durable, queue, merchant, overlapped>>

Cancel(from, to) ==
  /\ At(from)
  /\ ui' = [ui EXCEPT !.screen = to]
  /\ UNCHANGED <<durable, queue, received, merchant, overlapped>>

\* What a camera may see of the requests: the merchants that still show one,
\* and codes of strangers.
ChallengeFrames ==
  UNION {Frames("challenge", EncodeChallenge(r)) :
           r \in {p \in Payees : merchant[p].screen = "show-challenge"}
                   \cup Foreign \cup Own}

ReceiptFrames ==
  UNION {Frames("receipt", EncodeReceipt(merchant[r].accepted)) :
           r \in {p \in Payees : merchant[p].screen = "verified"}}

ScanChallenge(f) ==
  LET payload == Assemble("challenge", received \cup {f})
      ok == /\ payload # Nothing
            /\ payload[1] \notin Foreign \cup Own
            /\ Amount[payload[1]] <= Remaining(ui.branch)
  IN  /\ At("scan-challenge")
      /\ received' = received \cup {f}
      /\ ui' = IF ok THEN [ui EXCEPT !.challenge = payload, !.screen = "confirm"]
               ELSE ui
      /\ UNCHANGED <<durable, queue, merchant, overlapped>>

\* authorizePayment captures `challenge`, `parent` and `credentials`, then
\* awaits the load of the device secret.  The button stays on the screen.
Authorize ==
  /\ At("confirm")
  /\ Call([kind |-> "load", snapshot |-> Snapshot({}, ui.branch, FALSE),
           request |-> ui.challenge])
  /\ overlapped' = (overlapped \/ \E i \in 1..Len(queue) :
                      /\ queue[i].kind \in {"load", "payment"}
                      /\ queue[i].request # ui.challenge)
  /\ UNCHANGED <<durable, ui, received, merchant>>

MutantReceiptMatches(payload) == payload # Nothing

\* The receipt names the credential on display and its challenge.
ReceiptMatches(payload) ==
  /\ ui.last # <<>>
  /\ payload = EncodeReceipt(ui.last)

ScanReceipt(f) ==
  LET delivered == Snapshot(ui.outgoing, ui.branch, FALSE)
  IN  /\ At("scan-receipt")
      /\ received' = received \cup {f}
      /\ IF /\ ReceiptMatches(Assemble("receipt", received \cup {f}))
            /\ Restorable(delivered)
         THEN Call([kind |-> "receipt", snapshot |-> delivered,
                    request |-> Nothing])
         ELSE UNCHANGED queue
      /\ UNCHANGED <<durable, ui, merchant, overlapped>>

Conclude ==
  /\ At("complete")
  /\ ui' = [ui EXCEPT !.challenge = Nothing, !.last = <<>>, !.outgoing = {},
                      !.screen = "home"]
  /\ UNCHANGED <<durable, queue, received, merchant, overlapped>>

-----------------------------------------------------------------------------
(***************************************************************************)
(* The store answers the first call, and the code that awaited it goes on. *)
(***************************************************************************)
Dequeue ==
  /\ queue # <<>>
  /\ UNCHANGED <<received, merchant, overlapped>>

MutantExtended(op) == <<op.request[1]>>

\* createPaymentCredential on the parent that authorizePayment captured.
Extended(op) ==
  op.snapshot.parent \o op.request

\* The credential is signed and its bundle handed to the store, or a check
\* throws and the call is over.
Signed(op) ==
  LET next == Snapshot(BundleFrames(Extended(op)), Extended(op), TRUE)
  IN  IF /\ Payable(op.snapshot.parent, op.request[1])
         /\ Sendable("bundle", EncodeBundle(Extended(op)))
         /\ Restorable(next)
      THEN <<[kind |-> "payment", snapshot |-> next, request |-> op.request]>>
      ELSE <<>>

MutantLoaded(op) ==
  /\ op.kind = "load"
  /\ queue' = Tail(queue) \o Signed(op)
  /\ ui' = IF Signed(op) = <<>> THEN ui ELSE [ui EXCEPT !.branch = Extended(op)]
  /\ UNCHANGED durable

\* The device secret is there.
Loaded(op) ==
  /\ op.kind = "load"
  /\ queue' = Tail(queue) \o Signed(op)
  /\ UNCHANGED <<durable, ui>>

\* Only a proof that is stored is shown.
PaymentStored(op) ==
  /\ op.kind = "payment"
  /\ durable' = op.snapshot
  /\ queue' = Tail(queue)
  /\ ui' = [ui EXCEPT !.branch = op.snapshot.parent, !.last = op.snapshot.parent,
                      !.outgoing = op.snapshot.frames, !.screen = "show-credential"]

ReceiptStored(op) ==
  /\ op.kind = "receipt"
  /\ durable' = op.snapshot
  /\ queue' = Tail(queue)
  /\ ui' = [ui EXCEPT !.screen = "complete"]

MutantRefused(op) ==
  /\ queue' = Tail(queue)
  /\ ui' = IF op.kind = "payment"
           THEN [ui EXCEPT !.branch = op.snapshot.parent,
                           !.last = op.snapshot.parent,
                           !.outgoing = op.snapshot.frames,
                           !.screen = "show-credential"]
           ELSE ui
  /\ UNCHANGED durable

\* The store refuses: the error is shown, the state and the screen stay.
Refused(op) ==
  /\ queue' = Tail(queue)
  /\ UNCHANGED <<durable, ui>>

Perform ==
  /\ Dequeue
  /\ \/ Loaded(Head(queue))
     \/ PaymentStored(Head(queue))
     \/ ReceiptStored(Head(queue))
     \/ Refused(Head(queue))

-----------------------------------------------------------------------------
(***************************************************************************)
(* A merchant, as far as the handover goes (MerchantApp has its store).    *)
(***************************************************************************)
Update(r, m) ==
  /\ merchant' = [merchant EXCEPT ![r] = m]
  /\ UNCHANGED <<durable, queue, ui, received, overlapped>>

BeginCredentialScan(r) ==
  /\ merchant[r].screen = "show-challenge"
  /\ Update(r, [merchant[r] EXCEPT !.screen = "scan-credential", !.received = {}])

CancelCredentialScan(r) ==
  /\ merchant[r].screen = "scan-credential"
  /\ Update(r, [merchant[r] EXCEPT !.screen = "show-challenge"])

\* The payer's carousel, or a stranger's code.
CredentialFrames ==
  (IF At("show-credential") THEN ui.outgoing ELSE {})
    \cup UNION {Frames("challenge", EncodeChallenge(r)) : r \in Foreign}

\* scanCredential up to the store update, which awaits its turn.
ScanCredential(r, f) ==
  LET m == merchant[r]
      branch == ReceiveCredential(m.received \cup {f})
      ok == m.validated = Nothing /\ ValidateMerchantResponse(r, branch)
  IN  /\ m.screen = "scan-credential"
      /\ Update(r, [m EXCEPT !.received = @ \cup {f},
                             !.validated = IF ok THEN branch ELSE @])

\* The update: the frames that are stored are read from the ref only now.
ProofStored(r) ==
  /\ merchant[r].validated # Nothing /\ merchant[r].accepted = Nothing
  /\ Update(r, [merchant[r] EXCEPT !.stored = merchant[r].received,
                                   !.accepted = merchant[r].validated,
                                   !.screen = "verified"])

-----------------------------------------------------------------------------
Next ==
  \/ Boot
  \/ Kill
  \/ StartScan("home", "scan-challenge")
  \/ StartScan("show-credential", "scan-receipt")
  \/ Cancel("scan-challenge", "home")
  \/ Cancel("scan-receipt", "show-credential")
  \/ Cancel("confirm", "home")
  \/ \E f \in ChallengeFrames : ScanChallenge(f)
  \/ Authorize
  \/ \E f \in ReceiptFrames : ScanReceipt(f)
  \/ Conclude
  \/ Perform
  \/ \E r \in Payees : BeginCredentialScan(r)
  \/ \E r \in Payees : CancelCredentialScan(r)
  \/ \E r \in Payees : \E f \in CredentialFrames : ScanCredential(r, f)
  \/ \E r \in Payees : ProofStored(r)

Spec == Init /\ [][Next]_vars

-----------------------------------------------------------------------------
Accepted == {merchant[r].accepted : r \in Payees} \ {Nothing}

\* Persist before display: whatever a merchant has accepted lies on the branch
\* the payer restores after a kill, so a restart never rolls the payer back
\* behind a payment (authorizePayment; requirements-traceability, "Payer restart
\* safety").  It holds as long as no payment is authorized while another
\* one still waits for the store: that one signs over the same parent.
AcceptedIsDurable ==
  ~overlapped => \A b \in Accepted : IsPrefix(b, durable.parent)

\* No receipt, no delivery: the snapshot says "delivered" only when the merchant
\* of its last payment holds exactly that proof, whichever codes the camera saw
\* and however often (scanReceipt).
DeliveredMeansAccepted ==
  (~durable.pending /\ durable.parent # <<>>)
    => merchant[Last(durable.parent)].accepted = durable.parent

\* A payment that is stored and not acknowledged is on display, after a restart
\* too, and its merchant can still take exactly this proof: the payment is never
\* stuck between the two phones, unless two authorizations overlapped.
PendingIsShown ==
  (ui.status = "ready" /\ queue = <<>> /\ ~overlapped /\ durable.pending)
    => /\ ui.screen \in {"show-credential", "scan-receipt"}
       /\ ui.outgoing = durable.frames /\ ui.last = durable.parent
       /\ merchant[Last(durable.parent)].accepted \in {Nothing, durable.parent}

\* The tip that the next payment extends is the durable one whenever no store
\* call is under way, refused calls and restarts included, unless two
\* authorizations overlapped.
TipIsDurable ==
  (ui.status = "ready" /\ queue = <<>> /\ ~overlapped)
    => ui.branch = durable.parent

\* Overlapping authorizations are the only cause of a fork on the phone: a step
\* that replaces a stored payment, instead of extending the durable branch,
\* comes after a payment was authorized while another one waited for the store.
\* No kill, refused call, retry, repeated scan or late receipt does it alone.
\* (With an overlap the code does replace a payment: authorizePayment signs over
\* the parent that it captured before its awaits.)
ReplacementNeedsOverlap ==
  [][IsPrefix(durable.parent, durable'.parent) \/ overlapped']_vars

\* The merchant's screen says "A prova foi persistida antes desta confirmação":
\* the stored frames are the proof that was validated.
StoredProofReadable ==
  \A r \in Payees :
    merchant[r].accepted # Nothing
      => ReceiveCredential(merchant[r].stored) = merchant[r].accepted
=============================================================================
