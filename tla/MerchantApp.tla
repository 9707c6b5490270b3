----------------------------- MODULE MerchantApp -----------------------------
(***************************************************************************)
(* The merchant application: payment requests, proofs received by QR, the  *)
(* receipt, and the synchronization of stored proofs with the chain.  The  *)
(* user, the durable store, the network and the chain interleave; the app  *)
(* may be killed at any moment.                                            *)
(*                                                                         *)
(* createMerchantCrashConsistentStorage runs its operations one after the  *)
(* other (`exclusive`): they wait in `pending`, and each one either        *)
(* replaces the durable snapshot at one instant or rejects and changes     *)
(* nothing, which is what AtomicSnapshot promises and CrashStore provides. *)
(***************************************************************************)
EXTENDS Naturals, Sequences, FiniteSets

CONSTANTS
  Creds,         \* credential hashes, ordered as numbers
  Challenges,    \* the 32-byte challenges generateChallenge may return
  Answers,       \* credential hash -> the challenge its credential answers
  MaxPending     \* bound: store operations that the user has waiting at once

NoCred == 0
NoChallenge == "null"

ASSUME MerchantAssumption ==
  /\ Creds \subseteq Nat \ {0}
  /\ IsFiniteSet(Creds)
  /\ NoChallenge \notin Challenges
  /\ Answers \in [Creds -> Challenges]
  /\ MaxPending \in Nat

VARIABLES
  store,      \* the durable snapshot
  pending,    \* store operations in the order of their calls
  ui,         \* React state of MerchantApplication
  sync,       \* local variables of the running synchronizeClaims
  issued,     \* challenges generated so far
  accepted,   \* history: payments the merchant was shown as validated
  chain,      \* credential hash -> status of its confirmed Claim account
  sent        \* credentials whose submit_claim transaction a relayer sent

vars == <<store, pending, ui, sync, issued, accepted, chain, sent>>

ClaimLifecycleStatus ==
  {"absent", "pending-submission", "submitted", "settled", "rejected"}

StoredClaim == [status: ClaimLifecycleStatus, shown: BOOLEAN]

StoredClaims == [Creds -> StoredClaim]

Snapshot ==
  [claims: StoredClaims, outstanding: Challenges \cup {NoChallenge}]

NotStored == [status |-> "absent", shown |-> FALSE]
NoClaims == [c \in Creds |-> NotStored]

\* createStoredClaim
NewStoredClaim == [status |-> "pending-submission", shown |-> FALSE]

AuthoritativeClaimStatus ==
  {"submitted", "valid", "conflicting", "settled", "rejected"}

Operation ==
  [kind: {"request"}, challenge: Challenges]
    \cup [kind: {"credential", "receipt"}, cred: Creds]
    \cup [kind: {"load"}]
    \cup [kind: {"persist"}, claims: StoredClaims]

Screens ==
  {"home", "show-challenge", "scan-credential", "verified", "show-receipt",
   "history"}

UI ==
  [running: BOOLEAN, screen: Screens, challenge: Challenges \cup {NoChallenge},
   verified: Creds \cup {NoCred}, syncing: BOOLEAN]

\* `at` is the call that syncStoredClaim awaits for the claim `current`.
Sync ==
  [at: {"idle", "load", "lookup", "submit", "confirm", "observe", "recheck",
        "persist"},
   claims: StoredClaims, todo: SUBSET Creds, current: Creds \cup {NoCred}]

Stopped ==
  [running |-> FALSE, screen |-> "home", challenge |-> NoChallenge,
   verified |-> NoCred, syncing |-> FALSE]

NoSync ==
  [at |-> "idle", claims |-> NoClaims, todo |-> {}, current |-> NoCred]

Init ==
  /\ store = [claims |-> NoClaims, outstanding |-> NoChallenge]
  /\ pending = <<>>
  /\ ui = Stopped
  /\ sync = NoSync
  /\ issued = {}
  /\ accepted = {}
  /\ chain = [c \in Creds |-> "none"]
  /\ sent = {}

-----------------------------------------------------------------------------
(***************************************************************************)
(* The user.                                                               *)
(***************************************************************************)
Enqueue(op) == pending' = Append(pending, op)

\* The bound on what the user has the store do at once; a synchronization
\* awaits each of its operations, so it adds one at most.
EnqueueByUser(op) == Len(pending) < MaxPending /\ Enqueue(op)

\* The boot effect: load or initialize, then restore an outstanding request.
Boot ==
  /\ ~ui.running
  /\ ui' = [Stopped EXCEPT
              !.running = TRUE,
              !.challenge = store.outstanding,
              !.screen = IF store.outstanding = NoChallenge
                         THEN "home" ELSE "show-challenge"]
  /\ UNCHANGED <<store, pending, sync, issued, accepted, chain, sent>>

\* Buttons that only change the screen.
Navigate(from, to) ==
  /\ ui.running /\ ui.screen = from
  /\ ui' = [ui EXCEPT !.screen = to]
  /\ UNCHANGED <<store, pending, sync, issued, accepted, chain, sent>>

CreateRequest(h) ==
  /\ ui.running /\ ui.screen = "home"
  /\ h \notin issued
  /\ issued' = issued \cup {h}
  /\ EnqueueByUser([kind |-> "request", challenge |-> h])
  /\ UNCHANGED <<store, ui, sync, accepted, chain, sent>>

\* scanCredential, up to the store update: the bundle is complete and answers
\* the request that the app holds.
ScanCredential(c) ==
  /\ ui.running /\ ui.screen = "scan-credential"
  /\ ui.challenge = Answers[c]
  /\ EnqueueByUser([kind |-> "credential", cred |-> c])
  /\ UNCHANGED <<store, ui, sync, issued, accepted, chain, sent>>

ShowReceipt ==
  /\ ui.running /\ ui.screen = "verified" /\ ui.verified # NoCred
  /\ EnqueueByUser([kind |-> "receipt", cred |-> ui.verified])
  /\ UNCHANGED <<store, ui, sync, issued, accepted, chain, sent>>

Conclude ==
  /\ ui.running /\ ui.screen = "show-receipt"
  /\ ui' = [ui EXCEPT !.challenge = NoChallenge, !.verified = NoCred,
                      !.screen = "home"]
  /\ UNCHANGED <<store, pending, sync, issued, accepted, chain, sent>>

\* The button is disabled while there is no claim to show.
SynchronizeClaims ==
  /\ ui.running /\ ui.screen = "history" /\ ~ui.syncing
  /\ store.claims # NoClaims
  /\ ui' = [ui EXCEPT !.syncing = TRUE]
  /\ sync' = [NoSync EXCEPT !.at = "load"]
  /\ Enqueue([kind |-> "load"])
  /\ UNCHANGED <<store, issued, accepted, chain, sent>>

\* The app is killed: React state, pending operations and the sync are gone.
Kill ==
  /\ ui.running
  /\ ui' = Stopped
  /\ pending' = <<>>
  /\ sync' = NoSync
  /\ UNCHANGED <<store, issued, accepted, chain, sent>>

-----------------------------------------------------------------------------
(***************************************************************************)
(* The store runs the first pending operation, and the code that awaited   *)
(* it goes on.                                                             *)
(***************************************************************************)
Dequeue ==
  /\ pending # <<>>
  /\ pending' = Tail(pending)
  /\ UNCHANGED <<issued, chain, sent>>

RequestStored(op) ==
  /\ op.kind = "request"
  /\ store' = [store EXCEPT !.outstanding = op.challenge]
  /\ ui' = [ui EXCEPT !.challenge = op.challenge, !.screen = "show-challenge"]
  /\ UNCHANGED <<sync, accepted>>

MutantWithCredential(s, c) ==
  [s EXCEPT !.claims[c] = IF @ = NotStored THEN NewStoredClaim ELSE @]

\* One snapshot: the proof is stored and its request is no longer outstanding.
WithCredential(s, c) ==
  [claims |-> [s.claims EXCEPT ![c] = IF @ = NotStored THEN NewStoredClaim ELSE @],
   outstanding |-> NoChallenge]

\* A second proof finds no outstanding request and its update throws.
CredentialStored(op) ==
  /\ op.kind = "credential"
  /\ IF store.outstanding = NoChallenge
     THEN UNCHANGED <<store, ui, accepted>>
     ELSE /\ store' = WithCredential(store, op.cred)
          /\ ui' = [ui EXCEPT !.verified = op.cred, !.screen = "verified"]
          /\ accepted' = accepted \cup {op.cred}
  /\ UNCHANGED sync

\* markReceiptShown
ReceiptStored(op) ==
  /\ op.kind = "receipt"
  /\ store' = [store EXCEPT !.claims[op.cred].shown =
                 @ \/ store.claims[op.cred] # NotStored]
  /\ ui' = [ui EXCEPT !.screen = "show-receipt"]
  /\ UNCHANGED <<sync, accepted>>

\* The next claim in hash order, or the end of synchronizeClaims.
NextClaim(claims, todo) ==
  \/ /\ todo = {}
     /\ sync' = NoSync
     /\ ui' = [ui EXCEPT !.syncing = FALSE]
  \/ \E c \in todo :
       /\ \A d \in todo : c <= d
       /\ sync' = [at |-> "lookup", claims |-> claims, todo |-> todo,
                   current |-> c]
       /\ UNCHANGED ui

Eligible(claims) ==
  {c \in Creds : claims[c].status \in {"pending-submission", "submitted"}}

QueueLoaded(op) ==
  /\ op.kind = "load"
  /\ NextClaim(store.claims, Eligible(store.claims))
  /\ UNCHANGED <<store, accepted>>

Current == sync.current

MutantRemaining == IF sync.claims[Current].status = "pending-submission"
                   THEN sync.todo ELSE sync.todo \ {Current}

\* One failure does not starve the rest: the loop moves on in any case.
Remaining == sync.todo \ {Current}

MutantWithQueue(s, claims) == [claims |-> claims, outstanding |-> NoChallenge]

\* The persist callback: the queue's claims replace the stored ones.
WithQueue(s, claims) == [s EXCEPT !.claims = claims]

QueuePersisted(op) ==
  /\ op.kind = "persist"
  /\ store' = WithQueue(store, op.claims)
  /\ NextClaim(sync.claims, Remaining)
  /\ UNCHANGED accepted

Perform ==
  /\ Dequeue
  /\ \/ RequestStored(Head(pending))
     \/ CredentialStored(Head(pending))
     \/ ReceiptStored(Head(pending))
     \/ QueueLoaded(Head(pending))
     \/ QueuePersisted(Head(pending))

\* The store rejects: a user operation shows an error, a synchronization ends.
Reject ==
  /\ Dequeue
  /\ IF Head(pending).kind \in {"load", "persist"}
     THEN sync' = NoSync /\ ui' = [ui EXCEPT !.syncing = FALSE]
     ELSE UNCHANGED <<sync, ui>>
  /\ UNCHANGED <<store, accepted>>

-----------------------------------------------------------------------------
(***************************************************************************)
(* syncStoredClaim.  Every call of the submission port may fail.           *)
(***************************************************************************)
MutantLifecycleStatus(status) ==
  IF status \in {"valid", "settled"} THEN "settled"
  ELSE IF status = "rejected" THEN "rejected" ELSE "submitted"

LifecycleStatus(status) ==
  IF status \in {"settled", "rejected"} THEN status ELSE "submitted"

\* lookupConfirmedClaim: the confirmed account, or null while the RPC node has
\* not seen it.
Lookup(c) == {chain[c], "none"}

\* applySnapshot, then the persist call.
Apply(status) ==
  LET claims == [sync.claims EXCEPT ![Current].status = LifecycleStatus(status)]
  IN  /\ sync' = [sync EXCEPT !.at = "persist", !.claims = claims]
      /\ Enqueue([kind |-> "persist", claims |-> claims])
      /\ UNCHANGED <<store, ui, issued, accepted, chain, sent>>

\* failedAttempt keeps the status; the queue is persisted all the same.
FailedAttempt ==
  /\ sync' = [sync EXCEPT !.at = "persist"]
  /\ Enqueue([kind |-> "persist", claims |-> sync.claims])
  /\ UNCHANGED <<store, ui, issued, accepted, chain, sent>>

GoTo(at) ==
  /\ sync' = [sync EXCEPT !.at = at]
  /\ UNCHANGED <<store, pending, ui, issued, accepted, chain>>

FirstLookup ==
  /\ sync.at = "lookup"
  /\ \/ \E status \in Lookup(Current) \ {"none"} : Apply(status)
     \/ "none" \in Lookup(Current) /\ GoTo("submit") /\ UNCHANGED sent
     \/ FailedAttempt

\* The relayer may send the transaction and its answer may still be lost.
Submit ==
  /\ sync.at = "submit"
  /\ \/ sent' = sent \cup {Current} /\ GoTo("confirm")
     \/ sent' \in {sent, sent \cup {Current}} /\ GoTo("recheck")

\* Confirmed means that the transaction created the account; otherwise it
\* failed, or the confirmation timed out.
ConfirmTransaction ==
  /\ sync.at = "confirm"
  /\ \/ chain[Current] # "none" /\ GoTo("observe")
     \/ GoTo("recheck")
  /\ UNCHANGED sent

Observe ==
  /\ sync.at = "observe"
  /\ \/ \E status \in Lookup(Current) \ {"none"} : Apply(status)
     \/ GoTo("recheck") /\ UNCHANGED sent

\* lookupAfterAmbiguousFailure
Recheck ==
  /\ sync.at = "recheck"
  /\ \/ \E status \in Lookup(Current) \ {"none"} : Apply(status)
     \/ FailedAttempt

\* The chain, as in OfflineGuarantee: a claim account is created as submitted
\* or as a rejected wrapper, and later classified, settled or replaced.
Successors(status) ==
  CASE status = "submitted" -> {"valid", "conflicting", "settled", "rejected"}
    [] status \in {"valid", "conflicting"} -> {"settled"}
    [] OTHER -> {}

ChainStep(c) ==
  /\ \/ c \in sent /\ chain[c] = "none"
        /\ chain' \in {[chain EXCEPT ![c] = s] : s \in {"submitted", "rejected"}}
     \/ chain' \in {[chain EXCEPT ![c] = s] : s \in Successors(chain[c])}
  /\ UNCHANGED <<store, pending, ui, sync, issued, accepted, sent>>

-----------------------------------------------------------------------------
Next ==
  \/ Boot
  \/ Navigate("show-challenge", "scan-credential")
  \/ Navigate("scan-credential", "show-challenge")
  \/ Navigate("show-challenge", "home")
  \/ Navigate("home", "history")
  \/ Navigate("history", "home")
  \/ \E h \in Challenges : CreateRequest(h)
  \/ \E c \in Creds : ScanCredential(c)
  \/ ShowReceipt
  \/ Conclude
  \/ SynchronizeClaims
  \/ Kill
  \/ Perform
  \/ Reject
  \/ FirstLookup
  \/ Submit
  \/ ConfirmTransaction
  \/ Observe
  \/ Recheck
  \/ \E c \in Creds : ChainStep(c)

Spec == Init /\ [][Next]_vars

SyncStep == FirstLookup \/ Submit \/ ConfirmTransaction \/ Observe \/ Recheck

\* Storage calls return, and every network call returns or times out.
FairSpec == Spec /\ WF_vars(Perform \/ Reject) /\ WF_vars(SyncStep)

-----------------------------------------------------------------------------
\* The snapshot, the waiting operations and the local variables have their
\* shapes, and the chain only holds statuses the SDK decodes.
TypeOK ==
  /\ store \in Snapshot
  /\ pending \in Seq(Operation)
  /\ ui \in UI
  /\ sync \in Sync
  /\ issued \subseteq Challenges
  /\ accepted \subseteq Creds
  /\ chain \in [Creds -> AuthoritativeClaimStatus \cup {"none"}]
  /\ sent \subseteq Creds

Backed(claims) ==
  \A c \in Creds :
    /\ claims[c].status = "submitted" => chain[c] # "none"
    /\ claims[c].status \in {"settled", "rejected"}
         => chain[c] = claims[c].status

\* A request is answered once: whatever the merchant taps while updates wait,
\* and wherever the app is killed, no two payments are shown as validated for
\* the same challenge (scanCredential, ADR-0020 decision 9).
ChallengeAnsweredOnce ==
  \A c, d \in accepted : Answers[c] = Answers[d] => c = d

\* While the app waits for an answer, the request it validates against is the
\* durable one, whatever store operations are waiting: a proof that arrives is
\* not refused for a request lost or cleared by a synchronization or a restart.
WaitingIsAnswerable ==
  ui.screen \in {"show-challenge", "scan-credential"}
    => ui.challenge # NoChallenge /\ store.outstanding = ui.challenge

\* Local history never runs ahead of the chain: "submitted" means that the
\* Claim account exists, "settled" that it was paid, "rejected" that it was
\* rejected, whatever answers, timeouts and retries came before
\* (syncStoredClaim: a signature alone is never a success).
StatusBacked == Backed(store.claims)

\* A synchronization ends, whatever fails during it: no claim of the queue
\* keeps the others, or the next synchronization, from running.
SyncEnds == ui.syncing ~> ~ui.syncing

\* docs/architecture.md: "Merchants retain full credentials until final
\* settlement."  A payment shown as validated stays stored.
EvidenceKept == \A c \in accepted : store.claims[c] # NotStored
=============================================================================
