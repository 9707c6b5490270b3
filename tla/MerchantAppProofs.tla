-------------------------- MODULE MerchantAppProofs --------------------------
(***************************************************************************)
(* Local history never runs ahead of the chain, for any set of proofs,     *)
(* requests and waiting operations.  The stored claims are not enough for  *)
(* the induction: a synchronization carries its own copy across awaits,    *)
(* and a persist that waits for the store carries another.                 *)
(***************************************************************************)
EXTENDS MerchantApp, TLAPS

AtClaim == {"lookup", "submit", "confirm", "observe", "recheck"}

WaitingBacked(q) ==
  \A i \in 1..Len(q) : q[i].kind = "persist" => Backed(q[i].claims)

\* Every copy of the claims is backed, and a call is made for a claim.
BackedInv ==
  /\ TypeOK
  /\ StatusBacked
  /\ Backed(sync.claims)
  /\ WaitingBacked(pending)
  /\ sync.at \in AtClaim => sync.current \in Creds

-----------------------------------------------------------------------------
LEMMA EmptyTypes ==
  /\ NotStored \in StoredClaim
  /\ NewStoredClaim \in StoredClaim
  /\ NoClaims \in StoredClaims
  /\ Stopped \in UI
  /\ NoSync \in Sync
  /\ NoSync.at \notin AtClaim
<1>1. NotStored \in StoredClaim /\ NewStoredClaim \in StoredClaim
  BY DEF NotStored, NewStoredClaim, StoredClaim, ClaimLifecycleStatus
<1>2. NoClaims \in StoredClaims
  BY <1>1 DEF NoClaims, StoredClaims
<1>3. Stopped \in UI
  BY DEF Stopped, UI, Screens
<1>4. NoSync \in Sync /\ NoSync.at \notin AtClaim
  BY <1>2 DEF NoSync, Sync, AtClaim
<1> QED BY <1>1, <1>2, <1>3, <1>4

LEMMA EmptyBacked == Backed(NoClaims) /\ Backed(NoSync.claims)
BY DEF Backed, NoClaims, NotStored, NoSync

LEMMA BackedInit == Init => BackedInv
<1> SUFFICES ASSUME Init PROVE BackedInv
  OBVIOUS
<1>1. TypeOK
  BY EmptyTypes DEF Init, TypeOK, Snapshot
<1>2. StatusBacked /\ Backed(sync.claims)
  BY EmptyBacked DEF Init, StatusBacked
<1> QED BY <1>1, <1>2, EmptyTypes DEF Init, BackedInv, WaitingBacked

\* What a lookup reads is on chain, so applying it keeps the copy backed.
LEMMA AppliedBacked ==
  ASSUME TypeOK, NEW claims \in StoredClaims, Backed(claims),
         NEW c \in Creds, chain[c] # "none",
         NEW q, q = [claims EXCEPT ![c].status = LifecycleStatus(chain[c])]
  PROVE  q \in StoredClaims /\ Backed(q)
<1>1. chain[c] \in AuthoritativeClaimStatus
  BY DEF TypeOK
<1>2. LifecycleStatus(chain[c]) \in {"submitted", "settled", "rejected"}
  BY <1>1 DEF LifecycleStatus, AuthoritativeClaimStatus
<1>3. claims[c] \in StoredClaim /\ \A d \in Creds : claims[d] \in StoredClaim
  BY DEF StoredClaims
<1>4. [claims[c] EXCEPT !.status = LifecycleStatus(chain[c])] \in StoredClaim
  BY <1>2, <1>3 DEF StoredClaim, ClaimLifecycleStatus
<1>5. q \in StoredClaims
  BY <1>4 DEF StoredClaims
<1>6. /\ q[c].status = LifecycleStatus(chain[c])
      /\ \A d \in Creds : d # c => q[d] = claims[d]
  BY <1>3 DEF StoredClaims, StoredClaim
<1>7. Backed(q)
  BY <1>2, <1>6 DEF Backed, LifecycleStatus
<1> QED BY <1>5, <1>7

\* No account disappears, and settled and rejected are final.
LEMMA ChainKeepsBacked ==
  ASSUME TypeOK, NEW c \in Creds, ChainStep(c),
         NEW claims \in StoredClaims, Backed(claims)
  PROVE  Backed(claims)'
<1> SUFFICES ASSUME NEW d \in Creds
             PROVE  /\ chain[d] # "none" => chain'[d] # "none"
                    /\ chain[d] \in {"settled", "rejected"} => chain'[d] = chain[d]
  BY DEF Backed
<1>1. CASE chain[c] = "none"
  BY <1>1 DEF ChainStep, Successors, TypeOK
<1>2. CASE chain[c] # "none"
  BY <1>2 DEF ChainStep, Successors, TypeOK
<1> QED BY <1>1, <1>2

LEMMA ChainTypes ==
  ASSUME TypeOK, NEW c \in Creds, ChainStep(c)
  PROVE  chain' \in [Creds -> AuthoritativeClaimStatus \cup {"none"}]
<1>1. Successors(chain[c]) \subseteq AuthoritativeClaimStatus
  BY DEF Successors, AuthoritativeClaimStatus
<1> QED BY <1>1 DEF ChainStep, TypeOK, AuthoritativeClaimStatus
-----------------------------------------------------------------------------
(***************************************************************************)
(* The queue of the store.                                                 *)
(***************************************************************************)
LEMMA OperationTypes ==
  /\ \A h \in Challenges : [kind |-> "request", challenge |-> h] \in Operation
  /\ \A c \in Creds : /\ [kind |-> "credential", cred |-> c] \in Operation
                      /\ [kind |-> "receipt", cred |-> c] \in Operation
  /\ [kind |-> "load"] \in Operation
  /\ \A q \in StoredClaims : [kind |-> "persist", claims |-> q] \in Operation
BY DEF Operation

LEMMA AppendWaiting ==
  ASSUME NEW q \in Seq(Operation), WaitingBacked(q), NEW op \in Operation,
         op.kind = "persist" => Backed(op.claims)
  PROVE  Append(q, op) \in Seq(Operation) /\ WaitingBacked(Append(q, op))
BY DEF WaitingBacked

LEMMA TailWaiting ==
  ASSUME NEW q \in Seq(Operation), WaitingBacked(q), q # <<>>
  PROVE  /\ Tail(q) \in Seq(Operation)
         /\ WaitingBacked(Tail(q))
         /\ Head(q) \in Operation
         /\ Head(q).kind = "persist" => Backed(Head(q).claims)
<1>1. Tail(q) \in Seq(Operation) /\ Head(q) \in Operation /\ Head(q) = q[1]
  OBVIOUS
<1>2. 1 \in 1..Len(q)
  OBVIOUS
<1>3. \A i \in 1..Len(Tail(q)) : i + 1 \in 1..Len(q) /\ Tail(q)[i] = q[i + 1]
  OBVIOUS
<1> QED BY <1>1, <1>2, <1>3 DEF WaitingBacked

LEMMA OperationFields ==
  ASSUME NEW op \in Operation
  PROVE  /\ op.kind = "request" => op.challenge \in Challenges
         /\ op.kind \in {"credential", "receipt"} => op.cred \in Creds
         /\ op.kind = "persist" => op.claims \in StoredClaims
BY DEF Operation

\* A step that leaves the chain alone keeps what was backed.
LEMMA SameChain ==
  ASSUME UNCHANGED chain, TypeOK', Backed(store'.claims), Backed(sync'.claims),
         WaitingBacked(pending'), sync'.at \in AtClaim => sync'.current \in Creds
  PROVE  BackedInv'
BY DEF BackedInv, StatusBacked, WaitingBacked, Backed

-----------------------------------------------------------------------------
(***************************************************************************)
(* The user's steps.                                                       *)
(***************************************************************************)
UserStep ==
  \/ Boot
  \/ Navigate("show-challenge", "scan-credential")
  \/ Navigate("scan-credential", "show-challenge")
  \/ Navigate("show-challenge", "home")
  \/ Navigate("home", "history")
  \/ Navigate("history", "home")
  \/ \E h \in Challenges : CreateRequest(h)
  \/ \E c \in Creds : ScanCredential(c)
  \/ ShowReceipt
  \/ Conclude
  \/ SynchronizeClaims
  \/ Kill

LEMMA UserSteps == BackedInv /\ UserStep => BackedInv'
<1> SUFFICES ASSUME BackedInv, UserStep PROVE BackedInv'
  OBVIOUS
<1> USE DEF BackedInv
<1>0. /\ ui \in UI /\ sync \in Sync /\ store \in Snapshot
      /\ pending \in Seq(Operation)
      /\ Backed(store.claims) /\ Backed(sync.claims)
  BY DEF TypeOK, StatusBacked
<1>1. CASE Boot
  <2>1. ui' \in UI
    BY <1>0, <1>1 DEF Boot, Stopped, UI, Screens, Snapshot
  <2> QED BY <1>0, <1>1, <2>1, SameChain DEF Boot, TypeOK
<1>2. ASSUME NEW from, NEW to \in Screens, Navigate(from, to) PROVE BackedInv'
  <2>1. ui' \in UI
    BY <1>0, <1>2 DEF Navigate, UI
  <2> QED BY <1>0, <1>2, <2>1, SameChain DEF Navigate, TypeOK
<1>3. ASSUME NEW h \in Challenges, CreateRequest(h) PROVE BackedInv'
  <2>1. pending' \in Seq(Operation) /\ WaitingBacked(pending')
    BY <1>0, <1>3, AppendWaiting, OperationTypes
       DEF CreateRequest, EnqueueByUser, Enqueue
  <2> QED BY <1>0, <1>3, <2>1, SameChain DEF CreateRequest, TypeOK
<1>4. ASSUME NEW c \in Creds, ScanCredential(c) PROVE BackedInv'
  <2>1. pending' \in Seq(Operation) /\ WaitingBacked(pending')
    BY <1>0, <1>4, AppendWaiting, OperationTypes
       DEF ScanCredential, EnqueueByUser, Enqueue
  <2> QED BY <1>0, <1>4, <2>1, SameChain DEF ScanCredential, TypeOK
<1>5. CASE ShowReceipt
  <2>1. ui.verified \in Creds
    BY <1>0, <1>5 DEF ShowReceipt, UI
  <2>2. pending' \in Seq(Operation) /\ WaitingBacked(pending')
    BY <1>0, <1>5, <2>1, AppendWaiting, OperationTypes
       DEF ShowReceipt, EnqueueByUser, Enqueue
  <2> QED BY <1>0, <1>5, <2>2, SameChain DEF ShowReceipt, TypeOK
<1>6. CASE Conclude
  <2>1. ui' \in UI
    BY <1>0, <1>6 DEF Conclude, UI, Screens
  <2> QED BY <1>0, <1>6, <2>1, SameChain DEF Conclude, TypeOK
<1>7. CASE SynchronizeClaims
  <2>1. ui' \in UI
    BY <1>0, <1>7 DEF SynchronizeClaims, UI
  <2>2. /\ sync' \in Sync /\ sync'.at \notin AtClaim
        /\ sync'.claims = NoSync.claims
    BY <1>7, EmptyTypes DEF SynchronizeClaims, Sync, AtClaim
  <2>3. pending' \in Seq(Operation) /\ WaitingBacked(pending')
    BY <1>0, <1>7, AppendWaiting, OperationTypes DEF SynchronizeClaims, Enqueue
  <2> QED BY <1>0, <1>7, <2>1, <2>2, <2>3, EmptyBacked, SameChain
          DEF SynchronizeClaims, TypeOK
<1>8. CASE Kill
  BY <1>0, <1>8, EmptyTypes, EmptyBacked, SameChain
     DEF Kill, TypeOK, WaitingBacked
<1> QED
  BY <1>1, <1>2, <1>3, <1>4, <1>5, <1>6, <1>7, <1>8 DEF UserStep, Screens

-----------------------------------------------------------------------------
(***************************************************************************)
(* The store's steps.                                                      *)
(***************************************************************************)
LEMMA NextClaimTypes ==
  ASSUME TypeOK, NEW claims \in StoredClaims, Backed(claims),
         NEW todo \in SUBSET Creds, NextClaim(claims, todo)
  PROVE  /\ ui' \in UI /\ sync' \in Sync /\ Backed(sync'.claims)
         /\ sync'.at \in AtClaim => sync'.current \in Creds
<1>1. CASE todo = {} /\ sync' = NoSync /\ ui' = [ui EXCEPT !.syncing = FALSE]
  BY <1>1, EmptyTypes, EmptyBacked DEF TypeOK, UI
<1>2. ASSUME NEW c \in todo, UNCHANGED ui,
             sync' = [at |-> "lookup", claims |-> claims, todo |-> todo,
                      current |-> c]
      PROVE  /\ ui' \in UI /\ sync' \in Sync /\ Backed(sync'.claims)
             /\ sync'.at \in AtClaim => sync'.current \in Creds
  BY <1>2 DEF TypeOK, Sync
<1> QED BY <1>1, <1>2 DEF NextClaim

LEMMA Performs == BackedInv /\ Perform => BackedInv'
<1> SUFFICES ASSUME BackedInv, Perform PROVE BackedInv'
  OBVIOUS
<1> DEFINE op == Head(pending)
<1> USE DEF BackedInv
<1>0. /\ TypeOK /\ ui \in UI /\ sync \in Sync /\ store \in Snapshot
      /\ pending \in Seq(Operation) /\ pending # <<>>
      /\ store.claims \in StoredClaims
      /\ Backed(store.claims) /\ Backed(sync.claims)
      /\ UNCHANGED <<issued, chain, sent>>
  BY DEF TypeOK, StatusBacked, Perform, Dequeue, Snapshot
<1>q. /\ pending' \in Seq(Operation) /\ WaitingBacked(pending')
      /\ op \in Operation
      /\ op.kind = "persist" => Backed(op.claims)
  BY <1>0, TailWaiting DEF Perform, Dequeue
<1>f. /\ op.kind = "request" => op.challenge \in Challenges
      /\ op.kind \in {"credential", "receipt"} => op.cred \in Creds
      /\ op.kind = "persist" => op.claims \in StoredClaims
  BY <1>q, OperationFields
<1> HIDE DEF op
<1>1. CASE RequestStored(op)
  <2>1. ui' \in UI
    BY <1>0, <1>1, <1>f DEF RequestStored, UI, Screens
  <2>2. store' \in Snapshot /\ store'.claims = store.claims
    BY <1>0, <1>1, <1>f DEF RequestStored, Snapshot
  <2> QED BY <1>0, <1>1, <1>q, <2>1, <2>2, SameChain DEF RequestStored, TypeOK
<1>2. CASE CredentialStored(op)
  <2>1. CASE store.outstanding = NoChallenge
    BY <1>0, <1>2, <1>q, <2>1, SameChain DEF CredentialStored, TypeOK
  <2>2. CASE store.outstanding # NoChallenge
    <3>1. op.cred \in Creds
      BY <1>2, <1>f DEF CredentialStored
    <3>2. ui' \in UI
      BY <1>0, <1>2, <2>2, <3>1 DEF CredentialStored, UI, Screens
    <3>3. accepted' \subseteq Creds
      BY <1>0, <1>2, <2>2, <3>1 DEF CredentialStored, TypeOK
    <3>4. /\ store'.claims = [store.claims EXCEPT ![op.cred] =
                               IF @ = NotStored THEN NewStoredClaim ELSE @]
          /\ store' = [claims |-> store'.claims, outstanding |-> NoChallenge]
      BY <1>2, <2>2 DEF CredentialStored, WithCredential
    <3>5. store'.claims \in StoredClaims
      BY <1>0, <3>1, <3>4, EmptyTypes DEF StoredClaims
    <3>6. store' \in Snapshot
      BY <3>4, <3>5 DEF Snapshot
    <3>7. Backed(store'.claims)
      BY <1>0, <3>1, <3>4 DEF Backed, StoredClaims, NewStoredClaim
    <3> QED BY <1>0, <1>2, <1>q, <3>2, <3>3, <3>6, <3>7, SameChain
            DEF CredentialStored, TypeOK
  <2> QED BY <2>1, <2>2
<1>3. CASE ReceiptStored(op)
  <2>1. op.cred \in Creds
    BY <1>3, <1>f DEF ReceiptStored
  <2>2. ui' \in UI
    BY <1>0, <1>3 DEF ReceiptStored, UI, Screens
  <2>3. PICK b \in BOOLEAN : store' = [store EXCEPT !.claims[op.cred].shown = b]
    <3>1. store.claims[op.cred].shown \in BOOLEAN
      BY <1>0, <2>1 DEF StoredClaims, StoredClaim
    <3> WITNESS (store.claims[op.cred].shown
                   \/ store.claims[op.cred] # NotStored) \in BOOLEAN
    <3> QED BY <1>0, <1>3 DEF ReceiptStored, Snapshot
  <2>4. [store.claims[op.cred] EXCEPT !.shown = b] \in StoredClaim
    BY <1>0, <2>1 DEF StoredClaims, StoredClaim
  <2>5. /\ store'.claims = [store.claims EXCEPT ![op.cred] =
                              [store.claims[op.cred] EXCEPT !.shown = b]]
        /\ store'.outstanding = store.outstanding
        /\ store' = [store EXCEPT !.claims = store'.claims]
    BY <1>0, <2>1, <2>3 DEF Snapshot, StoredClaims
  <2>6. store'.claims \in StoredClaims
    BY <1>0, <2>1, <2>4, <2>5 DEF StoredClaims
  <2>7. store' \in Snapshot
    BY <1>0, <2>5, <2>6 DEF Snapshot
  <2>8. \A c \in Creds : store'.claims[c].status = store.claims[c].status
    BY <1>0, <2>1, <2>5 DEF StoredClaims, StoredClaim
  <2>9. Backed(store'.claims)
    BY <1>0, <2>8 DEF Backed
  <2> QED BY <1>0, <1>3, <1>q, <2>2, <2>7, <2>9, SameChain
          DEF ReceiptStored, TypeOK
<1>4. CASE QueueLoaded(op)
  <2>1. Eligible(store.claims) \in SUBSET Creds
    BY DEF Eligible
  <2>2. /\ ui' \in UI /\ sync' \in Sync /\ Backed(sync'.claims)
        /\ sync'.at \in AtClaim => sync'.current \in Creds
    BY <1>0, <1>4, <2>1, NextClaimTypes DEF QueueLoaded
  <2> QED BY <1>0, <1>4, <1>q, <2>2, SameChain DEF QueueLoaded, TypeOK
<1>5. CASE QueuePersisted(op)
  <2>1. /\ store' \in Snapshot /\ Backed(store'.claims)
    BY <1>0, <1>5, <1>q, <1>f DEF QueuePersisted, WithQueue, Snapshot
  <2>2. Remaining \in SUBSET Creds /\ sync.claims \in StoredClaims
    BY <1>0 DEF Remaining, Sync
  <2>3. /\ ui' \in UI /\ sync' \in Sync /\ Backed(sync'.claims)
        /\ sync'.at \in AtClaim => sync'.current \in Creds
    BY <1>0, <1>5, <2>2, NextClaimTypes DEF QueuePersisted
  <2> QED BY <1>0, <1>5, <1>q, <2>1, <2>3, SameChain DEF QueuePersisted, TypeOK
<1> QED BY <1>1, <1>2, <1>3, <1>4, <1>5 DEF Perform, op

LEMMA Rejects == BackedInv /\ Reject => BackedInv'
<1> SUFFICES ASSUME BackedInv, Reject PROVE BackedInv'
  OBVIOUS
<1> USE DEF BackedInv
<1>1. /\ pending' \in Seq(Operation) /\ WaitingBacked(pending')
  BY TailWaiting DEF Reject, Dequeue, TypeOK
<1>2. ui' \in UI
  BY DEF Reject, TypeOK, UI
<1>3. /\ sync' \in Sync /\ Backed(sync'.claims)
      /\ sync'.at \in AtClaim => sync'.current \in Creds
  BY EmptyTypes, EmptyBacked DEF Reject, TypeOK
<1> QED BY <1>1, <1>2, <1>3, SameChain DEF Reject, Dequeue, TypeOK, StatusBacked

-----------------------------------------------------------------------------
(***************************************************************************)
(* The steps of a synchronization.                                         *)
(***************************************************************************)
LEMMA FailedAttempts ==
  ASSUME BackedInv, FailedAttempt PROVE BackedInv'
<1> USE DEF BackedInv
<1>1. /\ sync' \in Sync /\ sync'.claims = sync.claims /\ sync'.at \notin AtClaim
      /\ sync.claims \in StoredClaims
  BY DEF FailedAttempt, TypeOK, Sync, AtClaim
<1>2. pending' \in Seq(Operation) /\ WaitingBacked(pending')
  <2> DEFINE op == [kind |-> "persist", claims |-> sync.claims]
  <2>1. op \in Operation /\ op.claims = sync.claims
    BY <1>1, OperationTypes
  <2> QED BY <2>1, AppendWaiting DEF FailedAttempt, Enqueue, TypeOK
<1> QED BY <1>1, <1>2, SameChain DEF FailedAttempt, TypeOK, StatusBacked

LEMMA Applies ==
  ASSUME BackedInv, sync.at \in AtClaim, NEW status \in Lookup(Current) \ {"none"},
         Apply(status)
  PROVE  BackedInv'
<1> USE DEF BackedInv
<1> DEFINE q == [sync.claims EXCEPT ![Current].status = LifecycleStatus(status)]
           op == [kind |-> "persist", claims |-> q]
<1>1. Current \in Creds /\ status = chain[Current] /\ chain[Current] # "none"
  BY DEF Lookup, Current
<1>2. sync.claims \in StoredClaims /\ sync \in Sync /\ TypeOK
  BY DEF TypeOK, Sync
<1>3. q \in StoredClaims /\ Backed(q)
  BY <1>1, <1>2, AppliedBacked
<1>4. op \in Operation /\ op.claims = q
  BY <1>3, OperationTypes
<1>5. /\ sync' = [sync EXCEPT !.at = "persist", !.claims = q]
      /\ pending' = Append(pending, op)
      /\ UNCHANGED <<store, ui, issued, accepted, chain, sent>>
  BY DEF Apply, Enqueue
<1> HIDE DEF q
<1>6. sync' \in Sync /\ sync'.claims = q /\ sync'.at \notin AtClaim
  BY <1>2, <1>3, <1>5 DEF Sync, AtClaim
<1>7. pending' \in Seq(Operation) /\ WaitingBacked(pending')
  BY <1>2, <1>3, <1>4, <1>5, AppendWaiting DEF TypeOK
<1> QED BY <1>2, <1>3, <1>5, <1>6, <1>7, SameChain DEF TypeOK, StatusBacked

LEMMA Goes ==
  ASSUME BackedInv, sync.at \in AtClaim, NEW at \in AtClaim, GoTo(at),
         sent' \subseteq Creds
  PROVE  BackedInv'
<1> USE DEF BackedInv
<1>1. /\ sync' \in Sync /\ sync'.claims = sync.claims
      /\ sync'.current = sync.current
  BY DEF GoTo, TypeOK, Sync, AtClaim
<1> QED BY <1>1, SameChain DEF GoTo, TypeOK, StatusBacked

LEMMA SyncSteps == BackedInv /\ SyncStep => BackedInv'
<1> SUFFICES ASSUME BackedInv, SyncStep PROVE BackedInv'
  OBVIOUS
<1>0. /\ sync.at \in AtClaim
      /\ Current \in Creds
      /\ sent \subseteq Creds
  BY DEF SyncStep, FirstLookup, Submit, ConfirmTransaction, Observe, Recheck,
         AtClaim, BackedInv, Current, TypeOK
<1>a. AtClaim = {"lookup", "submit", "confirm", "observe", "recheck"}
  BY DEF AtClaim
<1>1. CASE FirstLookup
  BY <1>0, <1>1, <1>a, FailedAttempts, Applies, Goes DEF FirstLookup
<1>2. CASE Submit
  <2>1. sent' \subseteq Creds
    BY <1>0, <1>2 DEF Submit
  <2> QED BY <1>0, <1>2, <1>a, <2>1, Goes DEF Submit
<1>3. CASE ConfirmTransaction
  BY <1>0, <1>3, <1>a, Goes DEF ConfirmTransaction
<1>4. CASE Observe
  BY <1>0, <1>4, <1>a, Applies, Goes DEF Observe
<1>5. CASE Recheck
  BY <1>0, <1>5, <1>a, Applies, FailedAttempts DEF Recheck
<1> QED BY <1>1, <1>2, <1>3, <1>4, <1>5 DEF SyncStep

LEMMA ChainSteps ==
  ASSUME BackedInv, NEW c \in Creds, ChainStep(c) PROVE BackedInv'
<1> USE DEF BackedInv
<1>1. /\ TypeOK /\ store.claims \in StoredClaims /\ sync.claims \in StoredClaims
      /\ pending \in Seq(Operation)
      /\ UNCHANGED <<store, pending, ui, sync, issued, accepted, sent>>
  BY DEF TypeOK, Snapshot, Sync, ChainStep
<1>2. TypeOK'
  BY <1>1, ChainTypes DEF TypeOK
<1>3. \A claims \in StoredClaims : Backed(claims) =>
        \A d \in Creds :
          /\ claims[d].status = "submitted" => chain'[d] # "none"
          /\ claims[d].status \in {"settled", "rejected"}
               => chain'[d] = claims[d].status
  BY <1>1, ChainKeepsBacked DEF Backed
<1>4. StatusBacked' /\ Backed(sync.claims)'
  BY <1>1, <1>3 DEF StatusBacked, Backed
<1>5. \A i \in 1..Len(pending) :
        pending[i].kind = "persist" => pending[i].claims \in StoredClaims
  BY <1>1, OperationFields
<1>6. WaitingBacked(pending)'
  BY <1>1, <1>3, <1>5 DEF WaitingBacked, Backed
<1> QED BY <1>1, <1>2, <1>4, <1>6

LEMMA BackedNext == BackedInv /\ [Next]_vars => BackedInv'
<1> SUFFICES ASSUME BackedInv, [Next]_vars PROVE BackedInv'
  OBVIOUS
<1>1. CASE UNCHANGED vars
  BY <1>1 DEF vars, BackedInv, TypeOK, StatusBacked, Backed, WaitingBacked
<1>2. CASE Next
  <2>1. Next => \/ UserStep \/ Perform \/ Reject \/ SyncStep
                \/ \E c \in Creds : ChainStep(c)
    BY DEF Next, UserStep, SyncStep
  <2> QED BY <1>2, <2>1, UserSteps, Performs, Rejects, SyncSteps, ChainSteps
<1> QED BY <1>1, <1>2

\* Local history never runs ahead of the chain: whatever answers, timeouts,
\* retries, kills and rejected writes came before, a stored status
\* "submitted", "settled" or "rejected" is the chain's (syncStoredClaim).
THEOREM StatusAlwaysBacked == Spec => []StatusBacked
<1>1. BackedInv => StatusBacked
  BY DEF BackedInv
<1> QED BY <1>1, BackedInit, BackedNext, PTL DEF Spec

-----------------------------------------------------------------------------
(***************************************************************************)
(* A request is answered once.  A second proof of the same request may     *)
(* wait in the store's queue when the first is accepted, and newer         *)
(* requests may wait around both; a proof is accepted whenever any request *)
(* is outstanding.  The invariant is that no request stands between two    *)
(* waiting proofs of one challenge, so the second finds none outstanding.  *)
(***************************************************************************)
IsRequest(op) == op.kind = "request"
IsProof(op) == op.kind = "credential"
Asked(op) == Answers[op.cred]

\* A request that waits is new: nothing has been proved for it.
RequestsFresh(q) ==
  \A i \in 1..Len(q) : IsRequest(q[i]) =>
    /\ q[i].challenge \in issued
    /\ q[i].challenge # store.outstanding
    /\ \A c \in accepted : Answers[c] # q[i].challenge
    /\ \A j \in 1..Len(q) : /\ IsRequest(q[j]) /\ j # i
                                 => q[j].challenge # q[i].challenge
                            /\ IsProof(q[j]) => Asked(q[j]) # q[i].challenge

\* A proof of an answered request will find nothing outstanding.
ProofsRefused(q) ==
  \A j \in 1..Len(q) : IsProof(q[j]) =>
    /\ Asked(q[j]) \in issued
    /\ (\E c \in accepted : Answers[c] = Asked(q[j])) =>
         /\ store.outstanding = NoChallenge
         /\ \A i \in 1..(j - 1) : ~IsRequest(q[i])

ProofsTogether(q) ==
  \A i, k, j \in 1..Len(q) :
    (i < k /\ k < j /\ IsProof(q[i]) /\ IsProof(q[j]) /\ Asked(q[i]) = Asked(q[j]))
      => ~IsRequest(q[k])

\* The request on the screen can still be proved behind the waiting proofs.
ScreenTogether(q) ==
  ui.screen \in {"show-challenge", "scan-credential"} =>
    \A i, k \in 1..Len(q) :
      (i < k /\ IsProof(q[i]) /\ Asked(q[i]) = store.outstanding)
        => ~IsRequest(q[k])

AnswerInv ==
  /\ ~ui.running => pending = <<>> /\ ui.screen = "home" /\ sync.at = "idle"
  /\ WaitingIsAnswerable
  /\ store.outstanding \in issued \cup {NoChallenge}
  /\ \A c \in accepted : Answers[c] \in issued /\ Answers[c] # store.outstanding
  /\ RequestsFresh(pending)
  /\ ProofsRefused(pending)
  /\ ProofsTogether(pending)
  /\ ScreenTogether(pending)
  /\ ChallengeAnsweredOnce

WaitingScreens == {"show-challenge", "scan-credential"}

QueueInv(q) ==
  /\ RequestsFresh(q)
  /\ ProofsRefused(q)
  /\ ProofsTogether(q)
  /\ ScreenTogether(q)

LEMMA EmptyQueue == QueueInv(<<>>)
BY DEF QueueInv, RequestsFresh, ProofsRefused, ProofsTogether, ScreenTogether

LEMMA TailQueue ==
  ASSUME NEW q \in Seq(Operation), q # <<>>, QueueInv(q)
  PROVE  QueueInv(Tail(q))
<1> DEFINE t == Tail(q)
<1>1. /\ Len(t) \in Nat /\ Len(q) = Len(t) + 1
      /\ \A i \in 1..Len(t) : i + 1 \in 1..Len(q) /\ t[i] = q[i + 1]
  OBVIOUS
<1> HIDE DEF t
<1>2. RequestsFresh(t)
  BY <1>1 DEF QueueInv, RequestsFresh
<1>3. ProofsRefused(t)
  <2> SUFFICES ASSUME NEW j \in 1..Len(t), IsProof(t[j])
               PROVE  /\ Asked(t[j]) \in issued
                      /\ (\E c \in accepted : Answers[c] = Asked(t[j])) =>
                           /\ store.outstanding = NoChallenge
                           /\ \A i \in 1..(j - 1) : ~IsRequest(t[i])
    BY DEF ProofsRefused
  <2>1. j + 1 \in 1..Len(q) /\ t[j] = q[j + 1]
    BY <1>1
  <2>2. \A i \in 1..(j - 1) : i + 1 \in 1..(j + 1 - 1) /\ t[i] = q[i + 1]
    BY <1>1
  <2> QED BY <2>1, <2>2 DEF QueueInv, ProofsRefused
<1>4. ProofsTogether(t)
  <2> SUFFICES ASSUME NEW i \in 1..Len(t), NEW k \in 1..Len(t), NEW j \in 1..Len(t),
                      i < k, k < j, IsProof(t[i]), IsProof(t[j]),
                      Asked(t[i]) = Asked(t[j])
               PROVE  ~IsRequest(t[k])
    BY DEF ProofsTogether
  <2>1. i + 1 < k + 1 /\ k + 1 < j + 1
    OBVIOUS
  <2> QED BY <1>1, <2>1 DEF QueueInv, ProofsTogether
<1>5. ScreenTogether(t)
  <2> SUFFICES ASSUME ui.screen \in {"show-challenge", "scan-credential"},
                      NEW i \in 1..Len(t), NEW k \in 1..Len(t),
                      i < k, IsProof(t[i]), Asked(t[i]) = store.outstanding
               PROVE  ~IsRequest(t[k])
    BY DEF ScreenTogether
  <2>1. i + 1 < k + 1
    OBVIOUS
  <2> QED BY <1>1, <2>1 DEF QueueInv, ScreenTogether
<1> QED BY <1>2, <1>3, <1>4, <1>5 DEF QueueInv, t

\* The operation at each place of a queue with one more operation.
LEMMA AppendPlaces ==
  ASSUME NEW q \in Seq(Operation), NEW op
  PROVE  LET a == Append(q, op)
         IN  /\ Len(q) \in Nat /\ Len(a) = Len(q) + 1
             /\ a[Len(a)] = op
             /\ \A i \in 1..Len(a) :
                  i # Len(a) => i \in 1..Len(q) /\ a[i] = q[i]
OBVIOUS

LEMMA AppendOther ==
  ASSUME NEW q \in Seq(Operation), NEW op, ~IsRequest(op), ~IsProof(op), QueueInv(q)
  PROVE  QueueInv(Append(q, op))
<1> DEFINE a == Append(q, op)
<1>1. /\ Len(q) \in Nat /\ Len(a) = Len(q) + 1
      /\ a[Len(a)] = op
      /\ \A i \in 1..Len(a) : i # Len(a) => i \in 1..Len(q) /\ a[i] = q[i]
  BY AppendPlaces
<1> HIDE DEF a
<1>2. RequestsFresh(a)
  BY <1>1 DEF QueueInv, RequestsFresh
<1>3. ProofsRefused(a)
  BY <1>1 DEF QueueInv, ProofsRefused
<1>4. ProofsTogether(a)
  BY <1>1 DEF QueueInv, ProofsTogether
<1>5. ScreenTogether(a)
  BY <1>1 DEF QueueInv, ScreenTogether
<1> QED BY <1>2, <1>3, <1>4, <1>5 DEF QueueInv, a

LEMMA AnswerFacts ==
  ASSUME BackedInv, AnswerInv
  PROVE  /\ pending \in Seq(Operation) /\ store \in Snapshot /\ ui \in UI
         /\ issued \subseteq Challenges /\ accepted \subseteq Creds
         /\ QueueInv(pending)
         /\ \A c \in Creds : Answers[c] \in Challenges
         /\ NoChallenge \notin Challenges
BY MerchantAssumption DEF BackedInv, TypeOK, AnswerInv, QueueInv

\* A step that stores no proof and no request, and opens no waiting screen.
LEMMA SameAnswers ==
  ASSUME AnswerInv, pending' = <<>> \/ QueueInv(pending'),
         store'.outstanding = store.outstanding, issued' = issued,
         accepted' = accepted,
         ui'.screen \in WaitingScreens =>
           ui.screen \in WaitingScreens /\ ui'.challenge = ui.challenge,
         ~ui'.running => pending' = <<>> /\ ui'.screen = "home" /\ sync'.at = "idle"
  PROVE  AnswerInv'
<1> USE DEF WaitingScreens
<1>0. QueueInv(pending')
  BY EmptyQueue
<1>1. /\ WaitingIsAnswerable' /\ ChallengeAnsweredOnce'
      /\ store'.outstanding \in issued' \cup {NoChallenge}
      /\ \A c \in accepted' : Answers[c] \in issued' /\ Answers[c] # store'.outstanding
  BY DEF AnswerInv, WaitingIsAnswerable, ChallengeAnsweredOnce
<1>2. RequestsFresh(pending)'
  BY <1>0 DEF QueueInv, RequestsFresh
<1>3. ProofsRefused(pending)'
  BY <1>0 DEF QueueInv, ProofsRefused
<1>4. ProofsTogether(pending)'
  BY <1>0 DEF QueueInv, ProofsTogether
<1>5. ScreenTogether(pending)'
  BY <1>0 DEF QueueInv, ScreenTogether
<1> QED BY <1>1, <1>2, <1>3, <1>4, <1>5 DEF AnswerInv

LEMMA AnswerInit == Init => AnswerInv
<1> SUFFICES ASSUME Init PROVE AnswerInv
  OBVIOUS
<1>1. QueueInv(pending)
  BY EmptyQueue DEF Init
<1> QED BY <1>1
        DEF Init, Stopped, NoSync, AnswerInv, QueueInv, WaitingIsAnswerable,
            ChallengeAnsweredOnce
-----------------------------------------------------------------------------
LEMMA CreateRequestAnswers ==
  ASSUME BackedInv, AnswerInv, NEW h \in Challenges, CreateRequest(h)
  PROVE  AnswerInv'
<1> DEFINE op == [kind |-> "request", challenge |-> h]
           a == Append(pending, op)
<1>0. /\ ui.screen = "home" /\ ui.running /\ h \notin issued
      /\ issued' = issued \cup {h} /\ pending' = a
      /\ UNCHANGED <<store, ui, accepted>>
  BY DEF CreateRequest, EnqueueByUser, Enqueue
<1>1. /\ Len(pending) \in Nat /\ Len(a) = Len(pending) + 1
      /\ a[Len(a)] = op
      /\ \A i \in 1..Len(a) : i # Len(a) => i \in 1..Len(pending) /\ a[i] = pending[i]
  BY AppendPlaces, AnswerFacts
<1>2. IsRequest(op) /\ ~IsProof(op) /\ op.challenge = h
  BY DEF IsRequest, IsProof
<1> HIDE DEF a, op
<1>3. /\ h # store.outstanding /\ \A c \in accepted : Answers[c] # h
      /\ \A j \in 1..Len(pending) : IsProof(pending[j]) => Asked(pending[j]) # h
      /\ \A j \in 1..Len(pending) : IsRequest(pending[j]) => pending[j].challenge # h
  BY <1>0, AnswerFacts DEF AnswerInv, QueueInv, ProofsRefused, RequestsFresh
<1>4. RequestsFresh(pending)'
  <2> SUFFICES ASSUME NEW i \in 1..Len(a), IsRequest(a[i])
               PROVE  /\ a[i].challenge \in issued'
                      /\ a[i].challenge # store.outstanding
                      /\ \A c \in accepted : Answers[c] # a[i].challenge
                      /\ \A j \in 1..Len(a) :
                           /\ IsRequest(a[j]) /\ j # i => a[j].challenge # a[i].challenge
                           /\ IsProof(a[j]) => Asked(a[j]) # a[i].challenge
    BY <1>0 DEF RequestsFresh
  <2>1. CASE i = Len(a)
    BY <1>0, <1>1, <1>2, <1>3, <2>1
  <2>2. CASE i # Len(a)
    <3>1. i \in 1..Len(pending) /\ a[i] = pending[i]
      BY <1>1, <2>2
    <3> QED BY <1>0, <1>1, <1>2, <1>3, <3>1 DEF AnswerInv, RequestsFresh
  <2> QED BY <2>1, <2>2
<1>5. ProofsRefused(pending)'
  <2> SUFFICES ASSUME NEW j \in 1..Len(a), IsProof(a[j])
               PROVE  /\ Asked(a[j]) \in issued'
                      /\ (\E c \in accepted : Answers[c] = Asked(a[j])) =>
                           /\ store.outstanding = NoChallenge
                           /\ \A i \in 1..(j - 1) : ~IsRequest(a[i])
    BY <1>0 DEF ProofsRefused
  <2>1. j # Len(a)
    BY <1>1, <1>2
  <2>2. j \in 1..Len(pending) /\ a[j] = pending[j]
    BY <1>1, <2>1
  <2>3. \A i \in 1..(j - 1) : a[i] = pending[i]
    BY <1>1, <2>2
  <2> QED BY <1>0, <2>2, <2>3 DEF AnswerInv, ProofsRefused
<1>6. ProofsTogether(pending)'
  BY <1>0, <1>1, <1>2 DEF AnswerInv, ProofsTogether
<1>7. ScreenTogether(pending)'
  BY <1>0 DEF ScreenTogether
<1>8. /\ WaitingIsAnswerable' /\ ChallengeAnsweredOnce'
      /\ store'.outstanding \in issued' \cup {NoChallenge}
      /\ \A c \in accepted' : Answers[c] \in issued' /\ Answers[c] # store'.outstanding
      /\ ui'.running
  BY <1>0 DEF AnswerInv, WaitingIsAnswerable, ChallengeAnsweredOnce
<1> QED BY <1>0, <1>4, <1>5, <1>6, <1>7, <1>8 DEF AnswerInv

LEMMA ScanCredentialAnswers ==
  ASSUME BackedInv, AnswerInv, NEW c \in Creds, ScanCredential(c)
  PROVE  AnswerInv'
<1> DEFINE op == [kind |-> "credential", cred |-> c]
           a == Append(pending, op)
<1>0. /\ ui.screen = "scan-credential" /\ ui.running /\ ui.challenge = Answers[c]
      /\ pending' = a
      /\ UNCHANGED <<store, ui, issued, accepted>>
  BY DEF ScanCredential, EnqueueByUser, Enqueue
<1>1. /\ Len(pending) \in Nat /\ Len(a) = Len(pending) + 1
      /\ a[Len(a)] = op
      /\ \A i \in 1..Len(a) : i # Len(a) => i \in 1..Len(pending) /\ a[i] = pending[i]
  BY AppendPlaces, AnswerFacts
<1>2. ~IsRequest(op) /\ IsProof(op) /\ Asked(op) = Answers[c]
  BY DEF IsRequest, IsProof, Asked
<1> HIDE DEF a, op
<1>3. /\ Answers[c] = store.outstanding /\ Answers[c] \in issued
      /\ \A d \in accepted : Answers[d] # Answers[c]
  BY <1>0, AnswerFacts DEF AnswerInv, WaitingIsAnswerable
<1>4. RequestsFresh(a)
  BY <1>1, <1>2, <1>3 DEF AnswerInv, RequestsFresh
<1>5. ProofsRefused(a)
  <2> SUFFICES ASSUME NEW j \in 1..Len(a), IsProof(a[j])
               PROVE  /\ Asked(a[j]) \in issued
                      /\ (\E d \in accepted : Answers[d] = Asked(a[j])) =>
                           /\ store.outstanding = NoChallenge
                           /\ \A i \in 1..(j - 1) : ~IsRequest(a[i])
    BY DEF ProofsRefused
  <2>1. CASE j = Len(a)
    BY <1>1, <1>2, <1>3, <2>1
  <2>2. CASE j # Len(a)
    <3>1. j \in 1..Len(pending) /\ a[j] = pending[j]
      BY <1>1, <2>2
    <3>2. \A i \in 1..(j - 1) : a[i] = pending[i]
      BY <1>1, <3>1
    <3> QED BY <3>1, <3>2 DEF AnswerInv, ProofsRefused
  <2> QED BY <2>1, <2>2
<1>6. ProofsTogether(a)
  <2> SUFFICES ASSUME NEW i \in 1..Len(a), NEW k \in 1..Len(a), NEW j \in 1..Len(a),
                      i < k, k < j, IsProof(a[i]), IsProof(a[j]),
                      Asked(a[i]) = Asked(a[j])
               PROVE  ~IsRequest(a[k])
    BY DEF ProofsTogether
  <2>1. i \in 1..Len(pending) /\ k \in 1..Len(pending)
        /\ a[i] = pending[i] /\ a[k] = pending[k]
    BY <1>1
  <2>2. CASE j = Len(a)
    BY <1>0, <1>1, <1>2, <1>3, <2>1, <2>2 DEF AnswerInv, ScreenTogether
  <2>3. CASE j # Len(a)
    BY <1>1, <2>1, <2>3 DEF AnswerInv, ProofsTogether
  <2> QED BY <2>2, <2>3
<1>7. ScreenTogether(a)
  BY <1>1, <1>2 DEF AnswerInv, ScreenTogether
<1> QED BY <1>0, <1>4, <1>5, <1>6, <1>7, SameAnswers DEF QueueInv, WaitingScreens

LEMMA UserAnswers ==
  ASSUME BackedInv, AnswerInv, UserStep PROVE AnswerInv'
<1>0. /\ pending \in Seq(Operation) /\ ui \in UI /\ QueueInv(pending)
      /\ store \in Snapshot
  BY AnswerFacts
<1>1. CASE Boot
  <2>1. /\ pending = <<>> /\ ui'.running /\ ui'.challenge = store.outstanding
        /\ ui'.screen = IF store.outstanding = NoChallenge
                        THEN "home" ELSE "show-challenge"
        /\ UNCHANGED <<store, pending, issued, accepted>>
    BY <1>1 DEF Boot, AnswerInv, Stopped
  <2>2. WaitingIsAnswerable' /\ ChallengeAnsweredOnce'
    BY <2>1 DEF WaitingIsAnswerable, AnswerInv, ChallengeAnsweredOnce
  <2>3. RequestsFresh(pending)' /\ ProofsRefused(pending)'
        /\ ProofsTogether(pending)' /\ ScreenTogether(pending)'
    BY <2>1 DEF RequestsFresh, ProofsRefused, ProofsTogether, ScreenTogether
  <2> QED BY <2>1, <2>2, <2>3 DEF AnswerInv
<1>2. ASSUME NEW from, NEW to, Navigate(from, to),
             to \in WaitingScreens => from \in WaitingScreens
      PROVE  AnswerInv'
  <2>1. /\ ui'.screen = to /\ ui.screen = from /\ ui'.challenge = ui.challenge
        /\ ui'.running /\ UNCHANGED <<store, pending, issued, accepted>>
    BY <1>0, <1>2 DEF Navigate, UI
  <2> QED BY <1>0, <1>2, <2>1, SameAnswers
<1>3. CASE ShowReceipt
  <2> DEFINE op == [kind |-> "receipt", cred |-> ui.verified]
  <2>1. ~IsRequest(op) /\ ~IsProof(op)
    BY DEF IsRequest, IsProof
  <2>2. QueueInv(Append(pending, op))
    BY <1>0, <2>1, AppendOther
  <2> QED BY <1>3, <2>2, SameAnswers
          DEF ShowReceipt, EnqueueByUser, Enqueue, WaitingScreens
<1>4. CASE Conclude
  <2>1. ui'.screen = "home" /\ ui'.running
    BY <1>0, <1>4 DEF Conclude, UI
  <2> QED BY <1>0, <1>4, <2>1, SameAnswers DEF Conclude, WaitingScreens
<1>5. CASE SynchronizeClaims
  <2> DEFINE op == [kind |-> "load"]
  <2>1. ~IsRequest(op) /\ ~IsProof(op)
    BY DEF IsRequest, IsProof
  <2>2. QueueInv(Append(pending, op))
    BY <1>0, <2>1, AppendOther
  <2>3. ui'.screen = "history" /\ ui'.running
    BY <1>0, <1>5 DEF SynchronizeClaims, UI
  <2> QED BY <1>5, <2>2, <2>3, SameAnswers
          DEF SynchronizeClaims, Enqueue, WaitingScreens
<1>6. CASE Kill
  BY <1>6, SameAnswers DEF Kill, Stopped, NoSync, WaitingScreens
<1> QED BY <1>1, <1>2, <1>3, <1>4, <1>5, <1>6, CreateRequestAnswers,
           ScanCredentialAnswers DEF UserStep, WaitingScreens

-----------------------------------------------------------------------------
\* The places of a queue whose first operation is taken.
LEMMA TailPlaces ==
  ASSUME NEW q \in Seq(Operation), q # <<>>
  PROVE  LET t == Tail(q)
         IN  /\ Head(q) = q[1] /\ 1 \in 1..Len(q)
             /\ Len(t) \in Nat /\ Len(q) = Len(t) + 1
             /\ \A i \in 1..Len(t) : i + 1 \in 1..Len(q) /\ t[i] = q[i + 1]
OBVIOUS

LEMMA RequestStoredAnswers ==
  ASSUME BackedInv, AnswerInv, Dequeue, RequestStored(Head(pending))
  PROVE  AnswerInv'
<1> DEFINE op == Head(pending)
           t == Tail(pending)
           h == op.challenge
<1>0. /\ pending \in Seq(Operation) /\ pending # <<>> /\ store \in Snapshot
      /\ ui \in UI /\ QueueInv(pending)
  BY AnswerFacts DEF Dequeue
<1>1. /\ op = pending[1] /\ 1 \in 1..Len(pending)
      /\ Len(t) \in Nat /\ Len(pending) = Len(t) + 1
      /\ \A i \in 1..Len(t) : i + 1 \in 1..Len(pending) /\ t[i] = pending[i + 1]
  BY <1>0, TailPlaces
<1>2. /\ pending' = t /\ IsRequest(op)
      /\ store'.outstanding = h
      /\ ui'.challenge = h /\ ui'.screen = "show-challenge"
      /\ ui'.running = ui.running
      /\ UNCHANGED <<issued, accepted>>
  BY <1>0 DEF Dequeue, RequestStored, IsRequest, Snapshot, UI
<1>3. QueueInv(t)
  BY <1>0, TailQueue
<1>4. ui.running
  BY <1>0 DEF AnswerInv
<1> HIDE DEF op, t
<1>5. /\ h \in issued /\ \A c \in accepted : Answers[c] # h
      /\ \A i \in 1..Len(t) : /\ IsRequest(t[i]) => t[i].challenge # h
                              /\ IsProof(t[i]) => Asked(t[i]) # h
  BY <1>0, <1>1, <1>2 DEF QueueInv, RequestsFresh
<1>6. RequestsFresh(pending)'
  BY <1>2, <1>3, <1>5 DEF QueueInv, RequestsFresh
<1>7. \A j \in 1..Len(t) : IsProof(t[j]) =>
        Asked(t[j]) \in issued /\ \A c \in accepted : Answers[c] # Asked(t[j])
  <2> SUFFICES ASSUME NEW j \in 1..Len(t), IsProof(t[j])
               PROVE  Asked(t[j]) \in issued
                        /\ \A c \in accepted : Answers[c] # Asked(t[j])
    OBVIOUS
  <2>1. /\ j + 1 \in 1..Len(pending) /\ t[j] = pending[j + 1]
        /\ 1 \in 1..(j + 1 - 1)
    BY <1>1
  <2> QED BY <1>0, <1>1, <1>2, <2>1 DEF QueueInv, ProofsRefused
<1>8. ProofsRefused(pending)'
  BY <1>2, <1>7 DEF ProofsRefused
<1>9. ProofsTogether(pending)'
  BY <1>2, <1>3 DEF QueueInv, ProofsTogether
<1>10. ScreenTogether(pending)'
  BY <1>2, <1>5 DEF ScreenTogether
<1>11. /\ WaitingIsAnswerable' /\ ChallengeAnsweredOnce'
       /\ store'.outstanding \in issued' \cup {NoChallenge}
       /\ \A c \in accepted' : Answers[c] \in issued' /\ Answers[c] # store'.outstanding
  <2>1. h # NoChallenge
    BY <1>5, AnswerFacts
  <2> QED BY <1>2, <1>5, <2>1
          DEF AnswerInv, WaitingIsAnswerable, ChallengeAnsweredOnce
<1> QED BY <1>2, <1>4, <1>6, <1>8, <1>9, <1>10, <1>11 DEF AnswerInv

LEMMA CredentialStoredAnswers ==
  ASSUME BackedInv, AnswerInv, Dequeue, CredentialStored(Head(pending))
  PROVE  AnswerInv'
<1> DEFINE op == Head(pending)
           t == Tail(pending)
<1>0. /\ pending \in Seq(Operation) /\ pending # <<>> /\ store \in Snapshot
      /\ ui \in UI /\ QueueInv(pending)
  BY AnswerFacts DEF Dequeue
<1>1. /\ op = pending[1] /\ 1 \in 1..Len(pending)
      /\ Len(t) \in Nat /\ Len(pending) = Len(t) + 1
      /\ \A i \in 1..Len(t) : i + 1 \in 1..Len(pending) /\ t[i] = pending[i + 1]
  BY <1>0, TailPlaces
<1>2. /\ pending' = t /\ IsProof(op) /\ issued' = issued
  BY <1>0 DEF Dequeue, CredentialStored, IsProof
<1>3. QueueInv(t) /\ ui.running
  BY <1>0, TailQueue DEF AnswerInv
<1>4. CASE store.outstanding = NoChallenge
  <2>1. UNCHANGED <<store, ui, accepted>>
    BY <1>4 DEF CredentialStored
  <2> QED BY <1>2, <1>3, <2>1, SameAnswers
<1>5. CASE store.outstanding # NoChallenge
  <2>a. /\ store' = WithCredential(store, op.cred)
        /\ ui' = [ui EXCEPT !.verified = op.cred, !.screen = "verified"]
        /\ accepted' = accepted \cup {op.cred}
    BY <1>5 DEF CredentialStored
  <2>1. /\ store'.outstanding = NoChallenge /\ accepted' = accepted \cup {op.cred}
        /\ ui'.screen = "verified" /\ ui'.running
    BY <1>0, <1>3, <2>a DEF WithCredential, UI
  <2> HIDE DEF op, t
  <2>2. /\ Answers[op.cred] = Asked(op) /\ Asked(op) \in issued
        /\ Asked(op) # NoChallenge
        /\ \A d \in accepted : Answers[d] # Asked(op)
    <3>1. Asked(op) \in issued /\ \A d \in accepted : Answers[d] # Asked(op)
      BY <1>0, <1>1, <1>2, <1>5 DEF QueueInv, ProofsRefused
    <3> QED BY <3>1, AnswerFacts DEF Asked
  <2>3. \A i \in 1..Len(t) : IsRequest(t[i]) => t[i].challenge # Asked(op)
    BY <1>0, <1>1, <1>2 DEF QueueInv, RequestsFresh
  <2>4. RequestsFresh(pending)'
    <3>1. \A i \in 1..Len(t) : IsRequest(t[i]) => t[i].challenge # NoChallenge
      BY <1>3, AnswerFacts DEF QueueInv, RequestsFresh
    <3> QED BY <1>2, <1>3, <2>1, <2>2, <2>3, <3>1 DEF QueueInv, RequestsFresh
  <2>5. ASSUME NEW j \in 1..Len(t), IsProof(t[j]), NEW d \in accepted',
               Answers[d] = Asked(t[j]), NEW i \in 1..(j - 1)
        PROVE  ~IsRequest(t[i])
    <3>1. /\ j + 1 \in 1..Len(pending) /\ t[j] = pending[j + 1]
          /\ i + 1 \in 1..Len(pending) /\ t[i] = pending[i + 1]
          /\ i + 1 \in 1..(j + 1 - 1) /\ 1 < i + 1 /\ i + 1 < j + 1
      BY <1>1
    <3>2. CASE d \in accepted
      BY <1>0, <2>5, <3>1, <3>2 DEF QueueInv, ProofsRefused
    <3>3. CASE d = op.cred
      BY <1>0, <1>1, <1>2, <2>2, <2>5, <3>1, <3>3 DEF QueueInv, ProofsTogether
    <3> QED BY <2>1, <3>2, <3>3
  <2>6. ProofsRefused(pending)'
    <3>1. \A j \in 1..Len(t) : IsProof(t[j]) => Asked(t[j]) \in issued
      BY <1>3 DEF QueueInv, ProofsRefused
    <3> QED BY <1>2, <2>1, <2>5, <3>1 DEF ProofsRefused
  <2>7. ProofsTogether(pending)' /\ ScreenTogether(pending)'
    BY <1>2, <1>3, <2>1 DEF QueueInv, ProofsTogether, ScreenTogether
  <2>8. /\ WaitingIsAnswerable'
        /\ \A c \in accepted' : Answers[c] \in issued' /\ Answers[c] # store'.outstanding
    <3>1. \A c \in accepted : Answers[c] # NoChallenge
      BY AnswerFacts
    <3> QED BY <1>2, <2>1, <2>2, <3>1 DEF AnswerInv, WaitingIsAnswerable
  <2>9. ChallengeAnsweredOnce'
    BY <2>1, <2>2 DEF AnswerInv, ChallengeAnsweredOnce
  <2> QED BY <2>1, <2>4, <2>6, <2>7, <2>8, <2>9 DEF AnswerInv
<1> QED BY <1>4, <1>5

LEMMA PerformAnswers ==
  ASSUME BackedInv, AnswerInv, Perform PROVE AnswerInv'
<1> DEFINE op == Head(pending)
<1>0. /\ pending \in Seq(Operation) /\ pending # <<>> /\ store \in Snapshot
      /\ ui \in UI /\ QueueInv(pending) /\ Dequeue
  BY AnswerFacts DEF Perform, Dequeue
<1>1. /\ QueueInv(pending') /\ issued' = issued /\ ui.running
  BY <1>0, TailQueue DEF Dequeue, AnswerInv
<1>2. ASSUME NEW claims, NEW todo, NextClaim(claims, todo)
      PROVE  /\ ui'.screen = ui.screen /\ ui'.challenge = ui.challenge
             /\ ui'.running = ui.running
  BY <1>0, <1>2 DEF NextClaim, UI
<1>3. CASE ReceiptStored(op)
  <2>1. /\ store'.outstanding = store.outstanding /\ accepted' = accepted
        /\ ui'.screen = "show-receipt" /\ ui'.running
    BY <1>0, <1>1, <1>3 DEF ReceiptStored, Snapshot, UI
  <2> QED BY <1>1, <2>1, SameAnswers DEF WaitingScreens
<1>4. CASE QueueLoaded(op)
  BY <1>1, <1>2, <1>4, SameAnswers DEF QueueLoaded
<1>5. CASE QueuePersisted(op)
  <2>1. store'.outstanding = store.outstanding /\ accepted' = accepted
    BY <1>0, <1>5 DEF QueuePersisted, WithQueue, Snapshot
  <2>2. /\ ui'.screen = ui.screen /\ ui'.challenge = ui.challenge
        /\ ui'.running = ui.running
    BY <1>2, <1>5 DEF QueuePersisted
  <2> QED BY <1>1, <2>1, <2>2, SameAnswers
<1> QED BY <1>0, <1>3, <1>4, <1>5, RequestStoredAnswers, CredentialStoredAnswers
        DEF Perform

LEMMA RejectAnswers ==
  ASSUME BackedInv, AnswerInv, Reject PROVE AnswerInv'
<1>0. /\ pending \in Seq(Operation) /\ pending # <<>> /\ ui \in UI
      /\ QueueInv(pending) /\ Dequeue
  BY AnswerFacts DEF Reject, Dequeue
<1>1. QueueInv(pending') /\ ui.running /\ UNCHANGED <<store, issued, accepted>>
  BY <1>0, TailQueue DEF Dequeue, AnswerInv, Reject
<1>2. /\ ui'.screen = ui.screen /\ ui'.challenge = ui.challenge
      /\ ui'.running = ui.running
  BY <1>0 DEF Reject, UI
<1> QED BY <1>1, <1>2, SameAnswers

LEMMA SyncAnswers ==
  ASSUME BackedInv, AnswerInv, SyncStep PROVE AnswerInv'
<1>0. /\ pending \in Seq(Operation) /\ QueueInv(pending)
  BY AnswerFacts
<1>1. ASSUME NEW claims, Enqueue([kind |-> "persist", claims |-> claims]),
             UNCHANGED <<store, ui, issued, accepted>>
      PROVE  QueueInv(pending')
  BY <1>0, <1>1, AppendOther DEF Enqueue, IsRequest, IsProof
<1>2. /\ UNCHANGED <<store, ui, issued, accepted>>
      /\ \/ pending' = pending
         \/ \E claims : Enqueue([kind |-> "persist", claims |-> claims])
  BY DEF SyncStep, FirstLookup, Submit, ConfirmTransaction, Observe, Recheck,
         Apply, FailedAttempt, GoTo
<1>3. ui.running
  BY DEF AnswerInv, SyncStep, FirstLookup, Submit, ConfirmTransaction, Observe, Recheck
<1> QED BY <1>0, <1>1, <1>2, <1>3, SameAnswers

LEMMA AnswerNext ==
  BackedInv /\ AnswerInv /\ [Next]_vars => AnswerInv'
<1> SUFFICES ASSUME BackedInv, AnswerInv, [Next]_vars PROVE AnswerInv'
  OBVIOUS
<1>0. QueueInv(pending)
  BY AnswerFacts
<1>1. CASE UNCHANGED vars
  BY <1>0, <1>1, SameAnswers DEF vars, AnswerInv
<1>2. ASSUME NEW c \in Creds, ChainStep(c) PROVE AnswerInv'
  <2>1. UNCHANGED <<store, pending, ui, sync, issued, accepted>>
    BY <1>2 DEF ChainStep
  <2> QED BY <1>0, <2>1, SameAnswers DEF AnswerInv
<1>3. CASE Next
  <2>1. Next => \/ UserStep \/ Perform \/ Reject \/ SyncStep
                \/ \E c \in Creds : ChainStep(c)
    BY DEF Next, UserStep, SyncStep
  <2> QED BY <1>2, <1>3, <2>1, UserAnswers, PerformAnswers, RejectAnswers,
             SyncAnswers
<1> QED BY <1>1, <1>3

LEMMA AnswersHold == Spec => [](BackedInv /\ AnswerInv)
BY BackedInit, BackedNext, AnswerInit, AnswerNext, PTL DEF Spec

\* Whatever the merchant taps while updates wait in the store, in whatever
\* order they are performed or rejected, and wherever the app is killed, no two
\* payments are shown as validated for one challenge (scanCredential).
THEOREM AlwaysAnsweredOnce == Spec => []ChallengeAnsweredOnce
<1>1. AnswerInv => ChallengeAnsweredOnce
  BY DEF AnswerInv
<1> QED BY <1>1, AnswersHold, PTL

\* The request that the waiting screens validate a proof against is always the
\* durable one: no synchronization, restart or waiting update has cleared it
\* (boot effect, createRequest, the persist callback of synchronizeClaims).
THEOREM AlwaysAnswerable == Spec => []WaitingIsAnswerable
<1>1. AnswerInv => WaitingIsAnswerable
  BY DEF AnswerInv
<1> QED BY <1>1, AnswersHold, PTL
=============================================================================
