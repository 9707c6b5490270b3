----------------------- MODULE OfflineGuaranteeProofs -----------------------
(***************************************************************************)
(* Proofs about the on-chain program: first the safety of the accounts     *)
(* (types, one active session, the cover of every liability, the freeze),  *)
(* then the claim list, the wrappers, the forks and the exposure, which    *)
(* compare the program's incremental bookkeeping with what the whole set   *)
(* of accounts defines.                                                    *)
(***************************************************************************)
EXTENDS OfflineGuaranteeProperties, Functions, FiniteSetTheorems,
        WellFoundedInduction, TLAPS

(***************************************************************************)
(* Types of the fields that the arithmetic below reads.                    *)
(***************************************************************************)
LEMMA SessionFieldTypes ==
  ASSUME NEW r \in OfflineSession
  PROVE  /\ r.status \in SessionStatus
         /\ r.authorized \in BOOLEAN
         /\ r.authenticated_fork \in BOOLEAN
         /\ r.collateral_coverage_cap \in Nat
         /\ r.branch_spending_limit \in Nat
         /\ r.issued_at \in Nat
         /\ r.expires_at \in Nat
         /\ r.claim_submission_deadline \in Nat
         /\ r.aggregate_offline_exposure \in Nat
         /\ r.unique_edge_count \in Nat
         /\ r.submitted_claim_count \in Nat
         /\ r.claim_head \in Creds \cup {NoClaim}
         /\ r.claim_tail \in Creds \cup {NoClaim}
         /\ r.frozen_edge_count \in Nat
         /\ r.frozen_exposure \in Nat
         /\ r.classified_edge_count \in Nat
         /\ r.classified_exposure \in Nat
         /\ r.base_allocation_total \in Nat
         /\ r.classification_complete \in BOOLEAN
         /\ r.next_allocation_claim \in Creds \cup {NoClaim}
         /\ r.scanned_claim_count \in Nat
         /\ r.allocated_edge_count \in Nat
         /\ r.allocated_total \in Nat
         /\ r.conflicting_claim_count \in Nat
         /\ r.resolution_hash \in Seq(ResolutionEntry)
         /\ r.allocation_complete \in BOOLEAN
         /\ r.settled_edge_count \in Nat
         /\ r.settled_amount \in Nat
BY DEF OfflineSession

LEMMA FrozenSessionType ==
  ASSUME NEW r \in OfflineSession
  PROVE  FrozenSession(r) \in OfflineSession
<1>1. <<>> \in Seq(ResolutionEntry)
  OBVIOUS
<1> QED BY <1>1 DEF FrozenSession, OfflineSession, SessionStatus

LEMMA ListUpdateType ==
  ASSUME NEW r \in OfflineSession, NEW head \in Creds \cup {NoClaim},
         NEW tail \in Creds \cup {NoClaim}, NEW count \in Nat,
         NEW status \in SessionStatus
  PROVE  [r EXCEPT !.claim_head = head, !.claim_tail = tail,
                   !.submitted_claim_count = count, !.status = status]
           \in OfflineSession
BY DEF OfflineSession

LEMMA SessionWithClaimType ==
  ASSUME NEW r \in OfflineSession, NEW c \in Creds,
         NEW pred \in Creds \cup {NoClaim}, NEW succ \in Creds \cup {NoClaim}
  PROVE  SessionWithClaim(r, c, pred, succ) \in OfflineSession
<1> DEFINE head == IF pred = NoClaim THEN c ELSE r.claim_head
           tail == IF succ = NoClaim THEN c ELSE r.claim_tail
           count == r.submitted_claim_count + 1
           status == IF now > r.expires_at /\ r.status = "Active"
                     THEN "ClaimWindow" ELSE r.status
<1>1. count \in Nat
  BY SessionFieldTypes
<1>2. head \in Creds \cup {NoClaim} /\ tail \in Creds \cup {NoClaim}
  BY SessionFieldTypes
<1>3. status \in SessionStatus
  BY SessionFieldTypes DEF SessionStatus
<1>4. SessionWithClaim(r, c, pred, succ)
        = [r EXCEPT !.claim_head = head, !.claim_tail = tail,
                    !.submitted_claim_count = count, !.status = status]
  BY DEF SessionWithClaim
<1> HIDE DEF head, tail, count, status
<1>5. [r EXCEPT !.claim_head = head, !.claim_tail = tail,
                !.submitted_claim_count = count, !.status = status]
        \in OfflineSession
  BY <1>1, <1>2, <1>3, ListUpdateType
<1> QED BY <1>4, <1>5

LEMMA SessionWithEdgeType ==
  ASSUME NEW r \in OfflineSession, NEW e \in StateHashes, NEW b \in BOOLEAN
  PROVE  SessionWithEdge(r, e, b) \in OfflineSession
<1>1. r.unique_edge_count + 1 \in Nat
  BY SessionFieldTypes
<1>2. Transition[e].amount \in Nat
  BY MessageAssumption DEF TransitionRecord
<1>3. r.aggregate_offline_exposure + Transition[e].amount \in Nat
  BY <1>2, SessionFieldTypes
<1>4. (IF b THEN "Conflicted" ELSE r.status) \in SessionStatus
  BY SessionFieldTypes DEF SessionStatus
<1>5. (r.authenticated_fork \/ b) \in BOOLEAN
  OBVIOUS
<1> QED BY <1>1, <1>3, <1>4, <1>5 DEF SessionWithEdge, OfflineSession

LEMMA NewSessionType ==
  ASSUME NEW locked \in Nat, NEW limit \in Nat, NEW t \in Nat, now \in Nat
  PROVE  NewSession(locked, limit, t) \in OfflineSession
<1>1. t + ClaimGracePeriod \in Nat
  BY NumberAssumption
<1>2. EmptySession \in OfflineSession
  BY DEF EmptySession, OfflineSession, SessionStatus, CoverageStatus
<1> QED BY <1>1, <1>2 DEF NewSession, OfflineSession, SessionStatus

LEMMA ClassifiedUpdateType ==
  ASSUME NEW r \in OfflineSession, NEW a \in Nat, NEW b \in Nat, NEW d \in Nat,
         NEW f \in BOOLEAN
  PROVE  [r EXCEPT !.classified_edge_count = a, !.classified_exposure = b,
                   !.base_allocation_total = d, !.classification_complete = f]
           \in OfflineSession
BY DEF OfflineSession

LEMMA AmountType ==
  ASSUME NEW e \in StateHashes
  PROVE  Transition[e].amount \in Nat
BY MessageAssumption DEF TransitionRecord

LEMMA SessionWithClassifiedType ==
  ASSUME NEW r \in OfflineSession, NEW e \in StateHashes, NEW base \in Nat
  PROVE  SessionWithClassified(r, e, base) \in OfflineSession
<1> DEFINE count == r.classified_edge_count + 1
           total == r.classified_exposure + Transition[e].amount
           bases == r.base_allocation_total + base
           last  == count = r.frozen_edge_count
<1>1. count \in Nat /\ total \in Nat /\ bases \in Nat
  BY SessionFieldTypes, AmountType
<1>2. last \in BOOLEAN
  OBVIOUS
<1>3. SessionWithClassified(r, e, base)
        = [r EXCEPT !.classified_edge_count = count,
                    !.classified_exposure = total,
                    !.base_allocation_total = bases,
                    !.classification_complete = last]
  BY DEF SessionWithClassified
<1> HIDE DEF count, total, bases, last
<1>4. [r EXCEPT !.classified_edge_count = count, !.classified_exposure = total,
                !.base_allocation_total = bases,
                !.classification_complete = last] \in OfflineSession
  BY <1>1, <1>2, ClassifiedUpdateType
<1> QED BY <1>3, <1>4

LEMMA AllocationUpdateType ==
  ASSUME NEW r \in OfflineSession, NEW a \in Nat, NEW b \in Nat, NEW d \in Nat,
         NEW h \in Seq(ResolutionEntry), NEW n \in Nat
  PROVE  [r EXCEPT !.conflicting_claim_count = a, !.allocated_edge_count = b,
                   !.allocated_total = d, !.resolution_hash = h,
                   !.settled_edge_count = n] \in OfflineSession
BY DEF OfflineSession

LEMMA SessionWithAllocationType ==
  ASSUME NEW r \in OfflineSession, NEW c \in Creds, NEW allocation \in Nat,
         NEW status \in {"Valid", "Conflicting"}
  PROVE  SessionWithAllocation(r, c, allocation, status) \in OfflineSession
<1> DEFINE a == IF status = "Conflicting" THEN r.conflicting_claim_count + 1
                ELSE r.conflicting_claim_count
           b == r.allocated_edge_count + 1
           d == r.allocated_total + allocation
           entry == [credential |-> c, allocation |-> allocation,
                     status |-> status]
           h == Append(r.resolution_hash, entry)
           n == IF allocation = 0 THEN r.settled_edge_count + 1
                ELSE r.settled_edge_count
<1>1. a \in Nat /\ b \in Nat /\ d \in Nat /\ n \in Nat
  BY SessionFieldTypes
<1>2. entry \in ResolutionEntry
  BY DEF ResolutionEntry
<1>3. r.resolution_hash \in Seq(ResolutionEntry)
  BY SessionFieldTypes
<1>4. SessionWithAllocation(r, c, allocation, status)
        = [r EXCEPT !.conflicting_claim_count = a, !.allocated_edge_count = b,
                    !.allocated_total = d, !.resolution_hash = h,
                    !.settled_edge_count = n]
  BY DEF SessionWithAllocation
<1> HIDE DEF a, b, d, entry, n
<1>5. h \in Seq(ResolutionEntry)
  BY <1>2, <1>3
<1> HIDE DEF h
<1>6. [r EXCEPT !.conflicting_claim_count = a, !.allocated_edge_count = b,
                !.allocated_total = d, !.resolution_hash = h,
                !.settled_edge_count = n] \in OfflineSession
  BY <1>1, <1>5, AllocationUpdateType
<1> QED BY <1>4, <1>6

LEMMA ScanUpdateType ==
  ASSUME NEW r \in OfflineSession, NEW n \in Nat, NEW x \in Creds \cup {NoClaim}
  PROVE  [r EXCEPT !.scanned_claim_count = n, !.next_allocation_claim = x]
           \in OfflineSession
BY DEF OfflineSession

LEMMA SessionWithScanType ==
  ASSUME NEW r \in OfflineSession, NEW c \in Creds, claim \in [Creds -> Claim]
  PROVE  SessionWithScan(r, c) \in OfflineSession
<1> DEFINE n == r.scanned_claim_count + 1
           x == claim[c].next_claim
<1>1. n \in Nat
  BY SessionFieldTypes
<1>2. x \in Creds \cup {NoClaim}
  BY DEF Claim
<1>3. SessionWithScan(r, c)
        = [r EXCEPT !.scanned_claim_count = n, !.next_allocation_claim = x]
  BY DEF SessionWithScan
<1> HIDE DEF n, x
<1>4. [r EXCEPT !.scanned_claim_count = n, !.next_allocation_claim = x]
        \in OfflineSession
  BY <1>1, <1>2, ScanUpdateType
<1> QED BY <1>3, <1>4

LEMMA CompletedUpdateType ==
  ASSUME NEW r \in OfflineSession, NEW v \in CoverageStatus,
         NEW status \in SessionStatus
  PROVE  [r EXCEPT !.coverage_status = v, !.status = status,
                   !.allocation_complete = TRUE] \in OfflineSession
BY DEF OfflineSession

LEMMA CompletedAllocationType ==
  ASSUME NEW r \in OfflineSession
  PROVE  CompletedAllocation(r) \in OfflineSession
<1> DEFINE covered == r.frozen_exposure <= r.collateral_coverage_cap
           v == IF covered THEN "FullyCovered" ELSE "Insolvent"
           status == IF ~covered THEN "Insolvent"
                     ELSE IF r.authenticated_fork THEN "Conflicted"
                     ELSE "Reconciling"
<1>1. v \in CoverageStatus /\ status \in SessionStatus
  BY DEF CoverageStatus, SessionStatus
<1>2. CompletedAllocation(r)
        = [r EXCEPT !.coverage_status = v, !.status = status,
                    !.allocation_complete = TRUE]
  BY DEF CompletedAllocation
<1> HIDE DEF v, status
<1>3. [r EXCEPT !.coverage_status = v, !.status = status,
                !.allocation_complete = TRUE] \in OfflineSession
  BY <1>1, CompletedUpdateType
<1> QED BY <1>2, <1>3

LEMMA SettledUpdateType ==
  ASSUME NEW r \in OfflineSession, NEW a \in Nat, NEW n \in Nat
  PROVE  [r EXCEPT !.settled_amount = a, !.settled_edge_count = n]
           \in OfflineSession
BY DEF OfflineSession

LEMMA StatusUpdateType ==
  ASSUME NEW r \in OfflineSession, NEW status \in SessionStatus
  PROVE  [r EXCEPT !.status = status] \in OfflineSession
BY DEF OfflineSession

LEMMA AuthorizedUpdateType ==
  ASSUME NEW r \in OfflineSession
  PROVE  [r EXCEPT !.authorized = TRUE] \in OfflineSession
BY DEF OfflineSession

LEMMA CoverageAmountType ==
  ASSUME NEW x \in Nat, NEW y \in Nat
  PROVE  /\ CoverageAmount(x, y) \in Nat
         /\ CoverageAmount(x, y) <= x
         /\ CoverageAmount(x, y) <= y
BY DEF CoverageAmount

LEMMA BaseAllocationType ==
  ASSUME NEW amount \in Nat, NEW exposure \in Nat, NEW cap \in Nat, exposure > 0
  PROVE  BaseAllocation(amount, exposure, cap) \in Nat
<1> DEFINE n == amount * CoverageAmount(exposure, cap)
<1>1. n \in Nat
  BY CoverageAmountType
<1> HIDE DEF n
<1>2. n \div exposure \in Nat
  BY <1>1
<1> QED BY <1>2 DEF BaseAllocation, n

LEMMA MessageTypes ==
  /\ \A c \in Creds : EdgeOf(c) \in StateHashes
  /\ \A e \in StateHashes :
       /\ SessionOf(e) \in SessionIds
       /\ Transition[e].session \in SessionIds
       /\ Transition[e].previous_state \in States
       /\ Transition[e].merchant \in Merchants
       /\ Transition[e].amount \in Nat
       /\ Transition[e].sequence \in Nat
BY MessageAssumption
   DEF EdgeOf, SessionOf, CredentialRecord, TransitionRecord

LEMMA VaultFieldTypes ==
  ASSUME vault \in CollateralVault
  PROVE  /\ vault.exists \in BOOLEAN
         /\ vault.deposited_amount \in Nat
         /\ vault.reserved_amount \in Nat
         /\ vault.settled_from_collateral \in Nat
BY DEF CollateralVault

LEMMA ClaimFieldTypes ==
  ASSUME NEW x \in Claim
  PROVE  /\ x.status \in ClaimStatus
         /\ x.allocated_amount \in Nat
         /\ x.settled_amount \in Nat
         /\ x.previous_claim \in Creds \cup {NoClaim}
         /\ x.next_claim \in Creds \cup {NoClaim}
         /\ x.allocation_processed \in BOOLEAN
BY DEF Claim

LEMMA EdgeFieldTypes ==
  ASSUME NEW x \in StateEdgeRecord
  PROVE  /\ x.representative \in Creds \cup {NoClaim}
         /\ x.wrapper_count \in Nat
         /\ x.allocated_amount \in Nat
         /\ x.settled_amount \in Nat
BY DEF StateEdgeRecord

LEMMA InsertClaimInOrderType ==
  ASSUME NEW cl \in [Creds -> Claim], NEW c \in Creds,
         NEW pred \in Creds \cup {NoClaim}, NEW succ \in Creds \cup {NoClaim}
  PROVE  InsertClaimInOrder(cl, c, pred, succ) \in [Creds -> Claim]
<1> SUFFICES ASSUME NEW x \in Creds
             PROVE  [cl[x] EXCEPT
                       !.next_claim = IF x = c THEN succ
                                      ELSE IF x = pred THEN c ELSE @,
                       !.previous_claim = IF x = c THEN pred
                                          ELSE IF x = succ THEN c ELSE @]
                      \in Claim
  BY DEF InsertClaimInOrder
<1>1. cl[x] \in Claim
  OBVIOUS
<1> QED BY <1>1 DEF Claim

LEMMA EmptyTypes ==
  /\ EmptySession \in OfflineSession
  /\ EmptyClaim \in Claim
  /\ EmptyEdge \in StateEdgeRecord
  /\ EmptyFork \in ForkRecord
<1>1. EmptySession \in OfflineSession
  BY DEF EmptySession, OfflineSession, SessionStatus, CoverageStatus
<1>2. EmptyClaim \in Claim
  BY DEF EmptyClaim, Claim, ClaimStatus
<1>3. EmptyEdge \in StateEdgeRecord
  BY DEF EmptyEdge, StateEdgeRecord
<1>4. EmptyFork \in ForkRecord
  BY DEF EmptyFork, ForkRecord
<1> QED BY <1>1, <1>2, <1>3, <1>4

LEMMA ForkWithChildType ==
  ASSUME NEW f \in ForkRecord, NEW e \in StateHashes
  PROVE  ForkWithChild(f, e) \in ForkRecord
<1>1. f.branch_count \in Nat
  BY DEF ForkRecord
<1>2. f.branch_count + 1 \in Nat
  BY <1>1
<1> QED BY <1>2 DEF ForkWithChild, ForkRecord

-----------------------------------------------------------------------------
(***************************************************************************)
(* Type correctness.                                                       *)
(***************************************************************************)
LEMMA TypeInit == Init => TypeOK
<1> SUFFICES ASSUME Init PROVE TypeOK
  OBVIOUS
<1>1. session \in [SessionIds -> OfflineSession]
  BY EmptyTypes DEF Init
<1>2. /\ claim \in [Creds -> Claim]
      /\ edge \in [StateHashes -> StateEdgeRecord]
      /\ fork \in [States -> ForkRecord]
  BY EmptyTypes DEF Init
<1>3. profile \in UserProfile /\ vault \in CollateralVault
  BY DEF Init, UserProfile, CollateralVault
<1> QED BY <1>1, <1>2, <1>3, NumberAssumption DEF Init, TypeOK, ProtocolConfig

LEMMA ReleasedCollateralType ==
  ASSUME NEW r \in OfflineSession
  PROVE  /\ ReleasedCollateral(r) \in Nat
         /\ ReleasedCollateral(r)
              = r.collateral_coverage_cap
                  - CoverageAmount(r.frozen_exposure, r.collateral_coverage_cap)
<1>1. r.frozen_exposure \in Nat /\ r.collateral_coverage_cap \in Nat
  BY SessionFieldTypes
<1>2. /\ CoverageAmount(r.frozen_exposure, r.collateral_coverage_cap) \in Nat
      /\ CoverageAmount(r.frozen_exposure, r.collateral_coverage_cap)
           <= r.collateral_coverage_cap
  BY <1>1, CoverageAmountType
<1> QED BY <1>1, <1>2 DEF ReleasedCollateral

\* A completed allocation releases no more than is reserved.
LEMMA CompleteAllocationType ==
  ASSUME TypeOK, NEW s \in SessionIds, NEW r \in OfflineSession,
         CompleteAllocation(s, r)
  PROVE  /\ session' \in [SessionIds -> OfflineSession]
         /\ vault' \in CollateralVault
<1>1. session' \in [SessionIds -> OfflineSession]
  BY CompletedAllocationType DEF CompleteAllocation, TypeOK
<1>2. ReleasedCollateral(r) \in Nat
  BY ReleasedCollateralType
<1>3. vault.reserved_amount - ReleasedCollateral(r) \in Nat
  BY <1>2, VaultFieldTypes DEF TypeOK, CompleteAllocation
<1>4. vault' \in CollateralVault
  BY <1>3 DEF TypeOK, CompleteAllocation, CollateralVault
<1> QED BY <1>1, <1>4

LEMMA FinishScanType ==
  ASSUME TypeOK, NEW s \in SessionIds, NEW r \in OfflineSession,
         FinishScan(s, r)
  PROVE  /\ session' \in [SessionIds -> OfflineSession]
         /\ vault' \in CollateralVault
<1>1. CASE r.scanned_claim_count = r.submitted_claim_count
  BY <1>1, CompleteAllocationType DEF FinishScan
<1>2. CASE r.scanned_claim_count # r.submitted_claim_count
  BY <1>2 DEF FinishScan, TypeOK
<1> QED BY <1>1, <1>2

LEMMA CloseSessionStateType ==
  ASSUME TypeOK, NEW s \in SessionIds, NEW r \in OfflineSession,
         CloseSessionState(s, r)
  PROVE  /\ session' \in [SessionIds -> OfflineSession]
         /\ profile' \in UserProfile
<1>1. [r EXCEPT !.status = "Closed"] \in OfflineSession
  BY StatusUpdateType DEF SessionStatus
<1>2. session' \in [SessionIds -> OfflineSession]
  BY <1>1 DEF CloseSessionState, TypeOK
<1>3. profile.successful_sessions \in Nat
  BY DEF TypeOK, UserProfile
<1>4. profile.successful_sessions + 1 \in Nat
  BY <1>3
<1>5. profile' \in UserProfile
  BY <1>4 DEF CloseSessionState, TypeOK, UserProfile
<1> QED BY <1>2, <1>5

LEMMA FinishSettlementType ==
  ASSUME TypeOK, NEW s \in SessionIds, NEW r \in OfflineSession,
         FinishSettlement(s, r)
  PROVE  /\ session' \in [SessionIds -> OfflineSession]
         /\ profile' \in UserProfile
<1>1. CASE CloseSessionState(s, r)
  BY <1>1, CloseSessionStateType
<1>2. CASE /\ session' = [session EXCEPT ![s] = [r EXCEPT !.status = "Settled"]]
           /\ UNCHANGED profile
  <2>1. [r EXCEPT !.status = "Settled"] \in OfflineSession
    BY StatusUpdateType DEF SessionStatus
  <2> QED BY <1>2, <2>1 DEF TypeOK
<1>3. CASE session' = [session EXCEPT ![s] = r] /\ UNCHANGED profile
  BY <1>3 DEF TypeOK
<1> QED BY <1>1, <1>2, <1>3 DEF FinishSettlement

LEMMA SubmitClaimType ==
  ASSUME TypeOK, NEW c \in Creds, SubmitClaim(c)
  PROVE  TypeOK'
<1> DEFINE e == EdgeOf(c)
           s == SessionOf(e)
           p == Transition[e].previous_state
<1>1. e \in StateHashes /\ s \in SessionIds /\ p \in States
  BY MessageTypes
<1>2. PICK pred \in Creds \cup {NoClaim}, succ \in Creds \cup {NoClaim} :
        SubmitNewEdge(c, pred, succ) \/ SubmitWrapper(c, pred, succ)
  BY DEF SubmitClaim, SubmitClaimWith
<1>3. CASE SubmitNewEdge(c, pred, succ)
  <2> DEFINE b == ConfirmsFork(p)
             cl == [claim EXCEPT ![c] = [EmptyClaim EXCEPT !.status = "Submitted"]]
  <2>1. cl \in [Creds -> Claim]
    <3>1. [EmptyClaim EXCEPT !.status = "Submitted"] \in Claim
      BY EmptyTypes DEF Claim, ClaimStatus
    <3> QED BY <3>1 DEF TypeOK
  <2>2. claim' \in [Creds -> Claim]
    BY <1>3, <2>1, InsertClaimInOrderType DEF SubmitNewEdge
  <2>3. edge' \in [StateHashes -> StateEdgeRecord]
    <3>1. [EmptyEdge EXCEPT !.exists = TRUE, !.representative = c,
                            !.wrapper_count = 1] \in StateEdgeRecord
      BY EmptyTypes DEF StateEdgeRecord
    <3> QED BY <1>3, <3>1 DEF TypeOK, SubmitNewEdge
  <2>4. fork' \in [States -> ForkRecord]
    BY <1>1, <1>3, ForkWithChildType DEF TypeOK, SubmitNewEdge
  <2>5. SessionWithEdge(session[s], e, b) \in OfflineSession
    <3>1. b \in BOOLEAN
      BY DEF ConfirmsFork
    <3> QED BY <1>1, <3>1, SessionWithEdgeType DEF TypeOK
  <2>6. session' \in [SessionIds -> OfflineSession]
    <3>1. SessionWithClaim(SessionWithEdge(session[s], e, b), c, pred, succ)
            \in OfflineSession
      BY <2>5, SessionWithClaimType
    <3> QED BY <1>3, <3>1 DEF TypeOK, SubmitNewEdge
  <2>7. profile' \in UserProfile
    <3>1. profile.conflict_count \in Nat
      BY DEF TypeOK, UserProfile
    <3>2. profile.conflict_count + 1 \in Nat
      BY <3>1
    <3>3. RevokeOfflineAccess \in UserProfile
      BY <3>2 DEF RevokeOfflineAccess, TypeOK, UserProfile
    <3> QED BY <1>3, <3>3 DEF TypeOK, SubmitNewEdge
  <2> QED BY <2>2, <2>3, <2>4, <2>6, <2>7
          DEF TypeOK, SubmitClaim, SubmitClaimWith, tokenVars
<1>4. CASE SubmitWrapper(c, pred, succ)
  <2> DEFINE rep == edge[e].representative
             fresh == [EmptyClaim EXCEPT
                         !.status = IF c < rep THEN "Submitted" ELSE "Rejected"]
             cl == [x \in Creds |->
                      CASE x = c -> fresh
                        [] x # c /\ x = rep /\ c < rep ->
                             [claim[x] EXCEPT !.status = "Rejected"]
                        [] OTHER -> claim[x]]
  <2>1. cl \in [Creds -> Claim]
    <3>1. fresh \in Claim
      BY EmptyTypes DEF Claim, ClaimStatus
    <3>2. \A x \in Creds : /\ claim[x] \in Claim
                          /\ [claim[x] EXCEPT !.status = "Rejected"] \in Claim
      BY DEF TypeOK, Claim, ClaimStatus
    <3> HIDE DEF fresh
    <3> QED BY <3>1, <3>2
  <2>2. claim' = InsertClaimInOrder(cl, c, pred, succ)
    BY <1>4 DEF SubmitWrapper, Replaces
  <2> HIDE DEF cl
  <2>3. claim' \in [Creds -> Claim]
    BY <2>1, <2>2, InsertClaimInOrderType
  <2>4. edge' \in [StateHashes -> StateEdgeRecord]
    <3>1. edge[e] \in StateEdgeRecord /\ edge[e].wrapper_count \in Nat
      BY <1>1, EdgeFieldTypes DEF TypeOK
    <3>2. edge[e].wrapper_count + 1 \in Nat
      BY <3>1
    <3>3. [edge[e] EXCEPT !.wrapper_count = @ + 1,
                          !.representative = IF c < rep THEN c ELSE @]
            \in StateEdgeRecord
      BY <3>1, <3>2 DEF StateEdgeRecord
    <3>4. edge' = [edge EXCEPT ![e] =
                     [edge[e] EXCEPT !.wrapper_count = @ + 1,
                                     !.representative = IF c < rep THEN c ELSE @]]
      BY <1>1, <1>4 DEF SubmitWrapper, Replaces, TypeOK
    <3> QED BY <3>3, <3>4 DEF TypeOK
  <2>5. session' \in [SessionIds -> OfflineSession]
    <3>1. SessionWithClaim(session[s], c, pred, succ) \in OfflineSession
      BY <1>1, SessionWithClaimType DEF TypeOK
    <3> QED BY <1>4, <3>1 DEF TypeOK, SubmitWrapper
  <2> QED BY <1>4, <2>3, <2>4, <2>5
          DEF TypeOK, SubmitClaim, SubmitClaimWith, SubmitWrapper, tokenVars
<1> QED BY <1>2, <1>3, <1>4

LEMMA ClassifyEdgeType ==
  ASSUME TypeOK, NEW e \in StateHashes, ClassifyEdge(e)
  PROVE  TypeOK'
<1> DEFINE s == SessionOf(e)
           t == Transition[e]
           r == session[s]
           base == BaseAllocation(t.amount, r.frozen_exposure,
                                  r.collateral_coverage_cap)
<1>1. s \in SessionIds /\ r \in OfflineSession /\ t.amount \in Nat
  BY MessageTypes DEF TypeOK
<1>2. r.frozen_exposure \in Nat /\ r.collateral_coverage_cap \in Nat
  BY <1>1, SessionFieldTypes
<1>3. base \in Nat
  BY <1>1, <1>2, BaseAllocationType DEF ClassifyEdge
<1>4. session' = [session EXCEPT ![s] = SessionWithClassified(r, e, base)]
  BY DEF ClassifyEdge
<1> DEFINE conflicting == \/ InheritsConflict(e)
                          \/ fork[t.previous_state].branch_count >= 2
           new == [edge[e] EXCEPT !.classified = TRUE,
                                  !.conflicting = conflicting,
                                  !.allocated_amount = base]
<1>5. edge' = [edge EXCEPT ![e] = new]
  BY DEF ClassifyEdge, TypeOK
<1> HIDE DEF base
<1>6. SessionWithClassified(r, e, base) \in OfflineSession
  BY <1>1, <1>3, SessionWithClassifiedType
<1>7. session' \in [SessionIds -> OfflineSession]
  BY <1>4, <1>6 DEF TypeOK
<1>8. conflicting \in BOOLEAN
  OBVIOUS
<1> HIDE DEF conflicting
<1>9. new \in StateEdgeRecord
  BY <1>3, <1>8 DEF TypeOK, StateEdgeRecord
<1>10. edge' \in [StateHashes -> StateEdgeRecord]
  BY <1>5, <1>9 DEF TypeOK
<1> QED BY <1>7, <1>10 DEF TypeOK, ClassifyEdge, tokenVars

LEMMA AllocateNextClaimType ==
  ASSUME TypeOK, NEW c \in Creds, AllocateNextClaim(c)
  PROVE  TypeOK'
<1> DEFINE e == EdgeOf(c)
           s == SessionOf(e)
           r == session[s]
<1>1. e \in StateHashes /\ s \in SessionIds /\ r \in OfflineSession
  BY MessageTypes DEF TypeOK
<1>2. CASE AllocateRepresentative(c)
  <2> DEFINE allocation == edge[e].allocated_amount + Dust(r)
             verdict == IF edge[e].conflicting THEN "Conflicting" ELSE "Valid"
             next == SessionWithScan(
                       SessionWithAllocation(r, c, allocation, verdict), c)
  <2>1. allocation \in Nat
    <3>1. edge[e].allocated_amount \in Nat
      BY <1>1, EdgeFieldTypes DEF TypeOK
    <3>2. Dust(r) \in {0, 1}
      BY DEF Dust
    <3> QED BY <3>1, <3>2
  <2>2. verdict \in {"Valid", "Conflicting"}
    OBVIOUS
  <2>3. FinishScan(s, next)
    BY <1>2 DEF AllocateRepresentative
  <2>4. edge' = [edge EXCEPT ![e] = [edge[e] EXCEPT
                                       !.allocated_amount = allocation,
                                       !.allocation_finalized = TRUE]]
    BY <1>1, <1>2 DEF AllocateRepresentative, TypeOK
  <2>5. claim' = [claim EXCEPT ![c] =
                    [claim[c] EXCEPT
                       !.allocated_amount = allocation,
                       !.status = IF allocation = 0 THEN "Settled" ELSE verdict,
                       !.allocation_processed = TRUE]]
    BY <1>2 DEF AllocateRepresentative, AllocatedStatus, TypeOK
  <2> HIDE DEF allocation, verdict
  <2>6. next \in OfflineSession
    BY <1>1, <2>1, <2>2, SessionWithAllocationType, SessionWithScanType DEF TypeOK
  <2> HIDE DEF next
  <2>7. /\ session' \in [SessionIds -> OfflineSession]
        /\ vault' \in CollateralVault
    BY <1>1, <2>3, <2>6, FinishScanType
  <2>8. edge' \in [StateHashes -> StateEdgeRecord]
    <3>1. [edge[e] EXCEPT !.allocated_amount = allocation,
                          !.allocation_finalized = TRUE] \in StateEdgeRecord
      BY <1>1, <2>1 DEF TypeOK, StateEdgeRecord
    <3> QED BY <2>4, <3>1 DEF TypeOK
  <2>9. claim' \in [Creds -> Claim]
    <3>1. [claim[c] EXCEPT
             !.allocated_amount = allocation,
             !.status = IF allocation = 0 THEN "Settled" ELSE verdict,
             !.allocation_processed = TRUE] \in Claim
      BY <2>1, <2>2 DEF TypeOK, Claim, ClaimStatus
    <3> QED BY <2>5, <3>1 DEF TypeOK
  <2> QED BY <2>7, <2>8, <2>9 DEF TypeOK, AllocateNextClaim, tokenVars
<1>3. CASE SkipDuplicate(c)
  <2>1. SessionWithScan(r, c) \in OfflineSession
    BY <1>1, SessionWithScanType DEF TypeOK
  <2>2. /\ session' \in [SessionIds -> OfflineSession]
        /\ vault' \in CollateralVault
    BY <1>1, <1>3, <2>1, FinishScanType DEF SkipDuplicate
  <2>3. claim' \in [Creds -> Claim]
    <3>1. [claim[c] EXCEPT !.allocation_processed = TRUE] \in Claim
      BY DEF TypeOK, Claim
    <3> QED BY <1>3, <3>1 DEF TypeOK, SkipDuplicate
  <2> QED BY <1>3, <2>2, <2>3 DEF TypeOK, AllocateNextClaim, SkipDuplicate, tokenVars
<1> QED BY <1>2, <1>3 DEF AllocateNextClaim

LEMMA SettleClaimType ==
  ASSUME TypeOK, NEW c \in Creds, SettleClaim(c)
  PROVE  TypeOK'
<1> DEFINE e == EdgeOf(c)
           s == SessionOf(e)
           m == Transition[e].merchant
           amount == claim[c].allocated_amount
           paid == [session[s] EXCEPT !.settled_amount = @ + amount,
                                      !.settled_edge_count = @ + 1]
<1>1. e \in StateHashes /\ s \in SessionIds /\ m \in Merchants
  BY MessageTypes
<1>2. amount \in Nat
  BY ClaimFieldTypes DEF TypeOK
<1>3. session[s] \in OfflineSession
  BY <1>1 DEF TypeOK
<1>4. /\ session[s].settled_amount + amount \in Nat
      /\ session[s].settled_edge_count + 1 \in Nat
  BY <1>2, <1>3, SessionFieldTypes
<1>5. paid \in OfflineSession
  BY <1>3, <1>4, SettledUpdateType
<1>6. FinishSettlement(s, paid)
  BY DEF SettleClaim
<1>7. /\ session' \in [SessionIds -> OfflineSession]
      /\ profile' \in UserProfile
  <2> HIDE DEF paid
  <2> QED BY <1>1, <1>5, <1>6, FinishSettlementType
<1>8. claim' \in [Creds -> Claim]
  <2>1. [claim[c] EXCEPT !.settled_amount = amount, !.status = "Settled"] \in Claim
    BY <1>2 DEF TypeOK, Claim, ClaimStatus
  <2>2. claim' = [claim EXCEPT ![c] =
                    [claim[c] EXCEPT !.settled_amount = amount,
                                     !.status = "Settled"]]
    BY DEF SettleClaim, TypeOK
  <2> QED BY <2>1, <2>2 DEF TypeOK
<1>9. edge' \in [StateHashes -> StateEdgeRecord]
  <2>1. [edge[e] EXCEPT !.settled_amount = amount] \in StateEdgeRecord
    BY <1>1, <1>2 DEF TypeOK, StateEdgeRecord
  <2> QED BY <2>1 DEF TypeOK, SettleClaim
<1>10. vault' \in CollateralVault
  <2>1. /\ vault.deposited_amount - amount \in Nat
        /\ vault.reserved_amount - amount \in Nat
        /\ vault.settled_from_collateral + amount \in Nat
    BY <1>2, VaultFieldTypes DEF TypeOK, SettleClaim
  <2> QED BY <2>1 DEF TypeOK, SettleClaim, CollateralVault
<1>11. vault_token' \in Nat
  BY <1>2 DEF TypeOK, SettleClaim
<1>12. merchant_token' \in [Merchants -> Nat]
  BY <1>1, <1>2 DEF TypeOK, SettleClaim
<1> QED BY <1>7, <1>8, <1>9, <1>10, <1>11, <1>12 DEF TypeOK, SettleClaim

LEMMA BeginFinalizationType ==
  ASSUME TypeOK, NEW s \in SessionIds, BeginFinalization(s)
  PROVE  TypeOK'
<1> DEFINE frozen == FrozenSession(session[s])
<1>1. frozen \in OfflineSession
  BY FrozenSessionType DEF TypeOK
<1>2. [frozen EXCEPT !.classification_complete = TRUE] \in OfflineSession
  BY <1>1 DEF OfflineSession
<1>3. \/ CompleteAllocation(s, [frozen EXCEPT !.classification_complete = TRUE])
      \/ session' = [session EXCEPT ![s] = frozen] /\ UNCHANGED vault
  BY DEF BeginFinalization
<1>4. /\ session' \in [SessionIds -> OfflineSession]
      /\ vault' \in CollateralVault
  <2> HIDE DEF frozen
  <2>1. CASE CompleteAllocation(s, [frozen EXCEPT !.classification_complete = TRUE])
    BY <1>2, <2>1, CompleteAllocationType
  <2>2. CASE session' = [session EXCEPT ![s] = frozen] /\ UNCHANGED vault
    BY <1>1, <2>2 DEF TypeOK
  <2> QED BY <1>3, <2>1, <2>2
<1> QED BY <1>4 DEF TypeOK, BeginFinalization, tokenVars, claimVars

LEMMA TypeStep == TypeOK /\ [Next]_vars => TypeOK'
<1> SUFFICES ASSUME TypeOK, [Next]_vars PROVE TypeOK'
  OBVIOUS
<1> USE DEF TypeOK, tokenVars, claimVars
<1>1. CASE InitializeProtocol
  BY <1>1 DEF InitializeProtocol, ProtocolConfig
<1>2. ASSUME NEW a \in Signers, NEW b \in BOOLEAN, SetPaused(a, b) PROVE TypeOK'
  BY <1>2 DEF SetPaused, ProtocolConfig
<1>3. ASSUME NEW t \in Times, CreateUserProfile(t) PROVE TypeOK'
  <2>1. t \in Nat
    BY NumberAssumption DEF Times
  <2>2. profile' \in UserProfile
    BY <1>3, <2>1 DEF CreateUserProfile, UserProfile
  <2> QED BY <1>3, <2>2 DEF CreateUserProfile
<1>4. CASE CreateVault
  <2>1. vault' \in CollateralVault
    BY <1>4 DEF CreateVault, CollateralVault
  <2> QED BY <1>4, <2>1 DEF CreateVault
<1>5. ASSUME NEW n \in Amounts, DepositCollateral(n) PROVE TypeOK'
  <2>1. /\ n \in Nat
        /\ vault.deposited_amount + n \in Nat
        /\ vault_token + n \in Nat
        /\ outside - n \in Nat
    BY <1>5, NumberAssumption, VaultFieldTypes DEF DepositCollateral
  <2>2. vault' \in CollateralVault
    BY <1>5, <2>1 DEF DepositCollateral, CollateralVault
  <2> QED BY <1>5, <2>1, <2>2 DEF DepositCollateral
<1>6. ASSUME NEW n \in Amounts, DonateTokens(n) PROVE TypeOK'
  <2>1. vault_token + n \in Nat /\ outside - n \in Nat
    BY <1>6, NumberAssumption DEF DonateTokens
  <2> QED BY <1>6, <2>1 DEF DonateTokens
<1>7. ASSUME NEW n \in Amounts, WithdrawCollateral(n) PROVE TypeOK'
  <2>1. /\ n \in Nat
        /\ vault.deposited_amount - n \in Nat
        /\ vault_token - n \in Nat
        /\ outside + n \in Nat
    BY <1>7, NumberAssumption, VaultFieldTypes
       DEF WithdrawCollateral, Withdrawable
  <2>2. vault' \in CollateralVault
    BY <1>7, <2>1 DEF WithdrawCollateral, CollateralVault
  <2> QED BY <1>7, <2>1, <2>2 DEF WithdrawCollateral
<1>8. ASSUME NEW s \in SessionIds, NEW locked \in Amounts, NEW limit \in Amounts,
             NEW t \in Times, CreateOfflineSession(s, locked, limit, t)
      PROVE  TypeOK'
  <2>1. locked \in Nat /\ limit \in Nat /\ t \in Nat
    BY NumberAssumption DEF Times
  <2>2. session' \in [SessionIds -> OfflineSession]
    <3>1. NewSession(locked, limit, t) \in OfflineSession
      BY <2>1, NewSessionType
    <3> QED BY <1>8, <3>1 DEF CreateOfflineSession
  <2>3. vault.reserved_amount + locked \in Nat
    BY <2>1, VaultFieldTypes
  <2>4. vault' \in CollateralVault
    BY <1>8, <2>3 DEF CreateOfflineSession, CollateralVault
  <2>5. profile' \in UserProfile
    BY <1>8 DEF CreateOfflineSession, UserProfile
  <2> QED BY <1>8, <2>2, <2>4, <2>5 DEF CreateOfflineSession
<1>9. ASSUME NEW s \in SessionIds, RegisterDeviceAuthorization(s) PROVE TypeOK'
  <2>1. [session[s] EXCEPT !.authorized = TRUE] \in OfflineSession
    BY AuthorizedUpdateType
  <2>2. session' \in [SessionIds -> OfflineSession]
    BY <1>9, <2>1 DEF RegisterDeviceAuthorization
  <2> QED BY <1>9, <2>2 DEF RegisterDeviceAuthorization
<1>10. ASSUME NEW c \in Creds, SubmitClaim(c) PROVE TypeOK'
  BY <1>10, SubmitClaimType
<1>11. ASSUME NEW s \in SessionIds, BeginFinalization(s) PROVE TypeOK'
  BY <1>11, BeginFinalizationType
<1>12. ASSUME NEW e \in StateHashes, ClassifyEdge(e) PROVE TypeOK'
  BY <1>12, ClassifyEdgeType
<1>13. ASSUME NEW c \in Creds, AllocateNextClaim(c) PROVE TypeOK'
  BY <1>13, AllocateNextClaimType
<1>14. ASSUME NEW c \in Creds, SettleClaim(c) PROVE TypeOK'
  BY <1>14, SettleClaimType
<1>15. ASSUME NEW s \in SessionIds, CloseSession(s) PROVE TypeOK'
  <2>1. /\ session' \in [SessionIds -> OfflineSession]
        /\ profile' \in UserProfile
    BY <1>15, CloseSessionStateType DEF CloseSession
  <2> QED BY <1>15, <2>1 DEF CloseSession
<1>16. CASE Tick
  BY <1>16 DEF Tick
<1>17. CASE UNCHANGED vars
  BY <1>17 DEF vars
<1> HIDE DEF TypeOK, tokenVars, claimVars
<1> QED
  BY <1>1, <1>2, <1>3, <1>4, <1>5, <1>6, <1>7, <1>8, <1>9, <1>10, <1>11, <1>12,
     <1>13, <1>14, <1>15, <1>16, <1>17 DEF Next

\* Every account of every reachable state holds values of its declared fields:
\* in particular the checked subtractions of the books (withdraw_collateral,
\* complete_allocation, settle_claim) never take an amount below zero.
THEOREM TypeCorrect == Spec => []TypeOK
BY TypeInit, TypeStep, PTL DEF Spec

-----------------------------------------------------------------------------
(***************************************************************************)
(* The inductive invariant behind LiabilityBacked.  Besides the properties *)
(* themselves it needs four facts about a session account: nothing is      *)
(* allocated before the session is frozen, nothing is paid before it is    *)
(* allocated, a conflicted session has a fork to show for it, and a fork   *)
(* has edges.  The last two are what keeps a second begin_finalization, on *)
(* a session that complete_allocation marked Conflicted, from releasing    *)
(* the reserve a second time.                                              *)
(***************************************************************************)
Unfrozen == {"None", "Active", "ClaimWindow"}

Lifecycle(r) ==
  /\ r.status \in Unfrozen => ~r.allocation_complete
  /\ ~r.allocation_complete => r.settled_amount = 0
  /\ r.status = "Conflicted" => r.authenticated_fork
  /\ r.authenticated_fork => r.unique_edge_count > 0
  /\ r.allocation_complete =>
       (r.coverage_status = "Insolvent" <=> r.frozen_exposure > r.collateral_coverage_cap)

AccountsInOrder ==
  /\ ~profile.exists => profile.active_session = NoSession
  /\ ~vault.exists => vault.reserved_amount = 0

SafetyInv ==
  /\ TypeOK
  /\ AccountsInOrder
  /\ \A s \in SessionIds : Lifecycle(session[s])
  /\ OneActiveSession
  /\ LiabilityBacked
  /\ FrozenCountersFinal

LEMMA SafetyInit == Init => SafetyInv
<1> SUFFICES ASSUME Init PROVE SafetyInv
  OBVIOUS
<1>1. TypeOK
  BY TypeInit
<1>2. \A s \in SessionIds : /\ session[s].status = "None"
                            /\ ~session[s].allocation_complete
                            /\ session[s].settled_amount = 0
                            /\ ~session[s].authenticated_fork
  BY DEF Init, EmptySession
<1>3. AccountsInOrder
  BY DEF Init, AccountsInOrder
<1>4. \A s \in SessionIds : Lifecycle(session[s])
  BY <1>2 DEF Lifecycle
<1>5. OneActiveSession
  BY <1>2, SetAssumption DEF Init, OneActiveSession
<1>6. LiabilityBacked
  BY <1>2 DEF Init, LiabilityBacked, Liability
<1>7. FrozenCountersFinal
  BY <1>2 DEF FrozenCountersFinal
<1> QED BY <1>1, <1>3, <1>4, <1>5, <1>6, <1>7 DEF SafetyInv

(***************************************************************************)
(* The fields of a session account that the invariant reads.               *)
(***************************************************************************)
SameAccount(q, r) ==
  /\ q.status = r.status
  /\ q.authenticated_fork = r.authenticated_fork
  /\ q.coverage_status = r.coverage_status
  /\ q.collateral_coverage_cap = r.collateral_coverage_cap
  /\ q.claim_submission_deadline = r.claim_submission_deadline
  /\ q.unique_edge_count = r.unique_edge_count
  /\ q.aggregate_offline_exposure = r.aggregate_offline_exposure
  /\ q.frozen_edge_count = r.frozen_edge_count
  /\ q.frozen_exposure = r.frozen_exposure
  /\ q.allocation_complete = r.allocation_complete
  /\ q.settled_amount = r.settled_amount

FrozenCounters(r) ==
  (r.allocation_complete
     \/ r.status \in {"Reconciling", "Settled", "Insolvent", "Closed"})
    => /\ now > r.claim_submission_deadline
       /\ r.frozen_edge_count = r.unique_edge_count
       /\ r.frozen_exposure = r.aggregate_offline_exposure

LEMMA SameAccountKeeps ==
  ASSUME NEW q, NEW r, SameAccount(q, r)
  PROVE  /\ Lifecycle(r) => Lifecycle(q)
         /\ FrozenCounters(r) => FrozenCounters(q)
BY DEF SameAccount, Lifecycle, FrozenCounters

LEMMA ScanKeepsAccount ==
  ASSUME NEW r \in OfflineSession, NEW c
  PROVE  SameAccount(SessionWithScan(r, c), r)
BY DEF SameAccount, SessionWithScan, OfflineSession

LEMMA AllocationKeepsAccount ==
  ASSUME NEW r \in OfflineSession, NEW c, NEW allocation, NEW status
  PROVE  SameAccount(SessionWithAllocation(r, c, allocation, status), r)
BY DEF SameAccount, SessionWithAllocation, OfflineSession

LEMMA ClassifiedKeepsAccount ==
  ASSUME NEW r \in OfflineSession, NEW e, NEW base
  PROVE  /\ SameAccount(SessionWithClassified(r, e, base), r)
         /\ SessionWithClassified(r, e, base).allocated_total = r.allocated_total
BY DEF SameAccount, SessionWithClassified, OfflineSession

LEMMA AuthorizedKeepsAccount ==
  ASSUME NEW r \in OfflineSession
  PROVE  /\ SameAccount([r EXCEPT !.authorized = TRUE], r)
         /\ [r EXCEPT !.authorized = TRUE].allocated_total = r.allocated_total
BY DEF SameAccount, OfflineSession

(***************************************************************************)
(* One session account r of s is written.  What is left to show is local.  *)
(***************************************************************************)
LEMMA WriteSession ==
  ASSUME SafetyInv, TypeOK', now' = now, NEW s \in SessionIds,
         NEW r \in OfflineSession,
         session' = [session EXCEPT ![s] = r],
         Lifecycle(r), FrozenCounters(r),
         AccountsInOrder',
         \A x \in SessionIds : x # s =>
           /\ (profile'.active_session = x) <=> (profile.active_session = x)
           /\ Liability(session[x]) <= vault'.reserved_amount,
         (profile'.active_session = s) <=> (r.status \notin {"None", "Closed"}),
         Liability(r) <= vault'.reserved_amount,
         vault'.reserved_amount <= vault'.deposited_amount,
         vault'.deposited_amount <= vault_token'
  PROVE  SafetyInv'
<1>1. /\ session'[s] = r
      /\ \A x \in SessionIds : x # s => session'[x] = session[x]
  BY DEF SafetyInv, TypeOK
<1>2. (\A x \in SessionIds : Lifecycle(session[x]))'
  <2> SUFFICES ASSUME NEW x \in SessionIds PROVE Lifecycle(session'[x])
    BY DEF Lifecycle
  <2> QED BY <1>1 DEF SafetyInv
<1>3. OneActiveSession'
  BY <1>1 DEF SafetyInv, OneActiveSession
<1>4. LiabilityBacked'
  <2>1. \A x \in SessionIds : Liability(session'[x]) <= vault'.reserved_amount
    BY <1>1
  <2> QED BY <2>1 DEF LiabilityBacked, Liability
<1>5. FrozenCountersFinal'
  BY <1>1 DEF SafetyInv, FrozenCountersFinal, FrozenCounters, AfterDeadline
<1> QED BY <1>2, <1>3, <1>4, <1>5 DEF SafetyInv

LEMMA SessionFacts ==
  ASSUME SafetyInv, NEW s \in SessionIds
  PROVE  /\ session[s] \in OfflineSession
         /\ Lifecycle(session[s])
         /\ FrozenCounters(session[s])
         /\ Liability(session[s]) <= vault.reserved_amount
         /\ vault.reserved_amount \in Nat
         /\ vault.deposited_amount \in Nat
         /\ vault_token \in Nat
         /\ vault.reserved_amount <= vault.deposited_amount
         /\ vault.deposited_amount <= vault_token
BY VaultFieldTypes
   DEF SafetyInv, TypeOK, FrozenCountersFinal, FrozenCounters, AfterDeadline,
       LiabilityBacked

\* Only the active session has a liability.
LEMMA OthersOweNothing ==
  ASSUME SafetyInv, NEW s \in SessionIds, session[s].status \notin {"None", "Closed"},
         NEW x \in SessionIds, x # s
  PROVE  Liability(session[x]) = 0
BY DEF SafetyInv, OneActiveSession, Liability

LEMMA CompleteAllocationSafe ==
  ASSUME SafetyInv, TypeOK', now' = now,
         profile' = profile, vault_token' = vault_token,
         NEW s \in SessionIds, session[s].status \notin {"None", "Closed"},
         ~session[s].allocation_complete,
         NEW r \in OfflineSession, ~r.allocation_complete, Lifecycle(r),
         FrozenCounters(r), r.status = "Reconciling",
         r.collateral_coverage_cap = session[s].collateral_coverage_cap,
         CompleteAllocation(s, r)
  PROVE  SafetyInv'
<1> DEFINE q == CompletedAllocation(r)
           cap == r.collateral_coverage_cap
           cover == CoverageAmount(r.frozen_exposure, cap)
<1>1. q \in OfflineSession
  BY CompletedAllocationType
<1>2. /\ cap \in Nat /\ cover \in Nat /\ cover <= cap
      /\ r.allocated_total \in Nat /\ r.settled_amount \in Nat
  BY SessionFieldTypes, CoverageAmountType
<1>3. /\ q.status \in {"Insolvent", "Conflicted", "Reconciling"}
      /\ q.status = "Conflicted" => r.authenticated_fork
      /\ q.allocation_complete
      /\ q.allocated_total = r.allocated_total
      /\ q.settled_amount = r.settled_amount
      /\ q.authenticated_fork = r.authenticated_fork
      /\ q.unique_edge_count = r.unique_edge_count
      /\ q.aggregate_offline_exposure = r.aggregate_offline_exposure
      /\ q.frozen_edge_count = r.frozen_edge_count
      /\ q.frozen_exposure = r.frozen_exposure
      /\ q.claim_submission_deadline = r.claim_submission_deadline
      /\ q.collateral_coverage_cap = cap
      /\ q.coverage_status = IF r.frozen_exposure <= cap THEN "FullyCovered" ELSE "Insolvent"
  BY DEF CompletedAllocation, OfflineSession
<1>x. r.frozen_exposure \in Nat
  BY SessionFieldTypes
<1> HIDE DEF q
<1>4. Lifecycle(q)
  BY <1>2, <1>3, <1>x DEF Lifecycle, Unfrozen
<1>5. FrozenCounters(q)
  BY <1>3 DEF FrozenCounters
<1>6. vault.reserved_amount >= cap
  BY SessionFacts DEF Liability
<1>7. /\ vault'.reserved_amount = vault.reserved_amount - (cap - cover)
      /\ vault'.deposited_amount = vault.deposited_amount
      /\ vault'.exists = vault.exists
  BY ReleasedCollateralType DEF CompleteAllocation, SafetyInv, TypeOK, CollateralVault
<1>8. Liability(q) = cover
  <2>1. r.settled_amount = 0
    BY DEF Lifecycle
  <2>2. r.allocated_total = cover
    BY DEF CompleteAllocation, CanCompleteAllocation
  <2> QED BY <1>2, <1>3, <2>1, <2>2 DEF Liability
<1>9. vault'.reserved_amount \in Nat /\ cover <= vault'.reserved_amount
  <2>1. vault.reserved_amount \in Nat
    BY SessionFacts
  <2> HIDE DEF cap, cover
  <2> QED BY <1>2, <1>6, <1>7, <2>1
<1>10. vault'.reserved_amount <= vault.deposited_amount
  <2>1. /\ vault.reserved_amount \in Nat /\ vault.deposited_amount \in Nat
        /\ vault.reserved_amount <= vault.deposited_amount
    BY SessionFacts
  <2> HIDE DEF cap, cover
  <2> QED BY <1>2, <1>7, <2>1
<1>11. AccountsInOrder'
  BY <1>6, <1>7, <1>2, <1>9 DEF SafetyInv, AccountsInOrder
<1>12. \A x \in SessionIds : x # s =>
         Liability(session[x]) <= vault'.reserved_amount
  BY <1>9, OthersOweNothing
<1>13. (profile'.active_session = s) <=> (q.status \notin {"None", "Closed"})
  BY <1>3 DEF SafetyInv, OneActiveSession
<1>14. session' = [session EXCEPT ![s] = q]
  BY DEF CompleteAllocation, q
<1>15. vault'.deposited_amount <= vault_token'
  BY <1>7, SessionFacts
<1> QED
  BY <1>1, <1>4, <1>5, <1>7, <1>8, <1>9, <1>10, <1>11, <1>12, <1>13, <1>14, <1>15,
     WriteSession

LEMMA FinishScanSafe ==
  ASSUME SafetyInv, TypeOK', now' = now,
         profile' = profile, vault_token' = vault_token,
         NEW s \in SessionIds, session[s].status = "Reconciling",
         ~session[s].allocation_complete,
         NEW r \in OfflineSession, SameAccount(r, session[s]),
         FinishScan(s, r)
  PROVE  SafetyInv'
<1>1. Lifecycle(r) /\ FrozenCounters(r)
  BY SameAccountKeeps, SessionFacts
<1>2. CASE r.scanned_claim_count = r.submitted_claim_count
  BY <1>1, <1>2, CompleteAllocationSafe DEF FinishScan, SameAccount
<1>3. CASE r.scanned_claim_count # r.submitted_claim_count
  <2>1. session' = [session EXCEPT ![s] = r] /\ vault' = vault
    BY <1>3 DEF FinishScan
  <2>2. Liability(r) = Liability(session[s])
    BY DEF Liability, SameAccount
  <2>3. AccountsInOrder'
    BY <2>1 DEF AccountsInOrder, SafetyInv
  <2>4. (profile'.active_session = s) <=> (r.status \notin {"None", "Closed"})
    BY DEF SafetyInv, OneActiveSession, SameAccount
  <2> QED BY <1>1, <2>1, <2>2, <2>3, <2>4, SessionFacts, WriteSession
<1> QED BY <1>2, <1>3

LEMMA AllocateNextClaimSafe ==
  ASSUME SafetyInv, TypeOK', NEW c \in Creds, AllocateNextClaim(c)
  PROVE  SafetyInv'
<1> DEFINE e == EdgeOf(c)
           s == SessionOf(e)
           r == session[s]
<1>1. e \in StateHashes /\ s \in SessionIds /\ r \in OfflineSession
  BY MessageTypes DEF SafetyInv, TypeOK
<1>2. /\ r.status = "Reconciling" /\ ~r.allocation_complete
      /\ now' = now /\ profile' = profile /\ vault_token' = vault_token
  BY DEF AllocateNextClaim, tokenVars
<1>3. CASE AllocateRepresentative(c)
  <2> DEFINE allocation == edge[e].allocated_amount + Dust(r)
             verdict == IF edge[e].conflicting THEN "Conflicting" ELSE "Valid"
             mid == SessionWithAllocation(r, c, allocation, verdict)
             next == SessionWithScan(mid, c)
  <2>1. allocation \in Nat
    <3>1. edge[e].allocated_amount \in Nat
      BY <1>1, EdgeFieldTypes DEF SafetyInv, TypeOK
    <3>2. Dust(r) \in {0, 1}
      BY DEF Dust
    <3> QED BY <3>1, <3>2
  <2>2. FinishScan(s, next)
    BY <1>3 DEF AllocateRepresentative
  <2>3. verdict \in {"Valid", "Conflicting"}
    OBVIOUS
  <2> HIDE DEF allocation, verdict
  <2>4. mid \in OfflineSession /\ SameAccount(mid, r)
    BY <1>1, <2>1, <2>3, SessionWithAllocationType, AllocationKeepsAccount
  <2> HIDE DEF mid
  <2>5. next \in OfflineSession /\ SameAccount(next, mid)
    BY <2>4, SessionWithScanType, ScanKeepsAccount DEF SafetyInv, TypeOK
  <2>6. SameAccount(next, r)
    BY <2>4, <2>5 DEF SameAccount
  <2> HIDE DEF next
  <2> QED BY <1>1, <1>2, <2>2, <2>5, <2>6, FinishScanSafe
<1>4. CASE SkipDuplicate(c)
  <2>1. FinishScan(s, SessionWithScan(r, c))
    BY <1>4 DEF SkipDuplicate
  <2>2. SessionWithScan(r, c) \in OfflineSession
    BY <1>1, SessionWithScanType DEF SafetyInv, TypeOK
  <2>3. SameAccount(SessionWithScan(r, c), r)
    BY <1>1, ScanKeepsAccount
  <2> QED BY <1>1, <1>2, <2>1, <2>2, <2>3, FinishScanSafe
<1> QED BY <1>3, <1>4 DEF AllocateNextClaim

LEMMA BeginFinalizationSafe ==
  ASSUME SafetyInv, TypeOK', NEW s \in SessionIds, BeginFinalization(s)
  PROVE  SafetyInv'
<1> DEFINE r == session[s]
           q == FrozenSession(r)
           z == [q EXCEPT !.classification_complete = TRUE]
<1>1. r \in OfflineSession /\ q \in OfflineSession
  BY FrozenSessionType DEF SafetyInv, TypeOK
<1>2. z \in OfflineSession
  BY <1>1 DEF OfflineSession
<1>3. /\ r.status \in {"Active", "ClaimWindow", "Conflicted"}
      /\ now > r.claim_submission_deadline
      /\ now' = now /\ profile' = profile /\ vault_token' = vault_token
  BY DEF BeginFinalization, AfterDeadline, tokenVars
<1>4. /\ q.status = "Reconciling"
      /\ q.allocation_complete = r.allocation_complete
      /\ q.allocated_total = r.allocated_total
      /\ q.settled_amount = r.settled_amount
      /\ q.authenticated_fork = r.authenticated_fork
      /\ q.unique_edge_count = r.unique_edge_count
      /\ q.aggregate_offline_exposure = r.aggregate_offline_exposure
      /\ q.frozen_edge_count = r.unique_edge_count
      /\ q.frozen_exposure = r.aggregate_offline_exposure
      /\ q.claim_submission_deadline = r.claim_submission_deadline
      /\ q.collateral_coverage_cap = r.collateral_coverage_cap
      /\ q.coverage_status = r.coverage_status
  BY <1>1 DEF FrozenSession, OfflineSession
<1>5. SameAccount(z, q)
  BY <1>1 DEF SameAccount, OfflineSession
<1>6. \/ q.frozen_edge_count = 0 /\ CompleteAllocation(s, z)
      \/ session' = [session EXCEPT ![s] = q] /\ vault' = vault
  BY DEF BeginFinalization
<1> HIDE DEF q, z
<1>7. Lifecycle(q) /\ FrozenCounters(q)
  <2>1. Lifecycle(r) /\ FrozenCounters(r)
    BY SessionFacts
  <2> QED BY <1>3, <1>4, <2>1 DEF Lifecycle, Unfrozen, FrozenCounters
<1>8. CASE q.frozen_edge_count = 0 /\ CompleteAllocation(s, z)
  <2>1. ~r.allocation_complete
    <3>1. r.unique_edge_count = 0
      BY <1>4, <1>8
    <3>2. Lifecycle(r)
      BY SessionFacts
    <3> QED BY <1>3, <3>1, <3>2 DEF Lifecycle, Unfrozen
  <2>2. Lifecycle(z) /\ FrozenCounters(z)
    BY <1>5, <1>7, SameAccountKeeps
  <2>3. /\ z.status = "Reconciling" /\ ~z.allocation_complete
        /\ z.collateral_coverage_cap = r.collateral_coverage_cap
    BY <1>4, <1>5, <2>1 DEF SameAccount
  <2> QED BY <1>2, <1>3, <1>8, <2>1, <2>2, <2>3, CompleteAllocationSafe
<1>9. CASE session' = [session EXCEPT ![s] = q] /\ vault' = vault
  <2>1. Liability(q) = Liability(r)
    BY <1>3, <1>4 DEF Liability
  <2>2. AccountsInOrder'
    BY <1>3, <1>9 DEF AccountsInOrder, SafetyInv
  <2>3. (profile'.active_session = s) <=> (q.status \notin {"None", "Closed"})
    BY <1>3, <1>4 DEF SafetyInv, OneActiveSession
  <2> QED BY <1>1, <1>3, <1>7, <1>9, <2>1, <2>2, <2>3, SessionFacts, WriteSession
<1> QED BY <1>6, <1>8, <1>9

\* submit_claim reaches no frozen session, so it leaves the liability alone.
LEMMA SubmitClaimSafe ==
  ASSUME SafetyInv, TypeOK', NEW c \in Creds, SubmitClaim(c)
  PROVE  SafetyInv'
<1> DEFINE e == EdgeOf(c)
           s == SessionOf(e)
           p == Transition[e].previous_state
           b == ConfirmsFork(p)
           r == session[s]
<1>1. e \in StateHashes /\ s \in SessionIds /\ r \in OfflineSession
  BY MessageTypes DEF SafetyInv, TypeOK
<1>2. /\ r.status \in {"Active", "ClaimWindow", "Conflicted"}
      /\ now <= r.claim_submission_deadline
      /\ now' = now /\ vault' = vault /\ vault_token' = vault_token
  BY DEF SubmitClaim, SubmitClaimWith, ClaimsOpen, ValidClaimPayload, tokenVars,
         SessionOf
<1>3. Lifecycle(r) /\ FrozenCounters(r)
  BY <1>1, SessionFacts
<1>4. ~r.allocation_complete
  <2>1. now \in Nat /\ r.claim_submission_deadline \in Nat
    BY <1>1, SessionFieldTypes DEF SafetyInv, TypeOK
  <2> QED BY <1>2, <1>3, <2>1 DEF FrozenCounters
<1>5. PICK pred \in Creds \cup {NoClaim}, succ \in Creds \cup {NoClaim} :
        SubmitNewEdge(c, pred, succ) \/ SubmitWrapper(c, pred, succ)
  BY DEF SubmitClaim, SubmitClaimWith
<1> DEFINE mid == IF SubmitNewEdge(c, pred, succ)
                  THEN SessionWithEdge(r, e, b) ELSE r
           q == SessionWithClaim(mid, c, pred, succ)
<1>6. b \in BOOLEAN
  BY DEF ConfirmsFork
<1>7. session' = [session EXCEPT ![s] = q]
  BY <1>1, <1>5 DEF SubmitNewEdge, SubmitWrapper, SafetyInv, TypeOK
<1>8. /\ profile'.active_session = profile.active_session
      /\ profile'.exists = profile.exists
  BY <1>5 DEF SubmitNewEdge, SubmitWrapper, RevokeOfflineAccess, SafetyInv,
              TypeOK, UserProfile
<1>9. /\ mid \in OfflineSession
      /\ mid.status \in {"Active", "ClaimWindow", "Conflicted"}
      /\ mid.allocation_complete = r.allocation_complete
      /\ mid.settled_amount = r.settled_amount
      /\ mid.collateral_coverage_cap = r.collateral_coverage_cap
      /\ mid.status = "Conflicted" => mid.authenticated_fork
      /\ mid.authenticated_fork => mid.unique_edge_count > 0
  <2>1. CASE SubmitNewEdge(c, pred, succ)
    <3> DEFINE w == SessionWithEdge(r, e, b)
    <3>1. w \in OfflineSession
      BY <1>1, <1>6, SessionWithEdgeType
    <3>2. /\ w.status = IF b THEN "Conflicted" ELSE r.status
          /\ w.allocation_complete = r.allocation_complete
          /\ w.settled_amount = r.settled_amount
          /\ w.collateral_coverage_cap = r.collateral_coverage_cap
          /\ w.authenticated_fork = (r.authenticated_fork \/ b)
          /\ w.unique_edge_count = r.unique_edge_count + 1
      BY <1>1 DEF SessionWithEdge, OfflineSession
    <3>3. r.unique_edge_count + 1 > 0
      BY <1>1, SessionFieldTypes
    <3>4. mid = w
      BY <2>1
    <3> HIDE DEF w, mid, b
    <3> QED BY <1>2, <1>3, <1>6, <3>1, <3>2, <3>3, <3>4 DEF Lifecycle
  <2>2. CASE ~SubmitNewEdge(c, pred, succ)
    BY <1>1, <1>2, <1>3, <2>2 DEF Lifecycle
  <2> QED BY <2>1, <2>2
<1> HIDE DEF mid
<1>10. q \in OfflineSession
  BY <1>9, SessionWithClaimType
<1>11. /\ q.status \in {mid.status, "ClaimWindow"}
       /\ q.allocation_complete = mid.allocation_complete
       /\ q.settled_amount = mid.settled_amount
       /\ q.collateral_coverage_cap = mid.collateral_coverage_cap
       /\ q.authenticated_fork = mid.authenticated_fork
       /\ q.unique_edge_count = mid.unique_edge_count
  BY <1>9 DEF SessionWithClaim, OfflineSession
<1> HIDE DEF q
<1>12. Lifecycle(q) /\ FrozenCounters(q)
  BY <1>3, <1>4, <1>9, <1>11 DEF Lifecycle, Unfrozen, FrozenCounters
<1>13. Liability(q) = Liability(r)
  BY <1>2, <1>4, <1>9, <1>11 DEF Liability
<1>14. AccountsInOrder'
  BY <1>2, <1>8 DEF AccountsInOrder, SafetyInv
<1>15. (profile'.active_session = s) <=> (q.status \notin {"None", "Closed"})
  BY <1>1, <1>2, <1>8, <1>9, <1>11 DEF SafetyInv, OneActiveSession
<1> QED BY <1>1, <1>2, <1>7, <1>8, <1>10, <1>12, <1>13, <1>14, <1>15,
           SessionFacts, WriteSession

\* A closed session owes nothing, whatever is left in the reserve.
LEMMA CloseSessionStateSafe ==
  ASSUME SafetyInv, TypeOK', now' = now, NEW s \in SessionIds,
         session[s].status \notin {"None", "Closed"},
         NEW r \in OfflineSession, r.allocation_complete, Lifecycle(r),
         FrozenCounters(r), CloseSessionState(s, r),
         ~vault'.exists => vault'.reserved_amount = 0,
         vault'.reserved_amount <= vault'.deposited_amount,
         vault'.deposited_amount <= vault_token'
  PROVE  SafetyInv'
<1> DEFINE q == [r EXCEPT !.status = "Closed"]
<1>1. q \in OfflineSession
  BY StatusUpdateType DEF SessionStatus
<1>2. /\ q.status = "Closed"
      /\ q.allocation_complete
      /\ q.authenticated_fork = r.authenticated_fork
      /\ q.unique_edge_count = r.unique_edge_count
      /\ q.aggregate_offline_exposure = r.aggregate_offline_exposure
      /\ q.frozen_edge_count = r.frozen_edge_count
      /\ q.frozen_exposure = r.frozen_exposure
      /\ q.claim_submission_deadline = r.claim_submission_deadline
      /\ q.coverage_status = r.coverage_status
      /\ q.collateral_coverage_cap = r.collateral_coverage_cap
  BY DEF OfflineSession
<1>3. session' = [session EXCEPT ![s] = q]
  BY DEF CloseSessionState
<1> HIDE DEF q
<1>4. Lifecycle(q) /\ FrozenCounters(q)
  BY <1>2 DEF Lifecycle, Unfrozen, FrozenCounters
<1>5. vault'.reserved_amount \in Nat
  BY DEF TypeOK, CollateralVault
<1>6. Liability(q) = 0
  BY <1>2 DEF Liability
<1>7. profile.active_session = s /\ profile'.active_session = NoSession
  BY DEF CloseSessionState, SafetyInv, TypeOK, UserProfile
<1>8. NoSession \notin SessionIds
  BY SetAssumption
<1>9. AccountsInOrder'
  BY <1>7 DEF AccountsInOrder
<1>10. \A x \in SessionIds : x # s =>
         /\ (profile'.active_session = x) <=> (profile.active_session = x)
         /\ Liability(session[x]) <= vault'.reserved_amount
  <2> SUFFICES ASSUME NEW x \in SessionIds, x # s
               PROVE  /\ profile'.active_session # x /\ profile.active_session # x
                      /\ Liability(session[x]) <= vault'.reserved_amount
    OBVIOUS
  <2>1. Liability(session[x]) = 0
    BY OthersOweNothing
  <2> QED BY <1>5, <1>7, <1>8, <2>1
<1>11. (profile'.active_session = s) <=> (q.status \notin {"None", "Closed"})
  BY <1>2, <1>7, <1>8
<1>12. Liability(q) <= vault'.reserved_amount
  BY <1>5, <1>6
<1> QED BY <1>1, <1>3, <1>4, <1>9, <1>10, <1>11, <1>12, WriteSession

LEMMA SettleClaimSafe ==
  ASSUME SafetyInv, TypeOK', NEW c \in Creds, SettleClaim(c)
  PROVE  SafetyInv'
<1> DEFINE e == EdgeOf(c)
           s == SessionOf(e)
           amount == claim[c].allocated_amount
           r == session[s]
           paid == [r EXCEPT !.settled_amount = @ + amount,
                             !.settled_edge_count = @ + 1]
<1>1. e \in StateHashes /\ s \in SessionIds /\ r \in OfflineSession
  BY MessageTypes DEF SafetyInv, TypeOK
<1>2. amount \in Nat
  BY ClaimFieldTypes DEF SafetyInv, TypeOK
<1>3. /\ r.settled_amount \in Nat /\ r.settled_edge_count \in Nat
      /\ r.allocated_total \in Nat
  BY <1>1, SessionFieldTypes
<1>4. /\ r.allocation_complete
      /\ r.status \in {"Reconciling", "Conflicted", "Insolvent"}
      /\ amount > 0
      /\ amount <= vault.reserved_amount
      /\ now' = now
      /\ vault_token' = vault_token - amount
      /\ FinishSettlement(s, paid)
  BY DEF SettleClaim, Payable
<1>5. /\ vault'.deposited_amount = vault.deposited_amount - amount
      /\ vault'.reserved_amount = vault.reserved_amount - amount
      /\ vault'.exists = vault.exists
  BY DEF SettleClaim, SafetyInv, TypeOK, CollateralVault
<1>6. /\ paid.status = r.status
      /\ paid.allocation_complete
      /\ paid.settled_amount = r.settled_amount + amount
      /\ paid.allocated_total = r.allocated_total
      /\ paid.authenticated_fork = r.authenticated_fork
      /\ paid.unique_edge_count = r.unique_edge_count
      /\ paid.aggregate_offline_exposure = r.aggregate_offline_exposure
      /\ paid.frozen_edge_count = r.frozen_edge_count
      /\ paid.frozen_exposure = r.frozen_exposure
      /\ paid.claim_submission_deadline = r.claim_submission_deadline
      /\ paid.coverage_status = r.coverage_status
      /\ paid.collateral_coverage_cap = r.collateral_coverage_cap
  BY <1>1, <1>4 DEF OfflineSession
<1>7. paid \in OfflineSession
  <2>1. r.settled_amount + amount \in Nat /\ r.settled_edge_count + 1 \in Nat
    BY <1>2, <1>3
  <2> QED BY <1>1, <2>1, SettledUpdateType
<1> HIDE DEF paid, amount
<1>8. Lifecycle(paid) /\ FrozenCounters(paid)
  <2>1. Lifecycle(r) /\ FrozenCounters(r)
    BY <1>1, SessionFacts
  <2> QED BY <1>4, <1>6, <2>1 DEF Lifecycle, Unfrozen, FrozenCounters
<1>9. /\ vault'.reserved_amount \in Nat
      /\ vault'.reserved_amount <= vault'.deposited_amount
      /\ vault'.deposited_amount <= vault_token'
  <2>1. /\ vault.reserved_amount \in Nat /\ vault.deposited_amount \in Nat
        /\ vault_token \in Nat
        /\ vault.reserved_amount <= vault.deposited_amount
        /\ vault.deposited_amount <= vault_token
    BY <1>1, SessionFacts
  <2> QED BY <1>2, <1>4, <1>5, <2>1
<1>10. r.allocated_total - (r.settled_amount + amount) <= vault'.reserved_amount
  <2>1. r.allocated_total - r.settled_amount <= vault.reserved_amount
    BY <1>1, <1>4, SessionFacts DEF Liability
  <2>2. vault.reserved_amount \in Nat
    BY <1>1, SessionFacts
  <2> QED BY <1>2, <1>3, <1>5, <2>1, <2>2
<1>11. vault.exists
  BY <1>2, <1>4 DEF SafetyInv, AccountsInOrder
<1>12. CASE CloseSessionState(s, paid)
  BY <1>1, <1>4, <1>5, <1>6, <1>7, <1>8, <1>9, <1>11, <1>12, CloseSessionStateSafe
<1>13. ASSUME NEW q \in OfflineSession, q.status \in {paid.status, "Settled"},
              q.allocated_total = paid.allocated_total,
              q.allocation_complete, q.settled_amount = paid.settled_amount,
              q.authenticated_fork = paid.authenticated_fork,
              q.unique_edge_count = paid.unique_edge_count,
              q.coverage_status = paid.coverage_status,
              q.frozen_exposure = paid.frozen_exposure,
              q.collateral_coverage_cap = paid.collateral_coverage_cap,
              FrozenCounters(q),
              session' = [session EXCEPT ![s] = q], profile' = profile
       PROVE  SafetyInv'
  <2>1. Lifecycle(q)
    BY <1>4, <1>6, <1>8, <1>13 DEF Lifecycle, Unfrozen
  <2>2. Liability(q) <= vault'.reserved_amount
    <3>1. Liability(q) = q.allocated_total - q.settled_amount
      BY <1>4, <1>6, <1>13 DEF Liability
    <3> QED BY <1>6, <1>10, <1>13, <3>1
  <2>3. AccountsInOrder'
    BY <1>5, <1>11, <1>13 DEF AccountsInOrder, SafetyInv
  <2>4. (profile'.active_session = s) <=> (q.status \notin {"None", "Closed"})
    BY <1>1, <1>4, <1>6, <1>13 DEF SafetyInv, OneActiveSession
  <2>5. \A x \in SessionIds : x # s =>
          Liability(session[x]) <= vault'.reserved_amount
    BY <1>1, <1>4, <1>9, OthersOweNothing
  <2> QED BY <1>1, <1>4, <1>9, <1>13, <2>1, <2>2, <2>3, <2>4, <2>5, WriteSession
<1>14. CASE /\ session' = [session EXCEPT ![s] = [paid EXCEPT !.status = "Settled"]]
            /\ profile' = profile
  <2> DEFINE q == [paid EXCEPT !.status = "Settled"]
  <2>1. q \in OfflineSession
    BY <1>7, StatusUpdateType DEF SessionStatus
  <2>2. /\ q.status = "Settled"
        /\ q.allocated_total = paid.allocated_total
        /\ q.allocation_complete
        /\ q.settled_amount = paid.settled_amount
        /\ q.authenticated_fork = paid.authenticated_fork
        /\ q.unique_edge_count = paid.unique_edge_count
        /\ q.aggregate_offline_exposure = paid.aggregate_offline_exposure
        /\ q.frozen_edge_count = paid.frozen_edge_count
        /\ q.frozen_exposure = paid.frozen_exposure
        /\ q.claim_submission_deadline = paid.claim_submission_deadline
        /\ q.coverage_status = paid.coverage_status
        /\ q.collateral_coverage_cap = paid.collateral_coverage_cap
    BY <1>6, <1>7 DEF OfflineSession
  <2>3. session' = [session EXCEPT ![s] = q]
    BY <1>14
  <2> HIDE DEF q
  <2>4. FrozenCounters(q)
    BY <1>6, <1>8, <2>2 DEF FrozenCounters
  <2> QED BY <1>13, <1>14, <2>1, <2>2, <2>3, <2>4
<1>15. CASE session' = [session EXCEPT ![s] = paid] /\ profile' = profile
  BY <1>6, <1>7, <1>8, <1>13, <1>15
<1> QED BY <1>4, <1>12, <1>14, <1>15 DEF FinishSettlement

LEMMA CloseSessionSafe ==
  ASSUME SafetyInv, TypeOK', NEW s \in SessionIds, CloseSession(s)
  PROVE  SafetyInv'
<1>1. /\ session[s].allocation_complete
      /\ session[s].status \in {"Reconciling", "Settled", "Conflicted", "Insolvent"}
      /\ CloseSessionState(s, session[s])
      /\ now' = now /\ vault' = vault /\ vault_token' = vault_token
  BY DEF CloseSession, tokenVars
<1>2. ~vault'.exists => vault'.reserved_amount = 0
  BY <1>1 DEF SafetyInv, AccountsInOrder
<1> QED BY <1>1, <1>2, SessionFacts, CloseSessionStateSafe

\* Steps that leave the sessions, the clock and the active session alone.
LEMMA SessionsUntouched ==
  ASSUME SafetyInv, TypeOK', session' = session, now' >= now, now' \in Nat,
         profile'.active_session = profile.active_session, AccountsInOrder',
         vault'.reserved_amount = vault.reserved_amount,
         vault'.reserved_amount <= vault'.deposited_amount,
         vault'.deposited_amount <= vault_token'
  PROVE  SafetyInv'
<1>1. (\A s \in SessionIds : Lifecycle(session[s]))'
  BY DEF SafetyInv, Lifecycle
<1>2. OneActiveSession'
  BY DEF SafetyInv, OneActiveSession
<1>3. LiabilityBacked'
  BY DEF SafetyInv, LiabilityBacked, Liability
<1>4. FrozenCountersFinal'
  <2> SUFFICES ASSUME NEW s \in SessionIds, now > session[s].claim_submission_deadline
               PROVE  now' > session'[s].claim_submission_deadline
    BY DEF SafetyInv, FrozenCountersFinal, AfterDeadline
  <2>1. now \in Nat /\ session[s].claim_submission_deadline \in Nat
    BY SessionFieldTypes DEF SafetyInv, TypeOK
  <2> QED BY <2>1
<1> QED BY <1>1, <1>2, <1>3, <1>4 DEF SafetyInv

LEMMA CreateOfflineSessionSafe ==
  ASSUME SafetyInv, TypeOK', NEW s \in SessionIds, NEW locked \in Amounts,
         NEW limit \in Amounts, NEW t \in Times,
         CreateOfflineSession(s, locked, limit, t)
  PROVE  SafetyInv'
<1> DEFINE q == NewSession(locked, limit, t)
<1>1. locked \in Nat /\ limit \in Nat /\ t \in Nat
  BY NumberAssumption DEF Times
<1>2. q \in OfflineSession
  BY <1>1, NewSessionType DEF SafetyInv, TypeOK
<1>3. /\ q.status = "Active"
      /\ ~q.allocation_complete
      /\ q.settled_amount = 0
      /\ ~q.authenticated_fork
      /\ q.collateral_coverage_cap = locked
  BY DEF NewSession, EmptySession
<1>4. session' = [session EXCEPT ![s] = q]
  BY DEF CreateOfflineSession
<1> HIDE DEF q
<1>5. Lifecycle(q) /\ FrozenCounters(q)
  BY <1>3 DEF Lifecycle, FrozenCounters
<1>6. Liability(q) = locked
  BY <1>3 DEF Liability
<1>7. /\ vault'.reserved_amount = vault.reserved_amount + locked
      /\ vault'.deposited_amount = vault.deposited_amount
      /\ vault'.exists /\ vault_token' = vault_token /\ now' = now
      /\ vault.reserved_amount + locked <= vault.deposited_amount
  BY DEF CreateOfflineSession, CheckedReservation, tokenVars, SafetyInv, TypeOK,
         CollateralVault
<1>8. /\ profile.active_session = NoSession
      /\ profile'.active_session = s
      /\ profile'.exists
  BY DEF CreateOfflineSession, SafetyInv, TypeOK, UserProfile
<1>9. /\ vault.reserved_amount \in Nat /\ vault.deposited_amount <= vault_token
  BY SessionFacts
<1>10. Liability(q) <= vault'.reserved_amount
  BY <1>1, <1>6, <1>7, <1>9
<1>11. \A x \in SessionIds : x # s =>
         /\ (profile'.active_session = x) <=> (profile.active_session = x)
         /\ Liability(session[x]) <= vault'.reserved_amount
  <2> SUFFICES ASSUME NEW x \in SessionIds, x # s
               PROVE  /\ profile'.active_session # x /\ profile.active_session # x
                      /\ Liability(session[x]) <= vault'.reserved_amount
    OBVIOUS
  <2>1. profile.active_session # x
    BY <1>8, SetAssumption
  <2>2. Liability(session[x]) = 0
    BY <2>1 DEF SafetyInv, OneActiveSession, Liability
  <2> QED BY <1>1, <1>7, <1>8, <1>9, <2>1, <2>2
<1>12. AccountsInOrder'
  BY <1>7, <1>8 DEF AccountsInOrder
<1> QED BY <1>2, <1>3, <1>4, <1>5, <1>7, <1>8, <1>9, <1>10, <1>11, <1>12,
           WriteSession

LEMMA SameAccountWritten ==
  ASSUME SafetyInv, TypeOK', now' = now, profile' = profile, vault' = vault,
         vault_token' = vault_token, NEW s \in SessionIds,
         NEW q \in OfflineSession, SameAccount(q, session[s]),
         q.allocated_total = session[s].allocated_total,
         session' = [session EXCEPT ![s] = q]
  PROVE  SafetyInv'
<1>1. Lifecycle(q) /\ FrozenCounters(q)
  BY SameAccountKeeps, SessionFacts
<1>2. Liability(q) = Liability(session[s])
  BY DEF Liability, SameAccount
<1>3. AccountsInOrder'
  BY DEF AccountsInOrder, SafetyInv
<1>4. (profile'.active_session = s) <=> (q.status \notin {"None", "Closed"})
  BY DEF SafetyInv, OneActiveSession, SameAccount
<1> QED BY <1>1, <1>2, <1>3, <1>4, SessionFacts, WriteSession

LEMMA SafetyStep == SafetyInv /\ [Next]_vars => SafetyInv'
<1> SUFFICES ASSUME SafetyInv, [Next]_vars PROVE SafetyInv'
  OBVIOUS
<1>1. TypeOK /\ TypeOK'
  BY TypeStep DEF SafetyInv
<1>2. /\ vault.reserved_amount \in Nat /\ vault.deposited_amount \in Nat
      /\ vault_token \in Nat /\ now \in Nat /\ now' \in Nat
      /\ vault.reserved_amount <= vault.deposited_amount
      /\ vault.deposited_amount <= vault_token
  BY <1>1, VaultFieldTypes DEF SafetyInv, TypeOK, LiabilityBacked
<1>3. AccountsInOrder
  BY DEF SafetyInv
<1> USE DEF tokenVars, claimVars
<1>4. CASE InitializeProtocol
  BY <1>1, <1>2, <1>3, <1>4, SessionsUntouched DEF InitializeProtocol, AccountsInOrder
<1>5. ASSUME NEW a \in Signers, NEW b \in BOOLEAN, SetPaused(a, b) PROVE SafetyInv'
  BY <1>1, <1>2, <1>3, <1>5, SessionsUntouched DEF SetPaused, AccountsInOrder
<1>6. ASSUME NEW t \in Times, CreateUserProfile(t) PROVE SafetyInv'
  BY <1>1, <1>2, <1>3, <1>6, SessionsUntouched DEF CreateUserProfile, AccountsInOrder
<1>7. CASE CreateVault
  BY <1>1, <1>2, <1>3, <1>7, SessionsUntouched DEF CreateVault, AccountsInOrder
<1>8. ASSUME NEW n \in Amounts, DepositCollateral(n) PROVE SafetyInv'
  <2>1. n \in Nat
    BY NumberAssumption
  <2>2. /\ vault'.deposited_amount = vault.deposited_amount + n
        /\ vault'.reserved_amount = vault.reserved_amount
        /\ vault'.exists = vault.exists
    BY <1>1, <1>8 DEF DepositCollateral, TypeOK, CollateralVault
  <2>3. vault_token' = vault_token + n
    BY <1>8 DEF DepositCollateral
  <2> QED BY <1>1, <1>2, <1>3, <1>8, <2>1, <2>2, <2>3, SessionsUntouched
          DEF DepositCollateral, AccountsInOrder
<1>9. ASSUME NEW n \in Amounts, DonateTokens(n) PROVE SafetyInv'
  <2>1. n \in Nat
    BY NumberAssumption
  <2> QED BY <1>1, <1>2, <1>3, <1>9, <2>1, SessionsUntouched
          DEF DonateTokens, AccountsInOrder
<1>10. ASSUME NEW n \in Amounts, WithdrawCollateral(n) PROVE SafetyInv'
  <2>1. n \in Nat
    BY NumberAssumption
  <2>2. /\ vault'.deposited_amount = vault.deposited_amount - n
        /\ vault'.reserved_amount = vault.reserved_amount
        /\ vault'.exists = vault.exists
    BY <1>1, <1>10 DEF WithdrawCollateral, TypeOK, CollateralVault
  <2>3. /\ vault_token' = vault_token - n
        /\ n <= vault.deposited_amount - vault.reserved_amount
    BY <1>10 DEF WithdrawCollateral, Withdrawable
  <2> QED BY <1>1, <1>2, <1>3, <1>10, <2>1, <2>2, <2>3, SessionsUntouched
          DEF WithdrawCollateral, AccountsInOrder
<1>11. ASSUME NEW s \in SessionIds, NEW locked \in Amounts, NEW limit \in Amounts,
              NEW t \in Times, CreateOfflineSession(s, locked, limit, t)
       PROVE  SafetyInv'
  BY <1>1, <1>11, CreateOfflineSessionSafe
<1>12. ASSUME NEW s \in SessionIds, RegisterDeviceAuthorization(s) PROVE SafetyInv'
  <2>1. session[s] \in OfflineSession
    BY <1>1 DEF TypeOK
  <2>2. [session[s] EXCEPT !.authorized = TRUE] \in OfflineSession
    BY <2>1, AuthorizedUpdateType
  <2> QED BY <1>1, <1>12, <2>1, <2>2, AuthorizedKeepsAccount, SameAccountWritten
          DEF RegisterDeviceAuthorization
<1>13. ASSUME NEW c \in Creds, SubmitClaim(c) PROVE SafetyInv'
  BY <1>1, <1>13, SubmitClaimSafe
<1>14. ASSUME NEW s \in SessionIds, BeginFinalization(s) PROVE SafetyInv'
  BY <1>1, <1>14, BeginFinalizationSafe
<1>15. ASSUME NEW e \in StateHashes, ClassifyEdge(e) PROVE SafetyInv'
  <2> DEFINE s == SessionOf(e)
             r == session[s]
             base == BaseAllocation(Transition[e].amount, r.frozen_exposure,
                                    r.collateral_coverage_cap)
  <2>1. s \in SessionIds /\ r \in OfflineSession /\ Transition[e].amount \in Nat
    BY <1>1, MessageTypes DEF TypeOK
  <2>2. r.frozen_exposure \in Nat /\ r.collateral_coverage_cap \in Nat
    BY <2>1, SessionFieldTypes
  <2>3. base \in Nat
    BY <1>15, <2>1, <2>2, BaseAllocationType DEF ClassifyEdge
  <2>4. session' = [session EXCEPT ![s] = SessionWithClassified(r, e, base)]
    BY <1>15 DEF ClassifyEdge
  <2>5. /\ now' = now /\ profile' = profile /\ vault' = vault
        /\ vault_token' = vault_token
    BY <1>15 DEF ClassifyEdge
  <2> HIDE DEF base
  <2>6. SessionWithClassified(r, e, base) \in OfflineSession
    BY <2>1, <2>3, SessionWithClassifiedType
  <2> QED BY <1>1, <2>1, <2>4, <2>5, <2>6, ClassifiedKeepsAccount, SameAccountWritten
<1>16. ASSUME NEW c \in Creds, AllocateNextClaim(c) PROVE SafetyInv'
  BY <1>1, <1>16, AllocateNextClaimSafe
<1>17. ASSUME NEW c \in Creds, SettleClaim(c) PROVE SafetyInv'
  BY <1>1, <1>17, SettleClaimSafe
<1>18. ASSUME NEW s \in SessionIds, CloseSession(s) PROVE SafetyInv'
  BY <1>1, <1>18, CloseSessionSafe
<1>19. CASE Tick
  BY <1>1, <1>2, <1>3, <1>19, SessionsUntouched DEF Tick, AccountsInOrder
<1>20. CASE UNCHANGED vars
  BY <1>1, <1>2, <1>3, <1>20, SessionsUntouched DEF vars, AccountsInOrder
<1> HIDE DEF tokenVars, claimVars
<1> QED
  BY <1>4, <1>5, <1>6, <1>7, <1>8, <1>9, <1>10, <1>11, <1>12, <1>13, <1>14, <1>15,
     <1>16, <1>17, <1>18, <1>19, <1>20 DEF Next

LEMMA SafetyInvariant == Spec => []SafetyInv
BY SafetyInit, SafetyStep, PTL DEF Spec

\* For any number of sessions, claims, edges and merchants and any amounts, what
\* the vault still owes on behalf of a session is reserved, the reserve is book
\* collateral and the books are tokens in the vault (create_offline_session,
\* withdraw_collateral, complete_allocation and settle_claim in any order).
THEOREM LiabilityAlwaysBacked == Spec => []LiabilityBacked
<1>1. SafetyInv => LiabilityBacked
  BY DEF SafetyInv
<1> QED BY <1>1, SafetyInvariant, PTL

\* A payer never has two open sessions, and profile.active_session names the
\* open one (create_offline_session, close_session_state).
THEOREM AlwaysOneActiveSession == Spec => []OneActiveSession
<1>1. SafetyInv => OneActiveSession
  BY DEF SafetyInv
<1> QED BY <1>1, SafetyInvariant, PTL

\* No claim enters a session after begin_finalization froze its counters, not
\* even while the session is Conflicted again during the payout.
THEOREM FrozenAlwaysFinal == Spec => []FrozenCountersFinal
<1>1. SafetyInv => FrozenCountersFinal
  BY DEF SafetyInv
<1> QED BY <1>1, SafetyInvariant, PTL

-----------------------------------------------------------------------------
-----------------------------------------------------------------------------
(***************************************************************************)
(* Sums.  Facts about SumFunctionOnSet, which the properties of the        *)
(* program use to add up amounts over sets of accounts.  Induction is by   *)
(* least counterexample: a nonempty set of numbers has a least member.     *)
(***************************************************************************)
LEMMA NatMin ==
  ASSUME NEW T, T \subseteq Nat, T # {}
  PROVE  \E x \in T : \A y \in T : x <= y
<1>w. IsWellFoundedOn(OpToRel(<,Nat), Nat)
  BY NatLessThanWellFounded, Zenon
<1>1. PICK x \in T : \A y \in T : ~(<<y, x>> \in OpToRel(<,Nat))
  BY <1>w, WFMin, Zenon
<1>2. \A y \in T : ~(y < x)
  <2> SUFFICES ASSUME NEW y \in T, y < x PROVE FALSE
    OBVIOUS
  <2>1. <<y, x>> \in OpToRel(<,Nat)
    BY DEF OpToRel
  <2> QED BY <1>1, <2>1, Zenon
<1> QED BY <1>2

-----------------------------------------------------------------------------
(***************************************************************************)
(* The recursive function that the fold is.                                *)
(***************************************************************************)
Pick(s) == CHOOSE x \in s : TRUE

\* g sums f over every set of D.
SumsOn(g, f, D) ==
  g = [s \in D |-> IF s = {} THEN 0 ELSE f[Pick(s)] + g[s \ {Pick(s)}]]

Sums(g, f, S) == SumsOn(g, f, SUBSET S)

LEMMA SumIsChoice ==
  ASSUME NEW f, NEW S
  PROVE  SumFunctionOnSet(f, S) = (CHOOSE g : Sums(g, f, S))[S]
BY DEF SumFunctionOnSet, FoldFunctionOnSet, MapThenFoldSet, Sums, SumsOn, Pick

UpTo(S, n) == {s \in SUBSET S : Cardinality(s) <= n}

LEMMA PickFacts ==
  ASSUME NEW s, IsFiniteSet(s), s # {}
  PROVE  /\ Pick(s) \in s
         /\ IsFiniteSet(s \ {Pick(s)})
         /\ Cardinality(s) \in Nat /\ Cardinality(s) > 0
         /\ Cardinality(s \ {Pick(s)}) = Cardinality(s) - 1
<1>1. Pick(s) \in s
  BY DEF Pick
<1> QED BY <1>1, FS_RemoveElement, FS_CardinalityType, FS_EmptySet

LEMMA SumsUpToExist ==
  ASSUME NEW f, NEW S, IsFiniteSet(S)
  PROVE  \A n \in Nat : \E g : SumsOn(g, f, UpTo(S, n))
<1> DEFINE T == {n \in Nat : ~\E g : SumsOn(g, f, UpTo(S, n))}
<1> SUFFICES ASSUME T # {} PROVE FALSE
  OBVIOUS
<1>1. PICK n \in T : \A m \in T : n <= m
  BY NatMin
<1>f. \A s \in SUBSET S : IsFiniteSet(s) /\ Cardinality(s) \in Nat
  BY FS_Subset, FS_CardinalityType
<1>2. CASE n = 0
  <2> DEFINE g == [s \in UpTo(S, n) |-> 0]
  <2>1. \A s \in UpTo(S, n) : s = {}
    BY <1>2, <1>f, FS_EmptySet DEF UpTo
  <2>2. SumsOn(g, f, UpTo(S, n))
    BY <2>1 DEF SumsOn
  <2> QED BY <2>2
<1>3. CASE n > 0
  <2>1. PICK h : SumsOn(h, f, UpTo(S, n - 1))
    BY <1>1, <1>3
  <2> DEFINE g == [s \in UpTo(S, n) |->
                     IF s = {} THEN 0 ELSE f[Pick(s)] + h[s \ {Pick(s)}]]
  <2>2. UpTo(S, n - 1) \subseteq UpTo(S, n)
    BY <1>f DEF UpTo
  <2>3. \A s \in UpTo(S, n - 1) : g[s] = h[s]
    BY <2>1, <2>2 DEF SumsOn
  <2>4. ASSUME NEW s \in UpTo(S, n), s # {}
        PROVE  s \ {Pick(s)} \in UpTo(S, n - 1)
    <3>1. s \in SUBSET S /\ IsFiniteSet(s) /\ Cardinality(s) <= n
      BY <1>f DEF UpTo
    <3>2. Cardinality(s \ {Pick(s)}) = Cardinality(s) - 1 /\ Cardinality(s) \in Nat
      BY <3>1, <2>4, PickFacts
    <3> QED BY <3>1, <3>2 DEF UpTo
  <2>5. \A s \in UpTo(S, n) :
          g[s] = IF s = {} THEN 0 ELSE f[Pick(s)] + g[s \ {Pick(s)}]
    BY <2>3, <2>4
  <2>6. g = [s \in UpTo(S, n) |-> g[s]]
    OBVIOUS
  <2> HIDE DEF g
  <2>7. SumsOn(g, f, UpTo(S, n))
    BY <2>5, <2>6 DEF SumsOn
  <2> QED BY <2>7
<1> QED BY <1>2, <1>3

LEMMA SumsExist ==
  ASSUME NEW f, NEW S, IsFiniteSet(S)
  PROVE  \E g : Sums(g, f, S)
<1>1. Cardinality(S) \in Nat /\ \A s \in SUBSET S : Cardinality(s) <= Cardinality(S)
  BY FS_Subset, FS_CardinalityType
<1>2. UpTo(S, Cardinality(S)) = SUBSET S
  BY <1>1 DEF UpTo
<1>3. \E g : SumsOn(g, f, UpTo(S, Cardinality(S)))
  BY <1>1, SumsUpToExist
<1> QED BY <1>2, <1>3 DEF Sums

LEMMA SumsUnfold ==
  ASSUME NEW f, NEW S, NEW g, Sums(g, f, S), NEW s \in SUBSET S
  PROVE  g[s] = IF s = {} THEN 0 ELSE f[Pick(s)] + g[s \ {Pick(s)}]
BY DEF Sums, SumsOn

LEMMA SumsAgree ==
  ASSUME NEW f, NEW S, IsFiniteSet(S), NEW R \in SUBSET S,
         NEW g, Sums(g, f, S), NEW h, Sums(h, f, R)
  PROVE  \A s \in SUBSET R : g[s] = h[s]
<1> DEFINE T == {Cardinality(s) : s \in {t \in SUBSET R : g[t] # h[t]}}
<1> SUFFICES ASSUME T # {} PROVE FALSE
  OBVIOUS
<1>f. \A s \in SUBSET R : IsFiniteSet(s) /\ Cardinality(s) \in Nat
  BY FS_Subset, FS_CardinalityType
<1>1. PICK n \in T : \A m \in T : n <= m
  BY <1>f, NatMin
<1>2. PICK s \in SUBSET R : g[s] # h[s] /\ n = Cardinality(s)
  OBVIOUS
<1>s. s \in SUBSET S /\ \A t \in SUBSET R : t \in SUBSET S
  OBVIOUS
<1>u. /\ g[s] = IF s = {} THEN 0 ELSE f[Pick(s)] + g[s \ {Pick(s)}]
      /\ h[s] = IF s = {} THEN 0 ELSE f[Pick(s)] + h[s \ {Pick(s)}]
  <2>1. g[s] = IF s = {} THEN 0 ELSE f[Pick(s)] + g[s \ {Pick(s)}]
    BY <1>s, SumsUnfold
  <2>2. h[s] = IF s = {} THEN 0 ELSE f[Pick(s)] + h[s \ {Pick(s)}]
    BY SumsUnfold
  <2> QED BY <2>1, <2>2
<1>3. s # {}
  BY <1>2, <1>u
<1> DEFINE t == s \ {Pick(s)}
<1>4. t \in SUBSET R /\ Cardinality(t) = n - 1 /\ n \in Nat
  BY <1>2, <1>3, <1>f, PickFacts
<1>5. g[t] = h[t]
  BY <1>1, <1>4
<1>6. g[s] = f[Pick(s)] + g[t] /\ h[s] = f[Pick(s)] + h[t]
  BY <1>3, <1>u
<1> QED BY <1>2, <1>5, <1>6

-----------------------------------------------------------------------------
(***************************************************************************)
(* What the sum is: nothing over the empty set, and one member more for    *)
(* every member.                                                           *)
(***************************************************************************)
LEMMA SumEmpty == ASSUME NEW f PROVE SumFunctionOnSet(f, {}) = 0
<1>1. IsFiniteSet({})
  BY FS_EmptySet
<1> DEFINE g == CHOOSE h : Sums(h, f, {})
<1>3. Sums(g, f, {})
  BY <1>1, SumsExist
<1> HIDE DEF g
<1>4. g[{}] = 0
  BY <1>3, SumsUnfold
<1> QED BY <1>4, SumIsChoice DEF g

LEMMA SumPick ==
  ASSUME NEW f, NEW S, IsFiniteSet(S), S # {}
  PROVE  SumFunctionOnSet(f, S)
           = f[Pick(S)] + SumFunctionOnSet(f, S \ {Pick(S)})
<1> DEFINE R == S \ {Pick(S)}
           g == CHOOSE k : Sums(k, f, S)
           h == CHOOSE k : Sums(k, f, R)
<1>1. IsFiniteSet(R) /\ R \in SUBSET S
  BY PickFacts
<1>2. Sums(g, f, S)
  BY SumsExist
<1>3. Sums(h, f, R)
  BY <1>1, SumsExist
<1>4. SumFunctionOnSet(f, S) = g[S] /\ SumFunctionOnSet(f, R) = h[R]
  BY SumIsChoice
<1> HIDE DEF g, h
<1>5. g[S] = f[Pick(S)] + g[R]
  <2>1. S \in SUBSET S
    OBVIOUS
  <2>2. g[S] = IF S = {} THEN 0 ELSE f[Pick(S)] + g[S \ {Pick(S)}]
    BY <1>2, <2>1, SumsUnfold
  <2> QED BY <2>2
<1>6. g[R] = h[R]
  <2> HIDE DEF R
  <2>1. R \in SUBSET R
    OBVIOUS
  <2>2. \A s \in SUBSET R : g[s] = h[s]
    BY <1>1, <1>2, <1>3, SumsAgree
  <2> QED BY <2>1, <2>2
<1> QED BY <1>4, <1>5, <1>6

LEMMA RemoveFacts ==
  ASSUME NEW S, IsFiniteSet(S), NEW x \in S
  PROVE  /\ IsFiniteSet(S \ {x}) /\ Cardinality(S) \in Nat /\ Cardinality(S) > 0
         /\ Cardinality(S \ {x}) = Cardinality(S) - 1
BY FS_RemoveElement, FS_CardinalityType, FS_EmptySet

LEMMA SumNat ==
  ASSUME NEW f, NEW S, IsFiniteSet(S), \A x \in S : f[x] \in Nat
  PROVE  SumFunctionOnSet(f, S) \in Nat
<1> DEFINE T == {Cardinality(s) : s \in {t \in SUBSET S : SumFunctionOnSet(f, t) \notin Nat}}
<1> SUFFICES ASSUME T # {} PROVE FALSE
  OBVIOUS
<1>f. \A s \in SUBSET S : IsFiniteSet(s) /\ Cardinality(s) \in Nat
  BY FS_Subset, FS_CardinalityType
<1>1. PICK n \in T : \A m \in T : n <= m
  BY <1>f, NatMin
<1>2. PICK s \in SUBSET S : SumFunctionOnSet(f, s) \notin Nat /\ n = Cardinality(s)
  OBVIOUS
<1>3. s # {}
  BY <1>2, SumEmpty
<1> DEFINE t == s \ {Pick(s)}
<1>4. /\ t \in SUBSET S /\ Cardinality(t) = n - 1 /\ n \in Nat
      /\ Pick(s) \in S
  BY <1>2, <1>3, <1>f, PickFacts
<1>5. SumFunctionOnSet(f, t) \in Nat
  BY <1>1, <1>4
<1>6. SumFunctionOnSet(f, s) = f[Pick(s)] + SumFunctionOnSet(f, t)
  BY <1>3, <1>f, SumPick
<1> QED BY <1>2, <1>4, <1>5, <1>6

LEMMA SumRemove ==
  ASSUME NEW f, NEW S, IsFiniteSet(S), \A x \in S : f[x] \in Nat
  PROVE  \A x \in S :
           SumFunctionOnSet(f, S) = f[x] + SumFunctionOnSet(f, S \ {x})
<1> DEFINE Good(s) == \A x \in s : SumFunctionOnSet(f, s)
                                     = f[x] + SumFunctionOnSet(f, s \ {x})
           T == {Cardinality(s) : s \in {t \in SUBSET S : ~Good(t)}}
<1>f. \A s \in SUBSET S : /\ IsFiniteSet(s) /\ Cardinality(s) \in Nat
                          /\ SumFunctionOnSet(f, s) \in Nat
  BY FS_Subset, FS_CardinalityType, SumNat
<1> SUFFICES ASSUME T # {} PROVE FALSE
  <2>1. S \in SUBSET S
    OBVIOUS
  <2> QED BY <2>1
<1>1. PICK n \in T : \A m \in T : n <= m
  BY <1>f, NatMin
<1>2. PICK s \in SUBSET S : ~Good(s) /\ n = Cardinality(s)
  OBVIOUS
<1>3. PICK x \in s : SumFunctionOnSet(f, s) # f[x] + SumFunctionOnSet(f, s \ {x})
  BY <1>2
<1>4. \A t \in SUBSET S : Cardinality(t) < n => Good(t)
  <2> SUFFICES ASSUME NEW t \in SUBSET S, Cardinality(t) < n, ~Good(t) PROVE FALSE
    OBVIOUS
  <2> HIDE DEF Good
  <2>1. Cardinality(t) \in T
    OBVIOUS
  <2>2. n \in Nat /\ Cardinality(t) \in Nat
    BY <1>2, <1>f
  <2> QED BY <1>1, <2>1, <2>2
<1> DEFINE y == Pick(s)
           sy == s \ {y}
           sx == s \ {x}
           sxy == sx \ {y}
<1>5. y \in s /\ SumFunctionOnSet(f, s) = f[y] + SumFunctionOnSet(f, sy)
  BY <1>f, PickFacts, SumPick
<1> HIDE DEF y
<1>6. x # y
  BY <1>3, <1>5
<1>7. /\ sx \in SUBSET S /\ sy \in SUBSET S /\ sxy \in SUBSET S
      /\ Cardinality(sx) < n /\ Cardinality(sy) < n
      /\ y \in sx /\ x \in sy /\ sy \ {x} = sxy
  BY <1>2, <1>5, <1>6, <1>f, RemoveFacts
<1> HIDE DEF sx, sy, sxy
<1>8. SumFunctionOnSet(f, sx) = f[y] + SumFunctionOnSet(f, sxy)
  BY <1>4, <1>7 DEF sxy
<1>9. SumFunctionOnSet(f, sy) = f[x] + SumFunctionOnSet(f, sxy)
  BY <1>4, <1>7
<1>10. f[x] \in Nat /\ f[y] \in Nat /\ SumFunctionOnSet(f, sxy) \in Nat
  BY <1>5, <1>7, <1>f
<1> QED BY <1>3, <1>5, <1>8, <1>9, <1>10 DEF sx

LEMMA SumAdd ==
  ASSUME NEW f, NEW S, IsFiniteSet(S), NEW x, x \notin S,
         \A y \in S \cup {x} : f[y] \in Nat
  PROVE  SumFunctionOnSet(f, S \cup {x}) = SumFunctionOnSet(f, S) + f[x]
<1> DEFINE U == S \cup {x}
<1>1. IsFiniteSet(U) /\ x \in U /\ U \ {x} = S
  BY FS_AddElement
<1>2. SumFunctionOnSet(f, S) \in Nat
  BY SumNat
<1>3. f[x] \in Nat /\ \A y \in U : f[y] \in Nat
  OBVIOUS
<1> HIDE DEF U
<1>4. SumFunctionOnSet(f, U) = f[x] + SumFunctionOnSet(f, U \ {x})
  BY <1>1, <1>3, SumRemove
<1> QED BY <1>1, <1>2, <1>3, <1>4 DEF U

LEMMA SumSame ==
  ASSUME NEW f, NEW g, NEW S, IsFiniteSet(S), \A x \in S : f[x] = g[x]
  PROVE  SumFunctionOnSet(f, S) = SumFunctionOnSet(g, S)
<1> DEFINE T == {Cardinality(s) : s \in {t \in SUBSET S :
                   SumFunctionOnSet(f, t) # SumFunctionOnSet(g, t)}}
<1> SUFFICES ASSUME T # {} PROVE FALSE
  <2>1. S \in SUBSET S
    OBVIOUS
  <2> QED BY <2>1
<1>f. \A s \in SUBSET S : IsFiniteSet(s) /\ Cardinality(s) \in Nat
  BY FS_Subset, FS_CardinalityType
<1>1. PICK n \in T : \A m \in T : n <= m
  BY <1>f, NatMin
<1>2. PICK s \in SUBSET S : /\ SumFunctionOnSet(f, s) # SumFunctionOnSet(g, s)
                            /\ n = Cardinality(s)
  OBVIOUS
<1>3. s # {}
  BY <1>2, SumEmpty
<1> DEFINE t == s \ {Pick(s)}
<1>4. /\ t \in SUBSET S /\ Cardinality(t) = n - 1 /\ n \in Nat
      /\ Pick(s) \in S
  BY <1>2, <1>3, <1>f, PickFacts
<1>5. SumFunctionOnSet(f, t) = SumFunctionOnSet(g, t)
  BY <1>1, <1>4
<1>6. /\ SumFunctionOnSet(f, s) = f[Pick(s)] + SumFunctionOnSet(f, t)
      /\ SumFunctionOnSet(g, s) = g[Pick(s)] + SumFunctionOnSet(g, t)
  BY <1>3, <1>f, SumPick
<1> QED BY <1>2, <1>4, <1>5, <1>6

\* One value changes, and the sum changes by as much.
LEMMA SumUpdate ==
  ASSUME NEW f, NEW g, NEW S, IsFiniteSet(S), NEW x \in S,
         \A y \in S : f[y] \in Nat, g[x] \in Nat,
         \A y \in S : y # x => g[y] = f[y]
  PROVE  SumFunctionOnSet(g, S) = SumFunctionOnSet(f, S) - f[x] + g[x]
<1> DEFINE R == S \ {x}
<1>1. IsFiniteSet(R) /\ (\A y \in R : f[y] = g[y]) /\ \A y \in S : g[y] \in Nat
  BY RemoveFacts
<1>2. SumFunctionOnSet(f, R) = SumFunctionOnSet(g, R)
  BY <1>1, SumSame
<1>3. SumFunctionOnSet(f, S) = f[x] + SumFunctionOnSet(f, R)
  BY SumRemove
<1>4. SumFunctionOnSet(g, S) = g[x] + SumFunctionOnSet(g, R)
  BY <1>1, SumRemove
<1>5. SumFunctionOnSet(f, R) \in Nat /\ f[x] \in Nat
  BY <1>1, SumNat
<1> HIDE DEF R
<1> QED BY <1>2, <1>3, <1>4, <1>5

\* A sum of smaller values is smaller.
LEMMA SumLeq ==
  ASSUME NEW f, NEW g, NEW S, IsFiniteSet(S),
         \A x \in S : f[x] \in Nat /\ g[x] \in Nat /\ f[x] <= g[x]
  PROVE  SumFunctionOnSet(f, S) <= SumFunctionOnSet(g, S)
<1> DEFINE T == {Cardinality(s) : s \in {t \in SUBSET S :
                   ~(SumFunctionOnSet(f, t) <= SumFunctionOnSet(g, t))}}
<1> SUFFICES ASSUME T # {} PROVE FALSE
  <2>1. S \in SUBSET S
    OBVIOUS
  <2> QED BY <2>1
<1>f. \A s \in SUBSET S : IsFiniteSet(s) /\ Cardinality(s) \in Nat
  BY FS_Subset, FS_CardinalityType
<1>1. PICK n \in T : \A m \in T : n <= m
  BY <1>f, NatMin
<1>2. PICK s \in SUBSET S : /\ ~(SumFunctionOnSet(f, s) <= SumFunctionOnSet(g, s))
                            /\ n = Cardinality(s)
  OBVIOUS
<1>3. s # {}
  BY <1>2, SumEmpty
<1> DEFINE t == s \ {Pick(s)}
<1>4. /\ t \in SUBSET S /\ Cardinality(t) = n - 1 /\ n \in Nat
      /\ Pick(s) \in S
  BY <1>2, <1>3, <1>f, PickFacts
<1>5. SumFunctionOnSet(f, t) <= SumFunctionOnSet(g, t)
  BY <1>1, <1>4
<1>6. /\ SumFunctionOnSet(f, s) = f[Pick(s)] + SumFunctionOnSet(f, t)
      /\ SumFunctionOnSet(g, s) = g[Pick(s)] + SumFunctionOnSet(g, t)
  BY <1>3, <1>f, SumPick
<1>7. SumFunctionOnSet(f, t) \in Nat /\ SumFunctionOnSet(g, t) \in Nat
  <2>1. IsFiniteSet(t) /\ \A x \in t : f[x] \in Nat /\ g[x] \in Nat
    BY <1>4, <1>f
  <2> QED BY <2>1, SumNat
<1>8. f[Pick(s)] \in Nat /\ g[Pick(s)] \in Nat /\ f[Pick(s)] <= g[Pick(s)]
  BY <1>4
<1> HIDE DEF t, T
<1> QED BY <1>2, <1>5, <1>6, <1>7, <1>8

LEMMA SumZero ==
  ASSUME NEW f, NEW S, IsFiniteSet(S), \A x \in S : f[x] = 0
  PROVE  SumFunctionOnSet(f, S) = 0
<1> DEFINE T == {Cardinality(s) : s \in {t \in SUBSET S : SumFunctionOnSet(f, t) # 0}}
<1> SUFFICES ASSUME T # {} PROVE FALSE
  <2>1. S \in SUBSET S
    OBVIOUS
  <2> QED BY <2>1
<1>f. \A s \in SUBSET S : IsFiniteSet(s) /\ Cardinality(s) \in Nat
  BY FS_Subset, FS_CardinalityType
<1>1. PICK n \in T : \A m \in T : n <= m
  BY <1>f, NatMin
<1>2. PICK s \in SUBSET S : SumFunctionOnSet(f, s) # 0 /\ n = Cardinality(s)
  OBVIOUS
<1>3. s # {}
  BY <1>2, SumEmpty
<1> DEFINE t == s \ {Pick(s)}
<1>4. /\ t \in SUBSET S /\ Cardinality(t) = n - 1 /\ n \in Nat
      /\ Pick(s) \in S
  BY <1>2, <1>3, <1>f, PickFacts
<1>5. SumFunctionOnSet(f, t) = 0
  BY <1>1, <1>4
<1>6. SumFunctionOnSet(f, s) = f[Pick(s)] + SumFunctionOnSet(f, t)
  BY <1>3, <1>f, SumPick
<1> HIDE DEF t, T
<1> QED BY <1>2, <1>4, <1>5, <1>6

-----------------------------------------------------------------------------
(***************************************************************************)
(* Ordered sets of claims.  IsLeast and IsGreatest say which link denotes  *)
(* the end of a set of claims, without a choice.                           *)
(***************************************************************************)
IsLeast(S, x) ==
  IF S = {} THEN x = NoClaim ELSE x \in S /\ \A y \in S : x <= y

IsGreatest(S, x) ==
  IF S = {} THEN x = NoClaim ELSE x \in S /\ \A y \in S : y <= x

After(S, c) == {y \in S : y > c}
Before(S, c) == {y \in S : y < c}

LEMMA LeastIsMin ==
  ASSUME NEW S, S \subseteq Nat, NEW x, IsLeast(S, x)
  PROVE  x = IF S = {} THEN NoClaim ELSE Min(S)
<1>1. CASE S # {}
  <2>1. x \in S /\ \A y \in S : x <= y
    BY <1>1 DEF IsLeast
  <2>2. \A z \in S : (\A y \in S : z <= y) => z = x
    BY <2>1
  <2>3. Min(S) \in S /\ \A y \in S : Min(S) <= y
    BY <2>1 DEF Min
  <2> QED BY <1>1, <2>2, <2>3
<1> QED BY <1>1 DEF IsLeast

LEMMA GreatestIsMax ==
  ASSUME NEW S, S \subseteq Nat, NEW x, IsGreatest(S, x)
  PROVE  x = IF S = {} THEN NoClaim ELSE Max(S)
<1>1. CASE S # {}
  <2>1. x \in S /\ \A y \in S : y <= x
    BY <1>1 DEF IsGreatest
  <2>2. \A z \in S : (\A y \in S : y <= z) => z = x
    BY <2>1
  <2>3. Max(S) \in S /\ \A y \in S : y <= Max(S)
    BY <2>1 DEF Max
  <2> QED BY <1>1, <2>2, <2>3
<1> QED BY <1>1 DEF IsGreatest

\* A doubly linked list of the claims S between head and tail.
Linked(S, head, tail, next, prev) ==
  /\ IsLeast(S, head)
  /\ IsGreatest(S, tail)
  /\ \A x \in S : IsLeast(After(S, x), next[x]) /\ IsGreatest(Before(S, x), prev[x])

\* The list next, prev becomes next1, prev1 when c is put between pred and succ.
Insertion(S, c, pred, succ, head, tail, next, prev, head1, tail1, next1, prev1) ==
  /\ S \subseteq Nat /\ 0 \notin S /\ c \in Nat /\ c # 0 /\ c \notin S
  /\ Linked(S, head, tail, next, prev)
  /\ IsGreatest(Before(S, c), pred) /\ IsLeast(After(S, c), succ)
  /\ head1 = IF pred = NoClaim THEN c ELSE head
  /\ tail1 = IF succ = NoClaim THEN c ELSE tail
  /\ next1[c] = succ /\ prev1[c] = pred
  /\ \A x \in S : /\ next1[x] = IF x = pred THEN c ELSE next[x]
                  /\ prev1[x] = IF x = succ THEN c ELSE prev[x]

\* Linking c between its neighbours keeps the list.
LEMMA LinkBetween ==
  ASSUME NEW S, NEW c, NEW pred, NEW succ, NEW head, NEW tail, NEW next, NEW prev,
         NEW head1, NEW tail1, NEW next1, NEW prev1,
         Insertion(S, c, pred, succ, head, tail, next, prev, head1, tail1, next1, prev1)
  PROVE  Linked(S \cup {c}, head1, tail1, next1, prev1)
<1> USE DEF Insertion
<1> DEFINE T == S \cup {c}
<1>n. \A y \in S : y \in Nat /\ y # c
  OBVIOUS
<1>p. /\ pred = NoClaim => \A y \in S : y > c
      /\ pred # NoClaim => pred \in S /\ pred < c /\ \A y \in S : y < c => y <= pred
  BY DEF IsGreatest, Before, NoClaim
<1>s. /\ succ = NoClaim => \A y \in S : y < c
      /\ succ # NoClaim => succ \in S /\ c < succ /\ \A y \in S : y > c => succ <= y
  BY DEF IsLeast, After, NoClaim
<1>1. IsLeast(T, head1)
  <2>1. CASE pred = NoClaim
    BY <1>n, <1>p, <2>1 DEF IsLeast
  <2>2. CASE pred # NoClaim
    <3>1. pred \in S /\ pred < c /\ head \in S /\ \A y \in S : head <= y
      BY <1>p, <2>2 DEF Linked, IsLeast
    <3> QED BY <1>n, <2>2, <3>1 DEF IsLeast
  <2> QED BY <2>1, <2>2
<1>2. IsGreatest(T, tail1)
  <2>1. CASE succ = NoClaim
    BY <1>n, <1>s, <2>1 DEF IsGreatest
  <2>2. CASE succ # NoClaim
    <3>1. succ \in S /\ c < succ /\ tail \in S /\ \A y \in S : y <= tail
      BY <1>s, <2>2 DEF Linked, IsGreatest
    <3> QED BY <1>n, <2>2, <3>1 DEF IsGreatest
  <2> QED BY <2>1, <2>2
<1>3. IsLeast(After(T, c), next1[c]) /\ IsGreatest(Before(T, c), prev1[c])
  <2>1. After(T, c) = After(S, c) /\ Before(T, c) = Before(S, c)
    BY DEF After, Before
  <2> QED BY <2>1
<1>4. ASSUME NEW x \in S PROVE IsLeast(After(T, x), next1[x])
  <2>0. IsLeast(After(S, x), next[x])
    BY DEF Linked
  <2>1. CASE x = pred
    <3>1. next1[x] = c /\ x < c /\ \A y \in S : y > x => c <= y
      BY <1>p, <2>1 DEF NoClaim
    <3> QED BY <3>1 DEF IsLeast, After
  <2>2. CASE x # pred /\ x > c
    <3>1. After(T, x) = After(S, x) /\ next1[x] = next[x]
      BY <2>2 DEF After
    <3> QED BY <2>0, <3>1
  <2>3. CASE x # pred /\ x < c
    <3>a. x \in Nat /\ pred # NoClaim
      BY <1>n, <1>p, <2>3
    <3>b. pred \in S /\ pred \in Nat /\ pred < c /\ x <= pred
      BY <1>n, <1>p, <2>3, <3>a
    <3>1. pred \in S /\ x < pred /\ pred < c /\ next1[x] = next[x]
      BY <2>3, <3>a, <3>b
    <3>2. next[x] \in S /\ next[x] > x /\ next[x] <= pred
          /\ \A y \in S : y > x => next[x] <= y
      BY <2>0, <3>1 DEF IsLeast, After
    <3>c. next[x] \in Nat
      BY <1>n, <3>2
    <3>3. next[x] \in Nat /\ next[x] < c
      BY <3>b, <3>c, <3>2
    <3>4. next[x] \in After(T, x) /\ \A y \in After(T, x) : next[x] <= y
      BY <1>n, <3>2, <3>3 DEF After
    <3> QED BY <3>1, <3>4 DEF IsLeast
  <2> QED BY <2>1, <2>2, <2>3
<1>5. ASSUME NEW x \in S PROVE IsGreatest(Before(T, x), prev1[x])
  <2>0. IsGreatest(Before(S, x), prev[x])
    BY DEF Linked
  <2>1. CASE x = succ
    <3>1. prev1[x] = c /\ c < x /\ \A y \in S : y < x => y <= c
      BY <1>s, <2>1 DEF NoClaim
    <3> QED BY <3>1 DEF IsGreatest, Before
  <2>2. CASE x # succ /\ x < c
    <3>1. Before(T, x) = Before(S, x) /\ prev1[x] = prev[x]
      BY <2>2 DEF Before
    <3> QED BY <2>0, <3>1
  <2>3. CASE x # succ /\ x > c
    <3>a. x \in Nat /\ succ # NoClaim
      BY <1>n, <1>s, <2>3
    <3>b. succ \in S /\ succ \in Nat /\ c < succ /\ succ <= x
      BY <1>n, <1>s, <2>3, <3>a
    <3>1. succ \in S /\ succ < x /\ c < succ /\ prev1[x] = prev[x]
      BY <2>3, <3>a, <3>b
    <3>2. prev[x] \in S /\ prev[x] < x /\ succ <= prev[x]
          /\ \A y \in S : y < x => y <= prev[x]
      BY <2>0, <3>1 DEF IsGreatest, Before
    <3>c. prev[x] \in Nat
      BY <1>n, <3>2
    <3>3. prev[x] \in Nat /\ c < prev[x]
      BY <3>b, <3>c, <3>2
    <3>4. prev[x] \in Before(T, x) /\ \A y \in Before(T, x) : y <= prev[x]
      BY <1>n, <3>2, <3>3 DEF Before
    <3> QED BY <3>1, <3>4 DEF IsGreatest
  <2> QED BY <2>1, <2>2, <2>3
<1> QED BY <1>1, <1>2, <1>3, <1>4, <1>5 DEF Linked

-----------------------------------------------------------------------------
(***************************************************************************)
(* The books of the claims.  Beside what the properties say, the invariant *)
(* says that an unused claim account has no links, that accounts exist in  *)
(* the order of their creation, and that an edge continues the edge or the *)
(* genesis state it leaves.                                                *)
(***************************************************************************)
NextLink == [x \in Creds |-> claim[x].next_claim]
PrevLink == [x \in Creds |-> claim[x].previous_claim]

ListInv ==
  \A s \in SessionIds :
    /\ session[s].submitted_claim_count = Cardinality(Submitted(s))
    /\ Linked(Submitted(s), session[s].claim_head, session[s].claim_tail,
              NextLink, PrevLink)

\* The parent of e, and the balance that e continues.
Continues(e) ==
  LET t == Transition[e]
  IN  \/ /\ t.previous_state = t.session
         /\ t.previous_remaining = session[t.session].branch_spending_limit
      \/ FollowsEdge(e)

ExistInv ==
  /\ now \in Nat /\ now > 0
  /\ \A c \in Creds :
       IF claim[c].status = "None"
       THEN claim[c].next_claim = NoClaim /\ claim[c].previous_claim = NoClaim
       ELSE edge[EdgeOf(c)].exists
  /\ \A e \in StateHashes :
       edge[e].exists =>
         /\ session[SessionOf(e)].status # "None"
         /\ profile.exists
         /\ Continues(e)
         /\ Transition[e].new_remaining + Transition[e].amount
              = Transition[e].previous_remaining

WrapperInv ==
  \A e \in StateHashes :
    edge[e].exists =>
      /\ IsLeast(WrappersOf(e), edge[e].representative)
      /\ WrappersOf(e) # {}
      /\ edge[e].wrapper_count = Cardinality(WrappersOf(e))
      /\ \A c \in WrappersOf(e) :
           (claim[c].status = "Rejected") <=> (c # edge[e].representative)

Forked == {p \in States : Cardinality(Children(p)) >= 2}

ForkInv ==
  /\ \A p \in States : fork[p].branch_count = Cardinality(Children(p))
  /\ \A s \in SessionIds :
       session[s].authenticated_fork
         <=> \E p \in Forked : p = s \/ p \in EdgesOf(s)
  /\ IsFiniteSet(Forked)
  /\ profile.exists =>
       /\ profile.offline_access_enabled <=> Forked = {}
       /\ profile.conflict_count = Cardinality(Forked)
       /\ (profile.revoked_at = 0) <=> Forked = {}

ExposureInv ==
  \A s \in SessionIds :
    /\ session[s].aggregate_offline_exposure = TotalAmount(EdgesOf(s))
    /\ session[s].unique_edge_count = Cardinality(EdgesOf(s))
    /\ \A e \in EdgesOf(s) :
         /\ Branch[e] \subseteq EdgesOf(s)
         /\ TotalAmount(Branch[e]) + Transition[e].new_remaining
              = session[s].branch_spending_limit

ClaimsInv == ListInv /\ ExistInv /\ WrapperInv /\ ForkInv /\ ExposureInv

-----------------------------------------------------------------------------
(***************************************************************************)
(* Most steps do not touch what these books read.                          *)
(***************************************************************************)
SameClaim(x, y) ==
  /\ x.next_claim = y.next_claim /\ x.previous_claim = y.previous_claim
  /\ (x.status = "None") <=> (y.status = "None")
  /\ (x.status = "Rejected") <=> (y.status = "Rejected")

SameEdge(x, y) ==
  /\ x.exists = y.exists /\ x.representative = y.representative
  /\ x.wrapper_count = y.wrapper_count

SameSession(q, r) ==
  /\ q.claim_head = r.claim_head /\ q.claim_tail = r.claim_tail
  /\ q.submitted_claim_count = r.submitted_claim_count
  /\ q.authenticated_fork = r.authenticated_fork
  /\ q.aggregate_offline_exposure = r.aggregate_offline_exposure
  /\ q.unique_edge_count = r.unique_edge_count
  /\ q.branch_spending_limit = r.branch_spending_limit
  /\ q.collateral_coverage_cap = r.collateral_coverage_cap
  /\ q.issued_at = r.issued_at /\ q.expires_at = r.expires_at
  /\ q.claim_submission_deadline = r.claim_submission_deadline
  /\ (q.status = "None") <=> (r.status = "None")

SameProfile(x, y) ==
  /\ x.exists = y.exists
  /\ x.offline_access_enabled = y.offline_access_enabled
  /\ x.conflict_count = y.conflict_count
  /\ x.revoked_at = y.revoked_at

Quiet ==
  /\ now' \in Nat /\ now' >= now
  /\ \A c \in Creds : SameClaim(claim'[c], claim[c])
  /\ \A e \in StateHashes : SameEdge(edge'[e], edge[e])
  /\ \A s \in SessionIds : SameSession(session'[s], session[s])
  /\ SameProfile(profile', profile)
  /\ fork' = fork

LEMMA QuietSets ==
  ASSUME Quiet
  PROVE  /\ \A s \in SessionIds : Submitted(s)' = Submitted(s) /\ EdgesOf(s)' = EdgesOf(s)
         /\ \A p \in States : Children(p)' = Children(p)
         /\ \A e \in StateHashes : WrappersOf(e)' = WrappersOf(e)
         /\ Forked' = Forked
         /\ NextLink' = NextLink /\ PrevLink' = PrevLink
<1>1. \A s \in SessionIds : Submitted(s)' = Submitted(s) /\ EdgesOf(s)' = EdgesOf(s)
  BY DEF Quiet, SameClaim, SameEdge, Submitted, EdgesOf
<1>2. \A p \in States : Children(p)' = Children(p)
  BY DEF Quiet, SameEdge, Children
<1>3. \A e \in StateHashes : WrappersOf(e)' = WrappersOf(e)
  BY DEF Quiet, SameClaim, WrappersOf
<1>4. Forked' = Forked
  BY <1>2 DEF Forked
<1>5. NextLink' = NextLink /\ PrevLink' = PrevLink
  BY DEF Quiet, SameClaim, NextLink, PrevLink
<1> QED BY <1>1, <1>2, <1>3, <1>4, <1>5

LEMMA QuietKeeps ==
  ASSUME ClaimsInv, Quiet
  PROVE  ClaimsInv'
<1> USE QuietSets DEF ClaimsInv
<1>1. ListInv'
  BY DEF ListInv, Quiet, SameSession
<1>2. ExistInv'
  <2>1. now' \in Nat /\ now' > 0
    BY DEF ExistInv, Quiet
  <2>2. \A e \in StateHashes : edge[e].exists /\ Continues(e) => Continues(e)'
    BY MessageTypes DEF Continues, FollowsEdge, Quiet, SameSession, SameEdge
  <2>3. \A c \in Creds : EdgeOf(c) \in StateHashes
    BY MessageTypes
  <2>4. \A e \in StateHashes : SessionOf(e) \in SessionIds
    BY MessageTypes
  <2> QED BY <2>1, <2>2, <2>3, <2>4
          DEF ExistInv, Quiet, SameSession, SameEdge, SameClaim, SameProfile
<1>3. WrapperInv'
  <2>1. \A e \in StateHashes : \A c \in WrappersOf(e) :
          c \in Creds /\ (claim'[c].status = "Rejected" <=> claim[c].status = "Rejected")
    BY DEF Quiet, SameClaim, WrappersOf
  <2> QED BY <2>1 DEF WrapperInv, Quiet, SameEdge
<1>4. ForkInv'
  BY DEF ForkInv, Quiet, SameSession, SameProfile
<1>5. ExposureInv'
  BY DEF ExposureInv, Quiet, SameSession
<1> QED BY <1>1, <1>2, <1>3, <1>4, <1>5

-----------------------------------------------------------------------------
(***************************************************************************)
(* The quiet steps.                                                        *)
(***************************************************************************)
LEMMA RecordsSame ==
  /\ \A x : SameClaim(x, x) /\ SameEdge(x, x) /\ SameSession(x, x) /\ SameProfile(x, x)
  /\ \A q, r, x : SameSession(q, r) /\ SameSession(r, x) => SameSession(q, x)
BY DEF SameClaim, SameEdge, SameSession, SameProfile

LEMMA SessionUpdatesQuiet ==
  ASSUME NEW r \in OfflineSession
  PROVE  /\ SameSession([r EXCEPT !.authorized = TRUE], r)
         /\ r.status # "None" => SameSession(FrozenSession(r), r)
         /\ r.status # "None" => SameSession(CompletedAllocation(r), r)
         /\ SameSession([r EXCEPT !.classification_complete = TRUE], r)
         /\ \A e \in StateHashes, n \in Nat : SameSession(SessionWithClassified(r, e, n), r)
         /\ \A c \in Creds : SameSession(SessionWithScan(r, c), r)
         /\ \A c \in Creds, n \in Nat, v \in {"Valid", "Conflicting"} :
              SameSession(SessionWithAllocation(r, c, n, v), r)
         /\ \A st \in SessionStatus : r.status # "None" /\ st # "None" =>
              SameSession([r EXCEPT !.status = st], r)
         /\ \A m, n \in Nat :
              SameSession([r EXCEPT !.settled_amount = m, !.settled_edge_count = n], r)
<1> USE DEF SameSession, OfflineSession
<1>1. SameSession([r EXCEPT !.authorized = TRUE], r)
  OBVIOUS
<1>2. r.status # "None" => SameSession(FrozenSession(r), r)
  BY DEF FrozenSession
<1>3. r.status # "None" => SameSession(CompletedAllocation(r), r)
  BY DEF CompletedAllocation
<1>4. SameSession([r EXCEPT !.classification_complete = TRUE], r)
  OBVIOUS
<1>5. \A e \in StateHashes, n \in Nat : SameSession(SessionWithClassified(r, e, n), r)
  BY DEF SessionWithClassified
<1>6. \A c \in Creds : SameSession(SessionWithScan(r, c), r)
  BY DEF SessionWithScan
<1>7. \A c \in Creds, n \in Nat, v \in {"Valid", "Conflicting"} :
        SameSession(SessionWithAllocation(r, c, n, v), r)
  BY DEF SessionWithAllocation
<1>8. \A st \in SessionStatus : r.status # "None" /\ st # "None" =>
        SameSession([r EXCEPT !.status = st], r)
  OBVIOUS
<1>9. \A m, n \in Nat :
        SameSession([r EXCEPT !.settled_amount = m, !.settled_edge_count = n], r)
  OBVIOUS
<1> QED BY <1>1, <1>2, <1>3, <1>4, <1>5, <1>6, <1>7, <1>8, <1>9

LEMMA OneSessionWritten ==
  ASSUME TypeOK, NEW s \in SessionIds, NEW r, session' = [session EXCEPT ![s] = r],
         SameSession(r, session[s])
  PROVE  \A x \in SessionIds : SameSession(session'[x], session[x])
BY RecordsSame DEF TypeOK

LEMMA CompleteAllocationQuiet ==
  ASSUME TypeOK, NEW s \in SessionIds, NEW r \in OfflineSession,
         SameSession(r, session[s]), r.status # "None", CompleteAllocation(s, r)
  PROVE  \A x \in SessionIds : SameSession(session'[x], session[x])
<1>1. SameSession(CompletedAllocation(r), session[s])
  BY SessionUpdatesQuiet, RecordsSame
<1> QED BY <1>1, OneSessionWritten DEF CompleteAllocation

LEMMA FinishScanQuiet ==
  ASSUME TypeOK, NEW s \in SessionIds, NEW r \in OfflineSession,
         SameSession(r, session[s]), r.status # "None", FinishScan(s, r)
  PROVE  \A x \in SessionIds : SameSession(session'[x], session[x])
BY CompleteAllocationQuiet, OneSessionWritten DEF FinishScan

LEMMA CloseSessionStateQuiet ==
  ASSUME TypeOK, NEW s \in SessionIds, NEW r \in OfflineSession,
         SameSession(r, session[s]), r.status # "None", CloseSessionState(s, r)
  PROVE  /\ \A x \in SessionIds : SameSession(session'[x], session[x])
         /\ SameProfile(profile', profile)
<1>1. SameSession([r EXCEPT !.status = "Closed"], r)
  BY SessionUpdatesQuiet DEF SessionStatus
<1>2. SameSession([r EXCEPT !.status = "Closed"], session[s])
  BY <1>1, RecordsSame
<1>3. \A x \in SessionIds : SameSession(session'[x], session[x])
  BY <1>2, OneSessionWritten DEF CloseSessionState
<1>4. SameProfile(profile', profile)
  BY DEF CloseSessionState, TypeOK, UserProfile, SameProfile
<1> QED BY <1>3, <1>4

LEMMA FinishSettlementQuiet ==
  ASSUME TypeOK, NEW s \in SessionIds, NEW r \in OfflineSession,
         SameSession(r, session[s]), r.status # "None", FinishSettlement(s, r)
  PROVE  /\ \A x \in SessionIds : SameSession(session'[x], session[x])
         /\ SameProfile(profile', profile)
<1>1. CASE CloseSessionState(s, r)
  BY <1>1, CloseSessionStateQuiet
<1>2. CASE session' = [session EXCEPT ![s] = [r EXCEPT !.status = "Settled"]]
           /\ UNCHANGED profile
  <2>1. SameSession([r EXCEPT !.status = "Settled"], r)
    BY SessionUpdatesQuiet DEF SessionStatus
  <2>2. SameSession([r EXCEPT !.status = "Settled"], session[s])
    BY <2>1, RecordsSame
  <2> QED BY <1>2, <2>2, OneSessionWritten, RecordsSame
<1>3. CASE session' = [session EXCEPT ![s] = r] /\ UNCHANGED profile
  BY <1>3, OneSessionWritten, RecordsSame
<1> QED BY <1>1, <1>2, <1>3 DEF FinishSettlement

\* What the finalization instructions write.
LEMMA ClassifyEdgeWrites ==
  ASSUME TypeOK, NEW e \in StateHashes, ClassifyEdge(e)
  PROVE  \E base \in Nat, v \in BOOLEAN :
           /\ base = BaseAllocation(Transition[e].amount,
                                    session[SessionOf(e)].frozen_exposure,
                                    session[SessionOf(e)].collateral_coverage_cap)
           /\ v = (\/ InheritsConflict(e)
                   \/ fork[Transition[e].previous_state].branch_count >= 2)
           /\ edge' = [edge EXCEPT ![e] = [edge[e] EXCEPT !.classified = TRUE,
                                                         !.conflicting = v,
                                                         !.allocated_amount = base]]
           /\ session' = [session EXCEPT ![SessionOf(e)] =
                            SessionWithClassified(session[SessionOf(e)], e, base)]
<1> DEFINE s == SessionOf(e)
           r == session[s]
           base == BaseAllocation(Transition[e].amount, r.frozen_exposure,
                                  r.collateral_coverage_cap)
           v == \/ InheritsConflict(e)
                \/ fork[Transition[e].previous_state].branch_count >= 2
<1>1. r \in OfflineSession /\ Transition[e].amount \in Nat
  BY MessageTypes DEF TypeOK
<1>2. r.frozen_exposure \in Nat /\ r.collateral_coverage_cap \in Nat
  BY <1>1, SessionFieldTypes
<1>3. base \in Nat
  BY <1>1, <1>2, BaseAllocationType DEF ClassifyEdge
<1>4. session' = [session EXCEPT ![s] = SessionWithClassified(r, e, base)]
  BY DEF ClassifyEdge
<1>5. edge' = [edge EXCEPT ![e] = [edge[e] EXCEPT !.classified = TRUE,
                                                  !.conflicting = v,
                                                  !.allocated_amount = base]]
  BY DEF ClassifyEdge, TypeOK
<1>6. v \in BOOLEAN
  OBVIOUS
<1> HIDE DEF base, v
<1> QED BY <1>3, <1>4, <1>5, <1>6 DEF base, v

LEMMA AllocateRepresentativeWrites ==
  ASSUME TypeOK, NEW c \in Creds, AllocateRepresentative(c)
  PROVE  \E allocation \in Nat, verdict \in {"Valid", "Conflicting"} :
           /\ allocation = edge[EdgeOf(c)].allocated_amount
                             + Dust(session[SessionOf(EdgeOf(c))])
           /\ edge' = [edge EXCEPT ![EdgeOf(c)] =
                         [edge[EdgeOf(c)] EXCEPT !.allocated_amount = allocation,
                                                 !.allocation_finalized = TRUE]]
           /\ claim' = [claim EXCEPT ![c] =
                [claim[c] EXCEPT
                   !.allocated_amount = allocation,
                   !.status = IF allocation = 0 THEN "Settled" ELSE verdict,
                   !.allocation_processed = TRUE]]
           /\ FinishScan(SessionOf(EdgeOf(c)),
                SessionWithScan(
                  SessionWithAllocation(session[SessionOf(EdgeOf(c))], c,
                                        allocation, verdict), c))
<1> DEFINE e == EdgeOf(c)
           s == SessionOf(e)
           r == session[s]
           allocation == edge[e].allocated_amount + Dust(r)
           verdict == IF edge[e].conflicting THEN "Conflicting" ELSE "Valid"
<1>1. e \in StateHashes /\ s \in SessionIds
  BY MessageTypes
<1>2. allocation \in Nat
  <2>1. edge[e].allocated_amount \in Nat
    BY <1>1, EdgeFieldTypes DEF TypeOK
  <2>2. Dust(r) \in {0, 1}
    BY DEF Dust
  <2> QED BY <2>1, <2>2
<1>3. verdict \in {"Valid", "Conflicting"}
  OBVIOUS
<1>4. FinishScan(s, SessionWithScan(
                      SessionWithAllocation(r, c, allocation, verdict), c))
  BY DEF AllocateRepresentative
<1>5. edge' = [edge EXCEPT ![e] = [edge[e] EXCEPT !.allocated_amount = allocation,
                                                  !.allocation_finalized = TRUE]]
  BY <1>1 DEF AllocateRepresentative, TypeOK
<1>6. claim' = [claim EXCEPT ![c] =
                  [claim[c] EXCEPT
                     !.allocated_amount = allocation,
                     !.status = IF allocation = 0 THEN "Settled" ELSE verdict,
                     !.allocation_processed = TRUE]]
  BY DEF AllocateRepresentative, AllocatedStatus, TypeOK
<1> HIDE DEF allocation, verdict
<1> QED BY <1>2, <1>3, <1>4, <1>5, <1>6 DEF allocation

LEMMA SkipDuplicateWrites ==
  ASSUME TypeOK, NEW c \in Creds, SkipDuplicate(c)
  PROVE  /\ edge' = edge
         /\ claim' = [claim EXCEPT ![c] = [claim[c] EXCEPT !.allocation_processed = TRUE]]
         /\ FinishScan(SessionOf(EdgeOf(c)),
                       SessionWithScan(session[SessionOf(EdgeOf(c))], c))
BY DEF SkipDuplicate, TypeOK

LEMMA SettleClaimWrites ==
  ASSUME TypeOK, NEW c \in Creds, SettleClaim(c)
  PROVE  \E r \in OfflineSession :
           /\ claim[c].allocated_amount \in Nat
           /\ claim' = [claim EXCEPT ![c] =
                         [claim[c] EXCEPT !.settled_amount = claim[c].allocated_amount,
                                          !.status = "Settled"]]
           /\ edge' = [edge EXCEPT ![EdgeOf(c)] =
                         [edge[EdgeOf(c)] EXCEPT
                            !.settled_amount = claim[c].allocated_amount]]
           /\ r = [session[SessionOf(EdgeOf(c))] EXCEPT
                     !.settled_amount = session[SessionOf(EdgeOf(c))].settled_amount
                                          + claim[c].allocated_amount,
                     !.settled_edge_count =
                        session[SessionOf(EdgeOf(c))].settled_edge_count + 1]
           /\ SameSession(r, session[SessionOf(EdgeOf(c))])
           /\ r.status = session[SessionOf(EdgeOf(c))].status
           /\ FinishSettlement(SessionOf(EdgeOf(c)), r)
<1> DEFINE e == EdgeOf(c)
           s == SessionOf(e)
           amount == claim[c].allocated_amount
           a == session[s].settled_amount + amount
           n == session[s].settled_edge_count + 1
           r == [session[s] EXCEPT !.settled_amount = a, !.settled_edge_count = n]
<1>1. e \in StateHashes /\ s \in SessionIds
  BY MessageTypes
<1>2. amount \in Nat
  BY ClaimFieldTypes DEF TypeOK
<1>3. session[s] \in OfflineSession
  BY <1>1 DEF TypeOK
<1>4. a \in Nat /\ n \in Nat
  BY <1>2, <1>3, SessionFieldTypes
<1>5. r \in OfflineSession /\ SameSession(r, session[s]) /\ r.status = session[s].status
  <2> HIDE DEF a, n
  <2>1. r \in OfflineSession
    BY <1>3, <1>4, SettledUpdateType
  <2>2. SameSession(r, session[s])
    BY <1>3, <1>4, SessionUpdatesQuiet
  <2>3. r.status = session[s].status
    BY <1>3 DEF OfflineSession
  <2> QED BY <2>1, <2>2, <2>3
<1>6. FinishSettlement(s, r)
  BY DEF SettleClaim
<1>7. claim' = [claim EXCEPT ![c] =
                  [claim[c] EXCEPT !.settled_amount = amount, !.status = "Settled"]]
  BY DEF SettleClaim, TypeOK
<1>8. edge' = [edge EXCEPT ![e] = [edge[e] EXCEPT !.settled_amount = amount]]
  BY <1>1 DEF SettleClaim, TypeOK
<1> HIDE DEF r
<1> QED BY <1>2, <1>5, <1>6, <1>7, <1>8 DEF r

LEMMA BeginFinalizationWrites ==
  ASSUME TypeOK, NEW s \in SessionIds, BeginFinalization(s)
  PROVE  \E r \in OfflineSession :
           /\ r = FrozenSession(session[s]) /\ r.status = "Reconciling"
           /\ SameSession(r, session[s])
           /\ \/ session' = [session EXCEPT ![s] = r] /\ UNCHANGED vault
              \/ /\ r.frozen_edge_count = 0
                 /\ CompleteAllocation(s, [r EXCEPT !.classification_complete = TRUE])
                 /\ [r EXCEPT !.classification_complete = TRUE] \in OfflineSession
                 /\ SameSession([r EXCEPT !.classification_complete = TRUE], session[s])
<1> DEFINE r == FrozenSession(session[s])
<1>1. session[s] \in OfflineSession /\ session[s].status # "None"
  BY DEF TypeOK, BeginFinalization
<1>2. r \in OfflineSession
  BY <1>1, FrozenSessionType
<1>3. r.status = "Reconciling"
  BY <1>1 DEF FrozenSession, OfflineSession
<1>4. SameSession(r, session[s])
  BY <1>1, SessionUpdatesQuiet
<1>5. \/ session' = [session EXCEPT ![s] = r] /\ UNCHANGED vault
      \/ /\ r.frozen_edge_count = 0
         /\ CompleteAllocation(s, [r EXCEPT !.classification_complete = TRUE])
  BY DEF BeginFinalization
<1> HIDE DEF r
<1>6. [r EXCEPT !.classification_complete = TRUE] \in OfflineSession
  BY <1>2 DEF OfflineSession
<1>7. SameSession([r EXCEPT !.classification_complete = TRUE], session[s])
  BY <1>2, <1>4, SessionUpdatesQuiet, RecordsSame
<1> QED BY <1>2, <1>3, <1>4, <1>5, <1>6, <1>7 DEF r

LEMMA ClassifyEdgeQuiet ==
  ASSUME TypeOK, NEW e \in StateHashes, ClassifyEdge(e)
  PROVE  Quiet
<1> DEFINE s == SessionOf(e)
<1>1. s \in SessionIds /\ session[s] \in OfflineSession
  BY MessageTypes DEF TypeOK
<1>2. PICK base \in Nat, v \in BOOLEAN :
        /\ edge' = [edge EXCEPT ![e] = [edge[e] EXCEPT !.classified = TRUE,
                                                       !.conflicting = v,
                                                       !.allocated_amount = base]]
        /\ session' = [session EXCEPT ![s] =
                         SessionWithClassified(session[s], e, base)]
  BY ClassifyEdgeWrites
<1>3. \A x \in SessionIds : SameSession(session'[x], session[x])
  BY <1>1, <1>2, SessionUpdatesQuiet, OneSessionWritten
<1>4. \A x \in StateHashes : SameEdge(edge'[x], edge[x])
  BY <1>2 DEF TypeOK, StateEdgeRecord, SameEdge
<1> QED BY <1>3, <1>4, RecordsSame DEF Quiet, ClassifyEdge, TypeOK

LEMMA AllocateNextClaimQuiet ==
  ASSUME TypeOK, NEW c \in Creds, AllocateNextClaim(c)
  PROVE  Quiet
<1> DEFINE e == EdgeOf(c)
           s == SessionOf(e)
<1>1. e \in StateHashes /\ s \in SessionIds /\ session[s] \in OfflineSession
      /\ session[s].status # "None"
  BY MessageTypes DEF TypeOK, AllocateNextClaim
<1>2. CASE AllocateRepresentative(c)
  <2>1. PICK a \in Nat, v \in {"Valid", "Conflicting"} :
          /\ edge' = [edge EXCEPT ![e] = [edge[e] EXCEPT !.allocated_amount = a,
                                                         !.allocation_finalized = TRUE]]
          /\ claim' = [claim EXCEPT ![c] =
               [claim[c] EXCEPT !.allocated_amount = a,
                                !.status = IF a = 0 THEN "Settled" ELSE v,
                                !.allocation_processed = TRUE]]
          /\ FinishScan(s, SessionWithScan(
                             SessionWithAllocation(session[s], c, a, v), c))
    BY <1>2, AllocateRepresentativeWrites
  <2> DEFINE r == SessionWithAllocation(session[s], c, a, v)
  <2>2. r \in OfflineSession /\ SameSession(r, session[s])
    BY <1>1, SessionWithAllocationType, SessionUpdatesQuiet
  <2> HIDE DEF r
  <2> DEFINE q == SessionWithScan(r, c)
  <2>3. q \in OfflineSession /\ SameSession(q, session[s])
    <3>1. q \in OfflineSession
      BY <2>2, SessionWithScanType DEF TypeOK
    <3>2. SameSession(q, r)
      BY <2>2, SessionUpdatesQuiet
    <3> QED BY <2>2, <3>1, <3>2, RecordsSame
  <2>4. FinishScan(s, q)
    BY <2>1 DEF r
  <2> HIDE DEF q
  <2>5. \A x \in SessionIds : SameSession(session'[x], session[x])
    BY <1>1, <2>3, <2>4, FinishScanQuiet DEF SameSession
  <2>6. \A x \in StateHashes : SameEdge(edge'[x], edge[x])
    BY <1>1, <2>1 DEF TypeOK, StateEdgeRecord, SameEdge
  <2>7. claim[c].status = "Submitted"
    BY <1>2 DEF AllocateRepresentative
  <2>8. \A x \in Creds : SameClaim(claim'[x], claim[x])
    BY <2>1, <2>7 DEF TypeOK, Claim, SameClaim
  <2> QED BY <2>5, <2>6, <2>8, RecordsSame DEF Quiet, AllocateNextClaim, TypeOK
<1>3. CASE SkipDuplicate(c)
  <2> DEFINE q == SessionWithScan(session[s], c)
  <2>0. now' \in Nat /\ now' >= now /\ SameProfile(profile', profile) /\ fork' = fork
    BY RecordsSame DEF AllocateNextClaim, TypeOK
  <2>1. /\ edge' = edge
        /\ claim' = [claim EXCEPT ![c] = [claim[c] EXCEPT !.allocation_processed = TRUE]]
        /\ FinishScan(s, q)
    BY <1>3, SkipDuplicateWrites
  <2>2. q \in OfflineSession /\ SameSession(q, session[s])
    BY <1>1, SessionWithScanType, SessionUpdatesQuiet DEF TypeOK
  <2> HIDE DEF q
  <2>3. \A x \in SessionIds : SameSession(session'[x], session[x])
    BY <1>1, <2>1, <2>2, FinishScanQuiet DEF SameSession
  <2>4. \A x \in Creds : SameClaim(claim'[x], claim[x])
    BY <2>1 DEF TypeOK, Claim, SameClaim
  <2>5. \A x \in StateHashes : SameEdge(edge'[x], edge[x])
    BY <2>1, RecordsSame
  <2> QED BY <2>0, <2>3, <2>4, <2>5 DEF Quiet
<1> QED BY <1>2, <1>3 DEF AllocateNextClaim

LEMMA SettleClaimQuiet ==
  ASSUME TypeOK, NEW c \in Creds, SettleClaim(c)
  PROVE  Quiet
<1> DEFINE e == EdgeOf(c)
           s == SessionOf(e)
<1>1. e \in StateHashes /\ s \in SessionIds /\ session[s] \in OfflineSession
      /\ session[s].status # "None"
  BY MessageTypes DEF TypeOK, SettleClaim
<1>2. PICK r \in OfflineSession :
        /\ claim[c].allocated_amount \in Nat
        /\ claim' = [claim EXCEPT ![c] =
                      [claim[c] EXCEPT !.settled_amount = claim[c].allocated_amount,
                                       !.status = "Settled"]]
        /\ edge' = [edge EXCEPT ![e] =
                      [edge[e] EXCEPT !.settled_amount = claim[c].allocated_amount]]
        /\ SameSession(r, session[s])
        /\ r.status = session[s].status
        /\ FinishSettlement(s, r)
  BY SettleClaimWrites
<1>3. /\ \A x \in SessionIds : SameSession(session'[x], session[x])
      /\ SameProfile(profile', profile)
  BY <1>1, <1>2, FinishSettlementQuiet
<1>4. \A x \in StateHashes : SameEdge(edge'[x], edge[x])
  BY <1>1, <1>2 DEF TypeOK, StateEdgeRecord, SameEdge
<1>5. claim[c].status \in {"Valid", "Conflicting"}
  BY DEF SettleClaim, Payable
<1>6. \A x \in Creds : SameClaim(claim'[x], claim[x])
  BY <1>2, <1>5 DEF TypeOK, Claim, SameClaim
<1> QED BY <1>3, <1>4, <1>6, RecordsSame DEF Quiet, SettleClaim, TypeOK

LEMMA BeginFinalizationQuiet ==
  ASSUME TypeOK, NEW s \in SessionIds, BeginFinalization(s)
  PROVE  Quiet
<1>1. PICK r \in OfflineSession :
        /\ r.status = "Reconciling"
        /\ SameSession(r, session[s])
        /\ \/ session' = [session EXCEPT ![s] = r]
           \/ /\ CompleteAllocation(s, [r EXCEPT !.classification_complete = TRUE])
              /\ [r EXCEPT !.classification_complete = TRUE] \in OfflineSession
              /\ SameSession([r EXCEPT !.classification_complete = TRUE], session[s])
  BY BeginFinalizationWrites
<1>2. [r EXCEPT !.classification_complete = TRUE].status # "None"
  BY <1>1 DEF OfflineSession
<1>3. \A x \in SessionIds : SameSession(session'[x], session[x])
  BY <1>1, <1>2, CompleteAllocationQuiet, OneSessionWritten
<1> QED BY <1>3, RecordsSame DEF Quiet, BeginFinalization, TypeOK, claimVars

LEMMA CloseSessionQuiet ==
  ASSUME TypeOK, NEW s \in SessionIds, CloseSession(s)
  PROVE  Quiet
<1>1. session[s] \in OfflineSession /\ session[s].status # "None"
      /\ SameSession(session[s], session[s])
  BY RecordsSame DEF TypeOK, CloseSession
<1>2. /\ \A x \in SessionIds : SameSession(session'[x], session[x])
      /\ SameProfile(profile', profile)
  BY <1>1, CloseSessionStateQuiet DEF CloseSession
<1>3. now' = now /\ claim' = claim /\ edge' = edge /\ fork' = fork /\ now \in Nat
  BY DEF CloseSession, TypeOK, claimVars
<1> QED BY <1>2, <1>3, RecordsSame DEF Quiet

LEMMA RegisterQuiet ==
  ASSUME TypeOK, NEW s \in SessionIds, RegisterDeviceAuthorization(s)
  PROVE  Quiet
<1>1. session' = [session EXCEPT ![s] = [session[s] EXCEPT !.authorized = TRUE]]
  BY DEF RegisterDeviceAuthorization, TypeOK
<1>2. SameSession([session[s] EXCEPT !.authorized = TRUE], session[s])
  BY SessionUpdatesQuiet DEF TypeOK
<1>3. \A x \in SessionIds : SameSession(session'[x], session[x])
  BY <1>1, <1>2, OneSessionWritten
<1>4. /\ now' \in Nat /\ now' >= now
      /\ profile' = profile /\ fork' = fork /\ claim' = claim /\ edge' = edge
  BY DEF RegisterDeviceAuthorization, TypeOK, claimVars
<1> QED BY <1>3, <1>4, RecordsSame DEF Quiet

-----------------------------------------------------------------------------
(***************************************************************************)
(* submit_claim and the claim list.                                        *)
(***************************************************************************)
LEMMA SetsFinite ==
  /\ \A s : /\ IsFiniteSet(Submitted(s)) /\ Cardinality(Submitted(s)) \in Nat
            /\ IsFiniteSet(EdgesOf(s)) /\ Cardinality(EdgesOf(s)) \in Nat
            /\ Submitted(s) \subseteq Nat /\ 0 \notin Submitted(s)
  /\ \A p : IsFiniteSet(Children(p)) /\ Cardinality(Children(p)) \in Nat
  /\ \A e : /\ IsFiniteSet(WrappersOf(e)) /\ Cardinality(WrappersOf(e)) \in Nat
            /\ WrappersOf(e) \subseteq Nat /\ 0 \notin WrappersOf(e)
<1>1. \A T : T \subseteq Creds => /\ IsFiniteSet(T) /\ Cardinality(T) \in Nat
                                  /\ T \subseteq Nat /\ 0 \notin T
  BY SetAssumption, FS_Subset, FS_CardinalityType
<1>2. \A T : T \subseteq StateHashes => IsFiniteSet(T) /\ Cardinality(T) \in Nat
  BY SetAssumption, FS_Subset, FS_CardinalityType
<1>3. /\ \A s : Submitted(s) \subseteq Creds /\ EdgesOf(s) \subseteq StateHashes
      /\ \A p : Children(p) \subseteq StateHashes
      /\ \A e : WrappersOf(e) \subseteq Creds
  BY DEF Submitted, EdgesOf, Children, WrappersOf
<1> QED BY <1>1, <1>2, <1>3

\* The witnesses that can_insert_between accepts are the neighbours of c.
LEMMA InsertionPoint ==
  ASSUME TypeOK, ListInv, ExistInv, NEW s \in SessionIds, NEW c \in Creds,
         NEW pred \in Creds \cup {NoClaim}, NEW succ \in Creds \cup {NoClaim},
         CanInsertBetween(s, c, pred, succ)
  PROVE  /\ IsGreatest(Before(Submitted(s), c), pred)
         /\ IsLeast(After(Submitted(s), c), succ)
<1> DEFINE S == Submitted(s)
           r == session[s]
<1>1. /\ S \subseteq Nat /\ 0 \notin S /\ IsFiniteSet(S)
      /\ c \in Nat
      /\ r.submitted_claim_count = Cardinality(S)
      /\ IsLeast(S, r.claim_head) /\ IsGreatest(S, r.claim_tail)
      /\ \A x \in S : /\ IsLeast(After(S, x), claim[x].next_claim)
                      /\ IsGreatest(Before(S, x), claim[x].previous_claim)
  BY SetsFinite, SetAssumption DEF ListInv, Linked, NextLink, PrevLink, Submitted
<1>2. ASSUME NEW x \in Creds, SessionOf(EdgeOf(x)) = s,
             claim[x].next_claim # NoClaim \/ claim[x].previous_claim # NoClaim
      PROVE  x \in S
  BY <1>2 DEF ExistInv, Submitted
<1>3. \/ r.submitted_claim_count = 0 /\ pred = NoClaim /\ succ = NoClaim
      \/ pred = NoClaim /\ succ # NoClaim /\ succ = r.claim_head /\ c < succ
      \/ pred # NoClaim /\ succ = NoClaim /\ pred = r.claim_tail /\ pred < c
      \/ /\ pred # NoClaim /\ succ # NoClaim
         /\ SessionOf(EdgeOf(pred)) = s /\ SessionOf(EdgeOf(succ)) = s
         /\ claim[pred].next_claim = succ /\ claim[succ].previous_claim = pred
         /\ pred < c /\ c < succ
  BY DEF CanInsertBetween
<1> HIDE DEF S
<1>n. \A y \in S : y \in Nat
  BY <1>1
<1>4. CASE r.submitted_claim_count = 0 /\ pred = NoClaim /\ succ = NoClaim
  <2>1. S = {}
    BY <1>1, <1>4, FS_EmptySet
  <2> QED BY <1>4, <2>1 DEF IsLeast, IsGreatest, After, Before, S
<1>5. CASE pred = NoClaim /\ succ # NoClaim /\ succ = r.claim_head /\ c < succ
  <2>1. succ \in S /\ \A y \in S : succ <= y
    BY <1>1, <1>5 DEF IsLeast
  <2>a. succ \in Nat /\ c \in Nat
    BY <1>1, <1>n, <2>1
  <2>2. \A y \in S : c < y /\ ~(y < c)
    <3>1. \A y \in S : y \in Nat /\ succ <= y
      BY <1>n, <2>1
    <3>2. \A y \in Nat : succ <= y => c < y /\ ~(y < c)
      BY <1>5, <2>a
    <3> QED BY <3>1, <3>2
  <2>3. Before(S, c) = {} /\ After(S, c) = S
    BY <2>2 DEF Before, After
  <2> QED BY <1>5, <2>1, <2>3 DEF IsLeast, IsGreatest, S
<1>6. CASE pred # NoClaim /\ succ = NoClaim /\ pred = r.claim_tail /\ pred < c
  <2>1. pred \in S /\ \A y \in S : y <= pred
    BY <1>1, <1>6 DEF IsGreatest
  <2>a. pred \in Nat /\ c \in Nat
    BY <1>1, <1>n, <2>1
  <2>2. \A y \in S : y < c /\ ~(y > c)
    <3>1. \A y \in S : y \in Nat /\ y <= pred
      BY <1>n, <2>1
    <3>2. \A y \in Nat : y <= pred => y < c /\ ~(y > c)
      BY <1>6, <2>a
    <3> QED BY <3>1, <3>2
  <2>3. After(S, c) = {} /\ Before(S, c) = S
    BY <2>2 DEF Before, After
  <2> QED BY <1>6, <2>1, <2>3 DEF IsLeast, IsGreatest, S
<1>7. CASE /\ pred # NoClaim /\ succ # NoClaim
           /\ SessionOf(EdgeOf(pred)) = s /\ SessionOf(EdgeOf(succ)) = s
           /\ claim[pred].next_claim = succ /\ claim[succ].previous_claim = pred
           /\ pred < c /\ c < succ
  <2>1. pred \in S /\ succ \in S
    BY <1>2, <1>7
  <2>2. \A y \in S : y > pred => succ <= y
    BY <1>1, <1>7, <2>1 DEF IsLeast, After
  <2>a. pred \in Nat /\ succ \in Nat /\ c \in Nat
    BY <1>1, <1>n, <2>1
  <2>3. \A y \in S : (y < c => y <= pred) /\ (y > c => succ <= y)
    BY <1>7, <1>n, <2>2, <2>a
  <2> QED BY <1>7, <2>1, <2>3 DEF IsLeast, IsGreatest, After, Before, S
<1> QED BY <1>3, <1>4, <1>5, <1>6, <1>7

\* The list after claim c of session s was linked between pred and succ.
ListWritten(s, c, pred, succ) ==
  /\ \A x \in Creds :
       /\ claim'[x].next_claim = IF x = c THEN succ
                                 ELSE IF x = pred THEN c ELSE claim[x].next_claim
       /\ claim'[x].previous_claim = IF x = c THEN pred
                                     ELSE IF x = succ THEN c ELSE claim[x].previous_claim
       /\ (claim'[x].status = "None") <=> (x # c /\ claim[x].status = "None")
  /\ \A x \in SessionIds :
       /\ session'[x].claim_head = IF x = s /\ pred = NoClaim THEN c
                                   ELSE session[x].claim_head
       /\ session'[x].claim_tail = IF x = s /\ succ = NoClaim THEN c
                                   ELSE session[x].claim_tail
       /\ session'[x].submitted_claim_count =
            IF x = s THEN session[x].submitted_claim_count + 1
            ELSE session[x].submitted_claim_count

LEMMA ListStep ==
  ASSUME TypeOK, ListInv, ExistInv, NEW c \in Creds, claim[c].status = "None",
         NEW pred \in Creds \cup {NoClaim}, NEW succ \in Creds \cup {NoClaim},
         CanInsertBetween(SessionOf(EdgeOf(c)), c, pred, succ),
         ListWritten(SessionOf(EdgeOf(c)), c, pred, succ)
  PROVE  ListInv'
<1> DEFINE s == SessionOf(EdgeOf(c))
           S == Submitted(s)
<1>1. s \in SessionIds /\ c \in Nat /\ c # 0
  BY MessageTypes, SetAssumption
<1>2. IsGreatest(Before(S, c), pred) /\ IsLeast(After(S, c), succ)
  BY <1>1, InsertionPoint
<1>3. S \subseteq Nat /\ 0 \notin S /\ IsFiniteSet(S) /\ c \notin S /\ S \subseteq Creds
  BY SetsFinite DEF Submitted
<1>4. Submitted(s)' = S \cup {c}
  BY DEF Submitted, ListWritten
<1>5. pred \in S \cup {NoClaim} /\ succ \in S \cup {NoClaim}
  BY <1>2 DEF IsGreatest, IsLeast, Before, After
<1>6. /\ NextLink'[c] = succ /\ PrevLink'[c] = pred
      /\ \A x \in S : /\ NextLink'[x] = IF x = pred THEN c ELSE NextLink[x]
                      /\ PrevLink'[x] = IF x = succ THEN c ELSE PrevLink[x]
  BY <1>3 DEF NextLink, PrevLink, ListWritten
<1>7. Linked(S, session[s].claim_head, session[s].claim_tail, NextLink, PrevLink)
      /\ session[s].submitted_claim_count = Cardinality(S)
  BY <1>1 DEF ListInv
<1>8. Linked(S \cup {c}, IF pred = NoClaim THEN c ELSE session[s].claim_head,
             IF succ = NoClaim THEN c ELSE session[s].claim_tail, NextLink', PrevLink')
  <2> HIDE DEF S, s
  <2>1. Insertion(S, c, pred, succ, session[s].claim_head, session[s].claim_tail,
                  NextLink, PrevLink,
                  IF pred = NoClaim THEN c ELSE session[s].claim_head,
                  IF succ = NoClaim THEN c ELSE session[s].claim_tail,
                  NextLink', PrevLink')
    BY <1>1, <1>2, <1>3, <1>6, <1>7 DEF Insertion
  <2> QED BY <2>1, LinkBetween
<1>9. Cardinality(S \cup {c}) = Cardinality(S) + 1
  BY <1>3, FS_AddElement
<1>10. /\ session'[s].submitted_claim_count = Cardinality(Submitted(s)')
       /\ Linked(Submitted(s)', session'[s].claim_head, session'[s].claim_tail,
                 NextLink', PrevLink')
  BY <1>1, <1>4, <1>7, <1>8, <1>9 DEF ListWritten
<1>11. ASSUME NEW x \in SessionIds, x # s
       PROVE  /\ session'[x].submitted_claim_count = Cardinality(Submitted(x)')
              /\ Linked(Submitted(x)', session'[x].claim_head, session'[x].claim_tail,
                        NextLink', PrevLink')
  <2>1. Submitted(x)' = Submitted(x)
    BY <1>11 DEF Submitted, ListWritten
  <2>2. \A y \in Submitted(x) : y \in Creds /\ y # c /\ y # pred /\ y # succ
    BY <1>5, <1>11, SetAssumption DEF Submitted, NoClaim
  <2>3. \A y \in Submitted(x) : NextLink'[y] = NextLink[y] /\ PrevLink'[y] = PrevLink[y]
    BY <2>2 DEF NextLink, PrevLink, ListWritten
  <2>4. /\ session[x].submitted_claim_count = Cardinality(Submitted(x))
        /\ Linked(Submitted(x), session[x].claim_head, session[x].claim_tail,
                  NextLink, PrevLink)
    BY DEF ListInv
  <2> QED BY <1>11, <2>1, <2>3, <2>4 DEF Linked, ListWritten
<1> QED BY <1>10, <1>11 DEF ListInv

-----------------------------------------------------------------------------
(***************************************************************************)
(* What submit_claim writes.                                               *)
(***************************************************************************)
LEMMA SessionWithClaimFields ==
  ASSUME NEW r \in OfflineSession, NEW c, NEW pred, NEW succ
  PROVE  LET q == SessionWithClaim(r, c, pred, succ)
         IN  /\ q.claim_head = IF pred = NoClaim THEN c ELSE r.claim_head
             /\ q.claim_tail = IF succ = NoClaim THEN c ELSE r.claim_tail
             /\ q.submitted_claim_count = r.submitted_claim_count + 1
             /\ (q.status = "None") <=> (r.status = "None")
             /\ q.authenticated_fork = r.authenticated_fork
             /\ q.aggregate_offline_exposure = r.aggregate_offline_exposure
             /\ q.unique_edge_count = r.unique_edge_count
             /\ q.branch_spending_limit = r.branch_spending_limit
BY DEF SessionWithClaim, OfflineSession

LEMMA SessionWithEdgeFields ==
  ASSUME NEW r \in OfflineSession, NEW e, NEW b \in BOOLEAN
  PROVE  LET q == SessionWithEdge(r, e, b)
         IN  /\ q.claim_head = r.claim_head
             /\ q.claim_tail = r.claim_tail
             /\ q.submitted_claim_count = r.submitted_claim_count
             /\ r.status # "None" => q.status # "None"
             /\ q.authenticated_fork <=> (r.authenticated_fork \/ b)
             /\ q.aggregate_offline_exposure
                  = r.aggregate_offline_exposure + Transition[e].amount
             /\ q.unique_edge_count = r.unique_edge_count + 1
             /\ q.branch_spending_limit = r.branch_spending_limit
BY DEF SessionWithEdge, OfflineSession

LEMMA InsertedLinks ==
  ASSUME NEW cl \in [Creds -> Claim], NEW c \in Creds, NEW pred, NEW succ, NEW x \in Creds
  PROVE  LET y == InsertClaimInOrder(cl, c, pred, succ)[x]
         IN  /\ y.next_claim = IF x = c THEN succ
                               ELSE IF x = pred THEN c ELSE cl[x].next_claim
             /\ y.previous_claim = IF x = c THEN pred
                                   ELSE IF x = succ THEN c ELSE cl[x].previous_claim
             /\ y.status = cl[x].status
             /\ y.allocated_amount = cl[x].allocated_amount
             /\ y.settled_amount = cl[x].settled_amount
             /\ y.allocation_processed = cl[x].allocation_processed
<1>1. cl[x] \in Claim
  OBVIOUS
<1> QED BY <1>1 DEF InsertClaimInOrder, Claim

\* The part of the books that a new edge e of session s below state p changes.
EdgeWritten(e, s, p, confirmed) ==
  /\ \A x \in StateHashes : edge'[x].exists <=> (x = e \/ edge[x].exists)
  /\ \A x \in States :
       fork'[x].branch_count = IF x = p THEN fork[x].branch_count + 1
                               ELSE fork[x].branch_count
  /\ \A x \in SessionIds :
       /\ session'[x].authenticated_fork
            <=> (session[x].authenticated_fork \/ (x = s /\ confirmed))
       /\ session'[x].aggregate_offline_exposure =
            IF x = s THEN session[x].aggregate_offline_exposure + Transition[e].amount
            ELSE session[x].aggregate_offline_exposure
       /\ session'[x].unique_edge_count = IF x = s THEN session[x].unique_edge_count + 1
                                          ELSE session[x].unique_edge_count

LEMMA SubmitNewEdgeWrites ==
  ASSUME TypeOK, NEW c \in Creds,
         NEW pred \in Creds \cup {NoClaim}, NEW succ \in Creds \cup {NoClaim},
         SubmitClaimWith(c, pred, succ), SubmitNewEdge(c, pred, succ)
  PROVE  LET e == EdgeOf(c)
             s == SessionOf(e)
             p == Transition[e].previous_state
         IN  /\ ListWritten(s, c, pred, succ)
             /\ EdgeWritten(e, s, p, ConfirmsFork(p))
             /\ \A x \in Creds : x # c => claim'[x].status = claim[x].status
             /\ claim'[c].status = "Submitted"
             /\ \A x \in StateHashes : x # e => edge'[x] = edge[x]
             /\ edge'[e] = [EmptyEdge EXCEPT !.exists = TRUE, !.representative = c,
                                             !.wrapper_count = 1]
             /\ edge'[e].representative = c /\ edge'[e].wrapper_count = 1
             /\ \A x \in SessionIds :
                  /\ session[x].status # "None" => session'[x].status # "None"
                  /\ session'[x].branch_spending_limit = session[x].branch_spending_limit
<1> DEFINE e == EdgeOf(c)
           s == SessionOf(e)
           p == Transition[e].previous_state
           b == ConfirmsFork(p)
           cl == [claim EXCEPT ![c] = [EmptyClaim EXCEPT !.status = "Submitted"]]
           q == SessionWithEdge(session[s], e, b)
<1>1. e \in StateHashes /\ s \in SessionIds /\ p \in States
      /\ session[s] \in OfflineSession /\ session[s].status # "None"
  BY MessageTypes DEF TypeOK, SubmitClaimWith, ClaimsOpen
<1>2. /\ claim' = InsertClaimInOrder(cl, c, pred, succ)
      /\ session' = [session EXCEPT ![s] = SessionWithClaim(q, c, pred, succ)]
      /\ fork' = [fork EXCEPT ![p] = ForkWithChild(fork[p], e)]
      /\ claim[c].status = "None"
  BY DEF SubmitNewEdge, SubmitClaimWith
<1>3. cl \in [Creds -> Claim] /\ cl[c].status = "Submitted"
      /\ \A x \in Creds : x # c => cl[x] = claim[x]
  <2>1. [EmptyClaim EXCEPT !.status = "Submitted"] \in Claim
    BY EmptyTypes DEF Claim, ClaimStatus
  <2>2. [EmptyClaim EXCEPT !.status = "Submitted"].status = "Submitted"
    BY DEF EmptyClaim
  <2> QED BY <2>1, <2>2 DEF TypeOK
<1>4. b \in BOOLEAN
  BY DEF ConfirmsFork
<1>5. q \in OfflineSession
  BY <1>1, <1>4, SessionWithEdgeType
<1> HIDE DEF cl, b
<1>6. \A x \in Creds :
        /\ claim'[x].next_claim = IF x = c THEN succ
                                  ELSE IF x = pred THEN c ELSE claim[x].next_claim
        /\ claim'[x].previous_claim = IF x = c THEN pred
                                      ELSE IF x = succ THEN c ELSE claim[x].previous_claim
        /\ claim'[x].status = IF x = c THEN "Submitted" ELSE claim[x].status
  BY <1>2, <1>3, InsertedLinks
<1>7. /\ q.claim_head = session[s].claim_head /\ q.claim_tail = session[s].claim_tail
      /\ q.submitted_claim_count = session[s].submitted_claim_count
      /\ q.status # "None"
      /\ q.authenticated_fork <=> (session[s].authenticated_fork \/ b)
      /\ q.aggregate_offline_exposure
           = session[s].aggregate_offline_exposure + Transition[e].amount
      /\ q.unique_edge_count = session[s].unique_edge_count + 1
      /\ q.branch_spending_limit = session[s].branch_spending_limit
  BY <1>1, <1>4, SessionWithEdgeFields
<1> HIDE DEF q
<1>8. LET w == session'[s]
      IN  /\ w.claim_head = IF pred = NoClaim THEN c ELSE q.claim_head
          /\ w.claim_tail = IF succ = NoClaim THEN c ELSE q.claim_tail
          /\ w.submitted_claim_count = q.submitted_claim_count + 1
          /\ (w.status = "None") <=> (q.status = "None")
          /\ w.authenticated_fork = q.authenticated_fork
          /\ w.aggregate_offline_exposure = q.aggregate_offline_exposure
          /\ w.unique_edge_count = q.unique_edge_count
          /\ w.branch_spending_limit = q.branch_spending_limit
  <2>1. session'[s] = SessionWithClaim(q, c, pred, succ)
    BY <1>1, <1>2 DEF TypeOK
  <2> QED BY <1>5, <2>1, SessionWithClaimFields
<1>9. \A x \in SessionIds : x # s => session'[x] = session[x]
  BY <1>2 DEF TypeOK
<1>10. ListWritten(s, c, pred, succ)
  BY <1>2, <1>6, <1>7, <1>8, <1>9 DEF ListWritten
<1>11. /\ \A x \in StateHashes : x # e => edge'[x] = edge[x]
       /\ edge'[e] = [EmptyEdge EXCEPT !.exists = TRUE, !.representative = c,
                                       !.wrapper_count = 1]
  BY <1>1 DEF SubmitNewEdge, TypeOK
<1>12. edge'[e].exists /\ edge'[e].representative = c /\ edge'[e].wrapper_count = 1
  BY <1>11 DEF EmptyEdge
<1>13. \A x \in States :
         fork'[x].branch_count = IF x = p THEN fork[x].branch_count + 1
                                 ELSE fork[x].branch_count
  BY <1>1, <1>2 DEF TypeOK, ForkRecord, ForkWithChild
<1>14. EdgeWritten(e, s, p, b)
  <2>1. \A x \in StateHashes : edge'[x].exists <=> (x = e \/ edge[x].exists)
    BY <1>11, <1>12
  <2>2. session'[s].authenticated_fork <=> (session[s].authenticated_fork \/ b)
    BY <1>7, <1>8
  <2>3. \A x \in SessionIds :
          session'[x].authenticated_fork
            <=> (session[x].authenticated_fork \/ (x = s /\ b))
    BY <1>9, <2>2
  <2>4. \A x \in SessionIds :
          /\ session'[x].aggregate_offline_exposure =
               IF x = s THEN session[x].aggregate_offline_exposure + Transition[e].amount
               ELSE session[x].aggregate_offline_exposure
          /\ session'[x].unique_edge_count = IF x = s THEN session[x].unique_edge_count + 1
                                             ELSE session[x].unique_edge_count
    BY <1>7, <1>8, <1>9
  <2> QED BY <1>13, <2>1, <2>3, <2>4 DEF EdgeWritten
<1>15. \A x \in SessionIds :
         /\ session[x].status # "None" => session'[x].status # "None"
         /\ session'[x].branch_spending_limit = session[x].branch_spending_limit
  BY <1>7, <1>8, <1>9
<1> QED BY <1>6, <1>10, <1>11, <1>12, <1>14, <1>15 DEF b

LEMMA SubmitWrapperWrites ==
  ASSUME TypeOK, NEW c \in Creds,
         NEW pred \in Creds \cup {NoClaim}, NEW succ \in Creds \cup {NoClaim},
         SubmitClaimWith(c, pred, succ), SubmitWrapper(c, pred, succ)
  PROVE  LET e == EdgeOf(c)
             s == SessionOf(e)
             rep == edge[e].representative
         IN  /\ ListWritten(s, c, pred, succ)
             /\ \A x \in Creds :
                  claim'[x].status =
                    CASE x = c -> IF c < rep THEN "Submitted" ELSE "Rejected"
                      [] x # c /\ x = rep /\ c < rep -> "Rejected"
                      [] OTHER -> claim[x].status
             /\ \A x \in StateHashes : edge'[x].exists = edge[x].exists
             /\ \A x \in StateHashes : x # e => edge'[x] = edge[x]
             /\ edge'[e] = [edge[e] EXCEPT !.wrapper_count = @ + 1,
                                           !.representative = IF c < rep THEN c ELSE @]
             /\ edge'[e].representative = IF c < rep THEN c ELSE rep
             /\ edge'[e].wrapper_count = edge[e].wrapper_count + 1
             /\ \A x \in SessionIds :
                  /\ session[x].status # "None" => session'[x].status # "None"
                  /\ session'[x].branch_spending_limit = session[x].branch_spending_limit
                  /\ session'[x].authenticated_fork = session[x].authenticated_fork
                  /\ session'[x].aggregate_offline_exposure
                       = session[x].aggregate_offline_exposure
                  /\ session'[x].unique_edge_count = session[x].unique_edge_count
<1> DEFINE e == EdgeOf(c)
           s == SessionOf(e)
           rep == edge[e].representative
           fresh == [EmptyClaim EXCEPT
                       !.status = IF c < rep THEN "Submitted" ELSE "Rejected"]
           cl == [x \in Creds |->
                    CASE x = c -> fresh
                      [] x # c /\ x = rep /\ c < rep ->
                           [claim[x] EXCEPT !.status = "Rejected"]
                      [] OTHER -> claim[x]]
<1>1. e \in StateHashes /\ s \in SessionIds
      /\ session[s] \in OfflineSession /\ session[s].status # "None"
  BY MessageTypes DEF TypeOK, SubmitClaimWith, ClaimsOpen
<1>2. /\ claim' = InsertClaimInOrder(cl, c, pred, succ)
      /\ session' = [session EXCEPT ![s] = SessionWithClaim(session[s], c, pred, succ)]
      /\ claim[c].status = "None" /\ claim[rep].status = "Submitted"
  BY DEF SubmitWrapper, SubmitClaimWith, Replaces
<1>a. \A x \in Creds : /\ claim[x] \in Claim
                       /\ [claim[x] EXCEPT !.status = "Rejected"] \in Claim
                       /\ [claim[x] EXCEPT !.status = "Rejected"].status = "Rejected"
                       /\ [claim[x] EXCEPT !.status = "Rejected"].next_claim
                            = claim[x].next_claim
                       /\ [claim[x] EXCEPT !.status = "Rejected"].previous_claim
                            = claim[x].previous_claim
  BY DEF TypeOK, Claim, ClaimStatus
<1>b. fresh \in Claim /\ fresh.status = IF c < rep THEN "Submitted" ELSE "Rejected"
  BY EmptyTypes DEF Claim, ClaimStatus, EmptyClaim
<1>3. cl \in [Creds -> Claim]
  <2> HIDE DEF fresh
  <2> QED BY <1>a, <1>b
<1>4. \A x \in Creds :
        /\ cl[x].status = CASE x = c -> IF c < rep THEN "Submitted" ELSE "Rejected"
                            [] x # c /\ x = rep /\ c < rep -> "Rejected"
                            [] OTHER -> claim[x].status
        /\ x # c => cl[x].next_claim = claim[x].next_claim
        /\ x # c => cl[x].previous_claim = claim[x].previous_claim
  <2> HIDE DEF fresh
  <2> QED BY <1>a, <1>b
<1> HIDE DEF cl
<1>5. \A x \in Creds :
        /\ claim'[x].next_claim = IF x = c THEN succ
                                  ELSE IF x = pred THEN c ELSE claim[x].next_claim
        /\ claim'[x].previous_claim = IF x = c THEN pred
                                      ELSE IF x = succ THEN c ELSE claim[x].previous_claim
        /\ claim'[x].status = cl[x].status
  BY <1>2, <1>3, <1>4, InsertedLinks
<1>6. \A x \in Creds : (claim'[x].status = "None") <=> (x # c /\ claim[x].status = "None")
  BY <1>2, <1>4, <1>5
<1>7. LET w == session'[s]
          r == session[s]
      IN  /\ w.claim_head = IF pred = NoClaim THEN c ELSE r.claim_head
          /\ w.claim_tail = IF succ = NoClaim THEN c ELSE r.claim_tail
          /\ w.submitted_claim_count = r.submitted_claim_count + 1
          /\ (w.status = "None") <=> (r.status = "None")
          /\ w.authenticated_fork = r.authenticated_fork
          /\ w.aggregate_offline_exposure = r.aggregate_offline_exposure
          /\ w.unique_edge_count = r.unique_edge_count
          /\ w.branch_spending_limit = r.branch_spending_limit
  <2>1. session'[s] = SessionWithClaim(session[s], c, pred, succ)
    BY <1>1, <1>2 DEF TypeOK
  <2> QED BY <1>1, <2>1, SessionWithClaimFields
<1>8. \A x \in SessionIds : x # s => session'[x] = session[x]
  BY <1>2 DEF TypeOK
<1>9. ListWritten(s, c, pred, succ)
  BY <1>5, <1>6, <1>7, <1>8 DEF ListWritten
<1>10. /\ \A x \in StateHashes : x # e => edge'[x] = edge[x]
       /\ edge'[e] = [edge[e] EXCEPT !.wrapper_count = @ + 1,
                                     !.representative = IF c < rep THEN c ELSE @]
  BY <1>1 DEF SubmitWrapper, Replaces, TypeOK
<1>11. /\ edge'[e].representative = IF c < rep THEN c ELSE rep
       /\ edge'[e].wrapper_count = edge[e].wrapper_count + 1
       /\ edge'[e].exists = edge[e].exists
  BY <1>1, <1>10 DEF TypeOK, StateEdgeRecord
<1>12. \A x \in SessionIds :
         /\ session[x].status # "None" => session'[x].status # "None"
         /\ session'[x].branch_spending_limit = session[x].branch_spending_limit
         /\ session'[x].authenticated_fork = session[x].authenticated_fork
         /\ session'[x].aggregate_offline_exposure
              = session[x].aggregate_offline_exposure
         /\ session'[x].unique_edge_count = session[x].unique_edge_count
  BY <1>7, <1>8
<1>13. \A x \in StateHashes : edge'[x].exists = edge[x].exists
  BY <1>10, <1>11
<1> HIDE DEF e, s, rep
<1> QED BY <1>4, <1>5, <1>9, <1>10, <1>11, <1>12, <1>13 DEF e, s, rep

-----------------------------------------------------------------------------
(***************************************************************************)
(* Branches.  The recursive definition has a solution whatever the hash    *)
(* pointers are: the least set that contains e and is closed under them.   *)
(***************************************************************************)
Prev(e) == Transition[e].previous_state

Closed(A) == \A y \in A : Prev(y) \in StateHashes => Prev(y) \in A

Reach(e) == {x \in StateHashes : \A A \in SUBSET StateHashes :
               e \in A /\ Closed(A) => x \in A}

BranchesOf(g) ==
  g = [e \in StateHashes |->
         {e} \cup IF Transition[e].previous_state \in StateHashes
                  THEN g[Transition[e].previous_state] ELSE {}]

LEMMA ReachClosed ==
  ASSUME NEW e \in StateHashes
  PROVE  e \in Reach(e) /\ Closed(Reach(e)) /\ Reach(e) \in SUBSET StateHashes
BY DEF Reach, Closed

LEMMA ReachUnfold ==
  ASSUME NEW e \in StateHashes
  PROVE  Reach(e) = {e} \cup IF Prev(e) \in StateHashes THEN Reach(Prev(e)) ELSE {}
<1> DEFINE R == {e} \cup IF Prev(e) \in StateHashes THEN Reach(Prev(e)) ELSE {}
<1>1. R \in SUBSET StateHashes /\ e \in R
  BY ReachClosed
<1>2. Closed(R)
  <2> SUFFICES ASSUME NEW y \in R, Prev(y) \in StateHashes PROVE Prev(y) \in R
    BY DEF Closed
  <2>1. CASE y = e
    BY <2>1, ReachClosed
  <2>2. CASE y # e
    <3>1. Prev(e) \in StateHashes /\ y \in Reach(Prev(e))
      BY <2>2
    <3>2. Prev(y) \in Reach(Prev(e))
      BY <3>1, ReachClosed DEF Closed
    <3> QED BY <3>1, <3>2
  <2> QED BY <2>1, <2>2
<1>3. Reach(e) \subseteq R
  BY <1>1, <1>2 DEF Reach
<1>4. R \subseteq Reach(e)
  <2>1. e \in Reach(e) /\ Closed(Reach(e))
    BY ReachClosed
  <2>2. CASE Prev(e) \in StateHashes
    <3>1. Prev(e) \in Reach(e) /\ Reach(e) \in SUBSET StateHashes
      BY <2>1, <2>2, ReachClosed DEF Closed
    <3>2. Reach(Prev(e)) \subseteq Reach(e)
      <4> SUFFICES ASSUME NEW x \in Reach(Prev(e)) PROVE x \in Reach(e)
        OBVIOUS
      <4> QED BY <2>1, <3>1 DEF Reach
    <3> QED BY <2>1, <3>2
  <2> QED BY <2>1, <2>2
<1> HIDE DEF R
<1>5. Reach(e) = R
  BY <1>3, <1>4
<1> QED BY <1>5 DEF R

LEMMA BranchesExist == BranchesOf(Branch)
<1> DEFINE g == [e \in StateHashes |-> Reach(e)]
<1>1. \A e \in StateHashes :
        g[e] = {e} \cup IF Prev(e) \in StateHashes THEN g[Prev(e)] ELSE {}
  BY ReachUnfold
<1>2. g = [e \in StateHashes |-> g[e]]
  OBVIOUS
<1> HIDE DEF g
<1>3. g = [e \in StateHashes |->
             {e} \cup IF Prev(e) \in StateHashes THEN g[Prev(e)] ELSE {}]
  BY <1>1, <1>2
<1>4. BranchesOf(g)
  BY <1>3 DEF BranchesOf, Prev
<1>5. Branch = CHOOSE h : BranchesOf(h)
  BY DEF Branch, BranchesOf
<1> QED BY <1>4, <1>5

LEMMA BranchUnfold ==
  ASSUME NEW e \in StateHashes
  PROVE  Branch[e] = {e} \cup IF Prev(e) \in StateHashes THEN Branch[Prev(e)] ELSE {}
BY BranchesExist DEF BranchesOf, Prev

-----------------------------------------------------------------------------
(***************************************************************************)
(* submit_claim and the other books.                                       *)
(***************************************************************************)
\* What an accepted claim has to do with the session it belongs to.
LEMMA SubmitFacts ==
  ASSUME SafetyInv, ClaimsInv, NEW c \in Creds,
         NEW pred \in Creds \cup {NoClaim}, NEW succ \in Creds \cup {NoClaim},
         SubmitClaimWith(c, pred, succ)
  PROVE  LET e == EdgeOf(c)
             s == SessionOf(e)
         IN  /\ e \in StateHashes /\ s \in SessionIds
             /\ session[s].status # "None" /\ profile.exists
             /\ claim[c].status = "None"
             /\ CanInsertBetween(s, c, pred, succ)
             /\ Transition[e].new_remaining + Transition[e].amount
                  = Transition[e].previous_remaining
             /\ pred # NoClaim => claim[pred].status # "None"
             /\ succ # NoClaim => claim[succ].status # "None"
             /\ pred # c /\ succ # c
<1> DEFINE e == EdgeOf(c)
           s == SessionOf(e)
<1>1. e \in StateHashes /\ s \in SessionIds
  BY MessageTypes
<1>2. session[s].status \notin {"None", "Closed"}
  BY DEF SubmitClaimWith, ClaimsOpen
<1>3. profile.exists
  <2>1. profile.active_session = s
    BY <1>1, <1>2 DEF SafetyInv, OneActiveSession
  <2> QED BY <1>1, <2>1, SetAssumption DEF SafetyInv, AccountsInOrder
<1>4. claim[c].status = "None" /\ CanInsertBetween(s, c, pred, succ)
  BY DEF SubmitClaimWith
<1>5. Transition[e].new_remaining + Transition[e].amount = Transition[e].previous_remaining
  <2>1. Transition[e] \in TransitionRecord
    BY <1>1, MessageAssumption
  <2>2. Transition[e].previous_remaining \in Nat /\ Transition[e].amount \in Nat
    BY <2>1 DEF TransitionRecord
  <2>3. Transition[e].new_remaining = Transition[e].previous_remaining - Transition[e].amount
    BY DEF SubmitClaimWith, ValidClaimPayload
  <2> QED BY <2>2, <2>3
<1>6. /\ IsGreatest(Before(Submitted(s), c), pred)
      /\ IsLeast(After(Submitted(s), c), succ)
  BY <1>1, <1>4, InsertionPoint DEF SafetyInv, ClaimsInv
<1>7. /\ pred = NoClaim \/ pred \in Submitted(s)
      /\ succ = NoClaim \/ succ \in Submitted(s)
  BY <1>6 DEF IsGreatest, IsLeast, Before, After
<1>8. /\ pred # NoClaim => claim[pred].status # "None"
      /\ succ # NoClaim => claim[succ].status # "None"
  BY <1>7 DEF Submitted
<1>9. pred # c /\ succ # c
  BY <1>4, <1>7, SetAssumption DEF Submitted, NoClaim
<1> QED BY <1>1, <1>2, <1>3, <1>4, <1>5, <1>8, <1>9

\* The parent of the new edge e is the genesis state of s or an edge of s, and
\* nothing leaves the state e leads to.
LEMMA NewEdgePlace ==
  ASSUME SafetyInv, ClaimsInv, NEW e \in StateHashes, ~edge[e].exists, ReachableParent(e)
  PROVE  /\ Prev(e) = SessionOf(e) \/ Prev(e) \in EdgesOf(SessionOf(e))
         /\ Prev(e) # e
         /\ Prev(e) \in States
         /\ Continues(e)
         /\ Children(e) = {}
         /\ e \notin Children(Prev(e))
         /\ WrappersOf(e) = {}
         /\ \A s \in SessionIds : s # SessionOf(e) =>
              Prev(e) # s /\ Prev(e) \notin EdgesOf(s)
<1>1. SessionOf(e) \in SessionIds /\ Prev(e) \in States
  BY MessageTypes DEF Prev
<1>2. \/ Prev(e) = SessionOf(e)
      \/ Prev(e) \in StateHashes /\ edge[Prev(e)].exists /\ SessionOf(Prev(e)) = SessionOf(e)
  BY DEF ReachableParent, FollowsEdge, Prev, SessionOf
<1>3. Continues(e)
  BY DEF ReachableParent, Continues
<1>4. Children(e) = {}
  <2> SUFFICES ASSUME NEW x \in Children(e) PROVE FALSE
    OBVIOUS
  <2>1. x \in StateHashes /\ edge[x].exists /\ Prev(x) = e
    BY DEF Children, Prev
  <2>2. Continues(x) /\ SessionOf(x) \in SessionIds
    BY <2>1, MessageTypes DEF ClaimsInv, ExistInv
  <2> QED BY <2>1, <2>2, SetAssumption DEF Continues, FollowsEdge, Prev, SessionOf
<1>5. WrappersOf(e) = {}
  BY DEF WrappersOf, ClaimsInv, ExistInv
<1>6. Prev(e) # e
  BY <1>1, <1>2, SetAssumption
<1>7. e \notin Children(Prev(e))
  BY DEF Children
<1>8. \A s \in SessionIds : s # SessionOf(e) => Prev(e) # s /\ Prev(e) \notin EdgesOf(s)
  BY <1>1, <1>2, SetAssumption DEF EdgesOf
<1>9. Prev(e) = SessionOf(e) \/ Prev(e) \in EdgesOf(SessionOf(e))
  BY <1>2 DEF EdgesOf
<1> QED BY <1>1, <1>3, <1>4, <1>5, <1>6, <1>7, <1>8, <1>9

\* The sets of edges after the new edge e.
LEMMA NewEdgeSets ==
  ASSUME NEW e \in StateHashes,
         \A x \in StateHashes : edge'[x].exists <=> (x = e \/ edge[x].exists)
  PROVE  /\ EdgesOf(SessionOf(e))' = EdgesOf(SessionOf(e)) \cup {e}
         /\ \A s \in SessionIds : s # SessionOf(e) => EdgesOf(s)' = EdgesOf(s)
         /\ Children(Prev(e))' = Children(Prev(e)) \cup {e}
         /\ \A p \in States : p # Prev(e) => Children(p)' = Children(p)
<1>1. EdgesOf(SessionOf(e))' = EdgesOf(SessionOf(e)) \cup {e}
  BY DEF EdgesOf
<1>2. \A s \in SessionIds : s # SessionOf(e) => EdgesOf(s)' = EdgesOf(s)
  BY DEF EdgesOf
<1>3. Children(Prev(e))' = Children(Prev(e)) \cup {e}
  BY DEF Children, Prev
<1>4. \A p \in States : p # Prev(e) => Children(p)' = Children(p)
  BY DEF Children, Prev
<1> QED BY <1>1, <1>2, <1>3, <1>4

LEMMA NewEdgeForks ==
  ASSUME SafetyInv, ClaimsInv, NEW e \in StateHashes, ~edge[e].exists, ReachableParent(e),
         EdgeWritten(e, SessionOf(e), Prev(e), ConfirmsFork(Prev(e))),
         profile' = IF ConfirmsFork(Prev(e)) THEN RevokeOfflineAccess ELSE profile
  PROVE  ForkInv'
<1> DEFINE s == SessionOf(e)
           p == Prev(e)
           b == ConfirmsFork(p)
<1>1. /\ s \in SessionIds /\ p \in States /\ p # e /\ e \notin Children(p)
      /\ p = s \/ p \in EdgesOf(s)
      /\ Children(e) = {}
      /\ \A x \in SessionIds : x # s => p # x /\ p \notin EdgesOf(x)
  BY NewEdgePlace, MessageTypes
<1>2. /\ EdgesOf(s)' = EdgesOf(s) \cup {e}
      /\ \A x \in SessionIds : x # s => EdgesOf(x)' = EdgesOf(x)
      /\ Children(p)' = Children(p) \cup {e}
      /\ \A x \in States : x # p => Children(x)' = Children(x)
  BY NewEdgeSets DEF EdgeWritten
<1>3. /\ \A x \in States : fork[x].branch_count = Cardinality(Children(x))
      /\ \A x \in SessionIds : session[x].authenticated_fork
                                 <=> \E y \in Forked : y = x \/ y \in EdgesOf(x)
      /\ IsFiniteSet(Forked)
      /\ profile.exists =>
           /\ profile.offline_access_enabled <=> Forked = {}
           /\ profile.conflict_count = Cardinality(Forked)
           /\ (profile.revoked_at = 0) <=> Forked = {}
  BY DEF ClaimsInv, ForkInv
<1>4. Cardinality(Children(p) \cup {e}) = Cardinality(Children(p)) + 1
  BY <1>1, SetsFinite, FS_AddElement
<1>5. \A x \in States : fork'[x].branch_count = Cardinality(Children(x)')
  BY <1>1, <1>2, <1>3, <1>4 DEF EdgeWritten
<1>6. b <=> Cardinality(Children(p)) = 1
  BY <1>1, <1>3 DEF ConfirmsFork
<1>7. Forked' = IF b THEN Forked \cup {p} ELSE Forked
  <2>1. \A x \in States : x \in Forked' <=> Cardinality(Children(x)') >= 2
    BY DEF Forked
  <2>2. \A x \in States : x \in Forked <=> Cardinality(Children(x)) >= 2
    BY DEF Forked
  <2>3. p \in Forked' <=> (b \/ p \in Forked)
    BY <1>1, <1>2, <1>4, <1>6, <2>1, <2>2, SetsFinite
  <2>4. \A x \in States : x # p => (x \in Forked' <=> x \in Forked)
    BY <1>2, <2>1, <2>2
  <2>5. Forked' \subseteq States /\ Forked \subseteq States
    BY DEF Forked
  <2> HIDE DEF b, p
  <2> QED BY <1>1, <2>3, <2>4, <2>5
<1>8. b => p \notin Forked
  BY <1>6 DEF Forked
<1>9. e \notin Forked /\ e # p
  BY <1>1, FS_EmptySet DEF Forked
<1>10. \A x \in SessionIds : session'[x].authenticated_fork
                               <=> \E y \in Forked' : y = x \/ y \in EdgesOf(x)'
  <2> SUFFICES ASSUME NEW x \in SessionIds
               PROVE  session'[x].authenticated_fork
                        <=> \E y \in Forked' : y = x \/ y \in EdgesOf(x)'
    OBVIOUS
  <2>1. session'[x].authenticated_fork
          <=> ((\E y \in Forked : y = x \/ y \in EdgesOf(x)) \/ (x = s /\ b))
    BY <1>3 DEF EdgeWritten
  <2>2. CASE x = s
    <3>1. (\E y \in Forked' : y = x \/ y \in EdgesOf(x)')
            <=> (\E y \in Forked' : y = x \/ y \in EdgesOf(x))
      BY <1>2, <1>7, <1>9, <2>2
    <3>2. (\E y \in Forked' : y = x \/ y \in EdgesOf(x))
            <=> ((\E y \in Forked : y = x \/ y \in EdgesOf(x)) \/ b)
      BY <1>1, <1>7, <2>2
    <3> QED BY <2>1, <2>2, <3>1, <3>2
  <2>3. CASE x # s
    <3>1. EdgesOf(x)' = EdgesOf(x) /\ p # x /\ p \notin EdgesOf(x)
      BY <1>1, <1>2, <2>3
    <3>2. (\E y \in Forked' : y = x \/ y \in EdgesOf(x))
            <=> (\E y \in Forked : y = x \/ y \in EdgesOf(x))
      BY <1>7, <3>1
    <3> QED BY <2>1, <2>3, <3>1, <3>2
  <2> QED BY <2>2, <2>3
<1>11. IsFiniteSet(Forked')
  BY <1>3, <1>7, FS_AddElement
<1>12. profile'.exists =>
         /\ profile'.offline_access_enabled <=> Forked' = {}
         /\ profile'.conflict_count = Cardinality(Forked')
         /\ (profile'.revoked_at = 0) <=> Forked' = {}
  <2>1. CASE ~b
    BY <1>3, <1>7, <2>1
  <2>2. CASE b
    <3>1. Forked' = Forked \cup {p} /\ Cardinality(Forked') = Cardinality(Forked) + 1
      BY <1>3, <1>7, <1>8, <2>2, FS_AddElement
    <3>2. /\ profile'.exists = profile.exists /\ profile'.offline_access_enabled = FALSE
          /\ profile'.conflict_count = profile.conflict_count + 1
          /\ profile'.revoked_at # 0
      <4>1. profile' = RevokeOfflineAccess /\ profile \in UserProfile /\ now # 0
        BY <2>2 DEF SafetyInv, TypeOK, ClaimsInv, ExistInv
      <4> QED BY <4>1 DEF RevokeOfflineAccess, UserProfile
    <3> QED BY <1>3, <3>1, <3>2
  <2> QED BY <2>1, <2>2
<1> QED BY <1>5, <1>10, <1>11, <1>12 DEF ForkInv

LEMMA NewEdgeExposure ==
  ASSUME SafetyInv, ClaimsInv, NEW e \in StateHashes, ~edge[e].exists, ReachableParent(e),
         Transition[e].new_remaining + Transition[e].amount
           = Transition[e].previous_remaining,
         EdgeWritten(e, SessionOf(e), Prev(e), ConfirmsFork(Prev(e))),
         \A x \in SessionIds :
           session'[x].branch_spending_limit = session[x].branch_spending_limit
  PROVE  ExposureInv'
<1> DEFINE s == SessionOf(e)
           p == Prev(e)
           E == EdgesOf(s)
<1>1. s \in SessionIds /\ e \notin E /\ (p = s \/ p \in E)
  BY NewEdgePlace, MessageTypes DEF EdgesOf
<1>2. /\ EdgesOf(s)' = E \cup {e}
      /\ \A x \in SessionIds : x # s => EdgesOf(x)' = EdgesOf(x)
  BY NewEdgeSets DEF EdgeWritten
<1>a. /\ \A x \in StateHashes : AmountOf[x] \in Nat /\ AmountOf[x] = Transition[x].amount
      /\ E \subseteq StateHashes /\ IsFiniteSet(E)
  BY SetsFinite, MessageTypes DEF AmountOf, EdgesOf
<1>3. /\ TotalAmount(E \cup {e}) = TotalAmount(E) + Transition[e].amount
      /\ Cardinality(E \cup {e}) = Cardinality(E) + 1
  BY <1>1, <1>a, SumAdd, FS_AddElement DEF TotalAmount
<1>4. \A x \in SessionIds :
        /\ session[x].aggregate_offline_exposure = TotalAmount(EdgesOf(x))
        /\ session[x].unique_edge_count = Cardinality(EdgesOf(x))
        /\ \A y \in EdgesOf(x) :
             /\ Branch[y] \subseteq EdgesOf(x)
             /\ TotalAmount(Branch[y]) + Transition[y].new_remaining
                  = session[x].branch_spending_limit
  BY DEF ClaimsInv, ExposureInv
<1>5. \A x \in SessionIds :
        /\ session'[x].aggregate_offline_exposure = TotalAmount(EdgesOf(x)')
        /\ session'[x].unique_edge_count = Cardinality(EdgesOf(x)')
  <2>1. /\ session'[s].aggregate_offline_exposure
             = session[s].aggregate_offline_exposure + Transition[e].amount
        /\ session'[s].unique_edge_count = session[s].unique_edge_count + 1
    BY <1>1 DEF EdgeWritten
  <2>2. \A x \in SessionIds : x # s =>
          /\ session'[x].aggregate_offline_exposure = session[x].aggregate_offline_exposure
          /\ session'[x].unique_edge_count = session[x].unique_edge_count
    BY DEF EdgeWritten
  <2>3. /\ session'[s].aggregate_offline_exposure = TotalAmount(EdgesOf(s)')
        /\ session'[s].unique_edge_count = Cardinality(EdgesOf(s)')
    BY <1>1, <1>2, <1>3, <1>4, <2>1
  <2> HIDE DEF s
  <2> QED BY <1>2, <1>4, <2>2, <2>3
<1>6. /\ Branch[e] \subseteq E \cup {e}
      /\ TotalAmount(Branch[e]) + Transition[e].new_remaining
           = session[s].branch_spending_limit
  <2>1. Transition[e] \in TransitionRecord
    BY MessageAssumption
  <2>2. /\ Transition[e].previous_remaining \in Nat /\ Transition[e].amount \in Nat
        /\ Transition[e].new_remaining \in Nat
    BY <2>1 DEF TransitionRecord
  <2>3. CASE p = s
    <3>1. p \notin StateHashes
      BY <1>1, <2>3, SetAssumption
    <3>2. Branch[e] = {} \cup {e}
      BY <3>1, BranchUnfold
    <3>3. TotalAmount({} \cup {e}) = TotalAmount({}) + Transition[e].amount
      BY <1>a, SumAdd, FS_EmptySet DEF TotalAmount
    <3>4. TotalAmount({}) = 0
      BY SumEmpty DEF TotalAmount
    <3>5. Transition[e].previous_remaining = session[s].branch_spending_limit
      BY <3>1 DEF ReachableParent, FollowsEdge, Prev, SessionOf
    <3> QED BY <2>2, <3>2, <3>3, <3>4, <3>5
  <2>4. CASE p \in E /\ p # s
    <3>1. p \in StateHashes
      BY <2>4 DEF EdgesOf
    <3>2. Branch[e] = Branch[p] \cup {e} /\ Branch[p] \subseteq E
      BY <1>1, <1>4, <2>4, <3>1, BranchUnfold
    <3>3. IsFiniteSet(Branch[p]) /\ e \notin Branch[p] /\ Branch[p] \subseteq StateHashes
      BY <1>1, <1>a, <3>2, FS_Subset
    <3>4. TotalAmount(Branch[p] \cup {e}) = TotalAmount(Branch[p]) + Transition[e].amount
      BY <1>a, <3>3, SumAdd DEF TotalAmount
    <3>5. Transition[p].new_remaining = Transition[e].previous_remaining
      BY <2>4 DEF ReachableParent, FollowsEdge, Prev, SessionOf
    <3>6. TotalAmount(Branch[p]) + Transition[p].new_remaining
            = session[s].branch_spending_limit
      BY <1>1, <1>4, <2>4
    <3>7. TotalAmount(Branch[p]) \in Nat
      BY <1>a, <3>3, SumNat DEF TotalAmount
    <3> QED BY <2>2, <3>2, <3>4, <3>5, <3>6, <3>7
  <2> QED BY <1>1, <2>3, <2>4
<1>7. ASSUME NEW x \in SessionIds, NEW y \in EdgesOf(x)'
      PROVE  /\ Branch[y] \subseteq EdgesOf(x)'
             /\ TotalAmount(Branch[y]) + Transition[y].new_remaining
                  = session'[x].branch_spending_limit
  <2>1. CASE x = s /\ y = e
    BY <1>1, <1>2, <1>6, <2>1
  <2>2. CASE y \in EdgesOf(x)
    BY <1>2, <1>4, <2>2
  <2> QED BY <1>2, <2>1, <2>2
<1> QED BY <1>5, <1>7 DEF ExposureInv

LEMMA SubmitNewEdgeKeeps ==
  ASSUME SafetyInv, ClaimsInv, NEW c \in Creds,
         NEW pred \in Creds \cup {NoClaim}, NEW succ \in Creds \cup {NoClaim},
         SubmitClaimWith(c, pred, succ), SubmitNewEdge(c, pred, succ)
  PROVE  ClaimsInv'
<1> DEFINE e == EdgeOf(c)
           s == SessionOf(e)
<1>1. /\ e \in StateHashes /\ s \in SessionIds
      /\ session[s].status # "None" /\ profile.exists /\ claim[c].status = "None"
      /\ CanInsertBetween(s, c, pred, succ)
      /\ Transition[e].new_remaining + Transition[e].amount
           = Transition[e].previous_remaining
      /\ pred # NoClaim => claim[pred].status # "None"
      /\ succ # NoClaim => claim[succ].status # "None"
  BY SubmitFacts
<1>2. ~edge[e].exists /\ ReachableParent(e)
  BY DEF SubmitNewEdge
<1>3. /\ ListWritten(s, c, pred, succ)
      /\ EdgeWritten(e, s, Prev(e), ConfirmsFork(Prev(e)))
      /\ \A x \in Creds : x # c => claim'[x].status = claim[x].status
      /\ claim'[c].status = "Submitted"
      /\ \A x \in StateHashes : x # e => edge'[x] = edge[x]
      /\ edge'[e].representative = c /\ edge'[e].wrapper_count = 1
      /\ \A x \in SessionIds :
           /\ session[x].status # "None" => session'[x].status # "None"
           /\ session'[x].branch_spending_limit = session[x].branch_spending_limit
  BY SubmitNewEdgeWrites DEF SafetyInv, Prev
<1>4. ListInv'
  BY <1>1, <1>3, ListStep DEF SafetyInv, ClaimsInv
<1>5. profile' = IF ConfirmsFork(Prev(e)) THEN RevokeOfflineAccess ELSE profile
  BY DEF SubmitNewEdge, Prev
<1> HIDE DEF e, s
<1>6. ForkInv'
  BY <1>1, <1>2, <1>3, <1>5, NewEdgeForks DEF s
<1>7. ExposureInv'
  BY <1>1, <1>2, <1>3, NewEdgeExposure DEF s
<1>8. ExistInv'
  <2>1. now' \in Nat /\ now' > 0
    BY DEF SubmitClaimWith, ClaimsInv, ExistInv
  <2>2. \A x \in StateHashes : edge'[x].exists <=> (x = e \/ edge[x].exists)
    BY <1>3 DEF EdgeWritten
  <2>3. \A x \in Creds : IF claim'[x].status = "None"
                         THEN /\ claim'[x].next_claim = NoClaim
                              /\ claim'[x].previous_claim = NoClaim
                         ELSE edge'[EdgeOf(x)].exists
    <3> SUFFICES ASSUME NEW x \in Creds
                 PROVE  IF claim'[x].status = "None"
                        THEN /\ claim'[x].next_claim = NoClaim
                             /\ claim'[x].previous_claim = NoClaim
                        ELSE edge'[EdgeOf(x)].exists
      OBVIOUS
    <3>1. CASE x = c
      BY <1>3, <2>2, <3>1, MessageTypes DEF e
    <3>2. CASE x # c /\ claim[x].status = "None"
      <4>1. x # pred /\ x # succ
        BY <1>1, <3>2, SetAssumption DEF NoClaim
      <4>2. claim'[x].next_claim = claim[x].next_claim
            /\ claim'[x].previous_claim = claim[x].previous_claim
        BY <1>3, <3>2, <4>1 DEF ListWritten
      <4> QED BY <1>3, <3>2, <4>2 DEF ClaimsInv, ExistInv
    <3>3. CASE x # c /\ claim[x].status # "None"
      BY <1>3, <2>2, <3>3, MessageTypes DEF ClaimsInv, ExistInv
    <3> QED BY <3>1, <3>2, <3>3
  <2>4. profile'.exists
    BY <1>1, <1>5 DEF RevokeOfflineAccess, SafetyInv, TypeOK, UserProfile
  <2>5. \A x \in StateHashes : Continues(x) => Continues(x)'
    BY <1>3, <2>2, MessageTypes DEF Continues, FollowsEdge
  <2>6. Continues(e)
    BY <1>1, <1>2, NewEdgePlace
  <2>7. \A x \in StateHashes :
          edge'[x].exists =>
            /\ session'[SessionOf(x)].status # "None"
            /\ Continues(x)'
            /\ Transition[x].new_remaining + Transition[x].amount
                 = Transition[x].previous_remaining
    BY <1>1, <1>3, <2>2, <2>5, <2>6, MessageTypes DEF ClaimsInv, ExistInv, s
  <2> QED BY <2>1, <2>3, <2>4, <2>7 DEF ExistInv
<1>9. WrapperInv'
  <2> SUFFICES ASSUME NEW x \in StateHashes, edge'[x].exists
               PROVE  (/\ IsLeast(WrappersOf(x), edge[x].representative)
                       /\ WrappersOf(x) # {}
                       /\ edge[x].wrapper_count = Cardinality(WrappersOf(x))
                       /\ \A y \in WrappersOf(x) :
                           (claim[y].status = "Rejected") <=> (y # edge[x].representative))'
    BY DEF WrapperInv
  <2>1. CASE x = e
    <3>1. WrappersOf(e) = {}
      BY <1>1, <1>2, NewEdgePlace
    <3>2. WrappersOf(e)' = {c}
      BY <1>1, <1>3, <3>1 DEF WrappersOf, e
    <3>3. Cardinality({c}) = 1 /\ c \in Nat
      BY FS_Singleton, SetAssumption
    <3> QED BY <1>3, <2>1, <3>2, <3>3 DEF IsLeast
  <2>2. CASE x # e
    <3>1. WrappersOf(x)' = WrappersOf(x)
      BY <1>1, <1>3, <2>2 DEF WrappersOf, e
    <3>2. \A y \in WrappersOf(x) : y \in Creds /\ claim'[y].status = claim[y].status
      BY <1>3, <2>2 DEF WrappersOf, e
    <3>3. edge'[x] = edge[x]
      BY <1>3, <2>2
    <3> QED BY <3>1, <3>2, <3>3 DEF ClaimsInv, WrapperInv
  <2> QED BY <2>1, <2>2
<1> QED BY <1>4, <1>6, <1>7, <1>8, <1>9 DEF ClaimsInv

LEMMA SubmitWrapperKeeps ==
  ASSUME SafetyInv, ClaimsInv, NEW c \in Creds,
         NEW pred \in Creds \cup {NoClaim}, NEW succ \in Creds \cup {NoClaim},
         SubmitClaimWith(c, pred, succ), SubmitWrapper(c, pred, succ)
  PROVE  ClaimsInv'
<1> DEFINE e == EdgeOf(c)
           s == SessionOf(e)
           rep == edge[e].representative
<1>1. /\ e \in StateHashes /\ s \in SessionIds
      /\ claim[c].status = "None"
      /\ CanInsertBetween(s, c, pred, succ)
      /\ pred # NoClaim => claim[pred].status # "None"
      /\ succ # NoClaim => claim[succ].status # "None"
  BY SubmitFacts
<1>2. edge[e].exists /\ fork' = fork /\ profile' = profile
  BY DEF SubmitWrapper
<1>3. /\ ListWritten(s, c, pred, succ)
      /\ \A x \in Creds :
           claim'[x].status = CASE x = c -> IF c < rep THEN "Submitted" ELSE "Rejected"
                                [] x # c /\ x = rep /\ c < rep -> "Rejected"
                                [] OTHER -> claim[x].status
      /\ \A x \in StateHashes : edge'[x].exists = edge[x].exists
      /\ \A x \in StateHashes : x # e => edge'[x] = edge[x]
      /\ edge'[e].representative = IF c < rep THEN c ELSE rep
      /\ edge'[e].wrapper_count = edge[e].wrapper_count + 1
      /\ \A x \in SessionIds :
           /\ session[x].status # "None" => session'[x].status # "None"
           /\ session'[x].branch_spending_limit = session[x].branch_spending_limit
           /\ session'[x].authenticated_fork = session[x].authenticated_fork
           /\ session'[x].aggregate_offline_exposure
                = session[x].aggregate_offline_exposure
           /\ session'[x].unique_edge_count = session[x].unique_edge_count
  BY SubmitWrapperWrites DEF SafetyInv
<1>4. ListInv'
  BY <1>1, <1>3, ListStep DEF SafetyInv, ClaimsInv
<1>5. /\ \A x \in SessionIds : EdgesOf(x)' = EdgesOf(x)
      /\ \A p \in States : Children(p)' = Children(p)
  BY <1>3 DEF EdgesOf, Children
<1>6. Forked' = Forked
  BY <1>5 DEF Forked
<1> HIDE DEF e, s, rep
<1>7. ForkInv'
  BY <1>2, <1>3, <1>5, <1>6 DEF ForkInv, ClaimsInv
<1>8. ExposureInv'
  BY <1>3, <1>5 DEF ExposureInv, ClaimsInv
<1>9. ExistInv'
  <2>1. now' \in Nat /\ now' > 0
    BY DEF SubmitClaimWith, ClaimsInv, ExistInv
  <2>2. \A x \in Creds : IF claim'[x].status = "None"
                         THEN /\ claim'[x].next_claim = NoClaim
                              /\ claim'[x].previous_claim = NoClaim
                         ELSE edge'[EdgeOf(x)].exists
    <3> SUFFICES ASSUME NEW x \in Creds
                 PROVE  IF claim'[x].status = "None"
                        THEN /\ claim'[x].next_claim = NoClaim
                             /\ claim'[x].previous_claim = NoClaim
                        ELSE edge'[EdgeOf(x)].exists
      OBVIOUS
    <3>0. (claim'[x].status = "None") <=> (x # c /\ claim[x].status = "None")
      BY <1>3 DEF ListWritten
    <3>1. CASE x = c
      BY <1>1, <1>2, <1>3, <3>0, <3>1 DEF e
    <3>2. CASE x # c /\ claim[x].status = "None"
      <4>1. x # pred /\ x # succ
        BY <1>1, <3>2, SetAssumption DEF NoClaim
      <4>2. claim'[x].next_claim = claim[x].next_claim
            /\ claim'[x].previous_claim = claim[x].previous_claim
        BY <1>3, <3>2, <4>1 DEF ListWritten
      <4> QED BY <3>0, <3>2, <4>2 DEF ClaimsInv, ExistInv
    <3>3. CASE x # c /\ claim[x].status # "None"
      BY <1>3, <3>0, <3>3, MessageTypes DEF ClaimsInv, ExistInv
    <3> QED BY <3>1, <3>2, <3>3
  <2>3. \A x \in StateHashes : Continues(x) => Continues(x)'
    BY <1>3, MessageTypes DEF Continues, FollowsEdge
  <2> QED BY <1>2, <1>3, <2>1, <2>2, <2>3, MessageTypes DEF ClaimsInv, ExistInv
<1>10. WrapperInv'
  <2> SUFFICES ASSUME NEW x \in StateHashes, edge'[x].exists
               PROVE  (/\ IsLeast(WrappersOf(x), edge[x].representative)
                       /\ WrappersOf(x) # {}
                       /\ edge[x].wrapper_count = Cardinality(WrappersOf(x))
                       /\ \A y \in WrappersOf(x) :
                           (claim[y].status = "Rejected") <=> (y # edge[x].representative))'
    BY DEF WrapperInv
  <2>1. CASE x = e
    <3> DEFINE W == WrappersOf(e)
    <3>1. /\ rep \in W /\ \A y \in W : rep <= y
          /\ edge[e].wrapper_count = Cardinality(W)
          /\ \A y \in W : (claim[y].status = "Rejected") <=> (y # rep)
      BY <1>1, <1>2 DEF ClaimsInv, WrapperInv, IsLeast, rep
    <3>2. WrappersOf(e)' = W \cup {c} /\ c \notin W
      BY <1>1, <1>3 DEF WrappersOf, ListWritten, e
    <3>3. Cardinality(W \cup {c}) = Cardinality(W) + 1
      BY <3>2, SetsFinite, FS_AddElement
    <3>4. /\ \A y \in W : y \in Nat /\ y \in Creds /\ y # c
          /\ c \in Nat /\ rep \in Nat
      BY <3>1, <3>2, SetsFinite, SetAssumption DEF WrappersOf
    <3> HIDE DEF W
    <3>5. IsLeast(W \cup {c}, IF c < rep THEN c ELSE rep)
      BY <3>1, <3>4 DEF IsLeast
    <3>6. \A y \in W \cup {c} : (claim'[y].status = "Rejected")
                                  <=> (y # (IF c < rep THEN c ELSE rep))
      BY <1>3, <3>1, <3>4
    <3> QED BY <1>3, <2>1, <3>1, <3>2, <3>3, <3>5, <3>6
  <2>2. CASE x # e
    <3>1. WrappersOf(x)' = WrappersOf(x) /\ c \notin WrappersOf(x)
      BY <1>1, <1>3, <2>2 DEF WrappersOf, ListWritten, e
    <3>2. rep \notin WrappersOf(x)
      <4>1. rep \in WrappersOf(e)
        BY <1>1, <1>2 DEF ClaimsInv, WrapperInv, IsLeast, rep
      <4> QED BY <2>2, <4>1 DEF WrappersOf
    <3>3. \A y \in WrappersOf(x) : y \in Creds /\ claim'[y].status = claim[y].status
      <4>1. \A y \in WrappersOf(x) : y \in Creds /\ y # c /\ y # rep
        BY <3>1, <3>2 DEF WrappersOf
      <4> QED BY <1>3, <4>1
    <3>4. edge'[x] = edge[x]
      BY <1>3, <2>2
    <3> QED BY <3>1, <3>3, <3>4 DEF ClaimsInv, WrapperInv
  <2> QED BY <2>1, <2>2
<1> QED BY <1>4, <1>7, <1>8, <1>9, <1>10 DEF ClaimsInv

-----------------------------------------------------------------------------
(***************************************************************************)
(* New accounts.                                                           *)
(***************************************************************************)
LEMMA NoEdges ==
  ASSUME \A e \in StateHashes : ~edge[e].exists
  PROVE  Forked = {} /\ \A s \in SessionIds : EdgesOf(s) = {}
<1>1. \A p : Children(p) = {}
  BY DEF Children
<1> QED BY <1>1, FS_EmptySet DEF Forked, EdgesOf

LEMMA CreateUserProfileKeeps ==
  ASSUME ClaimsInv, NEW t, CreateUserProfile(t)
  PROVE  ClaimsInv'
<1>1. /\ now' = now /\ session' = session /\ claim' = claim /\ edge' = edge /\ fork' = fork
      /\ ~profile.exists
      /\ profile' = [exists |-> TRUE, offline_access_enabled |-> TRUE,
                     successful_sessions |-> 0, conflict_count |-> 0,
                     revoked_at |-> 0, identity_expires_at |-> t,
                     active_session |-> NoSession]
  BY DEF CreateUserProfile, claimVars
<1>2. \A e \in StateHashes : ~edge[e].exists
  BY <1>1 DEF ClaimsInv, ExistInv
<1>3. Forked = {} /\ Cardinality(Forked) = 0
  BY <1>2, NoEdges, FS_EmptySet
<1>4. /\ \A s \in SessionIds : Submitted(s)' = Submitted(s) /\ EdgesOf(s)' = EdgesOf(s)
      /\ \A p \in States : Children(p)' = Children(p)
      /\ Forked' = Forked /\ NextLink' = NextLink /\ PrevLink' = PrevLink
  BY <1>1 DEF Submitted, EdgesOf, Children, Forked, NextLink, PrevLink
<1>5. ListInv'
  BY <1>1, <1>4 DEF ClaimsInv, ListInv
<1>6. ExistInv' /\ WrapperInv'
  BY <1>1, <1>2 DEF ClaimsInv, ExistInv, WrapperInv
<1>7. ForkInv'
  BY <1>1, <1>3, <1>4 DEF ClaimsInv, ForkInv
<1>8. ExposureInv'
  BY <1>1, <1>4 DEF ClaimsInv, ExposureInv
<1> QED BY <1>5, <1>6, <1>7, <1>8 DEF ClaimsInv

\* A session id that was never used has no claims, no edges and no children.
LEMMA UnusedSession ==
  ASSUME ClaimsInv, NEW s \in SessionIds, session[s].status = "None"
  PROVE  /\ Submitted(s) = {} /\ EdgesOf(s) = {} /\ Children(s) = {}
         /\ s \notin Forked
<1>1. EdgesOf(s) = {}
  BY DEF ClaimsInv, ExistInv, EdgesOf
<1>2. Submitted(s) = {}
  BY <1>1, MessageTypes DEF ClaimsInv, ExistInv, EdgesOf, Submitted
<1>3. Children(s) = {}
  <2> SUFFICES ASSUME NEW e \in Children(s) PROVE FALSE
    OBVIOUS
  <2>1. e \in StateHashes /\ edge[e].exists /\ Transition[e].previous_state = s
    BY DEF Children
  <2>2. Continues(e) /\ session[SessionOf(e)].status # "None"
    BY <2>1 DEF ClaimsInv, ExistInv
  <2> QED BY <2>1, <2>2, SetAssumption DEF Continues, FollowsEdge, SessionOf
<1> QED BY <1>1, <1>2, <1>3, FS_EmptySet DEF Forked

LEMMA CreateOfflineSessionKeeps ==
  ASSUME TypeOK, ClaimsInv, NEW s \in SessionIds, NEW locked, NEW limit, NEW t,
         CreateOfflineSession(s, locked, limit, t)
  PROVE  ClaimsInv'
<1>1. /\ now' = now /\ claim' = claim /\ edge' = edge /\ fork' = fork
      /\ session[s].status = "None"
      /\ session' = [session EXCEPT ![s] = NewSession(locked, limit, t)]
      /\ SameProfile(profile', profile)
  BY DEF CreateOfflineSession, claimVars, SameProfile, TypeOK, UserProfile
<1>2. Submitted(s) = {} /\ EdgesOf(s) = {} /\ Children(s) = {} /\ s \notin Forked
  BY <1>1, UnusedSession
<1>3. /\ \A x \in SessionIds : x # s => session'[x] = session[x]
      /\ session'[s] = NewSession(locked, limit, t)
  BY <1>1 DEF TypeOK
<1>4. /\ session'[s].status = "Active"
      /\ session'[s].claim_head = NoClaim /\ session'[s].claim_tail = NoClaim
      /\ session'[s].submitted_claim_count = 0 /\ session'[s].authenticated_fork = FALSE
      /\ session'[s].aggregate_offline_exposure = 0 /\ session'[s].unique_edge_count = 0
  <2> DEFINE r == NewSession(locked, limit, t)
  <2>1. /\ r.status = "Active" /\ r.claim_head = NoClaim /\ r.claim_tail = NoClaim
        /\ r.submitted_claim_count = 0 /\ r.authenticated_fork = FALSE
        /\ r.aggregate_offline_exposure = 0 /\ r.unique_edge_count = 0
    BY DEF NewSession, EmptySession
  <2> HIDE DEF r
  <2>2. session'[s] = r
    BY <1>3 DEF r
  <2> QED BY <2>1, <2>2
<1>5. /\ \A x \in SessionIds : Submitted(x)' = Submitted(x) /\ EdgesOf(x)' = EdgesOf(x)
      /\ \A p \in States : Children(p)' = Children(p)
      /\ \A e \in StateHashes : WrappersOf(e)' = WrappersOf(e)
      /\ Forked' = Forked /\ NextLink' = NextLink /\ PrevLink' = PrevLink
  BY <1>1 DEF Submitted, EdgesOf, Children, Forked, NextLink, PrevLink, WrappersOf
<1>6. ListInv'
  <2>1. /\ session'[s].submitted_claim_count = Cardinality(Submitted(s))
        /\ Linked(Submitted(s), session'[s].claim_head, session'[s].claim_tail,
                  NextLink, PrevLink)
    BY <1>2, <1>4, FS_EmptySet DEF Linked, IsLeast, IsGreatest
  <2> QED BY <1>3, <1>5, <2>1 DEF ClaimsInv, ListInv
<1>7. ExistInv'
  <2>1. \A e \in StateHashes : edge[e].exists => SessionOf(e) # s /\ SessionOf(e) \in SessionIds
    BY <1>2, MessageTypes DEF EdgesOf
  <2>2. \A e \in StateHashes : edge[e].exists /\ Continues(e) => Continues(e)'
    BY <1>1, <1>3, <2>1 DEF Continues, FollowsEdge, SessionOf
  <2> QED BY <1>1, <1>3, <2>1, <2>2 DEF ClaimsInv, ExistInv, SameProfile
<1>8. WrapperInv'
  BY <1>1, <1>5 DEF ClaimsInv, WrapperInv
<1>9. ForkInv'
  <2>1. session'[s].authenticated_fork <=> \E p \in Forked : p = s \/ p \in EdgesOf(s)
    BY <1>2, <1>4
  <2> QED BY <1>1, <1>3, <1>5, <2>1 DEF ClaimsInv, ForkInv, SameProfile
<1>10. ExposureInv'
  <2>1. TotalAmount({}) = 0 /\ Cardinality({}) = 0
    BY SumEmpty, FS_EmptySet DEF TotalAmount
  <2> QED BY <1>2, <1>3, <1>4, <1>5, <2>1 DEF ClaimsInv, ExposureInv
<1> QED BY <1>6, <1>7, <1>8, <1>9, <1>10 DEF ClaimsInv

-----------------------------------------------------------------------------
LEMMA ClaimsInit == Init => ClaimsInv
<1> SUFFICES ASSUME Init PROVE ClaimsInv
  OBVIOUS
<1>1. /\ \A s \in SessionIds : session[s] = EmptySession
      /\ \A c \in Creds : claim[c] = EmptyClaim
      /\ \A e \in StateHashes : edge[e] = EmptyEdge
      /\ \A p \in States : fork[p] = EmptyFork
      /\ now = 1 /\ ~profile.exists
  BY DEF Init
<1>2. \A e \in StateHashes : ~edge[e].exists
  BY <1>1 DEF EmptyEdge
<1>3. /\ \A s \in SessionIds : Submitted(s) = {} /\ EdgesOf(s) = {}
      /\ \A p \in States : Children(p) = {}
      /\ Forked = {}
  BY <1>1, <1>2, NoEdges DEF EmptyClaim, Submitted, Children
<1>4. Cardinality({}) = 0 /\ IsFiniteSet({}) /\ TotalAmount({}) = 0
  BY FS_EmptySet, SumEmpty DEF TotalAmount
<1>a. \A s \in SessionIds :
        /\ session[s].claim_head = NoClaim /\ session[s].claim_tail = NoClaim
        /\ session[s].submitted_claim_count = 0 /\ session[s].authenticated_fork = FALSE
        /\ session[s].aggregate_offline_exposure = 0 /\ session[s].unique_edge_count = 0
  BY <1>1 DEF EmptySession
<1>5. ListInv
  BY <1>3, <1>4, <1>a DEF ListInv, Linked, IsLeast, IsGreatest
<1>6. ExistInv
  BY <1>1, <1>2 DEF ExistInv, EmptyClaim
<1>7. WrapperInv
  BY <1>2 DEF WrapperInv
<1>8. ForkInv
  <2>1. \A p \in States : fork[p].branch_count = Cardinality(Children(p))
    BY <1>1, <1>3, <1>4 DEF EmptyFork
  <2> QED BY <1>1, <1>3, <1>4, <1>a, <2>1 DEF ForkInv
<1>9. ExposureInv
  BY <1>3, <1>4, <1>a DEF ExposureInv
<1> QED BY <1>5, <1>6, <1>7, <1>8, <1>9 DEF ClaimsInv

\* The instructions that write neither a claim, an edge, a fork nor a session.
LEMMA OtherAccountsQuiet ==
  ASSUME TypeOK, now' \in Nat, now' >= now,
         UNCHANGED <<profile, session, claim, edge, fork>>
  PROVE  Quiet
BY RecordsSame DEF Quiet

\* The books change only when the profile or a session is created or a claim
\* comes in; every other step is quiet.
Eventful ==
  \/ \E t \in Times : CreateUserProfile(t)
  \/ \E s \in SessionIds, locked, limit \in Amounts, t \in Times :
       CreateOfflineSession(s, locked, limit, t)
  \/ \E c \in Creds : SubmitClaim(c)

LEMMA StepKinds ==
  ASSUME SafetyInv, ClaimsInv, [Next]_vars
  PROVE  Quiet \/ Eventful
<1>t. TypeOK /\ now \in Nat
  BY DEF SafetyInv, TypeOK
<1> USE DEF tokenVars, claimVars
<1>1. CASE InitializeProtocol
  BY <1>1, <1>t, OtherAccountsQuiet DEF InitializeProtocol
<1>2. ASSUME NEW a \in Signers, NEW b \in BOOLEAN, SetPaused(a, b) PROVE Quiet
  BY <1>2, <1>t, OtherAccountsQuiet DEF SetPaused
<1>3. ASSUME NEW t \in Times, CreateUserProfile(t) PROVE Eventful
  BY <1>3 DEF Eventful
<1>4. CASE CreateVault
  BY <1>4, <1>t, OtherAccountsQuiet DEF CreateVault
<1>5. ASSUME NEW n \in Amounts, DepositCollateral(n) PROVE Quiet
  BY <1>5, <1>t, OtherAccountsQuiet DEF DepositCollateral
<1>6. ASSUME NEW n \in Amounts, DonateTokens(n) PROVE Quiet
  BY <1>6, <1>t, OtherAccountsQuiet DEF DonateTokens
<1>7. ASSUME NEW n \in Amounts, WithdrawCollateral(n) PROVE Quiet
  BY <1>7, <1>t, OtherAccountsQuiet DEF WithdrawCollateral
<1>8. ASSUME NEW s \in SessionIds, NEW locked \in Amounts, NEW limit \in Amounts,
             NEW t \in Times, CreateOfflineSession(s, locked, limit, t)
      PROVE  Eventful
  BY <1>8 DEF Eventful
<1>9. ASSUME NEW s \in SessionIds, RegisterDeviceAuthorization(s) PROVE Quiet
  BY <1>9, <1>t, RegisterQuiet
<1>10. ASSUME NEW c \in Creds, SubmitClaim(c) PROVE Eventful
  BY <1>10 DEF Eventful
<1>11. ASSUME NEW s \in SessionIds, BeginFinalization(s) PROVE Quiet
  BY <1>11, <1>t, BeginFinalizationQuiet
<1>12. ASSUME NEW e \in StateHashes, ClassifyEdge(e) PROVE Quiet
  BY <1>12, <1>t, ClassifyEdgeQuiet
<1>13. ASSUME NEW c \in Creds, AllocateNextClaim(c) PROVE Quiet
  BY <1>13, <1>t, AllocateNextClaimQuiet
<1>14. ASSUME NEW c \in Creds, SettleClaim(c) PROVE Quiet
  BY <1>14, <1>t, SettleClaimQuiet
<1>15. ASSUME NEW s \in SessionIds, CloseSession(s) PROVE Quiet
  BY <1>15, <1>t, CloseSessionQuiet
<1>16. CASE Tick
  BY <1>16, <1>t, OtherAccountsQuiet DEF Tick
<1>17. CASE UNCHANGED vars
  BY <1>17, <1>t, OtherAccountsQuiet DEF vars
<1> HIDE DEF tokenVars, claimVars
<1> QED
  BY <1>1, <1>2, <1>3, <1>4, <1>5, <1>6, <1>7, <1>8, <1>9, <1>10, <1>11, <1>12,
     <1>13, <1>14, <1>15, <1>16, <1>17 DEF Next

LEMMA ClaimsStep == SafetyInv /\ ClaimsInv /\ [Next]_vars => ClaimsInv'
<1> SUFFICES ASSUME SafetyInv, ClaimsInv, [Next]_vars PROVE ClaimsInv'
  OBVIOUS
<1>t. TypeOK
  BY DEF SafetyInv
<1>1. CASE Quiet
  BY <1>1, QuietKeeps
<1>2. ASSUME NEW t \in Times, CreateUserProfile(t) PROVE ClaimsInv'
  BY <1>2, CreateUserProfileKeeps
<1>3. ASSUME NEW s \in SessionIds, NEW locked \in Amounts, NEW limit \in Amounts,
             NEW t \in Times, CreateOfflineSession(s, locked, limit, t)
      PROVE  ClaimsInv'
  BY <1>3, <1>t, CreateOfflineSessionKeeps
<1>4. ASSUME NEW c \in Creds, SubmitClaim(c) PROVE ClaimsInv'
  <2>1. PICK pred \in Creds \cup {NoClaim}, succ \in Creds \cup {NoClaim} :
          SubmitClaimWith(c, pred, succ)
    BY <1>4 DEF SubmitClaim
  <2>2. SubmitNewEdge(c, pred, succ) \/ SubmitWrapper(c, pred, succ)
    BY <2>1 DEF SubmitClaimWith
  <2> QED BY <2>1, <2>2, SubmitNewEdgeKeeps, SubmitWrapperKeeps
<1> QED BY <1>1, <1>2, <1>3, <1>4, StepKinds DEF Eventful

LEMMA ClaimsInvariant == Spec => []ClaimsInv
BY ClaimsInit, ClaimsStep, SafetyInvariant, PTL DEF Spec

\* For any claims, sessions and witnesses, the claim list of a session is its
\* set of submitted claims in ascending order (insert_claim_in_order).
THEOREM ClaimListAlwaysSorted == Spec => []ClaimListSorted
<1>1. ClaimsInv => ClaimListSorted
  <2> SUFFICES ASSUME ClaimsInv, NEW s \in SessionIds
               PROVE  LET S == Submitted(s)
                      IN  /\ session[s].submitted_claim_count = Cardinality(S)
                          /\ session[s].claim_head = (IF S = {} THEN NoClaim ELSE Min(S))
                          /\ session[s].claim_tail = (IF S = {} THEN NoClaim ELSE Max(S))
                          /\ \A c \in S : /\ claim[c].next_claim = Above(S, c)
                                          /\ claim[c].previous_claim = Below(S, c)
    BY DEF ClaimListSorted
  <2> DEFINE S == Submitted(s)
  <2>1. /\ session[s].submitted_claim_count = Cardinality(S)
        /\ Linked(S, session[s].claim_head, session[s].claim_tail, NextLink, PrevLink)
    BY DEF ClaimsInv, ListInv
  <2>2. S \subseteq Nat /\ S \subseteq Creds
    BY SetsFinite DEF Submitted
  <2> HIDE DEF S
  <2>3. /\ session[s].claim_head = (IF S = {} THEN NoClaim ELSE Min(S))
        /\ session[s].claim_tail = (IF S = {} THEN NoClaim ELSE Max(S))
    BY <2>1, <2>2, LeastIsMin, GreatestIsMax DEF Linked
  <2>4. ASSUME NEW c \in S
        PROVE  claim[c].next_claim = Above(S, c) /\ claim[c].previous_claim = Below(S, c)
    <3>1. /\ IsLeast(After(S, c), claim[c].next_claim)
          /\ IsGreatest(Before(S, c), claim[c].previous_claim)
      BY <2>1, <2>2 DEF Linked, NextLink, PrevLink
    <3>2. After(S, c) \subseteq Nat /\ Before(S, c) \subseteq Nat
      BY <2>2 DEF After, Before
    <3>3. /\ Above(S, c) = IF After(S, c) = {} THEN NoClaim ELSE Min(After(S, c))
          /\ Below(S, c) = IF Before(S, c) = {} THEN NoClaim ELSE Max(Before(S, c))
      BY DEF Above, Below, After, Before
    <3> QED BY <3>1, <3>2, <3>3, LeastIsMin, GreatestIsMax
  <2> QED BY <2>1, <2>3, <2>4 DEF S
<1> QED BY <1>1, ClaimsInvariant, PTL

\* In whatever order the wrappers of an edge arrive, the smallest represents it
\* and is the one that is not rejected (submit_claim).
THEOREM RepresentativeAlwaysSmallest == Spec => []RepresentativeIsSmallest
<1>1. ClaimsInv => RepresentativeIsSmallest
  <2> SUFFICES ASSUME ClaimsInv, NEW e \in StateHashes, edge[e].exists
               PROVE  /\ edge[e].representative = Min(WrappersOf(e))
                      /\ edge[e].wrapper_count = Cardinality(WrappersOf(e))
                      /\ \A c \in WrappersOf(e) :
                           (claim[c].status = "Rejected") <=> (c # edge[e].representative)
    BY DEF RepresentativeIsSmallest
  <2>1. IsLeast(WrappersOf(e), edge[e].representative) /\ WrappersOf(e) # {}
    BY DEF ClaimsInv, WrapperInv
  <2>2. edge[e].representative = Min(WrappersOf(e))
    BY <2>1, SetsFinite, LeastIsMin
  <2> QED BY <2>2 DEF ClaimsInv, WrapperInv
<1> QED BY <1>1, ClaimsInvariant, PTL

\* A fork is confirmed, access revoked and the conflict counted exactly when two
\* edges on chain leave one state (register_fork_child, revoke_offline_access).
THEOREM ForkAlwaysExact == Spec => []ForkExact
<1>1. ClaimsInv => ForkExact
  BY DEF ClaimsInv, ForkInv, ForkExact, Forked
<1> QED BY <1>1, ClaimsInvariant, PTL

\* The exposure of a session is the sum over its edges, each counted once, and
\* no branch spends more than the branch limit (submit_claim).
THEOREM ExposureAlwaysExact == Spec => []ExposureExact
<1>1. ClaimsInv => ExposureExact
  <2> SUFFICES ASSUME ClaimsInv, NEW s \in SessionIds, NEW e \in EdgesOf(s)
               PROVE  TotalAmount(Branch[e]) <= session[s].branch_spending_limit
    BY DEF ClaimsInv, ExposureInv, ExposureExact
  <2>1. /\ Branch[e] \subseteq EdgesOf(s)
        /\ TotalAmount(Branch[e]) + Transition[e].new_remaining
             = session[s].branch_spending_limit
    BY DEF ClaimsInv, ExposureInv
  <2>2. e \in StateHashes /\ Branch[e] \subseteq StateHashes /\ IsFiniteSet(Branch[e])
    BY <2>1, SetsFinite, FS_Subset DEF EdgesOf
  <2>3. TotalAmount(Branch[e]) \in Nat
    BY <2>2, SumNat, MessageTypes DEF TotalAmount, AmountOf
  <2>4. Transition[e].new_remaining \in Nat
    BY <2>2, MessageAssumption DEF TransitionRecord
  <2> QED BY <2>1, <2>3, <2>4
<1> QED BY <1>1, ClaimsInvariant, PTL
=============================================================================
