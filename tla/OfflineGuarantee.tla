-------------------------- MODULE OfflineGuarantee --------------------------
(***************************************************************************)
(* The on-chain program (programs/offline-guarantee) seen from one payer:  *)
(* the global configuration, the payer's risk profile, collateral vault    *)
(* and sessions, and the claims, state edges and fork records of those     *)
(* sessions.  Accounts of different payers are different PDAs and share    *)
(* nothing but the configuration, so one payer is the whole system.        *)
(*                                                                         *)
(* One action is one instruction.  A Solana transaction that fails leaves  *)
(* no trace, so every `require!` is a conjunct of the action's guard.      *)
(***************************************************************************)
EXTENDS Integers, FiniteSets, Sequences

CONSTANTS
  SessionIds,     \* session ids; an id also names the session's genesis state
  StateHashes,    \* payment state hashes; one names the edge that leads to it
  Creds,          \* credential hashes, ordered as numbers
  Merchants,
  Transition,     \* state hash -> the PaymentStateV1 fields that hash to it
  Credential,     \* credential hash -> the signed wrapper of a state hash
  Supply,         \* settlement tokens in existence
  U64Max,         \* the largest u64
  Amounts,        \* amounts an instruction may carry
  MaxSessionDuration,
  ClaimGracePeriod,
  MaxBranchDepth,
  MaxTime         \* bound: the clock stops here

NoClaim   == 0       \* Pubkey::default() in a claim link
NoSession == "none"  \* Pubkey::default() in profile.active_session
NoState   == "none"  \* a zeroed child hash

States == SessionIds \cup StateHashes

TransitionRecord ==
  [session: SessionIds, previous_state: States, sequence: Nat, amount: Nat,
   merchant: Merchants, previous_remaining: Nat, new_remaining: Nat]

\* `authentic`: the ed25519 precompile covers the payload, its domain, session,
\* payer and device key are the session's, the merchant is not the owner, the
\* challenge is not zero, and the recomputed state hash is new_state_hash.
CredentialRecord ==
  [new_state: StateHashes, created_at: Nat, session_expires_at: Nat,
   authentic: BOOLEAN]

ASSUME SetAssumption ==
  /\ SessionIds \cap StateHashes = {}
  /\ NoSession \notin SessionIds \cup StateHashes
  /\ Creds \subseteq Nat \ {0}
  /\ IsFiniteSet(Creds) /\ IsFiniteSet(StateHashes)
  /\ IsFiniteSet(SessionIds) /\ IsFiniteSet(Merchants)

ASSUME MessageAssumption ==
  /\ Transition \in [StateHashes -> TransitionRecord]
  /\ Credential \in [Creds -> CredentialRecord]

ASSUME NumberAssumption ==
  /\ U64Max \in Nat /\ Supply \in 0..U64Max /\ Amounts \subseteq Nat
  /\ MaxSessionDuration \in Nat /\ ClaimGracePeriod \in Nat
  /\ MaxBranchDepth \in Nat /\ MaxTime \in Nat

VARIABLES
  now,             \* Clock::get()?.unix_timestamp
  config,          \* ProtocolConfig
  profile,         \* UserProfile of the payer
  vault,           \* CollateralVault of the payer
  vault_token,     \* token balance of the vault's SPL account
  outside,         \* tokens held neither by the vault nor by a merchant
  merchant_token,  \* merchant -> its token balance
  session,         \* session id -> OfflineSession
  claim,           \* credential hash -> Claim
  edge,            \* state hash -> StateEdgeRecord
  fork             \* parent state -> ForkRecord

tokenVars == <<vault_token, outside, merchant_token>>
claimVars == <<claim, edge, fork>>
vars == <<now, config, profile, vault, tokenVars, session, claimVars>>

(***************************************************************************)
(* Accounts.  An account that does not exist yet holds its default value   *)
(* with exists = FALSE (status "None" for a session or a claim).           *)
(***************************************************************************)
SessionStatus ==
  {"None", "Active", "ClaimWindow", "Conflicted", "Reconciling", "Settled",
   "Insolvent", "Closed"}

CoverageStatus == {"Uncalculated", "FullyCovered", "Insolvent"}

ClaimStatus ==
  {"None", "Submitted", "Valid", "Conflicting", "Settled", "Rejected"}

ProtocolConfig == [initialized: BOOLEAN, paused: BOOLEAN]

UserProfile ==
  [exists: BOOLEAN, offline_access_enabled: BOOLEAN, successful_sessions: Nat,
   conflict_count: Nat, revoked_at: Nat, identity_expires_at: Nat,
   active_session: SessionIds \cup {NoSession}]

CollateralVault ==
  [exists: BOOLEAN, deposited_amount: Nat, reserved_amount: Nat,
   settled_from_collateral: Nat]

\* One entry of the hash chain that resolution_hash commits to.
ResolutionEntry ==
  [credential: Creds, allocation: Nat, status: {"Valid", "Conflicting"}]

OfflineSession ==
  [status: SessionStatus, authorized: BOOLEAN, authenticated_fork: BOOLEAN,
   coverage_status: CoverageStatus,
   collateral_coverage_cap: Nat, branch_spending_limit: Nat,
   issued_at: Nat, expires_at: Nat, claim_submission_deadline: Nat,
   aggregate_offline_exposure: Nat, unique_edge_count: Nat,
   submitted_claim_count: Nat,
   claim_head: Creds \cup {NoClaim}, claim_tail: Creds \cup {NoClaim},
   frozen_edge_count: Nat, frozen_exposure: Nat,
   classified_edge_count: Nat, classified_exposure: Nat,
   base_allocation_total: Nat, classification_complete: BOOLEAN,
   next_allocation_claim: Creds \cup {NoClaim}, scanned_claim_count: Nat,
   allocated_edge_count: Nat, allocated_total: Nat,
   conflicting_claim_count: Nat, resolution_hash: Seq(ResolutionEntry),
   allocation_complete: BOOLEAN,
   settled_edge_count: Nat, settled_amount: Nat]

Claim ==
  [status: ClaimStatus, allocated_amount: Nat, settled_amount: Nat,
   previous_claim: Creds \cup {NoClaim}, next_claim: Creds \cup {NoClaim},
   allocation_processed: BOOLEAN]

StateEdgeRecord ==
  [exists: BOOLEAN, representative: Creds \cup {NoClaim}, wrapper_count: Nat,
   classified: BOOLEAN, conflicting: BOOLEAN, allocation_finalized: BOOLEAN,
   allocated_amount: Nat, settled_amount: Nat]

ForkRecord ==
  [first_child: StateHashes \cup {NoState},
   second_child: StateHashes \cup {NoState}, branch_count: Nat]

EmptySession ==
  [status |-> "None", authorized |-> FALSE, authenticated_fork |-> FALSE,
   coverage_status |-> "Uncalculated",
   collateral_coverage_cap |-> 0, branch_spending_limit |-> 0,
   issued_at |-> 0, expires_at |-> 0, claim_submission_deadline |-> 0,
   aggregate_offline_exposure |-> 0, unique_edge_count |-> 0,
   submitted_claim_count |-> 0, claim_head |-> NoClaim, claim_tail |-> NoClaim,
   frozen_edge_count |-> 0, frozen_exposure |-> 0,
   classified_edge_count |-> 0, classified_exposure |-> 0,
   base_allocation_total |-> 0, classification_complete |-> FALSE,
   next_allocation_claim |-> NoClaim, scanned_claim_count |-> 0,
   allocated_edge_count |-> 0, allocated_total |-> 0,
   conflicting_claim_count |-> 0, resolution_hash |-> <<>>,
   allocation_complete |-> FALSE, settled_edge_count |-> 0,
   settled_amount |-> 0]

EmptyClaim ==
  [status |-> "None", allocated_amount |-> 0, settled_amount |-> 0,
   previous_claim |-> NoClaim, next_claim |-> NoClaim,
   allocation_processed |-> FALSE]

EmptyEdge ==
  [exists |-> FALSE, representative |-> NoClaim, wrapper_count |-> 0,
   classified |-> FALSE, conflicting |-> FALSE, allocation_finalized |-> FALSE,
   allocated_amount |-> 0, settled_amount |-> 0]

EmptyFork ==
  [first_child |-> NoState, second_child |-> NoState, branch_count |-> 0]

Init ==
  /\ now = 1
  /\ config = [initialized |-> FALSE, paused |-> FALSE]
  /\ profile = [exists |-> FALSE, offline_access_enabled |-> FALSE,
                successful_sessions |-> 0, conflict_count |-> 0,
                revoked_at |-> 0, identity_expires_at |-> 0,
                active_session |-> NoSession]
  /\ vault = [exists |-> FALSE, deposited_amount |-> 0,
              reserved_amount |-> 0, settled_from_collateral |-> 0]
  /\ vault_token = 0
  /\ outside = Supply
  /\ merchant_token = [m \in Merchants |-> 0]
  /\ session = [s \in SessionIds |-> EmptySession]
  /\ claim = [c \in Creds |-> EmptyClaim]
  /\ edge = [e \in StateHashes |-> EmptyEdge]
  /\ fork = [p \in States |-> EmptyFork]

-----------------------------------------------------------------------------
(***************************************************************************)
(* Configuration, profile and vault.                                       *)
(***************************************************************************)
Times == 0..MaxTime

\* require_not_paused, on a configuration account that exists.
NotPaused == config.initialized /\ ~config.paused

\* validate_authorities makes the four authorities nonzero and pairwise
\* distinct, so a signer is at most one of them.
Signers == {"admin", "emergency", "other"}

InitializeProtocol ==
  /\ ~config.initialized
  /\ config' = [initialized |-> TRUE, paused |-> FALSE]
  /\ UNCHANGED <<now, profile, vault, tokenVars, session, claimVars>>

\* can_change_pause: the emergency authority may pause but not unpause.
CanChangePause(authority, paused) ==
  authority = "admin" \/ (paused /\ authority = "emergency")

SetPaused(authority, paused) ==
  /\ config.initialized
  /\ CanChangePause(authority, paused)
  /\ config' = [config EXCEPT !.paused = paused]
  /\ UNCHANGED <<now, profile, vault, tokenVars, session, claimVars>>

CreateUserProfile(identity_expires_at) ==
  /\ NotPaused
  /\ ~profile.exists
  /\ identity_expires_at > now
  /\ profile' = [exists |-> TRUE, offline_access_enabled |-> TRUE,
                 successful_sessions |-> 0, conflict_count |-> 0,
                 revoked_at |-> 0, identity_expires_at |-> identity_expires_at,
                 active_session |-> NoSession]
  /\ UNCHANGED <<now, config, vault, tokenVars, session, claimVars>>

CreateVault ==
  /\ NotPaused
  /\ ~vault.exists
  /\ vault' = [exists |-> TRUE, deposited_amount |-> 0, reserved_amount |-> 0,
               settled_from_collateral |-> 0]
  /\ UNCHANGED <<now, config, profile, tokenVars, session, claimVars>>

\* checked_deposit, after the transfer and the reload of the token account.
CheckedDeposit(deposited, amount, actual_after) ==
  /\ amount > 0
  /\ deposited + amount <= U64Max
  /\ actual_after >= deposited + amount

DepositCollateral(amount) ==
  /\ NotPaused
  /\ vault.exists
  /\ amount <= outside
  /\ CheckedDeposit(vault.deposited_amount, amount, vault_token + amount)
  /\ vault_token' = vault_token + amount
  /\ outside' = outside - amount
  /\ vault' = [vault EXCEPT !.deposited_amount = @ + amount]
  /\ UNCHANGED <<now, config, profile, merchant_token, session, claimVars>>

\* Anybody may transfer tokens to the vault's SPL account directly.
DonateTokens(amount) ==
  /\ vault.exists
  /\ amount \in 1..outside
  /\ vault_token' = vault_token + amount
  /\ outside' = outside - amount
  /\ UNCHANGED <<now, config, profile, vault, merchant_token, session,
                 claimVars>>

MutantWithdrawable(amount) ==
  amount <= vault.deposited_amount /\ amount <= vault_token

MutantWithdrawableBalance(amount) == amount <= vault_token - vault.reserved_amount

\* Neither the books nor the real balance may fall below the reserve.
Withdrawable(amount) ==
  /\ vault.deposited_amount >= vault.reserved_amount
  /\ vault_token >= vault.reserved_amount
  /\ amount <= vault.deposited_amount - vault.reserved_amount
  /\ amount <= vault_token - vault.reserved_amount

WithdrawCollateral(amount) ==
  /\ NotPaused
  /\ vault.exists
  /\ amount > 0
  /\ Withdrawable(amount)
  /\ vault_token' = vault_token - amount
  /\ outside' = outside + amount
  /\ vault' = [vault EXCEPT !.deposited_amount = @ - amount]
  /\ UNCHANGED <<now, config, profile, merchant_token, session, claimVars>>

-----------------------------------------------------------------------------
(***************************************************************************)
(* Sessions.                                                               *)
(***************************************************************************)
MINIMUM_COLLATERAL_RATIO_BPS == 30000
BPS_DENOMINATOR == 10000

ValidSessionEconomics(locked, limit) ==
  /\ locked > 0 /\ limit > 0
  /\ locked * BPS_DENOMINATOR >= limit * MINIMUM_COLLATERAL_RATIO_BPS

ValidSessionWindow(expires_at) ==
  expires_at > now /\ expires_at - now <= MaxSessionDuration

CheckedReservation(locked) ==
  /\ vault.reserved_amount + locked <= vault.deposited_amount
  /\ vault.reserved_amount + locked <= vault_token

NewSession(locked, limit, expires_at) ==
  [EmptySession EXCEPT
     !.status = "Active",
     !.collateral_coverage_cap = locked,
     !.branch_spending_limit = limit,
     !.issued_at = now,
     !.expires_at = expires_at,
     !.claim_submission_deadline = expires_at + ClaimGracePeriod]

CreateOfflineSession(s, locked, limit, expires_at) ==
  /\ NotPaused
  /\ profile.exists /\ vault.exists
  /\ session[s].status = "None"
  /\ profile.offline_access_enabled
  /\ profile.active_session = NoSession
  /\ profile.identity_expires_at > now
  /\ ValidSessionEconomics(locked, limit)
  /\ ValidSessionWindow(expires_at)
  /\ profile.identity_expires_at >= expires_at
  /\ CheckedReservation(locked)
  /\ vault' = [vault EXCEPT !.reserved_amount = @ + locked]
  /\ session' = [session EXCEPT ![s] = NewSession(locked, limit, expires_at)]
  /\ profile' = [profile EXCEPT !.active_session = s]
  /\ UNCHANGED <<now, config, tokenVars, claimVars>>

RegisterDeviceAuthorization(s) ==
  /\ NotPaused
  /\ session[s].status # "None"
  /\ ~session[s].authorized
  /\ session' = [session EXCEPT ![s].authorized = TRUE]
  /\ UNCHANGED <<now, config, profile, vault, tokenVars, claimVars>>

-----------------------------------------------------------------------------
(***************************************************************************)
(* submit_claim.  A rejected claim is always a DuplicateStateEdge, so the  *)
(* status "Rejected" stands for status and reason together.                *)
(***************************************************************************)
EdgeOf(c) == Credential[c].new_state
SessionOf(e) == Transition[e].session

ClaimsOpen(s) == session[s].status \in {"Active", "ClaimWindow", "Conflicted"}

\* The ed25519 instruction that precedes submit_claim verified this payload.
Authentic(c) == Credential[c].authentic

ValidClaimPayload(c) ==
  LET t == Transition[EdgeOf(c)]
      r == session[t.session]
  IN  /\ now <= r.claim_submission_deadline
      /\ Authentic(c)
      /\ t.amount > 0
      /\ t.sequence \in 1..MaxBranchDepth
      /\ Credential[c].created_at >= r.issued_at
      /\ Credential[c].created_at <= r.expires_at
      /\ Credential[c].session_expires_at = r.expires_at
      /\ t.previous_remaining <= r.branch_spending_limit
      /\ t.amount <= t.previous_remaining
      /\ t.new_remaining = t.previous_remaining - t.amount

MutantFollowsEdge(e) ==
  LET t == Transition[e]
      p == t.previous_state
  IN  /\ p \in StateHashes
      /\ edge[p].exists
      /\ Transition[p].session = t.session
      /\ Transition[p].sequence + 1 = t.sequence

\* The parent edge of e is on chain and its remaining balance is continued.
FollowsEdge(e) ==
  LET t == Transition[e]
      p == t.previous_state
  IN  /\ p \in StateHashes
      /\ edge[p].exists
      /\ Transition[p].session = t.session
      /\ Transition[p].sequence + 1 = t.sequence
      /\ Transition[p].new_remaining = t.previous_remaining

ReachableParent(e) ==
  LET t == Transition[e]
  IN  \/ /\ t.sequence = 1
         /\ t.previous_state = t.session
         /\ t.previous_remaining = session[t.session].branch_spending_limit
      \/ t.sequence # 1 /\ FollowsEdge(e)

MutantCanInsertBetween(s, c, pred, succ) ==
  LET r == session[s]
      isEmpty == r.submitted_claim_count = 0 /\ r.claim_head = NoClaim
  IN  \/ isEmpty /\ pred = NoClaim /\ succ = NoClaim
      \/ ~isEmpty /\ pred = NoClaim /\ succ # NoClaim
         /\ succ = r.claim_head /\ claim[succ].previous_claim = NoClaim
         /\ c < succ
      \/ ~isEmpty /\ pred # NoClaim /\ succ = NoClaim
         /\ pred = r.claim_tail /\ claim[pred].next_claim = NoClaim
      \/ ~isEmpty /\ pred # NoClaim /\ succ # NoClaim
         /\ claim[pred].next_claim = succ /\ claim[succ].previous_claim = pred
         /\ pred < c /\ c < succ

\* The witnesses insert_claim_in_order accepts.  NoClaim stands for the
\* session account passed as the sentinel; a witness of another session has
\* no link into this session's list.
CanInsertBetween(s, c, pred, succ) ==
  LET r == session[s]
      isEmpty == r.submitted_claim_count = 0 /\ r.claim_head = NoClaim
      InSession(x) == SessionOf(EdgeOf(x)) = s
  IN  \/ isEmpty /\ pred = NoClaim /\ succ = NoClaim
      \/ ~isEmpty /\ pred = NoClaim /\ succ # NoClaim
         /\ succ = r.claim_head /\ InSession(succ)
         /\ claim[succ].previous_claim = NoClaim /\ c < succ
      \/ ~isEmpty /\ pred # NoClaim /\ succ = NoClaim
         /\ pred = r.claim_tail /\ InSession(pred)
         /\ claim[pred].next_claim = NoClaim /\ pred < c
      \/ ~isEmpty /\ pred # NoClaim /\ succ # NoClaim
         /\ InSession(pred) /\ InSession(succ)
         /\ claim[pred].next_claim = succ /\ claim[succ].previous_claim = pred
         /\ pred < c /\ c < succ

MutantInsertClaimInOrder(cl, c, pred, succ) ==
  [x \in Creds |->
     [cl[x] EXCEPT
        !.next_claim     = IF x = c THEN succ ELSE @,
        !.previous_claim = IF x = c THEN pred ELSE IF x = succ THEN c ELSE @]]

\* The claim accounts of cl once c is linked between pred and succ.
InsertClaimInOrder(cl, c, pred, succ) ==
  [x \in Creds |->
     [cl[x] EXCEPT
        !.next_claim     = IF x = c THEN succ ELSE IF x = pred THEN c ELSE @,
        !.previous_claim = IF x = c THEN pred ELSE IF x = succ THEN c ELSE @]]

\* The session account after claim c: list ends, counters, and the status that
\* the first claim after expiry moves to ClaimWindow.
SessionWithClaim(r, c, pred, succ) ==
  [r EXCEPT
     !.claim_head = IF pred = NoClaim THEN c ELSE @,
     !.claim_tail = IF succ = NoClaim THEN c ELSE @,
     !.submitted_claim_count = @ + 1,
     !.status = IF now > r.expires_at /\ @ = "Active" THEN "ClaimWindow" ELSE @]

\* register_fork_child: the second child of a state confirms a fork.
ConfirmsFork(p) == fork[p].branch_count = 1

MutantForkWithChild(f, e) ==
  IF f.branch_count = 0
  THEN [first_child |-> e, second_child |-> NoState, branch_count |-> 1]
  ELSE [f EXCEPT !.second_child = e, !.branch_count = 2]

ForkWithChild(f, e) ==
  IF f.branch_count = 0
  THEN [first_child |-> e, second_child |-> NoState, branch_count |-> 1]
  ELSE [f EXCEPT !.second_child = IF f.branch_count = 1 THEN e ELSE @,
                 !.branch_count = @ + 1]

RevokeOfflineAccess ==
  [profile EXCEPT !.offline_access_enabled = FALSE,
                  !.conflict_count = @ + 1,
                  !.revoked_at = IF @ = 0 THEN now ELSE @]

\* The economic effects of a new edge on the session account.
SessionWithEdge(r, e, confirmed) ==
  [r EXCEPT
     !.authenticated_fork = @ \/ confirmed,
     !.status = IF confirmed THEN "Conflicted" ELSE @,
     !.aggregate_offline_exposure = @ + Transition[e].amount,
     !.unique_edge_count = @ + 1]

\* The first credential of edge e: it represents the edge.
SubmitNewEdge(c, pred, succ) ==
  LET e == EdgeOf(c)
      s == SessionOf(e)
      p == Transition[e].previous_state
      confirmed == ConfirmsFork(p)
  IN  /\ ~edge[e].exists
      /\ ReachableParent(e)
      /\ fork[p].branch_count > 0 => e # fork[p].first_child
      /\ fork[p].branch_count > 1 => e # fork[p].second_child
      /\ session[s].aggregate_offline_exposure + Transition[e].amount <= U64Max
      /\ claim' = InsertClaimInOrder(
                    [claim EXCEPT ![c] = [EmptyClaim EXCEPT !.status = "Submitted"]],
                    c, pred, succ)
      /\ edge' = [edge EXCEPT ![e] =
                    [EmptyEdge EXCEPT !.exists = TRUE, !.representative = c,
                                      !.wrapper_count = 1]]
      /\ fork' = [fork EXCEPT ![p] = ForkWithChild(@, e)]
      /\ session' = [session EXCEPT ![s] =
                       SessionWithClaim(SessionWithEdge(@, e, confirmed),
                                        c, pred, succ)]
      /\ profile' = IF confirmed THEN RevokeOfflineAccess ELSE profile

MutantReplaces(c, rep) == FALSE

\* The smaller credential hash represents the edge.
Replaces(c, rep) == c < rep

\* Another wrapper of an edge already on chain: the smaller credential hash
\* represents the edge and the other one is rejected.
SubmitWrapper(c, pred, succ) ==
  LET e == EdgeOf(c)
      s == SessionOf(e)
      rep == edge[e].representative
      replaces == Replaces(c, rep)
      created == [x \in Creds |->
                    CASE x = c -> [EmptyClaim EXCEPT
                                     !.status = IF replaces THEN "Submitted"
                                                            ELSE "Rejected"]
                      [] x # c /\ x = rep /\ replaces ->
                           [claim[x] EXCEPT !.status = "Rejected"]
                      [] OTHER -> claim[x]]
  IN  /\ edge[e].exists
      /\ claim[rep].status = "Submitted"
      /\ claim' = InsertClaimInOrder(created, c, pred, succ)
      /\ edge' = [edge EXCEPT
                    ![e].wrapper_count = @ + 1,
                    ![e].representative = IF replaces THEN c ELSE @]
      /\ session' = [session EXCEPT ![s] = SessionWithClaim(@, c, pred, succ)]
      /\ UNCHANGED <<fork, profile>>

\* submit_claim with the list witnesses that the transaction names.
SubmitClaimWith(c, pred, succ) ==
  LET s == SessionOf(EdgeOf(c))
  IN  /\ NotPaused
      /\ ClaimsOpen(s)
      /\ session[s].authorized
      /\ ValidClaimPayload(c)
      /\ claim[c].status = "None"
      /\ CanInsertBetween(s, c, pred, succ)
      /\ SubmitNewEdge(c, pred, succ) \/ SubmitWrapper(c, pred, succ)
      /\ UNCHANGED <<now, config, vault, tokenVars>>

\* The relayer chooses the witnesses; the program trusts neither.
SubmitClaim(c) ==
  \E pred, succ \in Creds \cup {NoClaim} : SubmitClaimWith(c, pred, succ)

-----------------------------------------------------------------------------
(***************************************************************************)
(* Finalization: freeze, classify every edge, allocate in credential-hash  *)
(* order, settle, close.  Anybody may send these instructions, and a pause *)
(* does not stop them.                                                     *)
(***************************************************************************)
CoverageAmount(exposure, cap) == IF exposure <= cap THEN exposure ELSE cap

\* checked_base_allocation: the pro-rata share, rounded down.
BaseAllocation(amount, exposure, cap) ==
  (amount * CoverageAmount(exposure, cap)) \div exposure

CanCompleteAllocation(r) ==
  /\ r.classification_complete
  /\ r.scanned_claim_count = r.submitted_claim_count
  /\ r.allocated_edge_count = r.frozen_edge_count
  /\ r.next_allocation_claim = NoClaim
  /\ r.allocated_total
       = CoverageAmount(r.frozen_exposure, r.collateral_coverage_cap)

MutantReleasedCollateral(r) == 0

ReleasedCollateral(r) ==
  r.collateral_coverage_cap
    - CoverageAmount(r.frozen_exposure, r.collateral_coverage_cap)

CompletedAllocation(r) ==
  LET covered == r.frozen_exposure <= r.collateral_coverage_cap
  IN  [r EXCEPT
         !.coverage_status = IF covered THEN "FullyCovered" ELSE "Insolvent",
         !.status = IF ~covered THEN "Insolvent"
                    ELSE IF r.authenticated_fork THEN "Conflicted"
                    ELSE "Reconciling",
         !.allocation_complete = TRUE]

\* complete_allocation on the session account r of s: the part of the reserve
\* that no allocation needs is released.
CompleteAllocation(s, r) ==
  /\ CanCompleteAllocation(r)
  /\ ReleasedCollateral(r) <= vault.reserved_amount
  /\ session' = [session EXCEPT ![s] = CompletedAllocation(r)]
  /\ vault' = [vault EXCEPT !.reserved_amount = @ - ReleasedCollateral(r)]

MutantAfterDeadline(s) == now >= session[s].claim_submission_deadline

AfterDeadline(s) == now > session[s].claim_submission_deadline

MutantFrozenSession(r) ==
  [r EXCEPT !.frozen_edge_count = r.unique_edge_count,
            !.frozen_exposure = r.aggregate_offline_exposure,
            !.status = "Reconciling",
            !.next_allocation_claim = r.claim_head,
            !.allocation_complete = FALSE,
            !.resolution_hash = <<>>]

FrozenSession(r) ==
  [r EXCEPT !.frozen_edge_count = r.unique_edge_count,
            !.frozen_exposure = r.aggregate_offline_exposure,
            !.status = "Reconciling",
            !.next_allocation_claim = r.claim_head,
            !.resolution_hash = <<>>]

BeginFinalization(s) ==
  LET frozen == FrozenSession(session[s])
  IN  /\ AfterDeadline(s)
      /\ session[s].status \in {"Active", "ClaimWindow", "Conflicted"}
      /\ IF frozen.frozen_edge_count = 0
         THEN /\ frozen.frozen_exposure = 0
              /\ frozen.submitted_claim_count = 0
              /\ CompleteAllocation(s,
                   [frozen EXCEPT !.classification_complete = TRUE])
         ELSE /\ session' = [session EXCEPT ![s] = frozen]
              /\ UNCHANGED vault
      /\ UNCHANGED <<now, config, profile, tokenVars, claimVars>>

\* The part of classify_edge that reads the parent: an edge below a
\* conflicting edge is conflicting.
ParentAllowsClassification(e) ==
  LET t == Transition[e]
  IN  \/ t.sequence = 1 /\ t.previous_state = t.session
      \/ t.sequence # 1 /\ FollowsEdge(e) /\ edge[t.previous_state].classified

MutantInheritsConflict(e) == FALSE

InheritsConflict(e) ==
  LET t == Transition[e]
  IN  t.sequence # 1 /\ edge[t.previous_state].conflicting

SessionWithClassified(r, e, base) ==
  LET count == r.classified_edge_count + 1
  IN  [r EXCEPT
         !.classified_edge_count = count,
         !.classified_exposure = @ + Transition[e].amount,
         !.base_allocation_total = @ + base,
         !.classification_complete = (count = r.frozen_edge_count)]

ClassifyEdge(e) ==
  LET s == SessionOf(e)
      t == Transition[e]
      r == session[s]
      base == BaseAllocation(t.amount, r.frozen_exposure,
                             r.collateral_coverage_cap)
      done == SessionWithClassified(r, e, base)
  IN  /\ r.status = "Reconciling"
      /\ ~r.classification_complete
      /\ edge[e].exists
      /\ ~edge[e].classified
      /\ fork[t.previous_state].branch_count > 0
      /\ ParentAllowsClassification(e)
      /\ r.frozen_exposure > 0 /\ t.amount <= r.frozen_exposure
      /\ done.classification_complete
           => done.classified_exposure = r.frozen_exposure
      /\ edge' = [edge EXCEPT
                    ![e].classified = TRUE,
                    ![e].conflicting =
                       \/ InheritsConflict(e)
                       \/ fork[t.previous_state].branch_count >= 2,
                    ![e].allocated_amount = base]
      /\ session' = [session EXCEPT ![s] = done]
      /\ UNCHANGED <<now, config, profile, vault, tokenVars, claim, fork>>

MutantDust(r) ==
  LET remainder == CoverageAmount(r.frozen_exposure, r.collateral_coverage_cap)
                     - r.base_allocation_total
  IN  IF r.frozen_edge_count - r.allocated_edge_count <= remainder THEN 1 ELSE 0

\* One unit of the rounding remainder, for the first representatives in
\* credential-hash order.
Dust(r) ==
  LET remainder == CoverageAmount(r.frozen_exposure, r.collateral_coverage_cap)
                     - r.base_allocation_total
  IN  IF r.allocated_edge_count < remainder THEN 1 ELSE 0

SessionWithAllocation(r, c, allocation, status) ==
  [r EXCEPT
     !.conflicting_claim_count = IF status = "Conflicting" THEN @ + 1 ELSE @,
     !.allocated_edge_count = @ + 1,
     !.allocated_total = @ + allocation,
     !.resolution_hash = Append(@, [credential |-> c,
                                    allocation |-> allocation,
                                    status |-> status]),
     !.settled_edge_count = IF allocation = 0 THEN @ + 1 ELSE @]

\* The scan moves on to the next claim of the list.
SessionWithScan(r, c) ==
  [r EXCEPT !.scanned_claim_count = @ + 1,
            !.next_allocation_claim = claim[c].next_claim]

FinishScan(s, r) ==
  IF r.scanned_claim_count = r.submitted_claim_count
  THEN CompleteAllocation(s, r)
  ELSE session' = [session EXCEPT ![s] = r] /\ UNCHANGED vault

MutantAllocatedStatus(allocation, verdict) == verdict

\* A representative that gets nothing has nothing left to be paid.
AllocatedStatus(allocation, verdict) ==
  IF allocation = 0 THEN "Settled" ELSE verdict

\* The claim at the cursor represents its edge: it gets the edge's allocation.
AllocateRepresentative(c) ==
  LET e == EdgeOf(c)
      s == SessionOf(e)
      r == session[s]
      allocation == edge[e].allocated_amount + Dust(r)
      verdict == IF edge[e].conflicting THEN "Conflicting" ELSE "Valid"
  IN  /\ edge[e].representative = c
      /\ edge[e].classified /\ ~edge[e].allocation_finalized
      /\ claim[c].status = "Submitted"
      /\ CoverageAmount(r.frozen_exposure, r.collateral_coverage_cap)
           >= r.base_allocation_total
      /\ allocation <= Transition[e].amount
      /\ edge' = [edge EXCEPT ![e].allocated_amount = allocation,
                              ![e].allocation_finalized = TRUE]
      /\ claim' = [claim EXCEPT
                     ![c].allocated_amount = allocation,
                     ![c].status = AllocatedStatus(allocation, verdict),
                     ![c].allocation_processed = TRUE]
      /\ FinishScan(s, SessionWithScan(
                         SessionWithAllocation(r, c, allocation, verdict), c))

\* The claim at the cursor is a rejected wrapper: it is skipped.
SkipDuplicate(c) ==
  LET e == EdgeOf(c)
      s == SessionOf(e)
  IN  /\ edge[e].representative # c
      /\ claim[c].status = "Rejected"
      /\ claim' = [claim EXCEPT ![c].allocation_processed = TRUE]
      /\ FinishScan(s, SessionWithScan(session[s], c))
      /\ UNCHANGED edge

AllocateNextClaim(c) ==
  LET r == session[SessionOf(EdgeOf(c))]
  IN  /\ r.status = "Reconciling"
      /\ r.classification_complete
      /\ ~r.allocation_complete
      /\ c = r.next_allocation_claim
      /\ ~claim[c].allocation_processed
      /\ AllocateRepresentative(c) \/ SkipDuplicate(c)
      /\ UNCHANGED <<now, config, profile, tokenVars, fork>>

MutantSuccessful(r) == r.frozen_exposure <= r.collateral_coverage_cap

Successful(r) ==
  ~r.authenticated_fork /\ r.frozen_exposure <= r.collateral_coverage_cap

MutantCloseSessionState(s, r) ==
  /\ profile.active_session = s
  /\ session' = [session EXCEPT ![s] = [r EXCEPT !.status = "Closed"]]
  /\ profile' = [profile EXCEPT !.successful_sessions =
                   IF Successful(r) THEN @ + 1 ELSE @]

\* close_session_state, on the session account r of s.
CloseSessionState(s, r) ==
  /\ profile.active_session = s
  /\ session' = [session EXCEPT ![s] = [r EXCEPT !.status = "Closed"]]
  /\ profile' =
       [profile EXCEPT
          !.active_session = NoSession,
          !.successful_sessions =
             IF Successful(r) THEN @ + 1 ELSE @]

\* The last settlement closes a conflicted or insolvent session at once.
FinishSettlement(s, r) ==
  \/ /\ r.settled_edge_count = r.allocated_edge_count
     /\ r.status \in {"Conflicted", "Insolvent"}
     /\ CloseSessionState(s, r)
  \/ /\ r.settled_edge_count = r.allocated_edge_count
     /\ r.status \notin {"Conflicted", "Insolvent"}
     /\ session' = [session EXCEPT ![s] = [r EXCEPT !.status = "Settled"]]
     /\ UNCHANGED profile
  \/ /\ r.settled_edge_count # r.allocated_edge_count
     /\ session' = [session EXCEPT ![s] = r]
     /\ UNCHANGED profile

MutantPayable(c) ==
  LET e == EdgeOf(c)
  IN  /\ claim[c].allocated_amount > 0
      /\ edge[e].allocation_finalized
      /\ edge[e].representative = c
      /\ edge[e].allocated_amount = claim[c].allocated_amount

\* A claim with an allocation that neither it nor its edge has been paid.
Payable(c) ==
  LET e == EdgeOf(c)
  IN  /\ claim[c].status \in {"Valid", "Conflicting"}
      /\ claim[c].allocated_amount > 0
      /\ claim[c].settled_amount = 0
      /\ edge[e].allocation_finalized
      /\ edge[e].settled_amount = 0
      /\ edge[e].representative = c
      /\ edge[e].allocated_amount = claim[c].allocated_amount

SettleClaim(c) ==
  LET e == EdgeOf(c)
      s == SessionOf(e)
      m == Transition[e].merchant
      amount == claim[c].allocated_amount
  IN  /\ session[s].allocation_complete
      /\ session[s].status \in {"Reconciling", "Conflicted", "Insolvent"}
      /\ Payable(c)
      /\ amount <= vault_token
      /\ amount <= vault.deposited_amount
      /\ amount <= vault.reserved_amount
      /\ vault_token' = vault_token - amount
      /\ merchant_token' = [merchant_token EXCEPT ![m] = @ + amount]
      /\ claim' = [claim EXCEPT ![c].settled_amount = amount,
                                ![c].status = "Settled"]
      /\ edge' = [edge EXCEPT ![e].settled_amount = amount]
      /\ vault' = [vault EXCEPT !.deposited_amount = @ - amount,
                                !.reserved_amount = @ - amount,
                                !.settled_from_collateral = @ + amount]
      /\ FinishSettlement(s, [session[s] EXCEPT
                                !.settled_amount = @ + amount,
                                !.settled_edge_count = @ + 1])
      /\ UNCHANGED <<now, config, outside, fork>>

CloseSession(s) ==
  /\ session[s].allocation_complete
  /\ session[s].settled_amount = session[s].allocated_total
  /\ session[s].status
       \in {"Reconciling", "Settled", "Conflicted", "Insolvent"}
  /\ CloseSessionState(s, session[s])
  /\ UNCHANGED <<now, config, vault, tokenVars, claimVars>>

-----------------------------------------------------------------------------
\* Wall-clock time passes.
Tick ==
  /\ now < MaxTime
  /\ now' = now + 1
  /\ UNCHANGED <<config, profile, vault, tokenVars, session, claimVars>>

Next ==
  \/ InitializeProtocol
  \/ \E a \in Signers, b \in BOOLEAN : SetPaused(a, b)
  \/ \E t \in Times : CreateUserProfile(t)
  \/ CreateVault
  \/ \E n \in Amounts : DepositCollateral(n)
  \/ \E n \in Amounts : DonateTokens(n)
  \/ \E n \in Amounts : WithdrawCollateral(n)
  \/ \E s \in SessionIds, locked, limit \in Amounts, t \in Times :
       CreateOfflineSession(s, locked, limit, t)
  \/ \E s \in SessionIds : RegisterDeviceAuthorization(s)
  \/ \E c \in Creds : SubmitClaim(c)
  \/ \E s \in SessionIds : BeginFinalization(s)
  \/ \E e \in StateHashes : ClassifyEdge(e)
  \/ \E c \in Creds : AllocateNextClaim(c)
  \/ \E c \in Creds : SettleClaim(c)
  \/ \E s \in SessionIds : CloseSession(s)
  \/ Tick

Spec == Init /\ [][Next]_vars

\* Time passes, and somebody keeps sending the permissionless instructions.
\* Nothing is assumed of the payer, the merchants or the authorities.
Fairness ==
  /\ WF_vars(Tick)
  /\ WF_vars(\E s \in SessionIds : BeginFinalization(s))
  /\ WF_vars(\E e \in StateHashes : ClassifyEdge(e))
  /\ WF_vars(\E c \in Creds : AllocateNextClaim(c))
  /\ WF_vars(\E c \in Creds : SettleClaim(c))
  /\ WF_vars(\E s \in SessionIds : CloseSession(s))

FairSpec == Spec /\ Fairness

-----------------------------------------------------------------------------
\* Every account holds values of its declared fields: whatever was deposited,
\* donated, withdrawn and settled before, no checked subtraction of the program
\* would have to go below zero, and list links name claims.
TypeOK ==
  /\ now \in Nat
  /\ config \in ProtocolConfig
  /\ profile \in UserProfile
  /\ vault \in CollateralVault
  /\ vault_token \in Nat
  /\ outside \in Nat
  /\ merchant_token \in [Merchants -> Nat]
  /\ session \in [SessionIds -> OfflineSession]
  /\ claim \in [Creds -> Claim]
  /\ edge \in [StateHashes -> StateEdgeRecord]
  /\ fork \in [States -> ForkRecord]

\* What the vault still owes on behalf of session account r: the whole cap
\* until the allocations are known, then the unpaid allocations.
Liability(r) ==
  IF r.status \in {"None", "Closed"} THEN 0
  ELSE IF r.allocation_complete THEN r.allocated_total - r.settled_amount
  ELSE r.collateral_coverage_cap

\* A session is open exactly while it is the payer's active session, so two
\* sessions never draw on the collateral at once.
OneActiveSession ==
  \A s \in SessionIds :
    (profile.active_session = s) <=> session[s].status \notin {"None", "Closed"}

\* The liability of every session is backed by reserved collateral, the reserve
\* by book collateral, and the books by tokens in the vault: no sequence of
\* deposits, withdrawals, donations, sessions, finalizations and settlements
\* leaves a merchant's claim without cover.
LiabilityBacked ==
  /\ \A s \in SessionIds : Liability(session[s]) <= vault.reserved_amount
  /\ vault.reserved_amount <= vault.deposited_amount
  /\ vault.deposited_amount <= vault_token

\* Once finalization froze a session the deadline has passed and the frozen
\* counters are the live ones: no claim enters a frozen session, not even one
\* that is Conflicted again while it is paid out.
FrozenCountersFinal ==
  \A s \in SessionIds :
    (session[s].allocation_complete
       \/ session[s].status \in {"Reconciling", "Settled", "Insolvent", "Closed"})
      => /\ AfterDeadline(s)
         /\ session[s].frozen_edge_count = session[s].unique_edge_count
         /\ session[s].frozen_exposure = session[s].aggregate_offline_exposure
=============================================================================
