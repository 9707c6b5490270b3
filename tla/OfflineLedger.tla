---------------------------- MODULE OfflineLedger ----------------------------
(***************************************************************************)
(* The host's view of a session (packages/offline-ledger,                  *)
(* packages/reconciliation and the merchant's claim history): from a heap  *)
(* of credentials, in any order, with copies and with entries that are not *)
(* credentials, rebuild the graph of states, find the forks, classify the  *)
(* payments and compute what each of them would be paid.                   *)
(*                                                                         *)
(* A state hash stands for the fields that hash to it, so two credentials  *)
(* with one new_state are wrappers of one edge (edgeIdentity).  A list     *)
(* that the code sorts by content before it returns it is a set here.      *)
(***************************************************************************)
EXTENDS OfflineGuarantee, FiniteSetsExt, Folds, Functions

Malformed == 0   \* an entry that credentialHash cannot encode

\* Apply op to the members of S in ascending order, as the code does after
\* sorting them by hash.
FoldAscending(op(_, _), base, S) ==
  MapThenFoldSet(LAMBDA c, acc : op(acc, c), base, LAMBDA c : c, Max, S)

\* The session certificate of the issuer (an external service): assertCertificate
\* accepts only one that repeats the terms of the session account.
SessionCertificate(s) ==
  [session |-> s, issued_at |-> session[s].issued_at,
   expires_at |-> session[s].expires_at,
   claim_submission_deadline |-> session[s].claim_submission_deadline,
   branch_spending_limit |-> session[s].branch_spending_limit,
   collateral_coverage_cap |-> session[s].collateral_coverage_cap,
   max_branch_depth |-> MaxBranchDepth]

\* The economic and time constraints of a certificate whose signatures, issuer
\* and device authorization match.
ValidateCertificateChain(cert) ==
  /\ cert.branch_spending_limit > 0 /\ cert.collateral_coverage_cap > 0
  /\ cert.branch_spending_limit * MINIMUM_COLLATERAL_RATIO_BPS
       <= cert.collateral_coverage_cap * BPS_DENOMINATOR
  /\ cert.max_branch_depth = MaxBranchDepth
  /\ cert.expires_at > cert.issued_at
  /\ cert.expires_at - cert.issued_at <= MaxSessionDuration
  /\ cert.claim_submission_deadline = cert.expires_at + ClaimGracePeriod

\* ParentState: a state that a payment may follow.
Genesis(cert) ==
  [state |-> cert.session, sequence |-> 0,
   remaining |-> cert.branch_spending_limit]

ValidatePaymentCredential(cert, parent, c) ==
  LET t == Transition[EdgeOf(c)]
  IN  /\ Authentic(c) /\ t.session = cert.session
      /\ t.previous_state = parent.state /\ t.sequence = parent.sequence + 1
      /\ t.sequence <= cert.max_branch_depth
      /\ t.amount > 0 /\ t.amount <= parent.remaining
      /\ t.previous_remaining = parent.remaining
      /\ t.new_remaining = parent.remaining - t.amount
      /\ Credential[c].created_at \in cert.issued_at..cert.expires_at
      /\ Credential[c].session_expires_at = cert.expires_at

VerifyStateTransition(cert, parent, c) ==
  /\ parent.sequence <= cert.max_branch_depth
  /\ parent.remaining <= cert.branch_spending_limit
  /\ ValidatePaymentCredential(cert, parent, c)

NextState(c) ==
  LET t == Transition[EdgeOf(c)]
  IN  [state |-> EdgeOf(c), sequence |-> t.sequence, remaining |-> t.new_remaining]

-----------------------------------------------------------------------------
(***************************************************************************)
(* buildStateGraph.  A graph under construction: the states reached, the   *)
(* accepted credential of each edge, the credentials still without a       *)
(* parent, the ones refused, and the ones that repeat an accepted edge.    *)
(***************************************************************************)
EmptyGraph(cert, credentials) ==
  [nodes |-> {Genesis(cert)},
   edges |-> {},
   pending |-> {credentials[i] : i \in DOMAIN credentials} \ {Malformed},
   waiting |-> {},
   invalid |-> {},
   duplicates |-> {},
   progressed |-> FALSE]

\* What one entry of a round does to the graph: the nodes it adds are parents
\* for the entries after it in the same round.
MutantPlaceCredential(cert, g, c) ==
  LET parents == {n \in g.nodes : n.state = Transition[EdgeOf(c)].previous_state}
      known == {x \in g.edges : EdgeOf(x) = EdgeOf(c)}
      placed == [g EXCEPT !.progressed = TRUE]
  IN  CASE parents = {} -> [g EXCEPT !.waiting = @ \cup {c}]
        [] parents # {} /\ known # {} ->
             [placed EXCEPT !.duplicates = @ \cup {c}]
        [] OTHER -> [placed EXCEPT !.edges = @ \cup {c},
                                   !.nodes = @ \cup {NextState(c)}]

PlaceCredential(cert, g, c) ==
  LET parents == {n \in g.nodes : n.state = Transition[EdgeOf(c)].previous_state}
      valid == \A n \in parents : VerifyStateTransition(cert, n, c)
      known == {x \in g.edges : EdgeOf(x) = EdgeOf(c)}
      collides == \E n \in g.nodes : n.state = EdgeOf(c)
      placed == [g EXCEPT !.progressed = TRUE]
  IN  CASE parents = {} -> [g EXCEPT !.waiting = @ \cup {c}]
        [] parents # {} /\ valid /\ known # {} ->
             [placed EXCEPT !.duplicates = @ \cup {c}]
        [] parents # {} /\ valid /\ known = {} /\ ~collides ->
             [placed EXCEPT !.edges = @ \cup {c},
                            !.nodes = @ \cup {NextState(c)}]
        [] OTHER -> [placed EXCEPT !.invalid = @ \cup {c}]

\* The loop over the pending credentials C, in hash order.
PlaceAll(cert, g, C) ==
  LET Place(acc, c) == PlaceCredential(cert, acc, c)
  IN  FoldAscending(Place, g, C)

\* One pass.  A pass that places nothing is the last: what is left has no
\* parent.
Round(cert, g) ==
  LET done == PlaceAll(cert, [g EXCEPT !.waiting = {}, !.progressed = FALSE],
                       g.pending)
  IN  IF done.progressed
      THEN [done EXCEPT !.pending = done.waiting]
      ELSE [done EXCEPT !.pending = {}, !.invalid = @ \cup done.waiting]

\* Every pass places a credential or ends the loop, so one more pass than
\* there are credentials is enough.
BuildStateGraph(cert, credentials) ==
  LET start == EmptyGraph(cert, credentials)
      Again(g, i) == IF g.pending = {} THEN g ELSE Round(cert, g)
  IN  FoldAscending(Again, start, 0..Cardinality(start.pending))

-----------------------------------------------------------------------------
(***************************************************************************)
(* Forks, classification, exposure.                                        *)
(***************************************************************************)
ParentOf(c) == Transition[EdgeOf(c)].previous_state
AmountPaid(c) == Transition[EdgeOf(c)].amount

\* The states that two accepted edges leave.
DetectForks(g) ==
  {p \in {ParentOf(c) : c \in g.edges} :
     Cardinality({EdgeOf(c) : c \in {x \in g.edges : ParentOf(x) = p}}) > 1}

MutantConflictingChildHashes(g) ==
  {EdgeOf(c) : c \in {x \in g.edges : ParentOf(x) \in DetectForks(g)}}

\* The children of the forks and everything below them.
ConflictingChildHashes(g) ==
  LET forked == {EdgeOf(c) : c \in {x \in g.edges : ParentOf(x) \in DetectForks(g)}}
      Spread(found, i) ==
        found \cup {EdgeOf(c) : c \in {x \in g.edges : ParentOf(x) \in found}}
  IN  FoldAscending(Spread, forked, 1..Cardinality(g.edges))

SumOf(f) == FoldFunction(LAMBDA x, y : x + y, 0, f)

CheckedExposure(C) == MapThenSumSet(AmountPaid, C)

StateGraphCommitment(cert, g) ==
  [genesis |-> cert.session,
   edges |-> {[credential |-> c, parent |-> ParentOf(c), child |-> EdgeOf(c),
               sequence |-> Transition[EdgeOf(c)].sequence,
               merchant |-> Transition[EdgeOf(c)].merchant,
               amount |-> AmountPaid(c)] : c \in g.edges}]

\* allocateDeterministicCoverage: the pro-rata share of every accepted
\* credential, rounded down, and the remainder to the smallest hashes.
\* `sound` stands for its checks; the code throws when one of them fails.
BaseShares(C, T, coverage) ==
  [c \in C |-> (AmountPaid(c) * coverage) \div T]

Payouts(C, base, dust) ==
  [c \in C |-> base[c] + IF Cardinality({x \in C : x < c}) < dust THEN 1 ELSE 0]

CoverageResult(C, T, cap, base, payout) ==
  [coverage |-> CoverageAmount(T, cap), insolvent |-> T > cap,
   base |-> base, payout |-> payout,
   sound |-> /\ T <= U64Max
             /\ \A c \in C : AmountPaid(c) > 0 /\ payout[c] <= AmountPaid(c)
             /\ SumOf(payout) = CoverageAmount(T, cap)]

AllocateDeterministicCoverage(C, cap) ==
  LET T == CheckedExposure(C)
      base == BaseShares(C, T, CoverageAmount(T, cap))
      dust == CoverageAmount(T, cap) - SumOf(base)
  IN  CoverageResult(C, T, cap, base, Payouts(C, base, dust))

Reconciled(cert, g, conflicting) ==
  [graph |-> g, conflicting |-> conflicting,
   exposure |-> CheckedExposure(g.edges),
   conflicting_exposure |-> CheckedExposure(conflicting),
   commitment |-> StateGraphCommitment(cert, g),
   coverage |-> AllocateDeterministicCoverage(g.edges,
                                              cert.collateral_coverage_cap)]

ReconcileGraph(cert, g) ==
  Reconciled(cert, g, {c \in g.edges : EdgeOf(c) \in ConflictingChildHashes(g)})

ReconcileSession(cert, credentials) ==
  ReconcileGraph(cert, BuildStateGraph(cert, credentials))

-----------------------------------------------------------------------------
(***************************************************************************)
(* The warning of a merchant's claim history.  A stored claim is a whole   *)
(* proof bundle, so it describes every payment from the genesis state to   *)
(* its own, and each description carries the hash of the stored claim.     *)
(***************************************************************************)
Lineage(e) ==
  LET up[n \in 0..MaxBranchDepth] ==
        IF n = 0 THEN {e}
        ELSE up[n - 1]
               \cup ({Transition[x].previous_state : x \in up[n - 1]}
                       \cap StateHashes)
  IN  up[MaxBranchDepth]

ClaimDescriptors(C) ==
  UNION {{[claim |-> c, session |-> SessionOf(e),
           parent |-> Transition[e].previous_state,
           sequence |-> Transition[e].sequence, result |-> e]
            : e \in Lineage(EdgeOf(c))} : c \in C}

MutantFindPotentialConflictHashes(D) ==
  {d.claim : d \in {x \in D :
     \E y \in D : y # x /\ y.session = x.session /\ y.parent = x.parent
                        /\ y.sequence = x.sequence}}

\* Same session, parent and sequence, different resulting state.
FindPotentialConflictHashes(D) ==
  {d.claim : d \in {x \in D :
     \E y \in D : y.session = x.session /\ y.parent = x.parent
                    /\ y.sequence = x.sequence /\ y.result # x.result}}

-----------------------------------------------------------------------------
\* What an auditor of session s may hold: every claim on chain and whatever
\* else was signed but has no parent it may follow, each of them twice, between
\* entries that are not credentials.
Heap(s) ==
  LET n == Max(Creds)
      held == {c \in Creds :
                 /\ SessionOf(EdgeOf(c)) = s
                 /\ claim[c].status # "None" \/ ~ReachableParent(EdgeOf(c))}
  IN  [i \in 1..2 * n |-> LET c == 1 + (i % n) IN IF c \in held THEN c ELSE Malformed]

Allocated(s) == session[s].allocation_complete /\ session[s].settled_amount = 0

Mirrors(s, r, E) ==
  /\ {EdgeOf(c) : c \in r.graph.edges} = E
  /\ Cardinality(r.graph.edges) = Cardinality(E)
  /\ DetectForks(r.graph) = {p \in {s} \cup E : fork[p].branch_count > 1}
  /\ r.exposure = session[s].frozen_exposure
  /\ r.coverage.sound
  /\ r.coverage.coverage = session[s].allocated_total
  /\ r.coverage.insolvent <=> session[s].coverage_status = "Insolvent"
  /\ \A c \in r.graph.edges :
       /\ c \in r.conflicting <=> edge[EdgeOf(c)].conflicting
       /\ edge[EdgeOf(c)].allocated_amount - r.coverage.base[c] \in 0..1

\* The host's reconstruction agrees with the program, although it sees a heap
\* with copies and refused credentials and builds it in another order: the
\* certificate is acceptable, the edges, forks, exposure, insolvency and total
\* are the ones on chain, every edge is classified alike, and no payment is more
\* than the one unit of rounding away from its host estimate (reconcileSession
\* and allocateDeterministicCoverage against the finalization instructions).
ReconciliationMirrorsChain ==
  \A s \in SessionIds :
    Allocated(s) =>
      /\ ValidateCertificateChain(SessionCertificate(s))
      /\ Mirrors(s, ReconcileSession(SessionCertificate(s), Heap(s)),
                 {e \in StateHashes : edge[e].exists /\ SessionOf(e) = s})

\* A merchant's local warning is never a false alarm: a claim it flags from
\* the bundles in its own history is classified as conflicting on chain, once
\* the merchant's claims have been submitted (findPotentialConflictHashes).
LocalWarningsConfirmed ==
  \A s \in SessionIds, m \in Merchants :
    Allocated(s) =>
      LET history == {c \in Creds : /\ claim[c].status # "None"
                                    /\ SessionOf(EdgeOf(c)) = s
                                    /\ Transition[EdgeOf(c)].merchant = m}
      IN  \A c \in FindPotentialConflictHashes(ClaimDescriptors(history)) :
            edge[EdgeOf(c)].conflicting

\* packages/reconciliation/src/index.ts: allocateDeterministicCoverage is a
\* "Pure mirror of ADR-0017's authoritative on-chain allocation rule", whose
\* "deterministic representative is the unsigned lexicographically smallest
\* timely valid `credential_hash` for that edge" (docs/protocol.md).
HostPayoutsMatchChain ==
  \A s \in SessionIds :
    Allocated(s) =>
      LET host == ReconcileSession(SessionCertificate(s), Heap(s)).coverage.payout
      IN  host = [c \in DOMAIN host |-> edge[EdgeOf(c)].allocated_amount]
=============================================================================
