--------------------- MODULE OfflineGuaranteeProperties ---------------------
(***************************************************************************)
(* What the on-chain program promises, as properties of OfflineGuarantee   *)
(* that compare its incremental bookkeeping with definitions computed from *)
(* the whole set of accounts.                                              *)
(***************************************************************************)
EXTENDS OfflineGuarantee, FiniteSetsExt

Submitted(s) == {c \in Creds : claim[c].status # "None" /\ SessionOf(EdgeOf(c)) = s}
EdgesOf(s) == {e \in StateHashes : edge[e].exists /\ SessionOf(e) = s}
Children(p) == {e \in StateHashes : edge[e].exists /\ Transition[e].previous_state = p}
WrappersOf(e) == {c \in Creds : claim[c].status # "None" /\ EdgeOf(c) = e}

AmountOf == [e \in StateHashes |-> Transition[e].amount]
TotalAmount(E) == SumFunctionOnSet(AmountOf, E)

\* The least element of S above c, or NoClaim.
Above(S, c) == LET U == {x \in S : x > c} IN IF U = {} THEN NoClaim ELSE Min(U)
Below(S, c) == LET U == {x \in S : x < c} IN IF U = {} THEN NoClaim ELSE Max(U)

\* The edges from the genesis state to e, e included.
Branch[e \in StateHashes] ==
  {e} \cup IF Transition[e].previous_state \in StateHashes
           THEN Branch[Transition[e].previous_state] ELSE {}

-----------------------------------------------------------------------------
\* The claim list of a session is the set of its submitted claims in ascending
\* credential-hash order, doubly linked between claim_head and claim_tail,
\* whatever witnesses the relayers passed (insert_claim_in_order).
ClaimListSorted ==
  \A s \in SessionIds :
    LET S == Submitted(s)
    IN  /\ session[s].submitted_claim_count = Cardinality(S)
        /\ session[s].claim_head = (IF S = {} THEN NoClaim ELSE Min(S))
        /\ session[s].claim_tail = (IF S = {} THEN NoClaim ELSE Max(S))
        /\ \A c \in S : /\ claim[c].next_claim = Above(S, c)
                        /\ claim[c].previous_claim = Below(S, c)

\* Whatever the arrival order, an edge is represented by the smallest of its
\* credential hashes; that claim alone is not rejected, and wrapper_count
\* counts all of them (submit_claim, ADR-0011).
RepresentativeIsSmallest ==
  \A e \in StateHashes :
    edge[e].exists =>
      /\ edge[e].representative = Min(WrappersOf(e))
      /\ edge[e].wrapper_count = Cardinality(WrappersOf(e))
      /\ \A c \in WrappersOf(e) :
           (claim[c].status = "Rejected") <=> (c # edge[e].representative)

\* Exposure counts every state edge once, however many credentials wrap it,
\* only edges connected to the genesis state are counted, and no single branch
\* spends more than the session's branch limit.
ExposureExact ==
  \A s \in SessionIds :
    /\ session[s].aggregate_offline_exposure = TotalAmount(EdgesOf(s))
    /\ session[s].unique_edge_count = Cardinality(EdgesOf(s))
    /\ \A e \in EdgesOf(s) :
         /\ Branch[e] \subseteq EdgesOf(s)
         /\ TotalAmount(Branch[e]) <= session[s].branch_spending_limit

\* A fork is confirmed exactly when two edges on chain leave the same state,
\* the payer's offline access is revoked exactly when that has happened in
\* some session, and conflict_count counts the forked states.
ForkExact ==
  LET Forked == {p \in States : Cardinality(Children(p)) >= 2}
  IN  /\ \A p \in States : fork[p].branch_count = Cardinality(Children(p))
      /\ \A s \in SessionIds :
           session[s].authenticated_fork
             <=> \E p \in Forked : p = s \/ p \in EdgesOf(s)
      /\ profile.exists =>
           /\ profile.offline_access_enabled <=> Forked = {}
           /\ profile.conflict_count = Cardinality(Forked)
           /\ (profile.revoked_at = 0) <=> Forked = {}

\* A classified edge is conflicting exactly when it, or an edge it descends
\* from, has a sibling, in whatever order the edges were classified.
ClassificationExact ==
  \A e \in StateHashes :
    edge[e].classified =>
      (edge[e].conflicting
         <=> \E f \in Branch[e] :
               Cardinality(Children(Transition[f].previous_state)) >= 2)

\* The share of edge e: its pro-rata part rounded down, and one unit of the
\* remainder for the edges with the smallest representatives (ADR-0003).
ExpectedAllocation(s, e) ==
  LET E == EdgesOf(s)
      T == TotalAmount(E)
      C == session[s].collateral_coverage_cap
      Floor == [f \in E |-> (AmountOf[f] * Min({T, C})) \div T]
      remainder == Min({T, C}) - SumFunction(Floor)
      rank == Cardinality({f \in E : Min(WrappersOf(f)) < Min(WrappersOf(e))})
  IN  Floor[e] + IF rank < remainder THEN 1 ELSE 0

\* Allocation depends only on the set of claims: every edge gets its expected
\* share, never more than its amount, and the shares add up to min(T, C).
AllocationExact ==
  \A s \in SessionIds :
    session[s].allocation_complete =>
      /\ session[s].allocated_total
           = Min({TotalAmount(EdgesOf(s)), session[s].collateral_coverage_cap})
      /\ \A e \in EdgesOf(s) :
           /\ edge[e].allocated_amount = ExpectedAllocation(s, e)
           /\ edge[e].allocated_amount <= AmountOf[e]
           /\ claim[edge[e].representative].allocated_amount
                = edge[e].allocated_amount

\* Tokens are conserved, a merchant's balance is the sum of what its
\* representative claims were settled for, and an edge is paid in full or not
\* at all, once.
PaymentsExact ==
  LET Paid(m) == {e \in StateHashes : edge[e].exists /\ Transition[e].merchant = m}
      SettledOf == [e \in StateHashes |-> edge[e].settled_amount]
  IN  /\ vault_token + outside + SumFunction(merchant_token) = Supply
      /\ vault.settled_from_collateral = SumFunction(merchant_token)
      /\ \A m \in Merchants :
           merchant_token[m] = SumFunctionOnSet(SettledOf, Paid(m))
      /\ \A e \in StateHashes :
           /\ edge[e].settled_amount \in {0, edge[e].allocated_amount}
           /\ edge[e].settled_amount > 0 =>
                claim[edge[e].representative].status = "Settled"

\* The reserve is never larger than what is owed either: when no session is
\* open, nothing stays locked.
ReserveExact ==
  vault.reserved_amount
    = SumFunction([s \in SessionIds |-> Liability(session[s])])

\* The payer's record counts the sessions that closed covered and unforked.
SuccessesExact ==
  profile.successful_sessions
    = Cardinality({s \in SessionIds :
                     /\ session[s].status = "Closed"
                     /\ Cardinality(Children(s)) < 2
                     /\ \A e \in EdgesOf(s) : Cardinality(Children(e)) < 2
                     /\ TotalAmount(EdgesOf(s))
                          <= session[s].collateral_coverage_cap})

\* Allocations are final: once a session is allocated, no claim or edge of it
\* changes but by being settled, and being settled is final.
AllocationIsFinal ==
  [][\A e \in StateHashes :
       session[SessionOf(e)].allocation_complete =>
         /\ edge'[e] = [edge[e] EXCEPT !.settled_amount = edge'[e].settled_amount]
         /\ edge[e].settled_amount > 0 => edge'[e] = edge[e]
         /\ session'[SessionOf(e)].allocation_complete]_vars

-----------------------------------------------------------------------------
\* Every session whose deadline lies within the modelled time is closed:
\* classification, the allocation scan and settlement never get stuck.
SessionsClose ==
  \A s \in SessionIds :
    (session[s].status # "None" /\ session[s].claim_submission_deadline < MaxTime)
      ~> (session[s].status = "Closed")

\* From some time on every claim on chain is settled, or rejected because
\* another credential of its edge represents it.
ClaimsResolve ==
  <>[](\A c \in Creds : claim[c].status \in {"None", "Settled", "Rejected"})

-----------------------------------------------------------------------------
\* docs/adr/0017: the resolution hash commits to "the ordered representative
\* allocation records".
ResolutionCommitsAllocations ==
  \A s \in SessionIds :
    session[s].allocation_complete =>
      LET h == session[s].resolution_hash
      IN  /\ Len(h) = session[s].allocated_edge_count
          /\ \A i \in 1..Len(h) - 1 : h[i].credential < h[i + 1].credential
          /\ \A i \in 1..Len(h) :
               h[i].allocation = claim[h[i].credential].allocated_amount
=============================================================================
