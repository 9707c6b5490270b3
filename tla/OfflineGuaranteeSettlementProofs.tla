------------------ MODULE OfflineGuaranteeSettlementProofs ------------------
(***************************************************************************)
(* Proofs about finalization: classification, allocation, settlement and   *)
(* the books of the vault.                                                 *)
(***************************************************************************)
EXTENDS OfflineGuaranteeProofs

(***************************************************************************)
(* The invariant.  Per edge: verdicts, allocations and payments exist in   *)
(* this order.  Per session: the counters count and add up the edges that  *)
(* reached each stage, a stage starts when the one before it is complete,  *)
(* and the allocation cursor separates the claims that were scanned from   *)
(* the larger ones that were not.                                          *)
(***************************************************************************)
Frozen(r) ==
  r.allocation_complete \/ r.status \in {"Reconciling", "Settled", "Insolvent", "Closed"}

Classified(s) == {e \in EdgesOf(s) : edge[e].classified}
Finalized(s) == {e \in EdgesOf(s) : edge[e].allocation_finalized}
Done(s) == {e \in Finalized(s) : edge[e].allocated_amount = edge[e].settled_amount}

AllocatedOf == [e \in StateHashes |-> edge[e].allocated_amount]
SettledOf == [e \in StateHashes |-> edge[e].settled_amount]

Coverage(r) == CoverageAmount(r.frozen_exposure, r.collateral_coverage_cap)
BaseOf(r) ==
  [e \in StateHashes |-> BaseAllocation(Transition[e].amount, r.frozen_exposure,
                                        r.collateral_coverage_cap)]
Rank(s, e) ==
  Cardinality({f \in EdgesOf(s) : edge[f].representative < edge[e].representative})
Share(s, e) ==
  BaseOf(session[s])[e]
    + IF Rank(s, e) < Coverage(session[s]) - session[s].base_allocation_total
      THEN 1 ELSE 0

\* Verdicts and payments exist in order.
EdgeInv ==
  \A e \in StateHashes :
    /\ edge[e].classified => edge[e].exists
    /\ edge[e].allocation_finalized => edge[e].classified
    /\ ~edge[e].allocation_finalized => edge[e].settled_amount = 0
    /\ edge[e].settled_amount \in {0, edge[e].allocated_amount}
    /\ edge[e].settled_amount > 0 => claim[edge[e].representative].status = "Settled"

CountInv(s) ==
  LET r == session[s]
  IN  /\ r.classified_edge_count = Cardinality(Classified(s))
      /\ r.base_allocation_total = SumFunctionOnSet(BaseOf(r), Classified(s))
      /\ r.allocated_edge_count = Cardinality(Finalized(s))
      /\ r.allocated_total = SumFunctionOnSet(AllocatedOf, Finalized(s))
      /\ r.settled_edge_count = Cardinality(Done(s))
      /\ r.settled_amount = SumFunctionOnSet(SettledOf, Finalized(s))

PhaseInv(s) ==
  LET r == session[s]
  IN  /\ ~Frozen(r) => /\ Classified(s) = {} /\ ~r.classification_complete
                       /\ \A c \in Submitted(s) : ~claim[c].allocation_processed
      /\ r.classification_complete => Classified(s) = EdgesOf(s)
      /\ Finalized(s) # {} => r.classification_complete
      /\ r.allocation_complete =>
           /\ r.classification_complete
           /\ Finalized(s) = EdgesOf(s)
           /\ r.allocated_total = Coverage(r)

Unscanned(s) == {c \in Submitted(s) : ~claim[c].allocation_processed}
CursorInv(s) ==
  LET r == session[s]
  IN  /\ Frozen(r) /\ ~r.allocation_complete =>
           IsLeast(Unscanned(s), r.next_allocation_claim)
      /\ \A x, y \in Submitted(s) :
           x < y /\ claim[y].allocation_processed => claim[x].allocation_processed
      /\ \A e \in EdgesOf(s) : edge[e].allocation_finalized <=>
           claim[edge[e].representative].allocation_processed

ShareInv(s) ==
  \A e \in EdgesOf(s) :
      /\ edge[e].classified /\ ~edge[e].allocation_finalized =>
           edge[e].allocated_amount = BaseOf(session[s])[e]
      /\ edge[e].allocation_finalized =>
           /\ edge[e].allocated_amount = Share(s, e)
           /\ edge[e].allocated_amount <= AmountOf[e]
           /\ claim[edge[e].representative].allocated_amount
                = edge[e].allocated_amount

SessionInv(s) == CountInv(s) /\ PhaseInv(s) /\ CursorInv(s) /\ ShareInv(s)

FinalInv == EdgeInv /\ \A s \in SessionIds : SessionInv(s)

-----------------------------------------------------------------------------
LEMMA StageSets ==
  ASSUME NEW s
  PROVE  /\ EdgesOf(s) \subseteq StateHashes
         /\ Classified(s) \subseteq EdgesOf(s) /\ Finalized(s) \subseteq EdgesOf(s)
         /\ Done(s) \subseteq Finalized(s)
         /\ IsFiniteSet(EdgesOf(s)) /\ IsFiniteSet(Classified(s))
         /\ IsFiniteSet(Finalized(s)) /\ IsFiniteSet(Done(s))
<1>1. /\ EdgesOf(s) \subseteq StateHashes
      /\ Classified(s) \subseteq EdgesOf(s) /\ Finalized(s) \subseteq EdgesOf(s)
      /\ Done(s) \subseteq Finalized(s)
  BY DEF EdgesOf, Classified, Finalized, Done
<1>2. IsFiniteSet(EdgesOf(s))
  BY SetsFinite
<1>3. IsFiniteSet(Classified(s)) /\ IsFiniteSet(Finalized(s))
  BY <1>1, <1>2, FS_Subset
<1> QED BY <1>1, <1>2, <1>3, FS_Subset

\* The representative of an edge is one of its session's claims.
LEMMA RepresentativeFacts ==
  ASSUME ClaimsInv, NEW s \in SessionIds, NEW e \in EdgesOf(s)
  PROVE  /\ e \in StateHashes /\ edge[e].exists /\ SessionOf(e) = s
         /\ edge[e].representative \in Submitted(s)
         /\ edge[e].representative \in Creds /\ edge[e].representative \in Nat
         /\ EdgeOf(edge[e].representative) = e
<1>1. e \in StateHashes /\ edge[e].exists /\ SessionOf(e) = s
  BY DEF EdgesOf
<1>2. edge[e].representative \in WrappersOf(e)
  BY <1>1 DEF ClaimsInv, WrapperInv, IsLeast
<1> QED BY <1>1, <1>2, SetAssumption DEF WrappersOf, Submitted

SameBooks(q, r) ==
  /\ q.classified_edge_count = r.classified_edge_count
  /\ q.base_allocation_total = r.base_allocation_total
  /\ q.classification_complete = r.classification_complete
  /\ q.next_allocation_claim = r.next_allocation_claim \/ r.allocation_complete
  /\ q.allocated_edge_count = r.allocated_edge_count
  /\ q.allocated_total = r.allocated_total
  /\ q.allocation_complete = r.allocation_complete
  /\ q.settled_edge_count = r.settled_edge_count
  /\ q.settled_amount = r.settled_amount
  /\ q.frozen_exposure = r.frozen_exposure
  /\ q.collateral_coverage_cap = r.collateral_coverage_cap
  /\ Frozen(q) <=> Frozen(r)

SameScan(x, y) ==
  /\ x.allocation_processed = y.allocation_processed
  /\ x.allocated_amount = y.allocated_amount

Untouched(s) ==
  /\ SameBooks(session'[s], session[s])
  /\ EdgesOf(s)' = EdgesOf(s) /\ Submitted(s)' = Submitted(s)
  /\ \A e \in EdgesOf(s) : edge'[e] = edge[e]
  /\ \A c \in Submitted(s) : SameScan(claim'[c], claim[c])

LEMMA UntouchedKeeps ==
  ASSUME ClaimsInv, NEW s \in SessionIds, SessionInv(s), Untouched(s)
  PROVE  SessionInv(s)'
<1> USE DEF SessionInv
<1>1. /\ EdgesOf(s)' = EdgesOf(s) /\ Submitted(s)' = Submitted(s)
      /\ \A e \in EdgesOf(s) : edge'[e] = edge[e]
      /\ \A c \in Submitted(s) :
           /\ claim'[c].allocation_processed = claim[c].allocation_processed
           /\ claim'[c].allocated_amount = claim[c].allocated_amount
  BY DEF Untouched, SameScan
<1>2. /\ Classified(s)' = Classified(s) /\ Finalized(s)' = Finalized(s)
      /\ Done(s)' = Done(s)
  <2>1. Classified(s)' = Classified(s)
    BY <1>1 DEF Classified
  <2>2. Finalized(s)' = Finalized(s)
    BY <1>1 DEF Finalized
  <2>3. Done(s)' = Done(s)
    BY <1>1, <2>2, StageSets DEF Done
  <2> QED BY <2>1, <2>2, <2>3
<1>3. SameBooks(session'[s], session[s])
  BY DEF Untouched
<1>4. BaseOf(session[s])' = BaseOf(session[s]) /\ Coverage(session[s])' = Coverage(session[s])
  BY <1>3 DEF BaseOf, Coverage, SameBooks
<1>5. /\ SumFunctionOnSet(AllocatedOf, Finalized(s))'
           = SumFunctionOnSet(AllocatedOf, Finalized(s))
      /\ SumFunctionOnSet(SettledOf, Finalized(s))'
           = SumFunctionOnSet(SettledOf, Finalized(s))
  <2>1. \A e \in Finalized(s) : /\ AllocatedOf'[e] = AllocatedOf[e]
                               /\ SettledOf'[e] = SettledOf[e]
    BY <1>1, StageSets DEF AllocatedOf, SettledOf
  <2>2. IsFiniteSet(Finalized(s))
    BY StageSets
  <2>3. SumFunctionOnSet(AllocatedOf', Finalized(s)) = SumFunctionOnSet(AllocatedOf, Finalized(s))
    BY <2>1, <2>2, SumSame
  <2>4. SumFunctionOnSet(SettledOf', Finalized(s)) = SumFunctionOnSet(SettledOf, Finalized(s))
    BY <2>1, <2>2, SumSame
  <2> QED BY <1>2, <2>3, <2>4
<1>6. CountInv(s)'
  BY <1>2, <1>3, <1>4, <1>5 DEF CountInv, SameBooks
<1>7. PhaseInv(s)'
  BY <1>1, <1>2, <1>3, <1>4 DEF PhaseInv, SameBooks
<1>r. \A e \in EdgesOf(s) : edge[e].representative \in Submitted(s)
  BY RepresentativeFacts
<1>8. CursorInv(s)'
  <2>1. Unscanned(s)' = Unscanned(s)
    BY <1>1 DEF Unscanned
  <2> QED BY <1>1, <1>3, <1>r, <2>1 DEF CursorInv, SameBooks
<1>9. ShareInv(s)'
  <2>1. \A e \in EdgesOf(s) : Rank(s, e)' = Rank(s, e)
    BY <1>1 DEF Rank
  <2>2. \A e \in EdgesOf(s) : Share(s, e)' = Share(s, e)
    BY <1>3, <1>4, <2>1 DEF Share, SameBooks
  <2> QED BY <1>1, <1>4, <1>r, <2>2 DEF ShareInv
<1> QED BY <1>6, <1>7, <1>8, <1>9

-----------------------------------------------------------------------------
(***************************************************************************)
(* submit_claim: the session is not frozen, so nothing of it was classified *)
(* yet, and no other session is touched.                                   *)
(***************************************************************************)
LEMMA BooksSame ==
  /\ \A r : SameBooks(r, r) /\ SameScan(r, r)
  /\ \A q, r, x : SameBooks(q, r) /\ SameBooks(r, x) => SameBooks(q, x)
BY DEF SameBooks, SameScan

LEMMA OpenSessionNotFrozen ==
  ASSUME SafetyInv, NEW c \in Creds, NEW pred, NEW succ, SubmitClaimWith(c, pred, succ)
  PROVE  ~Frozen(session[SessionOf(EdgeOf(c))])
<1> DEFINE s == SessionOf(EdgeOf(c))
<1>1. s \in SessionIds
  BY MessageTypes
<1>2. session[s] \in OfflineSession /\ now \in Nat
  BY <1>1 DEF SafetyInv, TypeOK
<1>3. session[s].claim_submission_deadline \in Nat
  BY <1>2, SessionFieldTypes
<1>4. now <= session[s].claim_submission_deadline
  BY DEF SubmitClaimWith, ValidClaimPayload, SessionOf
<1>5. ~AfterDeadline(s)
  BY <1>2, <1>3, <1>4 DEF AfterDeadline
<1> QED BY <1>1, <1>5 DEF SafetyInv, FrozenCountersFinal, Frozen

LEMMA SubmitRecords ==
  ASSUME NEW r \in OfflineSession, ~Frozen(r)
  PROVE  /\ \A c, pred, succ : /\ SameBooks(SessionWithClaim(r, c, pred, succ), r)
                               /\ ~Frozen(SessionWithClaim(r, c, pred, succ))
         /\ \A e, b : /\ SameBooks(SessionWithEdge(r, e, b), r)
                      /\ ~Frozen(SessionWithEdge(r, e, b))
<1>1. \A c, pred, succ : SameBooks(SessionWithClaim(r, c, pred, succ), r)
  BY DEF SessionWithClaim, OfflineSession, SameBooks, Frozen
<1>2. \A e, b : SameBooks(SessionWithEdge(r, e, b), r)
  BY DEF SessionWithEdge, OfflineSession, SameBooks, Frozen
<1> QED BY <1>1, <1>2 DEF SameBooks

\* What submit_claim leaves of the books of finalization.
SubmitLeaves(c) ==
  /\ \A s \in SessionIds : SameBooks(session'[s], session[s])
  /\ \A x \in Creds : x # c => SameScan(claim'[x], claim[x])
  /\ claim'[c].allocation_processed = FALSE
  /\ \A e \in StateHashes : e # EdgeOf(c) => edge'[e] = edge[e]
  /\ LET e == EdgeOf(c)
     IN  \/ /\ ~edge[e].exists /\ edge'[e].exists
            /\ ~edge'[e].classified /\ ~edge'[e].allocation_finalized
            /\ edge'[e].allocated_amount = 0 /\ edge'[e].settled_amount = 0
         \/ /\ edge[e].exists /\ edge'[e].exists
            /\ edge'[e].classified = edge[e].classified
            /\ edge'[e].allocation_finalized = edge[e].allocation_finalized
            /\ edge'[e].allocated_amount = edge[e].allocated_amount
            /\ edge'[e].settled_amount = edge[e].settled_amount
  /\ \A x \in Creds : claim[x].status = "Settled" => claim'[x].status = "Settled"
  /\ \A x \in Creds : (claim'[x].status = "None") <=> (x # c /\ claim[x].status = "None")

LEMMA SubmitNewEdgeLeaves ==
  ASSUME SafetyInv, NEW c \in Creds,
         NEW pred \in Creds \cup {NoClaim}, NEW succ \in Creds \cup {NoClaim},
         SubmitClaimWith(c, pred, succ), SubmitNewEdge(c, pred, succ)
  PROVE  SubmitLeaves(c)
<1> DEFINE e == EdgeOf(c)
           s == SessionOf(e)
           b == ConfirmsFork(Transition[e].previous_state)
           cl == [claim EXCEPT ![c] = [EmptyClaim EXCEPT !.status = "Submitted"]]
           q == SessionWithEdge(session[s], e, b)
<1>1. TypeOK /\ e \in StateHashes /\ s \in SessionIds /\ session[s] \in OfflineSession
      /\ ~Frozen(session[s]) /\ b \in BOOLEAN
  BY MessageTypes, OpenSessionNotFrozen DEF SafetyInv, TypeOK, ConfirmsFork
<1>2. /\ claim' = InsertClaimInOrder(cl, c, pred, succ)
      /\ session' = [session EXCEPT ![s] = SessionWithClaim(q, c, pred, succ)]
      /\ claim[c].status = "None" /\ ~edge[e].exists
  BY DEF SubmitNewEdge, SubmitClaimWith
<1>3. /\ cl \in [Creds -> Claim] /\ cl[c].status = "Submitted"
      /\ cl[c].allocation_processed = FALSE
      /\ \A x \in Creds : x # c => cl[x] = claim[x]
  <2>1. [EmptyClaim EXCEPT !.status = "Submitted"] \in Claim
    BY EmptyTypes DEF Claim, ClaimStatus
  <2>2. /\ [EmptyClaim EXCEPT !.status = "Submitted"].status = "Submitted"
        /\ [EmptyClaim EXCEPT !.status = "Submitted"].allocation_processed = FALSE
    BY DEF EmptyClaim
  <2> QED BY <1>1, <2>1, <2>2 DEF TypeOK
<1>4. q \in OfflineSession /\ SameBooks(q, session[s]) /\ ~Frozen(q)
  BY <1>1, SessionWithEdgeType, SubmitRecords
<1> HIDE DEF cl, q
<1>5. \A x \in SessionIds : SameBooks(session'[x], session[x])
  <2>1. SameBooks(SessionWithClaim(q, c, pred, succ), session[s])
    BY <1>4, SubmitRecords, BooksSame
  <2>2. session'[s] = SessionWithClaim(q, c, pred, succ)
        /\ \A x \in SessionIds : x # s => session'[x] = session[x]
    BY <1>1, <1>2 DEF TypeOK
  <2> QED BY <2>1, <2>2, BooksSame
<1>6. \A x \in Creds : /\ claim'[x].status = cl[x].status
                       /\ claim'[x].allocation_processed = cl[x].allocation_processed
                       /\ claim'[x].allocated_amount = cl[x].allocated_amount
  BY <1>2, <1>3, InsertedLinks
<1>7. /\ \A x \in Creds : x # c => SameScan(claim'[x], claim[x])
      /\ claim'[c].allocation_processed = FALSE
      /\ \A x \in Creds : claim[x].status = "Settled" => claim'[x].status = "Settled"
      /\ \A x \in Creds : (claim'[x].status = "None") <=> (x # c /\ claim[x].status = "None")
  BY <1>2, <1>3, <1>6 DEF SameScan
<1>8. /\ \A x \in StateHashes : x # e => edge'[x] = edge[x]
      /\ edge'[e] = [EmptyEdge EXCEPT !.exists = TRUE, !.representative = c,
                                      !.wrapper_count = 1]
  BY <1>1 DEF SubmitNewEdge, TypeOK
<1>9. /\ edge'[e].exists /\ ~edge'[e].classified /\ ~edge'[e].allocation_finalized
      /\ edge'[e].allocated_amount = 0 /\ edge'[e].settled_amount = 0
  BY <1>8 DEF EmptyEdge
<1> QED BY <1>2, <1>5, <1>7, <1>8, <1>9 DEF SubmitLeaves

LEMMA SubmitWrapperLeaves ==
  ASSUME SafetyInv, NEW c \in Creds,
         NEW pred \in Creds \cup {NoClaim}, NEW succ \in Creds \cup {NoClaim},
         SubmitClaimWith(c, pred, succ), SubmitWrapper(c, pred, succ)
  PROVE  SubmitLeaves(c)
<1> DEFINE e == EdgeOf(c)
           s == SessionOf(e)
           rep == edge[e].representative
           fresh == [EmptyClaim EXCEPT
                       !.status = IF c < rep THEN "Submitted" ELSE "Rejected"]
           cl == [x \in Creds |->
                    CASE x = c -> fresh
                      [] x # c /\ x = rep /\ c < rep ->
                           [claim[x] EXCEPT !.status = "Rejected"]
                      [] OTHER -> claim[x]]
<1>1. TypeOK /\ e \in StateHashes /\ s \in SessionIds /\ session[s] \in OfflineSession
      /\ ~Frozen(session[s])
  BY MessageTypes, OpenSessionNotFrozen DEF SafetyInv, TypeOK
<1>2. /\ claim' = InsertClaimInOrder(cl, c, pred, succ)
      /\ session' = [session EXCEPT ![s] = SessionWithClaim(session[s], c, pred, succ)]
      /\ claim[c].status = "None" /\ claim[rep].status = "Submitted" /\ edge[e].exists
  BY DEF SubmitWrapper, SubmitClaimWith, Replaces
<1>a. \A x \in Creds :
        LET y == [claim[x] EXCEPT !.status = "Rejected"]
        IN  /\ claim[x] \in Claim /\ y \in Claim /\ y.status = "Rejected"
            /\ y.allocation_processed = claim[x].allocation_processed
            /\ y.allocated_amount = claim[x].allocated_amount
  BY <1>1 DEF TypeOK, Claim, ClaimStatus
<1>b. /\ fresh \in Claim /\ fresh.status \in {"Submitted", "Rejected"}
      /\ fresh.allocation_processed = FALSE
  BY EmptyTypes DEF Claim, ClaimStatus, EmptyClaim
<1> HIDE DEF fresh
<1>3. cl \in [Creds -> Claim]
  BY <1>a, <1>b
<1>4. /\ cl[c].allocation_processed = FALSE /\ cl[c].status # "None"
      /\ \A x \in Creds : x # c => SameScan(cl[x], claim[x])
      /\ \A x \in Creds : claim[x].status = "Settled" => cl[x].status = "Settled"
      /\ \A x \in Creds : x # c => (cl[x].status = "None" <=> claim[x].status = "None")
  BY <1>2, <1>a, <1>b DEF SameScan
<1> HIDE DEF cl
<1>5. \A x \in Creds : /\ claim'[x].status = cl[x].status
                       /\ claim'[x].allocation_processed = cl[x].allocation_processed
                       /\ claim'[x].allocated_amount = cl[x].allocated_amount
  BY <1>2, <1>3, InsertedLinks
<1>6. /\ \A x \in Creds : x # c => SameScan(claim'[x], claim[x])
      /\ claim'[c].allocation_processed = FALSE
      /\ \A x \in Creds : claim[x].status = "Settled" => claim'[x].status = "Settled"
      /\ \A x \in Creds : (claim'[x].status = "None") <=> (x # c /\ claim[x].status = "None")
  BY <1>4, <1>5 DEF SameScan
<1>7. \A x \in SessionIds : SameBooks(session'[x], session[x])
  <2>1. SameBooks(SessionWithClaim(session[s], c, pred, succ), session[s])
    BY <1>1, SubmitRecords
  <2>2. session'[s] = SessionWithClaim(session[s], c, pred, succ)
        /\ \A x \in SessionIds : x # s => session'[x] = session[x]
    BY <1>1, <1>2 DEF TypeOK
  <2> QED BY <2>1, <2>2, BooksSame
<1>8. /\ \A x \in StateHashes : x # e => edge'[x] = edge[x]
      /\ edge'[e] = [edge[e] EXCEPT !.wrapper_count = @ + 1,
                                    !.representative = IF c < rep THEN c ELSE @]
  BY <1>1 DEF SubmitWrapper, Replaces, TypeOK
<1>9. /\ edge'[e].exists = edge[e].exists /\ edge'[e].classified = edge[e].classified
      /\ edge'[e].allocation_finalized = edge[e].allocation_finalized
      /\ edge'[e].allocated_amount = edge[e].allocated_amount
      /\ edge'[e].settled_amount = edge[e].settled_amount
  BY <1>1, <1>8 DEF TypeOK, StateEdgeRecord
<1> HIDE DEF e
<1> QED BY <1>2, <1>6, <1>7, <1>8, <1>9 DEF SubmitLeaves, e

LEMMA SubmitFinal ==
  ASSUME SafetyInv, ClaimsInv, ClaimsInv', FinalInv, NEW c \in Creds,
         ~Frozen(session[SessionOf(EdgeOf(c))]), claim[c].status = "None", SubmitLeaves(c)
  PROVE  FinalInv'
<1> DEFINE e == EdgeOf(c)
           s == SessionOf(e)
<1>1. e \in StateHashes /\ s \in SessionIds
  BY MessageTypes
<1>2. /\ Classified(s) = {} /\ ~session[s].classification_complete
      /\ \A x \in Submitted(s) : ~claim[x].allocation_processed
      /\ SessionInv(s)
  BY <1>1 DEF FinalInv, SessionInv, PhaseInv
<1>3. ASSUME NEW x \in SessionIds, x # s PROVE SessionInv(x)'
  <2>1. EdgesOf(x)' = EdgesOf(x) /\ \A y \in EdgesOf(x) : edge'[y] = edge[y]
    BY <1>3 DEF EdgesOf, SubmitLeaves
  <2>2. Submitted(x)' = Submitted(x)
    BY <1>3 DEF Submitted, SubmitLeaves
  <2>3. \A y \in Submitted(x) : SameScan(claim'[y], claim[y])
    BY <1>3 DEF Submitted, SubmitLeaves
  <2>4. Untouched(x)
    BY <2>1, <2>2, <2>3 DEF Untouched, SubmitLeaves
  <2> QED BY <2>4, UntouchedKeeps DEF FinalInv
<1>4. EdgesOf(s)' = EdgesOf(s) \cup {e} /\ Submitted(s)' = Submitted(s) \cup {c}
  BY <1>1 DEF EdgesOf, Submitted, SubmitLeaves
<1>5. \A x \in EdgesOf(s)' : ~edge'[x].classified /\ ~edge'[x].allocation_finalized
  <2>1. \A x \in EdgesOf(s) : /\ ~edge[x].classified /\ ~edge[x].allocation_finalized
                             /\ x \in StateHashes
    BY <1>2 DEF Classified, EdgesOf, FinalInv, EdgeInv
  <2>2. (~edge[e].classified /\ ~edge[e].allocation_finalized) \/ ~edge[e].exists
    BY <1>1, <2>1 DEF EdgesOf
  <2> QED BY <1>1, <1>4, <2>1, <2>2 DEF SubmitLeaves
<1>6. \A x \in Submitted(s)' : ~claim'[x].allocation_processed
  <2>1. \A x \in Submitted(s) : x \in Creds /\ x # c
    BY DEF Submitted
  <2> QED BY <1>2, <1>4, <2>1 DEF SubmitLeaves, SameScan
<1>7. /\ Classified(s)' = {} /\ Finalized(s)' = {} /\ Done(s)' = {}
      /\ Classified(s) = {} /\ Finalized(s) = {} /\ Done(s) = {}
  <2>1. Classified(s)' = {}
    BY <1>5 DEF Classified
  <2>2. Finalized(s)' = {}
    BY <1>5 DEF Finalized
  <2>3. Done(s)' = {}
    BY <2>2 DEF Done
  <2>4. Finalized(s) = {}
    BY <1>2 DEF Classified, Finalized, EdgesOf, FinalInv, EdgeInv
  <2> QED BY <1>2, <2>1, <2>2, <2>3, <2>4 DEF Done
<1>8. SameBooks(session'[s], session[s])
  BY <1>1 DEF SubmitLeaves
<1>9. SessionInv(s)'
  <2>1. CountInv(s)'
    <3>1. \A f : SumFunctionOnSet(f, {}) = 0
      BY SumEmpty
    <3>2. LET r == session[s]
          IN  /\ r.classified_edge_count = 0 /\ r.base_allocation_total = 0
              /\ r.allocated_edge_count = 0 /\ r.allocated_total = 0
              /\ r.settled_edge_count = 0 /\ r.settled_amount = 0
      BY <1>2, <1>7, <3>1, FS_EmptySet DEF SessionInv, CountInv
    <3>3. LET r == session'[s]
          IN  /\ r.classified_edge_count = 0 /\ r.base_allocation_total = 0
              /\ r.allocated_edge_count = 0 /\ r.allocated_total = 0
              /\ r.settled_edge_count = 0 /\ r.settled_amount = 0
      BY <1>8, <3>2 DEF SameBooks
    <3> QED BY <1>7, <3>1, <3>3, FS_EmptySet DEF CountInv
  <2>2. /\ ~Frozen(session'[s]) /\ ~session'[s].classification_complete
        /\ ~session'[s].allocation_complete
    BY <1>2, <1>8 DEF SameBooks, Frozen
  <2>3. PhaseInv(s)'
    BY <1>6, <1>7, <2>2 DEF PhaseInv
  <2>4. \A x \in EdgesOf(s)' : edge'[x].representative \in Submitted(s)'
    <3> SUFFICES ASSUME NEW x \in EdgesOf(s)' PROVE edge'[x].representative \in Submitted(s)'
      OBVIOUS
    <3>1. x \in StateHashes /\ edge'[x].exists /\ SessionOf(x) = s
      BY DEF EdgesOf
    <3>2. edge'[x].representative \in WrappersOf(x)'
      BY <3>1 DEF ClaimsInv, WrapperInv, IsLeast
    <3> QED BY <3>1, <3>2 DEF WrappersOf, Submitted
  <2>5. CursorInv(s)'
    BY <1>5, <1>6, <2>2, <2>4 DEF CursorInv
  <2>6. ShareInv(s)'
    BY <1>5 DEF ShareInv
  <2> QED BY <2>1, <2>3, <2>5, <2>6 DEF SessionInv
<1>10. EdgeInv'
  <2> SUFFICES ASSUME NEW x \in StateHashes
               PROVE  (/\ edge[x].classified => edge[x].exists
                       /\ edge[x].allocation_finalized => edge[x].classified
                       /\ ~edge[x].allocation_finalized => edge[x].settled_amount = 0
                       /\ edge[x].settled_amount \in {0, edge[x].allocated_amount}
                       /\ edge[x].settled_amount > 0 =>
                            claim[edge[x].representative].status = "Settled")'
    BY DEF EdgeInv
  <2>0. /\ edge[x].classified => edge[x].exists
        /\ edge[x].allocation_finalized => edge[x].classified
        /\ ~edge[x].allocation_finalized => edge[x].settled_amount = 0
        /\ edge[x].settled_amount \in {0, edge[x].allocated_amount}
        /\ edge[x].settled_amount > 0 => claim[edge[x].representative].status = "Settled"
    BY DEF FinalInv, EdgeInv
  <2>1. CASE x = e
    <3>1. edge'[e].exists /\ e \in EdgesOf(s)'
      BY <1>4 DEF SubmitLeaves
    <3>2. ~edge'[e].classified /\ ~edge'[e].allocation_finalized
      BY <1>5, <3>1
    <3>3. edge'[e].settled_amount = 0
      BY <2>0, <2>1, <3>2 DEF SubmitLeaves
    <3> QED BY <2>1, <3>1, <3>2, <3>3
  <2>2. CASE x # e
    <3>1. edge'[x] = edge[x]
      BY <2>2 DEF SubmitLeaves
    <3>2. edge[x].settled_amount > 0 => edge[x].representative \in Creds
      <4>1. edge[x].settled_amount > 0 => x \in EdgesOf(SessionOf(x)) /\ SessionOf(x) \in SessionIds
        BY <2>0, MessageTypes DEF EdgesOf
      <4> QED BY <4>1, RepresentativeFacts
    <3> QED BY <2>0, <3>1, <3>2 DEF SubmitLeaves
  <2> QED BY <2>1, <2>2
<1> QED BY <1>3, <1>9, <1>10 DEF FinalInv

-----------------------------------------------------------------------------
(***************************************************************************)
(* Steps that touch no books of finalization.                              *)
(***************************************************************************)
\* Payments already made stay as they are.
LEMMA EdgesUntouched ==
  ASSUME ClaimsInv, EdgeInv, edge' = edge,
         \A c \in Creds : claim[c].status = "Settled" => claim'[c].status = "Settled"
  PROVE  EdgeInv'
<1> SUFFICES ASSUME NEW e \in StateHashes, edge[e].settled_amount > 0
             PROVE  claim'[edge[e].representative].status = "Settled"
  BY DEF EdgeInv
<1>1. e \in EdgesOf(SessionOf(e)) /\ SessionOf(e) \in SessionIds
  BY MessageTypes DEF EdgeInv, EdgesOf
<1> QED BY <1>1, RepresentativeFacts DEF EdgeInv

LEMMA ClaimsUntouchedFinal ==
  ASSUME ClaimsInv, FinalInv, UNCHANGED <<claim, edge>>,
         \A s \in SessionIds : SameBooks(session'[s], session[s])
  PROVE  FinalInv'
<1>1. \A s : EdgesOf(s)' = EdgesOf(s) /\ Submitted(s)' = Submitted(s)
  BY DEF EdgesOf, Submitted
<1>2. \A s \in SessionIds : Untouched(s)
  BY <1>1, BooksSame DEF Untouched
<1>3. EdgeInv'
  BY EdgesUntouched DEF FinalInv
<1> QED BY <1>2, <1>3, UntouchedKeeps DEF FinalInv

LEMMA AccountsUntouchedFinal ==
  ASSUME ClaimsInv, FinalInv, UNCHANGED <<session, claim, edge>>
  PROVE  FinalInv'
BY ClaimsUntouchedFinal, BooksSame

LEMMA RegisterFinal ==
  ASSUME TypeOK, ClaimsInv, FinalInv, NEW s \in SessionIds, RegisterDeviceAuthorization(s)
  PROVE  FinalInv'
<1>1. session' = [session EXCEPT ![s] = [session[s] EXCEPT !.authorized = TRUE]]
      /\ UNCHANGED <<claim, edge>>
  BY DEF RegisterDeviceAuthorization, TypeOK, claimVars
<1>2. SameBooks([session[s] EXCEPT !.authorized = TRUE], session[s])
  BY DEF TypeOK, OfflineSession, SameBooks, Frozen
<1>3. \A x \in SessionIds : SameBooks(session'[x], session[x])
  BY <1>1, <1>2, BooksSame DEF TypeOK
<1> QED BY <1>1, <1>3, ClaimsUntouchedFinal

\* Records without books.
Blank(r) ==
  /\ r.classified_edge_count = 0 /\ r.base_allocation_total = 0
  /\ r.allocated_edge_count = 0 /\ r.allocated_total = 0
  /\ r.settled_edge_count = 0 /\ r.settled_amount = 0
  /\ r.classification_complete = FALSE /\ r.allocation_complete = FALSE
  /\ ~Frozen(r)

LEMMA EmptyBooks ==
  ASSUME NEW s \in SessionIds, EdgesOf(s) = {}, Submitted(s) = {}, Blank(session[s])
  PROVE  SessionInv(s)
<1>1. Classified(s) = {} /\ Finalized(s) = {} /\ Done(s) = {}
  BY DEF Classified, Finalized, Done
<1>2. CountInv(s)
  BY <1>1, SumEmpty, FS_EmptySet DEF CountInv, Blank
<1>3. PhaseInv(s)
  BY <1>1 DEF PhaseInv, Blank
<1>4. CursorInv(s) /\ ShareInv(s)
  BY DEF CursorInv, ShareInv, Blank
<1> QED BY <1>2, <1>3, <1>4 DEF SessionInv

LEMMA BlankRecords ==
  /\ Blank(EmptySession)
  /\ \A locked, limit, t : Blank(NewSession(locked, limit, t))
BY DEF Blank, Frozen, NewSession, EmptySession

LEMMA CreateOfflineSessionFinal ==
  ASSUME TypeOK, ClaimsInv, FinalInv, NEW s \in SessionIds, NEW locked, NEW limit, NEW t,
         CreateOfflineSession(s, locked, limit, t)
  PROVE  FinalInv'
<1>1. /\ UNCHANGED <<claim, edge>> /\ session[s].status = "None"
      /\ session'[s] = NewSession(locked, limit, t)
      /\ \A x \in SessionIds : x # s => session'[x] = session[x]
  BY DEF CreateOfflineSession, claimVars, TypeOK
<1>2. \A x : EdgesOf(x)' = EdgesOf(x) /\ Submitted(x)' = Submitted(x)
  BY <1>1 DEF EdgesOf, Submitted
<1>3. EdgesOf(s) = {} /\ Submitted(s) = {}
  BY <1>1, UnusedSession
<1>4. Blank(session'[s])
  BY <1>1, BlankRecords
<1>5. SessionInv(s)'
  <2>1. Classified(s)' = {} /\ Finalized(s)' = {} /\ Done(s)' = {}
    BY <1>2, <1>3 DEF Classified, Finalized, Done
  <2>2. CountInv(s)'
    BY <1>4, <2>1, SumEmpty, FS_EmptySet DEF CountInv, Blank
  <2>3. PhaseInv(s)'
    BY <1>2, <1>3, <1>4, <2>1 DEF PhaseInv, Blank
  <2>4. CursorInv(s)' /\ ShareInv(s)'
    BY <1>2, <1>3, <1>4 DEF CursorInv, ShareInv, Blank
  <2> QED BY <2>2, <2>3, <2>4 DEF SessionInv
<1>6. \A x \in SessionIds : x # s => Untouched(x)
  BY <1>1, <1>2, BooksSame DEF Untouched
<1>7. EdgeInv'
  BY <1>1, EdgesUntouched DEF FinalInv
<1> QED BY <1>5, <1>6, <1>7, UntouchedKeeps DEF FinalInv

LEMMA FinalInit == Init => FinalInv
<1> SUFFICES ASSUME Init PROVE FinalInv
  OBVIOUS
<1>1. /\ \A s \in SessionIds : session[s] = EmptySession
      /\ \A c \in Creds : claim[c] = EmptyClaim
      /\ \A e \in StateHashes : edge[e] = EmptyEdge
  BY DEF Init
<1>2. \A s \in SessionIds : EdgesOf(s) = {} /\ Submitted(s) = {}
  BY <1>1 DEF EdgesOf, Submitted, EmptyEdge, EmptyClaim
<1>3. \A s \in SessionIds : SessionInv(s)
  BY <1>1, <1>2, BlankRecords, EmptyBooks
<1>4. EdgeInv
  BY <1>1 DEF EdgeInv, EmptyEdge
<1> QED BY <1>3, <1>4 DEF FinalInv

-----------------------------------------------------------------------------
(***************************************************************************)
(* begin_finalization and close_session.                                   *)
(***************************************************************************)
\* A step of session s leaves the other sessions alone.
LEMMA OthersUntouched ==
  ASSUME ClaimsInv, FinalInv, Quiet, NEW s \in SessionIds,
         \A x \in SessionIds : x # s => session'[x] = session[x],
         \A c \in Creds : SessionOf(EdgeOf(c)) # s => claim'[c] = claim[c],
         \A e \in StateHashes : SessionOf(e) # s => edge'[e] = edge[e]
  PROVE  \A x \in SessionIds : x # s => SessionInv(x)'
<1> SUFFICES ASSUME NEW x \in SessionIds, x # s PROVE SessionInv(x)'
  OBVIOUS
<1>1. EdgesOf(x)' = EdgesOf(x) /\ Submitted(x)' = Submitted(x)
  BY QuietSets
<1>2. \A e \in EdgesOf(x) : edge'[e] = edge[e]
  BY DEF EdgesOf
<1>3. \A c \in Submitted(x) : SameScan(claim'[c], claim[c])
  BY BooksSame DEF Submitted
<1>4. Untouched(x)
  BY <1>1, <1>2, <1>3, BooksSame DEF Untouched
<1> QED BY <1>4, UntouchedKeeps DEF FinalInv

LEMMA CloseSessionStateBooks ==
  ASSUME NEW r \in OfflineSession, Frozen(r)
  PROVE  \A st \in {"Settled", "Closed"} : SameBooks([r EXCEPT !.status = st], r)
BY DEF OfflineSession, SameBooks, Frozen

LEMMA CloseSessionFinal ==
  ASSUME SafetyInv, ClaimsInv, FinalInv, NEW s \in SessionIds, CloseSession(s)
  PROVE  FinalInv'
<1>1. /\ UNCHANGED <<claim, edge>> /\ Frozen(session[s]) /\ session[s] \in OfflineSession
      /\ session' = [session EXCEPT ![s] = [session[s] EXCEPT !.status = "Closed"]]
  BY DEF CloseSession, CloseSessionState, claimVars, Frozen, SafetyInv, TypeOK
<1>2. SameBooks([session[s] EXCEPT !.status = "Closed"], session[s])
  BY <1>1, CloseSessionStateBooks
<1>3. \A x \in SessionIds : SameBooks(session'[x], session[x])
  BY <1>1, <1>2, BooksSame DEF SafetyInv, TypeOK
<1> QED BY <1>1, <1>3, ClaimsUntouchedFinal

LEMMA FrozenSessionBooks ==
  ASSUME NEW r \in OfflineSession
  PROVE  LET q == FrozenSession(r)
         IN  /\ Frozen(q) /\ q.next_allocation_claim = r.claim_head
             /\ q.frozen_exposure = r.aggregate_offline_exposure
             /\ q.frozen_edge_count = r.unique_edge_count
             /\ q.classified_edge_count = r.classified_edge_count
             /\ q.base_allocation_total = r.base_allocation_total
             /\ q.classification_complete = r.classification_complete
             /\ q.allocated_edge_count = r.allocated_edge_count
             /\ q.allocated_total = r.allocated_total
             /\ q.allocation_complete = r.allocation_complete
             /\ q.settled_edge_count = r.settled_edge_count
             /\ q.settled_amount = r.settled_amount
             /\ q.collateral_coverage_cap = r.collateral_coverage_cap
BY DEF FrozenSession, OfflineSession, Frozen

LEMMA CompletedAllocationBooks ==
  ASSUME NEW r \in OfflineSession
  PROVE  LET q == CompletedAllocation(r)
         IN  /\ Frozen(q) /\ q.next_allocation_claim = r.next_allocation_claim
             /\ q.allocation_complete
             /\ q.frozen_exposure = r.frozen_exposure
             /\ q.frozen_edge_count = r.frozen_edge_count
             /\ q.classified_edge_count = r.classified_edge_count
             /\ q.base_allocation_total = r.base_allocation_total
             /\ q.classification_complete = r.classification_complete
             /\ q.allocated_edge_count = r.allocated_edge_count
             /\ q.allocated_total = r.allocated_total
             /\ q.settled_edge_count = r.settled_edge_count
             /\ q.settled_amount = r.settled_amount
             /\ q.collateral_coverage_cap = r.collateral_coverage_cap
BY DEF CompletedAllocation, OfflineSession, Frozen

LEMMA BeginFinalizationFinal ==
  ASSUME SafetyInv, ClaimsInv, FinalInv, NEW s \in SessionIds, BeginFinalization(s)
  PROVE  FinalInv'
<1> DEFINE r == session[s]
           q == FrozenSession(r)
<1>1. r \in OfflineSession /\ UNCHANGED <<claim, edge>>
  BY DEF SafetyInv, TypeOK, BeginFinalization, claimVars
<1>2. q \in OfflineSession
  BY <1>1, FrozenSessionType
<1>3. Quiet
  BY BeginFinalizationQuiet DEF SafetyInv
<1>4. EdgesOf(s)' = EdgesOf(s) /\ Submitted(s)' = Submitted(s)
  BY <1>3, QuietSets
<1>5. r.unique_edge_count = Cardinality(EdgesOf(s)) /\ IsFiniteSet(EdgesOf(s))
  BY SetsFinite DEF ClaimsInv, ExposureInv
<1>6. /\ Frozen(q) /\ q.next_allocation_claim = r.claim_head
      /\ q.frozen_exposure = r.aggregate_offline_exposure
      /\ q.frozen_edge_count = r.unique_edge_count
      /\ q.classified_edge_count = r.classified_edge_count
      /\ q.base_allocation_total = r.base_allocation_total
      /\ q.classification_complete = r.classification_complete
      /\ q.allocated_edge_count = r.allocated_edge_count
      /\ q.allocated_total = r.allocated_total
      /\ q.allocation_complete = r.allocation_complete
      /\ q.settled_edge_count = r.settled_edge_count
      /\ q.settled_amount = r.settled_amount
      /\ q.collateral_coverage_cap = r.collateral_coverage_cap
  BY <1>1, FrozenSessionBooks
<1>7. \/ /\ q.frozen_edge_count # 0 /\ session' = [session EXCEPT ![s] = q]
      \/ /\ q.frozen_edge_count = 0
         /\ CompleteAllocation(s, [q EXCEPT !.classification_complete = TRUE])
  BY DEF BeginFinalization
<1>8. r.status \in {"Active", "ClaimWindow", "Conflicted"}
  BY DEF BeginFinalization
<1>9. Lifecycle(r) /\ FrozenCounters(r)
  BY SessionFacts
<1> HIDE DEF q
<1>10. \A x \in SessionIds : x # s => session'[x] = session[x]
  BY <1>7 DEF CompleteAllocation, SafetyInv, TypeOK
<1>11. \A x \in SessionIds : x # s => SessionInv(x)'
  BY <1>1, <1>3, <1>10, OthersUntouched
<1>12. EdgeInv'
  BY <1>1, EdgesUntouched DEF FinalInv
<1>13. CASE Frozen(r)
  <2>1. r.allocation_complete
    BY <1>8, <1>13 DEF Frozen
  <2>2. r.unique_edge_count > 0
    BY <1>8, <1>9, <2>1 DEF Lifecycle, Unfrozen
  <2>3. session'[s] = q
    BY <1>6, <1>7, <2>2 DEF SafetyInv, TypeOK
  <2>4. SameBooks(q, r)
    BY <1>6, <1>9, <1>13, <2>1 DEF SameBooks, FrozenCounters
  <2>5. Untouched(s)
    BY <1>1, <1>4, <2>3, <2>4, BooksSame DEF Untouched
  <2>6. SessionInv(s)'
    BY <2>5, UntouchedKeeps DEF FinalInv
  <2> QED BY <1>11, <1>12, <2>6 DEF FinalInv
<1>14. CASE ~Frozen(r)
  <2>1. /\ Classified(s) = {} /\ ~r.classification_complete /\ ~r.allocation_complete
        /\ \A c \in Submitted(s) : ~claim[c].allocation_processed
        /\ SessionInv(s)
    BY <1>14 DEF FinalInv, SessionInv, PhaseInv, Frozen
  <2>2. Finalized(s) = {} /\ Done(s) = {}
    BY <2>1 DEF Classified, Finalized, Done, EdgesOf, FinalInv, EdgeInv
  <2>3. Classified(s)' = {} /\ Finalized(s)' = {} /\ Done(s)' = {}
    BY <1>1, <1>4, <2>1, <2>2 DEF Classified, Finalized, Done
  <2>4. \A f : SumFunctionOnSet(f, {}) = 0
    BY SumEmpty
  <2>5. /\ r.classified_edge_count = 0 /\ r.base_allocation_total = 0
        /\ r.allocated_edge_count = 0 /\ r.allocated_total = 0
        /\ r.settled_edge_count = 0 /\ r.settled_amount = 0
    BY <2>1, <2>2, <2>4, FS_EmptySet DEF SessionInv, CountInv
  <2>6. IsLeast(Submitted(s), r.claim_head)
    BY DEF ClaimsInv, ListInv, Linked
  <2>7. Unscanned(s) = Submitted(s) /\ Unscanned(s)' = Submitted(s)
    BY <1>1, <1>4, <2>1 DEF Unscanned
  <2>8. /\ \A e \in EdgesOf(s) : ~edge[e].allocation_finalized /\ ~edge[e].classified
        /\ \A e \in EdgesOf(s) : edge[e].representative \in Submitted(s)
    BY <2>1, <2>2, RepresentativeFacts DEF Finalized, Classified
  <2>9. ASSUME NEW y, session'[s] = y, Frozen(y),
               y.classified_edge_count = 0, y.base_allocation_total = 0,
               y.allocated_edge_count = 0, y.allocated_total = 0,
               y.settled_edge_count = 0, y.settled_amount = 0,
               y.next_allocation_claim = r.claim_head,
               y.classification_complete \/ y.allocation_complete =>
                 EdgesOf(s) = {},
               y.allocation_complete => y.classification_complete,
               y.allocation_complete => y.allocated_total = Coverage(y)
        PROVE  SessionInv(s)'
    <3>1. CountInv(s)'
      BY <2>3, <2>4, <2>9, FS_EmptySet DEF CountInv
    <3>2. PhaseInv(s)'
      BY <1>4, <2>3, <2>9 DEF PhaseInv
    <3>3. CursorInv(s)'
      BY <1>1, <1>4, <2>1, <2>6, <2>7, <2>8, <2>9 DEF CursorInv
    <3>4. ShareInv(s)'
      BY <1>1, <1>4, <2>8 DEF ShareInv
    <3> QED BY <3>1, <3>2, <3>3, <3>4 DEF SessionInv
  <2>10. CASE q.frozen_edge_count # 0 /\ session' = [session EXCEPT ![s] = q]
    <3>1. session'[s] = q
      BY <2>10 DEF SafetyInv, TypeOK
    <3>2. SessionInv(s)'
      BY <1>6, <2>1, <2>5, <2>9, <3>1
    <3> QED BY <1>11, <1>12, <3>2 DEF FinalInv
  <2>11. CASE /\ q.frozen_edge_count = 0
              /\ CompleteAllocation(s, [q EXCEPT !.classification_complete = TRUE])
    <3> DEFINE p == [q EXCEPT !.classification_complete = TRUE]
    <3>1. /\ p \in OfflineSession /\ p.next_allocation_claim = q.next_allocation_claim
          /\ p.frozen_exposure = q.frozen_exposure /\ p.classification_complete
          /\ p.classified_edge_count = q.classified_edge_count
          /\ p.base_allocation_total = q.base_allocation_total
          /\ p.allocated_edge_count = q.allocated_edge_count
          /\ p.allocated_total = q.allocated_total
          /\ p.settled_edge_count = q.settled_edge_count
          /\ p.settled_amount = q.settled_amount
      BY <1>2 DEF OfflineSession
    <3>2. CompleteAllocation(s, p)
      BY <2>11
    <3> HIDE DEF p
    <3> DEFINE y == CompletedAllocation(p)
    <3>3. /\ Frozen(y) /\ y.next_allocation_claim = p.next_allocation_claim
          /\ y.allocation_complete
          /\ y.classification_complete = p.classification_complete
          /\ y.classified_edge_count = p.classified_edge_count
          /\ y.base_allocation_total = p.base_allocation_total
          /\ y.allocated_edge_count = p.allocated_edge_count
          /\ y.allocated_total = p.allocated_total
          /\ y.settled_edge_count = p.settled_edge_count
          /\ y.settled_amount = p.settled_amount
          /\ y.frozen_exposure = p.frozen_exposure
          /\ y.collateral_coverage_cap = p.collateral_coverage_cap
      BY <3>1, CompletedAllocationBooks
    <3>4. session'[s] = y /\ p.allocated_total = Coverage(p)
      BY <3>2 DEF CompleteAllocation, CanCompleteAllocation, Coverage, SafetyInv, TypeOK
    <3> HIDE DEF y
    <3>5. EdgesOf(s) = {}
      BY <1>5, <1>6, <2>11, FS_EmptySet
    <3>6. y.allocated_total = Coverage(y)
      BY <3>3, <3>4 DEF Coverage
    <3>7. /\ y.classified_edge_count = 0 /\ y.base_allocation_total = 0
          /\ y.allocated_edge_count = 0 /\ y.allocated_total = 0
          /\ y.settled_edge_count = 0 /\ y.settled_amount = 0
          /\ y.next_allocation_claim = r.claim_head /\ y.classification_complete
      BY <1>6, <2>5, <3>1, <3>3
    <3>8. SessionInv(s)'
      BY <2>9, <3>3, <3>4, <3>5, <3>6, <3>7
    <3> QED BY <1>11, <1>12, <3>8 DEF FinalInv
  <2> QED BY <1>7, <2>10, <2>11
<1> QED BY <1>13, <1>14

-----------------------------------------------------------------------------
(***************************************************************************)
(* classify_edge: nothing is allocated yet, and the verdict of one more     *)
(* edge is counted.                                                        *)
(***************************************************************************)
LEMMA SessionWithClassifiedBooks ==
  ASSUME NEW r \in OfflineSession, NEW e, NEW base
  PROVE  LET q == SessionWithClassified(r, e, base)
         IN  /\ Frozen(q) <=> Frozen(r)
             /\ q.classified_edge_count = r.classified_edge_count + 1
             /\ q.base_allocation_total = r.base_allocation_total + base
             /\ q.classification_complete
                  = (r.classified_edge_count + 1 = r.frozen_edge_count)
             /\ q.next_allocation_claim = r.next_allocation_claim
             /\ q.frozen_exposure = r.frozen_exposure
             /\ q.frozen_edge_count = r.frozen_edge_count
             /\ q.allocated_edge_count = r.allocated_edge_count
             /\ q.allocated_total = r.allocated_total
             /\ q.allocation_complete = r.allocation_complete
             /\ q.settled_edge_count = r.settled_edge_count
             /\ q.settled_amount = r.settled_amount
             /\ q.collateral_coverage_cap = r.collateral_coverage_cap
BY DEF SessionWithClassified, OfflineSession, Frozen

LEMMA BaseTypes ==
  ASSUME NEW r \in OfflineSession, r.frozen_exposure > 0
  PROVE  \A e \in StateHashes : BaseOf(r)[e] \in Nat
<1> SUFFICES ASSUME NEW e \in StateHashes PROVE BaseOf(r)[e] \in Nat
  OBVIOUS
<1>1. r.frozen_exposure \in Nat /\ r.collateral_coverage_cap \in Nat
  BY SessionFieldTypes
<1>2. Transition[e].amount \in Nat
  BY MessageTypes
<1> QED BY <1>1, <1>2, BaseAllocationType DEF BaseOf

LEMMA ClassifyEdgeFinal ==
  ASSUME SafetyInv, ClaimsInv, FinalInv, NEW e \in StateHashes, ClassifyEdge(e)
  PROVE  FinalInv'
<1> DEFINE s == SessionOf(e)
           r == session[s]
           q == session'[s]
<1>1. s \in SessionIds /\ r \in OfflineSession /\ claim' = claim /\ edge \in [StateHashes -> StateEdgeRecord]
  BY MessageTypes DEF SafetyInv, TypeOK, ClassifyEdge
<1>2. Quiet
  BY ClassifyEdgeQuiet DEF SafetyInv
<1>3. PICK base \in Nat, v \in BOOLEAN :
        /\ base = BaseAllocation(Transition[e].amount, r.frozen_exposure,
                                 r.collateral_coverage_cap)
        /\ edge' = [edge EXCEPT ![e] = [edge[e] EXCEPT !.classified = TRUE,
                                                       !.conflicting = v,
                                                       !.allocated_amount = base]]
        /\ session' = [session EXCEPT ![s] = SessionWithClassified(r, e, base)]
  BY ClassifyEdgeWrites DEF SafetyInv
<1>4. /\ q = SessionWithClassified(r, e, base)
      /\ \A x \in SessionIds : x # s => session'[x] = session[x]
  BY <1>1, <1>3 DEF SafetyInv, TypeOK
<1>5. /\ \A x \in StateHashes : x # e => edge'[x] = edge[x]
      /\ edge'[e].classified /\ edge'[e].allocated_amount = base
      /\ edge'[e].exists = edge[e].exists
      /\ edge'[e].representative = edge[e].representative
      /\ edge'[e].allocation_finalized = edge[e].allocation_finalized
      /\ edge'[e].settled_amount = edge[e].settled_amount
  BY <1>1, <1>3 DEF StateEdgeRecord
<1>6. /\ Frozen(q) <=> Frozen(r)
      /\ q.classified_edge_count = r.classified_edge_count + 1
      /\ q.base_allocation_total = r.base_allocation_total + base
      /\ q.classification_complete = (r.classified_edge_count + 1 = r.frozen_edge_count)
      /\ q.next_allocation_claim = r.next_allocation_claim
      /\ q.frozen_exposure = r.frozen_exposure
      /\ q.frozen_edge_count = r.frozen_edge_count
      /\ q.allocated_edge_count = r.allocated_edge_count
      /\ q.allocated_total = r.allocated_total
      /\ q.allocation_complete = r.allocation_complete
      /\ q.settled_edge_count = r.settled_edge_count
      /\ q.settled_amount = r.settled_amount
      /\ q.collateral_coverage_cap = r.collateral_coverage_cap
  BY <1>1, <1>4, SessionWithClassifiedBooks
<1>7. /\ r.status = "Reconciling" /\ ~r.classification_complete
      /\ edge[e].exists /\ ~edge[e].classified /\ r.frozen_exposure > 0
  BY DEF ClassifyEdge
<1>8. /\ Frozen(r) /\ ~r.allocation_complete /\ Finalized(s) = {}
      /\ SessionInv(s)
  BY <1>1, <1>7 DEF FinalInv, SessionInv, PhaseInv, Frozen
<1>9. r.frozen_edge_count = Cardinality(EdgesOf(s))
  BY <1>1, <1>7, SessionFacts DEF FrozenCounters, ClaimsInv, ExposureInv
<1>10. /\ e \in EdgesOf(s) /\ EdgesOf(s)' = EdgesOf(s)
       /\ Submitted(s)' = Submitted(s) /\ Unscanned(s)' = Unscanned(s)
  BY <1>1, <1>2, <1>7, QuietSets DEF EdgesOf, Unscanned
<1>11. \A x \in EdgesOf(s) : x \in StateHashes /\ ~edge[x].allocation_finalized
  BY <1>8 DEF Finalized, EdgesOf
<1>12. /\ Classified(s)' = Classified(s) \cup {e} /\ e \notin Classified(s)
       /\ Finalized(s)' = {} /\ Done(s) = {} /\ Done(s)' = {}
  <2>1. Classified(s)' = Classified(s) \cup {e} /\ e \notin Classified(s)
    BY <1>5, <1>7, <1>10, <1>11 DEF Classified
  <2>2. Finalized(s)' = {}
    BY <1>5, <1>10, <1>11 DEF Finalized
  <2> QED BY <1>8, <2>1, <2>2 DEF Done
<1>13. BaseOf(q) = BaseOf(r) /\ base = BaseOf(r)[e]
  BY <1>3, <1>6 DEF BaseOf
<1> HIDE DEF q
<1>14. CountInv(s)'
  <2>1. /\ IsFiniteSet(Classified(s)) /\ Classified(s) \subseteq StateHashes
    BY StageSets
  <2>2. SumFunctionOnSet(BaseOf(r), Classified(s) \cup {e})
          = SumFunctionOnSet(BaseOf(r), Classified(s)) + BaseOf(r)[e]
    BY <1>1, <1>7, <1>12, <2>1, SumAdd, BaseTypes
  <2>3. Cardinality(Classified(s) \cup {e}) = Cardinality(Classified(s)) + 1
    BY <1>12, <2>1, FS_AddElement
  <2>4. \A f : SumFunctionOnSet(f, {}) = 0
    BY SumEmpty
  <2>5. /\ r.classified_edge_count = Cardinality(Classified(s))
        /\ r.base_allocation_total = SumFunctionOnSet(BaseOf(r), Classified(s))
        /\ r.allocated_edge_count = 0 /\ r.allocated_total = 0
        /\ r.settled_edge_count = 0 /\ r.settled_amount = 0
    BY <1>8, <1>12, <2>4, FS_EmptySet DEF SessionInv, CountInv
  <2>6. /\ q.classified_edge_count = Cardinality(Classified(s)')
        /\ q.base_allocation_total = SumFunctionOnSet(BaseOf(q), Classified(s)')
        /\ q.allocated_edge_count = 0 /\ q.allocated_total = 0
        /\ q.settled_edge_count = 0 /\ q.settled_amount = 0
    BY <1>6, <1>12, <1>13, <2>2, <2>3, <2>5
  <2> QED BY <1>12, <2>4, <2>6, FS_EmptySet DEF CountInv, q
<1>15. PhaseInv(s)'
  <2>1. q.classification_complete => Classified(s)' = EdgesOf(s)'
    <3> SUFFICES ASSUME q.classification_complete PROVE Classified(s)' = EdgesOf(s)
      BY <1>10
    <3>1. Cardinality(Classified(s)) + 1 = Cardinality(EdgesOf(s))
      BY <1>6, <1>8, <1>9 DEF SessionInv, CountInv
    <3>2. Classified(s) \cup {e} \subseteq EdgesOf(s) /\ IsFiniteSet(EdgesOf(s))
          /\ IsFiniteSet(Classified(s))
      BY <1>10, StageSets
    <3>3. Cardinality(Classified(s) \cup {e}) = Cardinality(EdgesOf(s))
      BY <1>12, <3>1, <3>2, FS_AddElement
    <3> QED BY <1>12, <3>2, <3>3, FS_Subset
  <2>2. Frozen(q) /\ ~q.allocation_complete
    BY <1>6, <1>8
  <2> QED BY <1>12, <2>1, <2>2 DEF PhaseInv, q
<1>16. CursorInv(s)'
  <2>1. /\ IsLeast(Unscanned(s), r.next_allocation_claim)
        /\ \A x, y \in Submitted(s) :
             x < y /\ claim[y].allocation_processed => claim[x].allocation_processed
        /\ \A x \in EdgesOf(s) : edge[x].allocation_finalized <=>
             claim[edge[x].representative].allocation_processed
    BY <1>8 DEF SessionInv, CursorInv
  <2>2. \A x \in EdgesOf(s) : /\ edge'[x].allocation_finalized = edge[x].allocation_finalized
                             /\ edge'[x].representative = edge[x].representative
    BY <1>5, <1>11
  <2>3. IsLeast(Unscanned(s)', q.next_allocation_claim)
    BY <1>6, <1>10, <2>1
  <2> QED BY <1>1, <1>10, <2>1, <2>2, <2>3 DEF CursorInv, q
<1>17. ShareInv(s)'
  <2>1. \A x \in EdgesOf(s) : ~edge'[x].allocation_finalized
    BY <1>5, <1>11
  <2>2. \A x \in EdgesOf(s) : edge'[x].classified => edge'[x].allocated_amount = BaseOf(q)[x]
    <3>1. \A x \in EdgesOf(s) : edge[x].classified => edge[x].allocated_amount = BaseOf(r)[x]
      BY <1>8, <1>11 DEF SessionInv, ShareInv
    <3> QED BY <1>5, <1>11, <1>13, <3>1
  <2> QED BY <1>10, <2>1, <2>2 DEF ShareInv, q
<1>18. SessionInv(s)'
  BY <1>14, <1>15, <1>16, <1>17 DEF SessionInv
<1>19. \A x \in SessionIds : x # s => SessionInv(x)'
  <2>1. \A x \in StateHashes : SessionOf(x) # s => edge'[x] = edge[x]
    BY <1>5
  <2> QED BY <1>1, <1>2, <1>4, <2>1, OthersUntouched
<1>20. EdgeInv'
  <2> SUFFICES ASSUME NEW x \in StateHashes
               PROVE  (/\ edge[x].classified => edge[x].exists
                       /\ edge[x].allocation_finalized => edge[x].classified
                       /\ ~edge[x].allocation_finalized => edge[x].settled_amount = 0
                       /\ edge[x].settled_amount \in {0, edge[x].allocated_amount}
                       /\ edge[x].settled_amount > 0 =>
                            claim[edge[x].representative].status = "Settled")'
    BY DEF EdgeInv
  <2>1. CASE x = e
    <3>1. edge[e].settled_amount = 0 /\ ~edge[e].allocation_finalized
      BY <1>10, <1>11 DEF FinalInv, EdgeInv
    <3>2. /\ edge'[e].settled_amount = 0 /\ ~edge'[e].allocation_finalized
          /\ edge'[e].exists
      BY <1>5, <1>7, <3>1
    <3> HIDE DEF s, r
    <3> QED BY <2>1, <3>2
  <2>2. CASE x # e
    BY <1>1, <1>5, <2>2 DEF FinalInv, EdgeInv
  <2> QED BY <2>1, <2>2
<1> QED BY <1>18, <1>19, <1>20 DEF FinalInv

-----------------------------------------------------------------------------
(***************************************************************************)
(* allocate_next_claim.  The cursor stands on the least claim that was not *)
(* scanned, so an edge is finalized exactly when its representative lies   *)
(* below the cursor, and the number of finalized edges is the rank of the  *)
(* one the cursor stands on.                                               *)
(***************************************************************************)
LEMMA CursorFacts ==
  ASSUME ClaimsInv, NEW s \in SessionIds, CursorInv(s),
         Frozen(session[s]), ~session[s].allocation_complete,
         NEW c \in Creds, c = session[s].next_allocation_claim
  PROVE  /\ c \in Submitted(s) /\ ~claim[c].allocation_processed
         /\ \A x \in Submitted(s) : claim[x].allocation_processed <=> x < c
         /\ Finalized(s) = {f \in EdgesOf(s) : edge[f].representative < c}
         /\ IsLeast(After(Submitted(s), c), claim[c].next_claim)
<1>1. /\ IsLeast(Unscanned(s), c)
      /\ \A x, y \in Submitted(s) :
           x < y /\ claim[y].allocation_processed => claim[x].allocation_processed
      /\ \A f \in EdgesOf(s) : edge[f].allocation_finalized <=>
           claim[edge[f].representative].allocation_processed
  BY DEF CursorInv
<1>2. c \in Nat /\ c # NoClaim /\ \A x \in Submitted(s) : x \in Nat
  BY SetAssumption, SetsFinite DEF NoClaim, Submitted
<1>3. c \in Unscanned(s) /\ \A y \in Unscanned(s) : c <= y
  BY <1>1, <1>2 DEF IsLeast
<1>4. c \in Submitted(s) /\ ~claim[c].allocation_processed
  BY <1>3 DEF Unscanned
<1>5. \A x \in Submitted(s) : claim[x].allocation_processed <=> x < c
  <2> SUFFICES ASSUME NEW x \in Submitted(s)
               PROVE  claim[x].allocation_processed <=> x < c
    OBVIOUS
  <2>1. CASE x < c
    <3>1. x \notin Unscanned(s)
      BY <1>2, <1>3, <2>1
    <3> QED BY <2>1, <3>1 DEF Unscanned
  <2>2. CASE ~(x < c)
    <3>1. x = c \/ c < x
      BY <1>2, <2>2
    <3> QED BY <1>1, <1>4, <2>2, <3>1
  <2> QED BY <2>1, <2>2
<1>6. Finalized(s) = {f \in EdgesOf(s) : edge[f].representative < c}
  <2>1. \A f \in EdgesOf(s) : edge[f].representative \in Submitted(s)
    BY RepresentativeFacts
  <2> QED BY <1>1, <1>5, <2>1 DEF Finalized
<1>7. IsLeast(After(Submitted(s), c), claim[c].next_claim)
  BY <1>4 DEF ClaimsInv, ListInv, Linked, NextLink
<1> QED BY <1>4, <1>5, <1>6, <1>7

\* The cursor moves on.
LEMMA CursorStep ==
  ASSUME ClaimsInv, NEW s \in SessionIds, CursorInv(s),
         Frozen(session[s]), ~session[s].allocation_complete,
         NEW c \in Creds, c = session[s].next_allocation_claim,
         EdgesOf(s)' = EdgesOf(s), Submitted(s)' = Submitted(s),
         session'[s].next_allocation_claim = claim[c].next_claim,
         claim'[c].allocation_processed,
         \A x \in Creds : x # c => SameScan(claim'[x], claim[x]),
         \A f \in EdgesOf(s) :
           /\ edge'[f].representative = edge[f].representative
           /\ edge'[f].allocation_finalized
                <=> edge[f].allocation_finalized \/ edge[f].representative = c
  PROVE  CursorInv(s)'
<1>1. /\ c \in Submitted(s) /\ ~claim[c].allocation_processed
      /\ \A x \in Submitted(s) : claim[x].allocation_processed <=> x < c
      /\ IsLeast(After(Submitted(s), c), claim[c].next_claim)
  BY CursorFacts
<1>2. c \in Nat /\ \A x \in Submitted(s) : x \in Nat /\ x \in Creds
  BY SetAssumption, SetsFinite DEF Submitted
<1>3. \A x \in Submitted(s) : claim'[x].allocation_processed <=> x <= c
  BY <1>1, <1>2 DEF SameScan
<1>4. Unscanned(s)' = After(Submitted(s), c)
  <2>1. \A x \in Submitted(s) : ~(x <= c) <=> x > c
    BY <1>2
  <2> QED BY <1>3, <2>1 DEF Unscanned, After
<1>5. IsLeast(Unscanned(s)', session'[s].next_allocation_claim)
  BY <1>1, <1>4
<1>6. \A x, y \in Submitted(s) :
        x < y /\ claim'[y].allocation_processed => claim'[x].allocation_processed
  BY <1>2, <1>3
<1>7. \A f \in EdgesOf(s) : edge'[f].allocation_finalized <=>
        claim'[edge'[f].representative].allocation_processed
  <2> SUFFICES ASSUME NEW f \in EdgesOf(s)
               PROVE  edge'[f].allocation_finalized <=>
                        claim'[edge[f].representative].allocation_processed
    OBVIOUS
  <2>1. edge[f].representative \in Creds
    BY RepresentativeFacts
  <2>2. edge[f].allocation_finalized <=>
          claim[edge[f].representative].allocation_processed
    BY DEF CursorInv
  <2> QED BY <2>1, <2>2 DEF SameScan
<1> QED BY <1>5, <1>6, <1>7 DEF CursorInv

\* What the end of an allocation instruction does with the session account q.
ScanEnds(y, q) ==
  /\ y.classified_edge_count = q.classified_edge_count
  /\ y.base_allocation_total = q.base_allocation_total
  /\ y.classification_complete = q.classification_complete
  /\ y.next_allocation_claim = q.next_allocation_claim
  /\ y.allocated_edge_count = q.allocated_edge_count
  /\ y.allocated_total = q.allocated_total
  /\ y.settled_edge_count = q.settled_edge_count
  /\ y.settled_amount = q.settled_amount
  /\ y.frozen_exposure = q.frozen_exposure
  /\ y.collateral_coverage_cap = q.collateral_coverage_cap
  /\ Frozen(q) => Frozen(y)
  /\ y.allocation_complete =>
       \/ q.allocation_complete
       \/ /\ q.classification_complete
          /\ q.allocated_edge_count = q.frozen_edge_count
          /\ q.allocated_total = Coverage(q)

LEMMA FinishScanBooks ==
  ASSUME TypeOK, NEW s \in SessionIds, NEW q \in OfflineSession, FinishScan(s, q)
  PROVE  /\ ScanEnds(session'[s], q)
         /\ \A x \in SessionIds : x # s => session'[x] = session[x]
<1>1. CASE CompleteAllocation(s, q)
  <2>1. /\ session'[s] = CompletedAllocation(q)
        /\ \A x \in SessionIds : x # s => session'[x] = session[x]
    BY <1>1 DEF CompleteAllocation, TypeOK
  <2>2. /\ q.classification_complete
        /\ q.allocated_edge_count = q.frozen_edge_count
        /\ q.allocated_total = Coverage(q)
    BY <1>1 DEF CompleteAllocation, CanCompleteAllocation, Coverage
  <2>3. ScanEnds(CompletedAllocation(q), q)
    BY <2>2, CompletedAllocationBooks DEF ScanEnds
  <2> QED BY <2>1, <2>3
<1>2. CASE session' = [session EXCEPT ![s] = q]
  <2>1. /\ session'[s] = q
        /\ \A x \in SessionIds : x # s => session'[x] = session[x]
    BY <1>2 DEF TypeOK
  <2>2. ScanEnds(q, q)
    BY DEF ScanEnds
  <2> QED BY <2>1, <2>2
<1> QED BY <1>1, <1>2 DEF FinishScan

LEMMA SessionWithScanBooks ==
  ASSUME NEW r \in OfflineSession, NEW c
  PROVE  LET q == SessionWithScan(r, c)
         IN  /\ Frozen(q) <=> Frozen(r)
             /\ q.classified_edge_count = r.classified_edge_count
             /\ q.base_allocation_total = r.base_allocation_total
             /\ q.classification_complete = r.classification_complete
             /\ q.next_allocation_claim = claim[c].next_claim
             /\ q.frozen_exposure = r.frozen_exposure
             /\ q.frozen_edge_count = r.frozen_edge_count
             /\ q.allocated_edge_count = r.allocated_edge_count
             /\ q.allocated_total = r.allocated_total
             /\ q.allocation_complete = r.allocation_complete
             /\ q.settled_edge_count = r.settled_edge_count
             /\ q.settled_amount = r.settled_amount
             /\ q.collateral_coverage_cap = r.collateral_coverage_cap
BY DEF SessionWithScan, OfflineSession, Frozen

AllocationAdded(q, r, a) ==
  /\ Frozen(q) <=> Frozen(r)
  /\ q.classified_edge_count = r.classified_edge_count
  /\ q.base_allocation_total = r.base_allocation_total
  /\ q.classification_complete = r.classification_complete
  /\ q.frozen_exposure = r.frozen_exposure
  /\ q.frozen_edge_count = r.frozen_edge_count
  /\ q.allocated_edge_count = r.allocated_edge_count + 1
  /\ q.allocated_total = r.allocated_total + a
  /\ q.allocation_complete = r.allocation_complete
  /\ a = 0 => q.settled_edge_count = r.settled_edge_count + 1
  /\ a # 0 => q.settled_edge_count = r.settled_edge_count
  /\ q.settled_amount = r.settled_amount
  /\ q.collateral_coverage_cap = r.collateral_coverage_cap

LEMMA SessionWithAllocationBooks ==
  ASSUME NEW r \in OfflineSession, NEW c, NEW a, NEW v
  PROVE  AllocationAdded(SessionWithAllocation(r, c, a, v), r, a)
BY DEF SessionWithAllocation, OfflineSession, Frozen, AllocationAdded

LEMMA ScanStarts ==
  ASSUME SafetyInv, ClaimsInv, FinalInv, NEW c \in Creds, AllocateNextClaim(c)
  PROVE  LET s == SessionOf(EdgeOf(c))
             r == session[s]
         IN  /\ EdgeOf(c) \in StateHashes /\ s \in SessionIds /\ r \in OfflineSession
             /\ r.status = "Reconciling" /\ Frozen(r) /\ ~r.allocation_complete
             /\ r.classification_complete /\ c = r.next_allocation_claim
             /\ SessionInv(s) /\ CursorInv(s) /\ Classified(s) = EdgesOf(s)
             /\ r.frozen_edge_count = Cardinality(EdgesOf(s))
             /\ r.frozen_exposure = r.aggregate_offline_exposure
             /\ EdgesOf(s)' = EdgesOf(s) /\ Submitted(s)' = Submitted(s)
<1> DEFINE s == SessionOf(EdgeOf(c))
           r == session[s]
<1>1. EdgeOf(c) \in StateHashes /\ s \in SessionIds /\ r \in OfflineSession
  BY MessageTypes DEF SafetyInv, TypeOK
<1>2. /\ r.status = "Reconciling" /\ ~r.allocation_complete
      /\ r.classification_complete /\ c = r.next_allocation_claim
  BY DEF AllocateNextClaim
<1>3. Frozen(r)
  BY <1>2 DEF Frozen
<1>4. SessionInv(s) /\ CursorInv(s) /\ Classified(s) = EdgesOf(s)
  BY <1>1, <1>2 DEF FinalInv, SessionInv, PhaseInv
<1>5. /\ r.frozen_edge_count = Cardinality(EdgesOf(s))
      /\ r.frozen_exposure = r.aggregate_offline_exposure
  BY <1>1, <1>2, SessionFacts DEF FrozenCounters, ClaimsInv, ExposureInv
<1>6. EdgesOf(s)' = EdgesOf(s) /\ Submitted(s)' = Submitted(s)
  BY <1>1, AllocateNextClaimQuiet, QuietSets DEF SafetyInv
<1> QED BY <1>1, <1>2, <1>3, <1>4, <1>5, <1>6

LEMMA SkipDuplicateFinal ==
  ASSUME SafetyInv, ClaimsInv, FinalInv, NEW c \in Creds, AllocateNextClaim(c),
         SkipDuplicate(c)
  PROVE  FinalInv'
<1> DEFINE e == EdgeOf(c)
           s == SessionOf(e)
           r == session[s]
           q == SessionWithScan(r, c)
           y == session'[s]
<1>1. /\ e \in StateHashes /\ s \in SessionIds /\ r \in OfflineSession
      /\ Frozen(r) /\ ~r.allocation_complete
      /\ r.classification_complete /\ c = r.next_allocation_claim
      /\ SessionInv(s) /\ CursorInv(s) /\ Classified(s) = EdgesOf(s)
      /\ r.frozen_edge_count = Cardinality(EdgesOf(s))
      /\ EdgesOf(s)' = EdgesOf(s) /\ Submitted(s)' = Submitted(s)
  BY ScanStarts
<1>2. /\ edge' = edge
      /\ claim' = [claim EXCEPT ![c] = [claim[c] EXCEPT !.allocation_processed = TRUE]]
      /\ FinishScan(s, q) /\ edge[e].representative # c
  BY SkipDuplicateWrites DEF SafetyInv, SkipDuplicate
<1>3. q \in OfflineSession
  BY <1>1, SessionWithScanType DEF SafetyInv, TypeOK
<1>4. /\ Frozen(q) <=> Frozen(r)
      /\ q.classified_edge_count = r.classified_edge_count
      /\ q.base_allocation_total = r.base_allocation_total
      /\ q.classification_complete = r.classification_complete
      /\ q.next_allocation_claim = claim[c].next_claim
      /\ q.frozen_exposure = r.frozen_exposure
      /\ q.frozen_edge_count = r.frozen_edge_count
      /\ q.allocated_edge_count = r.allocated_edge_count
      /\ q.allocated_total = r.allocated_total
      /\ q.allocation_complete = r.allocation_complete
      /\ q.settled_edge_count = r.settled_edge_count
      /\ q.settled_amount = r.settled_amount
      /\ q.collateral_coverage_cap = r.collateral_coverage_cap
  BY <1>1, SessionWithScanBooks
<1> HIDE DEF q
<1>5. ScanEnds(y, q) /\ \A x \in SessionIds : x # s => session'[x] = session[x]
  BY <1>1, <1>2, <1>3, FinishScanBooks DEF SafetyInv
<1> HIDE DEF y
<1>6. /\ y.classified_edge_count = r.classified_edge_count
      /\ y.base_allocation_total = r.base_allocation_total
      /\ y.classification_complete
      /\ y.next_allocation_claim = claim[c].next_claim
      /\ y.allocated_edge_count = r.allocated_edge_count
      /\ y.allocated_total = r.allocated_total
      /\ y.settled_edge_count = r.settled_edge_count
      /\ y.settled_amount = r.settled_amount
      /\ Frozen(y) /\ BaseOf(y) = BaseOf(r) /\ Coverage(y) = Coverage(r)
      /\ y.allocation_complete => /\ r.allocated_edge_count = Cardinality(EdgesOf(s))
                                  /\ r.allocated_total = Coverage(r)
  BY <1>1, <1>4, <1>5 DEF ScanEnds, BaseOf, Coverage
<1>7. /\ \A x \in Creds : x # c => claim'[x] = claim[x]
      /\ claim'[c].allocation_processed
      /\ claim'[c].allocated_amount = claim[c].allocated_amount
      /\ claim'[c].status = claim[c].status
  BY <1>2 DEF SafetyInv, TypeOK, Claim
<1>8. /\ Classified(s)' = Classified(s) /\ Finalized(s)' = Finalized(s)
      /\ Done(s)' = Done(s) /\ AllocatedOf' = AllocatedOf /\ SettledOf' = SettledOf
  <2>1. Classified(s)' = Classified(s) /\ Finalized(s)' = Finalized(s)
    BY <1>1, <1>2 DEF Classified, Finalized
  <2> QED BY <1>2, <2>1 DEF Done, AllocatedOf, SettledOf
<1>9. \A f \in EdgesOf(s) : edge[f].representative # c /\ edge[f].representative \in Creds
  BY <1>1, <1>2, RepresentativeFacts
<1>10. CountInv(s)'
  <2>1. CountInv(s)
    BY <1>1 DEF SessionInv
  <2> QED BY <1>6, <1>8, <2>1 DEF CountInv, y
<1>11. PhaseInv(s)'
  <2>1. y.allocation_complete => Finalized(s) = EdgesOf(s)
    <3> SUFFICES ASSUME y.allocation_complete PROVE Finalized(s) = EdgesOf(s)
      OBVIOUS
    <3>1. Cardinality(Finalized(s)) = Cardinality(EdgesOf(s))
      BY <1>1, <1>6 DEF SessionInv, CountInv
    <3> QED BY <3>1, StageSets, FS_Subset
  <2> QED BY <1>1, <1>6, <1>8, <2>1 DEF PhaseInv, y
<1>12. CursorInv(s)'
  <2>1. \A x \in Creds : x # c => SameScan(claim'[x], claim[x])
    BY <1>7, BooksSame
  <2>2. y.next_allocation_claim = claim[c].next_claim
    BY <1>6
  <2> QED BY <1>1, <1>2, <1>7, <1>9, <2>1, <2>2, CursorStep DEF y
<1>13. ShareInv(s)'
  <2>1. \A f \in EdgesOf(s) : Rank(s, f)' = Rank(s, f)
    BY <1>1, <1>2 DEF Rank
  <2>2. \A f \in EdgesOf(s) : Share(s, f)' = Share(s, f)
    BY <1>6, <2>1 DEF Share, y
  <2>3. ShareInv(s)
    BY <1>1 DEF SessionInv
  <2>4. \A f \in EdgesOf(s) : claim'[edge[f].representative] = claim[edge[f].representative]
    BY <1>7, <1>9
  <2> QED BY <1>1, <1>2, <1>6, <2>2, <2>3, <2>4 DEF ShareInv, y
<1>14. SessionInv(s)'
  BY <1>10, <1>11, <1>12, <1>13 DEF SessionInv
<1>15. \A x \in SessionIds : x # s => SessionInv(x)'
  <2>1. \A x \in Creds : SessionOf(EdgeOf(x)) # s => claim'[x] = claim[x]
    BY <1>7
  <2>2. Quiet
    BY AllocateNextClaimQuiet DEF SafetyInv
  <2> QED BY <1>1, <1>2, <1>5, <2>1, <2>2, OthersUntouched
<1>16. EdgeInv'
  BY <1>2, <1>7, EdgesUntouched DEF FinalInv
<1> QED BY <1>14, <1>15, <1>16 DEF FinalInv

LEMMA AllocateRepresentativeFinal ==
  ASSUME SafetyInv, ClaimsInv, FinalInv, NEW c \in Creds, AllocateNextClaim(c),
         AllocateRepresentative(c)
  PROVE  FinalInv'
<1> DEFINE e == EdgeOf(c)
           s == SessionOf(e)
           r == session[s]
           y == session'[s]
<1>1. /\ e \in StateHashes /\ s \in SessionIds /\ r \in OfflineSession
      /\ Frozen(r) /\ ~r.allocation_complete
      /\ r.classification_complete /\ c = r.next_allocation_claim
      /\ SessionInv(s) /\ CursorInv(s) /\ Classified(s) = EdgesOf(s)
      /\ r.frozen_edge_count = Cardinality(EdgesOf(s))
      /\ EdgesOf(s)' = EdgesOf(s) /\ Submitted(s)' = Submitted(s)
  BY ScanStarts
<1>2. PICK a \in Nat, v \in {"Valid", "Conflicting"} :
        /\ a = edge[e].allocated_amount + Dust(r)
        /\ edge' = [edge EXCEPT ![e] = [edge[e] EXCEPT !.allocated_amount = a,
                                                       !.allocation_finalized = TRUE]]
        /\ claim' = [claim EXCEPT ![c] =
             [claim[c] EXCEPT !.allocated_amount = a,
                              !.status = IF a = 0 THEN "Settled" ELSE v,
                              !.allocation_processed = TRUE]]
        /\ FinishScan(s, SessionWithScan(SessionWithAllocation(r, c, a, v), c))
  BY AllocateRepresentativeWrites DEF SafetyInv
<1>3. /\ edge[e].representative = c /\ edge[e].classified
      /\ ~edge[e].allocation_finalized /\ claim[c].status = "Submitted"
      /\ a <= Transition[e].amount
  BY <1>2 DEF AllocateRepresentative
<1> DEFINE p == SessionWithAllocation(r, c, a, v)
<1>4. p \in OfflineSession
  BY <1>1, <1>2, SessionWithAllocationType
<1>5. /\ Frozen(p) <=> Frozen(r)
      /\ p.classified_edge_count = r.classified_edge_count
      /\ p.base_allocation_total = r.base_allocation_total
      /\ p.classification_complete = r.classification_complete
      /\ p.frozen_exposure = r.frozen_exposure
      /\ p.frozen_edge_count = r.frozen_edge_count
      /\ p.allocated_edge_count = r.allocated_edge_count + 1
      /\ p.allocated_total = r.allocated_total + a
      /\ p.allocation_complete = r.allocation_complete
      /\ a = 0 => p.settled_edge_count = r.settled_edge_count + 1
      /\ a # 0 => p.settled_edge_count = r.settled_edge_count
      /\ p.settled_amount = r.settled_amount
      /\ p.collateral_coverage_cap = r.collateral_coverage_cap
  <2>1. AllocationAdded(p, r, a)
    BY <1>1, SessionWithAllocationBooks
  <2> HIDE DEF p
  <2> QED BY <2>1 DEF AllocationAdded
<1> HIDE DEF p
<1> DEFINE q == SessionWithScan(p, c)
<1>6. q \in OfflineSession
  BY <1>4, SessionWithScanType DEF SafetyInv, TypeOK
<1>7. /\ Frozen(q) <=> Frozen(p)
      /\ q.classified_edge_count = p.classified_edge_count
      /\ q.base_allocation_total = p.base_allocation_total
      /\ q.classification_complete = p.classification_complete
      /\ q.next_allocation_claim = claim[c].next_claim
      /\ q.frozen_exposure = p.frozen_exposure
      /\ q.frozen_edge_count = p.frozen_edge_count
      /\ q.allocated_edge_count = p.allocated_edge_count
      /\ q.allocated_total = p.allocated_total
      /\ q.allocation_complete = p.allocation_complete
      /\ q.settled_edge_count = p.settled_edge_count
      /\ q.settled_amount = p.settled_amount
      /\ q.collateral_coverage_cap = p.collateral_coverage_cap
  BY <1>4, SessionWithScanBooks
<1>8. FinishScan(s, q)
  BY <1>2 DEF p
<1> HIDE DEF q
<1>9. ScanEnds(y, q) /\ \A x \in SessionIds : x # s => session'[x] = session[x]
  BY <1>1, <1>6, <1>8, FinishScanBooks DEF SafetyInv
<1> HIDE DEF y
<1>10. /\ y.classified_edge_count = r.classified_edge_count
       /\ y.base_allocation_total = r.base_allocation_total
       /\ y.classification_complete
       /\ y.next_allocation_claim = claim[c].next_claim
       /\ y.allocated_edge_count = r.allocated_edge_count + 1
       /\ y.allocated_total = r.allocated_total + a
       /\ y.settled_edge_count = IF a = 0 THEN r.settled_edge_count + 1
                                          ELSE r.settled_edge_count
       /\ y.settled_amount = r.settled_amount
       /\ Frozen(y) /\ BaseOf(y) = BaseOf(r) /\ Coverage(y) = Coverage(r)
       /\ y.allocation_complete =>
            /\ r.allocated_edge_count + 1 = Cardinality(EdgesOf(s))
            /\ y.allocated_total = Coverage(r)
  BY <1>1, <1>5, <1>7, <1>9 DEF ScanEnds, BaseOf, Coverage
<1>11. /\ \A x \in Creds : x # c => claim'[x] = claim[x]
       /\ claim'[c].allocation_processed /\ claim'[c].allocated_amount = a
  BY <1>2 DEF SafetyInv, TypeOK, Claim
<1>12. /\ \A x \in StateHashes : x # e => edge'[x] = edge[x]
       /\ edge'[e].allocated_amount = a /\ edge'[e].allocation_finalized
       /\ edge'[e].exists = edge[e].exists /\ edge'[e].classified = edge[e].classified
       /\ edge'[e].representative = edge[e].representative
       /\ edge'[e].settled_amount = edge[e].settled_amount
  BY <1>1, <1>2 DEF SafetyInv, TypeOK, StateEdgeRecord
<1>13. /\ e \in EdgesOf(s) /\ e \notin Finalized(s) /\ edge[e].settled_amount = 0
       /\ \A f \in EdgesOf(s) : f # e => edge[f].representative # c
       /\ \A f \in EdgesOf(s) : edge[f].representative \in Creds /\ f \in StateHashes
  <2>1. e \in EdgesOf(s)
    BY <1>1, <1>3 DEF EdgesOf, FinalInv, EdgeInv
  <2>2. edge[e].settled_amount = 0
    BY <1>1, <1>3 DEF FinalInv, EdgeInv
  <2> QED BY <1>1, <1>3, <2>1, <2>2, RepresentativeFacts DEF Finalized
<1>14. /\ Classified(s)' = Classified(s) /\ Finalized(s)' = Finalized(s) \cup {e}
       /\ Done(s)' = IF a = 0 THEN Done(s) \cup {e} ELSE Done(s)
  <2>1. Classified(s)' = Classified(s)
    BY <1>1, <1>12, <1>13 DEF Classified
  <2>2. Finalized(s)' = Finalized(s) \cup {e}
    BY <1>1, <1>12, <1>13 DEF Finalized
  <2>3. \A f \in Finalized(s) : f # e /\ f \in StateHashes
    BY <1>13, StageSets
  <2>4. Done(s)' = IF a = 0 THEN Done(s) \cup {e} ELSE Done(s)
    BY <1>2, <1>12, <1>13, <2>2, <2>3 DEF Done
  <2> QED BY <2>1, <2>2, <2>4
<1>15. /\ IsFiniteSet(Finalized(s)) /\ IsFiniteSet(Done(s))
       /\ e \notin Done(s) /\ Finalized(s) \subseteq StateHashes
       /\ \A f \in StateHashes : /\ edge[f].allocated_amount \in Nat
                                /\ edge[f].settled_amount \in Nat
  BY <1>13, StageSets, EdgeFieldTypes DEF SafetyInv, TypeOK
<1>16. CountInv(s)'
  <2>1. CountInv(s)
    BY <1>1 DEF SessionInv
  <2>2. Cardinality(Finalized(s)') = Cardinality(Finalized(s)) + 1
    BY <1>13, <1>14, <1>15, FS_AddElement
  <2>3. Cardinality(Done(s)') = IF a = 0 THEN Cardinality(Done(s)) + 1
                                         ELSE Cardinality(Done(s))
    BY <1>14, <1>15, FS_AddElement
  <2>4. SumFunctionOnSet(AllocatedOf', Finalized(s)')
          = SumFunctionOnSet(AllocatedOf, Finalized(s)) + a
    <3>1. \A f \in Finalized(s) : AllocatedOf'[f] = AllocatedOf[f]
      BY <1>12, <1>13, <1>15 DEF AllocatedOf
    <3>2. AllocatedOf'[e] = a
      BY <1>1, <1>12 DEF AllocatedOf
    <3>3. \A f \in Finalized(s) \cup {e} : AllocatedOf'[f] \in Nat
      BY <1>2, <1>15, <3>1, <3>2 DEF AllocatedOf
    <3>4. SumFunctionOnSet(AllocatedOf', Finalized(s) \cup {e})
            = SumFunctionOnSet(AllocatedOf', Finalized(s)) + a
      BY <1>13, <1>15, <3>2, <3>3, SumAdd
    <3>5. SumFunctionOnSet(AllocatedOf', Finalized(s))
            = SumFunctionOnSet(AllocatedOf, Finalized(s))
      BY <1>15, <3>1, SumSame
    <3> QED BY <1>14, <3>4, <3>5
  <2>5. SumFunctionOnSet(SettledOf', Finalized(s)')
          = SumFunctionOnSet(SettledOf, Finalized(s))
    <3>1. SettledOf' = SettledOf /\ SettledOf[e] = 0
      BY <1>1, <1>12, <1>13 DEF SettledOf
    <3>2. \A f \in Finalized(s) \cup {e} : SettledOf[f] \in Nat
      BY <1>15, <3>1 DEF SettledOf
    <3>3. SumFunctionOnSet(SettledOf, Finalized(s) \cup {e})
            = SumFunctionOnSet(SettledOf, Finalized(s)) + SettledOf[e]
      BY <1>13, <1>15, <3>2, SumAdd
    <3>4. SumFunctionOnSet(SettledOf, Finalized(s)) \in Nat
      BY <1>15, <3>2, SumNat
    <3> QED BY <1>14, <3>1, <3>3, <3>4
  <2>6. /\ y.classified_edge_count = Cardinality(Classified(s)')
        /\ y.base_allocation_total = SumFunctionOnSet(BaseOf(y), Classified(s)')
        /\ y.allocated_edge_count = Cardinality(Finalized(s)')
        /\ y.allocated_total = SumFunctionOnSet(AllocatedOf', Finalized(s)')
        /\ y.settled_edge_count = Cardinality(Done(s)')
        /\ y.settled_amount = SumFunctionOnSet(SettledOf', Finalized(s)')
    <3>1. /\ r.classified_edge_count = Cardinality(Classified(s))
          /\ r.base_allocation_total = SumFunctionOnSet(BaseOf(r), Classified(s))
          /\ r.allocated_edge_count = Cardinality(Finalized(s))
          /\ r.allocated_total = SumFunctionOnSet(AllocatedOf, Finalized(s))
          /\ r.settled_edge_count = Cardinality(Done(s))
          /\ r.settled_amount = SumFunctionOnSet(SettledOf, Finalized(s))
      BY <2>1 DEF CountInv
    <3>2. Classified(s)' = Classified(s)
      BY <1>14
    <3> QED BY <1>10, <2>2, <2>3, <2>4, <2>5, <3>1, <3>2
  <2> QED BY <2>6 DEF CountInv, y
<1>17. PhaseInv(s)'
  <2>1. y.allocation_complete => Finalized(s)' = EdgesOf(s)
    <3> SUFFICES ASSUME y.allocation_complete PROVE Finalized(s) \cup {e} = EdgesOf(s)
      BY <1>14
    <3>1. Cardinality(Finalized(s)) + 1 = Cardinality(EdgesOf(s))
      BY <1>1, <1>10 DEF SessionInv, CountInv
    <3>2. Cardinality(Finalized(s) \cup {e}) = Cardinality(EdgesOf(s))
      BY <1>13, <1>15, <3>1, FS_AddElement
    <3>3. Finalized(s) \cup {e} \subseteq EdgesOf(s) /\ IsFiniteSet(EdgesOf(s))
      BY <1>13, StageSets
    <3> QED BY <3>2, <3>3, FS_Subset
  <2> QED BY <1>1, <1>10, <1>14, <2>1 DEF PhaseInv, y
<1>18. CursorInv(s)'
  <2>1. \A x \in Creds : x # c => SameScan(claim'[x], claim[x])
    BY <1>11, BooksSame
  <2>2. y.next_allocation_claim = claim[c].next_claim
    BY <1>10
  <2>3. \A f \in EdgesOf(s) :
           /\ edge'[f].representative = edge[f].representative
           /\ edge'[f].allocation_finalized
                <=> edge[f].allocation_finalized \/ edge[f].representative = c
    BY <1>3, <1>12, <1>13
  <2> QED BY <1>1, <1>11, <2>1, <2>2, <2>3, CursorStep DEF y
<1>19. Rank(s, e) = r.allocated_edge_count
  <2>1. Finalized(s) = {f \in EdgesOf(s) : edge[f].representative < c}
    BY <1>1, CursorFacts
  <2> QED BY <1>1, <1>3, <2>1 DEF Rank, SessionInv, CountInv
<1>20. a = Share(s, e)
  <2>1. edge[e].allocated_amount = BaseOf(r)[e]
    BY <1>1, <1>3, <1>13 DEF SessionInv, ShareInv
  <2> QED BY <1>2, <1>19, <2>1 DEF Share, Dust, Coverage
<1>21. ShareInv(s)'
  <2>1. \A f \in EdgesOf(s) : Rank(s, f)' = Rank(s, f)
    <3>1. \A f \in EdgesOf(s) : edge'[f].representative = edge[f].representative
      BY <1>12, <1>13
    <3> QED BY <1>1, <3>1 DEF Rank
  <2>2. \A f \in EdgesOf(s) : Share(s, f)' = Share(s, f)
    BY <1>10, <2>1 DEF Share, y
  <2>3. ShareInv(s)
    BY <1>1 DEF SessionInv
  <2> SUFFICES ASSUME NEW f \in EdgesOf(s)
               PROVE  (/\ edge[f].classified /\ ~edge[f].allocation_finalized =>
                           edge[f].allocated_amount = BaseOf(session[s])[f]
                       /\ edge[f].allocation_finalized =>
                           /\ edge[f].allocated_amount = Share(s, f)
                           /\ edge[f].allocated_amount <= AmountOf[f]
                           /\ claim[edge[f].representative].allocated_amount
                                = edge[f].allocated_amount)'
    BY <1>1 DEF ShareInv
  <2>4. CASE f = e
    <3>1. a <= AmountOf[e] /\ Share(s, e)' = a
      BY <1>1, <1>3, <1>13, <1>20, <2>2 DEF AmountOf
    <3> QED BY <1>3, <1>11, <1>12, <2>4, <3>1
  <2>5. CASE f # e
    <3>1. edge'[f] = edge[f] /\ claim'[edge[f].representative] = claim[edge[f].representative]
      BY <1>11, <1>12, <1>13, <2>5
    <3> QED BY <1>10, <2>2, <2>3, <3>1 DEF ShareInv, y
  <2> QED BY <2>4, <2>5
<1>22. SessionInv(s)'
  BY <1>16, <1>17, <1>18, <1>21 DEF SessionInv
<1>23. \A x \in SessionIds : x # s => SessionInv(x)'
  <2>1. \A x \in Creds : SessionOf(EdgeOf(x)) # s => claim'[x] = claim[x]
    BY <1>11
  <2>2. Quiet
    BY AllocateNextClaimQuiet DEF SafetyInv
  <2>3. \A x \in StateHashes : SessionOf(x) # s => edge'[x] = edge[x]
    BY <1>12
  <2> QED BY <1>1, <1>9, <2>1, <2>2, <2>3, OthersUntouched
<1>24. EdgeInv'
  <2> SUFFICES ASSUME NEW x \in StateHashes
               PROVE  (/\ edge[x].classified => edge[x].exists
                       /\ edge[x].allocation_finalized => edge[x].classified
                       /\ ~edge[x].allocation_finalized => edge[x].settled_amount = 0
                       /\ edge[x].settled_amount \in {0, edge[x].allocated_amount}
                       /\ edge[x].settled_amount > 0 =>
                            claim[edge[x].representative].status = "Settled")'
    BY DEF EdgeInv
  <2>1. CASE x = e
    <3>1. /\ edge'[e].settled_amount = 0 /\ edge'[e].allocation_finalized
          /\ edge'[e].exists /\ edge'[e].classified
      BY <1>3, <1>12, <1>13 DEF EdgesOf
    <3> HIDE DEF s, r
    <3> QED BY <2>1, <3>1
  <2>2. CASE x # e
    <3>1. edge'[x] = edge[x]
      BY <1>12, <2>2
    <3>2. edge[x].settled_amount > 0 =>
            /\ edge[x].representative \in Creds /\ edge[x].representative # c
            /\ claim[edge[x].representative].status = "Settled"
      <4>1. edge[x].settled_amount > 0 => x \in EdgesOf(SessionOf(x)) /\ SessionOf(x) \in SessionIds
        BY MessageTypes DEF EdgesOf, FinalInv, EdgeInv
      <4>2. edge[x].settled_amount > 0 => claim[edge[x].representative].status = "Settled"
        BY DEF FinalInv, EdgeInv
      <4> QED BY <1>3, <4>1, <4>2, RepresentativeFacts
    <3> QED BY <1>11, <3>1, <3>2 DEF FinalInv, EdgeInv
  <2> QED BY <2>1, <2>2
<1> QED BY <1>22, <1>23, <1>24 DEF FinalInv

-----------------------------------------------------------------------------
(***************************************************************************)
(* settle_claim: one finalized edge more is done.                          *)
(***************************************************************************)
SettlementAdded(q, r, m, n) ==
  /\ Frozen(q) <=> Frozen(r)
  /\ q.classified_edge_count = r.classified_edge_count
  /\ q.base_allocation_total = r.base_allocation_total
  /\ q.classification_complete = r.classification_complete
  /\ q.next_allocation_claim = r.next_allocation_claim
  /\ q.frozen_exposure = r.frozen_exposure
  /\ q.allocated_edge_count = r.allocated_edge_count
  /\ q.allocated_total = r.allocated_total
  /\ q.allocation_complete = r.allocation_complete
  /\ q.settled_edge_count = n /\ q.settled_amount = m
  /\ q.collateral_coverage_cap = r.collateral_coverage_cap

LEMMA SettledBooks ==
  ASSUME NEW r \in OfflineSession, NEW m, NEW n
  PROVE  SettlementAdded([r EXCEPT !.settled_amount = m, !.settled_edge_count = n],
                         r, m, n)
BY DEF OfflineSession, Frozen, SettlementAdded

LEMMA FinishSettlementBooks ==
  ASSUME TypeOK, NEW s \in SessionIds, NEW r \in OfflineSession, Frozen(r),
         FinishSettlement(s, r)
  PROVE  /\ SameBooks(session'[s], r)
         /\ \A x \in SessionIds : x # s => session'[x] = session[x]
<1>2. PICK q \in {r, [r EXCEPT !.status = "Closed"], [r EXCEPT !.status = "Settled"]} :
        session' = [session EXCEPT ![s] = q]
  BY DEF FinishSettlement, CloseSessionState
<1>3. SameBooks(q, r)
  <2>1. /\ SameBooks([r EXCEPT !.status = "Closed"], r)
        /\ SameBooks([r EXCEPT !.status = "Settled"], r)
    BY CloseSessionStateBooks
  <2>2. SameBooks(r, r)
    BY BooksSame
  <2> QED BY <1>2, <2>1, <2>2
<1>4. session'[s] = q /\ \A x \in SessionIds : x # s => session'[x] = session[x]
  BY <1>2 DEF TypeOK
<1> QED BY <1>3, <1>4

LEMMA SettleClaimFinal ==
  ASSUME SafetyInv, ClaimsInv, FinalInv, NEW c \in Creds, SettleClaim(c)
  PROVE  FinalInv'
<1> DEFINE e == EdgeOf(c)
           s == SessionOf(e)
           r == session[s]
           y == session'[s]
           a == claim[c].allocated_amount
<1>1. e \in StateHashes /\ s \in SessionIds /\ r \in OfflineSession
  BY MessageTypes DEF SafetyInv, TypeOK
<1>2. PICK q \in OfflineSession :
        /\ a \in Nat
        /\ claim' = [claim EXCEPT ![c] = [claim[c] EXCEPT !.settled_amount = a,
                                                          !.status = "Settled"]]
        /\ edge' = [edge EXCEPT ![e] = [edge[e] EXCEPT !.settled_amount = a]]
        /\ q = [r EXCEPT !.settled_amount = r.settled_amount + a,
                         !.settled_edge_count = r.settled_edge_count + 1]
        /\ FinishSettlement(s, q)
  BY SettleClaimWrites DEF SafetyInv
<1>3. /\ r.allocation_complete /\ a > 0 /\ edge[e].allocation_finalized
      /\ edge[e].settled_amount = 0 /\ edge[e].representative = c
      /\ edge[e].allocated_amount = a
  BY DEF SettleClaim, Payable
<1>4. r.settled_amount + a \in Nat /\ r.settled_edge_count + 1 \in Nat
  BY <1>1, <1>2, SessionFieldTypes
<1>5. /\ Frozen(q) <=> Frozen(r)
      /\ q.classified_edge_count = r.classified_edge_count
      /\ q.base_allocation_total = r.base_allocation_total
      /\ q.classification_complete = r.classification_complete
      /\ q.next_allocation_claim = r.next_allocation_claim
      /\ q.frozen_exposure = r.frozen_exposure
      /\ q.allocated_edge_count = r.allocated_edge_count
      /\ q.allocated_total = r.allocated_total
      /\ q.allocation_complete = r.allocation_complete
      /\ q.settled_edge_count = r.settled_edge_count + 1
      /\ q.settled_amount = r.settled_amount + a
      /\ q.collateral_coverage_cap = r.collateral_coverage_cap
  <2> DEFINE m == r.settled_amount + a
             n == r.settled_edge_count + 1
  <2>1. SettlementAdded(q, r, m, n)
    BY <1>1, <1>2, SettledBooks
  <2> QED BY <2>1 DEF SettlementAdded
<1>6. Frozen(r) /\ SessionInv(s)
  BY <1>1, <1>3 DEF Frozen, FinalInv
<1>7. SameBooks(y, q) /\ \A x \in SessionIds : x # s => session'[x] = session[x]
  BY <1>1, <1>2, <1>5, <1>6, FinishSettlementBooks DEF SafetyInv
<1> HIDE DEF y
<1>8. /\ y.classified_edge_count = r.classified_edge_count
      /\ y.base_allocation_total = r.base_allocation_total
      /\ y.classification_complete = r.classification_complete
      /\ y.allocated_edge_count = r.allocated_edge_count
      /\ y.allocated_total = r.allocated_total
      /\ y.allocation_complete
      /\ y.settled_edge_count = r.settled_edge_count + 1
      /\ y.settled_amount = r.settled_amount + a
      /\ Frozen(y) /\ BaseOf(y) = BaseOf(r) /\ Coverage(y) = Coverage(r)
  BY <1>3, <1>5, <1>6, <1>7 DEF SameBooks, BaseOf, Coverage
<1>9. Quiet
  BY SettleClaimQuiet DEF SafetyInv
<1>10. EdgesOf(s)' = EdgesOf(s) /\ Submitted(s)' = Submitted(s)
  BY <1>1, <1>9, QuietSets
<1>11. /\ \A x \in Creds : x # c => claim'[x] = claim[x]
       /\ claim'[c].allocation_processed = claim[c].allocation_processed
       /\ claim'[c].allocated_amount = a /\ claim'[c].status = "Settled"
  BY <1>2 DEF SafetyInv, TypeOK, Claim
<1>12. /\ \A x \in StateHashes : x # e => edge'[x] = edge[x]
       /\ edge'[e].settled_amount = a
       /\ edge'[e].allocation_finalized = edge[e].allocation_finalized
       /\ edge'[e].exists = edge[e].exists /\ edge'[e].classified = edge[e].classified
       /\ edge'[e].representative = edge[e].representative
       /\ edge'[e].allocated_amount = edge[e].allocated_amount
  BY <1>1, <1>2 DEF SafetyInv, TypeOK, StateEdgeRecord
<1>13. /\ e \in EdgesOf(s) /\ e \in Finalized(s) /\ e \notin Done(s)
       /\ \A f \in EdgesOf(s) : edge[f].representative \in Creds /\ f \in StateHashes
  <2>1. e \in EdgesOf(s)
    BY <1>1, <1>3 DEF EdgesOf, FinalInv, EdgeInv
  <2> QED BY <1>1, <1>2, <1>3, <2>1, RepresentativeFacts DEF Finalized, Done
<1> HIDE DEF a
<1>14. /\ Classified(s)' = Classified(s) /\ Finalized(s)' = Finalized(s)
       /\ Done(s)' = Done(s) \cup {e} /\ AllocatedOf' = AllocatedOf
  <2>1. Classified(s)' = Classified(s)
    BY <1>10, <1>12, <1>13 DEF Classified
  <2>2. Finalized(s)' = Finalized(s)
    BY <1>10, <1>12, <1>13 DEF Finalized
  <2>3. \A f \in Finalized(s) : f \in StateHashes
    BY StageSets
  <2>4. Done(s)' = Done(s) \cup {e}
    BY <1>3, <1>12, <1>13, <2>2, <2>3 DEF Done
  <2>5. AllocatedOf' = AllocatedOf
    BY <1>1, <1>12 DEF AllocatedOf
  <2> QED BY <2>1, <2>2, <2>4, <2>5
<1>15. /\ IsFiniteSet(Finalized(s)) /\ IsFiniteSet(Done(s))
       /\ Finalized(s) \subseteq StateHashes
       /\ \A f \in StateHashes : edge[f].settled_amount \in Nat
  BY StageSets, EdgeFieldTypes DEF SafetyInv, TypeOK
<1>16. CountInv(s)'
  <2>1. Cardinality(Done(s)') = Cardinality(Done(s)) + 1
    BY <1>13, <1>14, <1>15, FS_AddElement
  <2>2. SumFunctionOnSet(SettledOf', Finalized(s))
          = SumFunctionOnSet(SettledOf, Finalized(s)) + a
    <3>1. \A f \in Finalized(s) : /\ f # e => SettledOf'[f] = SettledOf[f]
                                 /\ SettledOf[f] \in Nat
      BY <1>12, <1>15 DEF SettledOf
    <3>2. SettledOf'[e] = a /\ SettledOf[e] = 0
      BY <1>1, <1>3, <1>12 DEF SettledOf
    <3>3. SumFunctionOnSet(SettledOf', Finalized(s))
            = SumFunctionOnSet(SettledOf, Finalized(s)) - SettledOf[e] + SettledOf'[e]
      BY <1>2, <1>13, <1>15, <3>1, <3>2, SumUpdate
    <3>4. SumFunctionOnSet(SettledOf, Finalized(s)) \in Nat
      BY <1>15, <3>1, SumNat
    <3> QED BY <1>2, <3>2, <3>3, <3>4
  <2>3. /\ r.classified_edge_count = Cardinality(Classified(s))
        /\ r.base_allocation_total = SumFunctionOnSet(BaseOf(r), Classified(s))
        /\ r.allocated_edge_count = Cardinality(Finalized(s))
        /\ r.allocated_total = SumFunctionOnSet(AllocatedOf, Finalized(s))
        /\ r.settled_edge_count = Cardinality(Done(s))
        /\ r.settled_amount = SumFunctionOnSet(SettledOf, Finalized(s))
    BY <1>6 DEF SessionInv, CountInv
  <2>4. /\ y.classified_edge_count = Cardinality(Classified(s)')
        /\ y.base_allocation_total = SumFunctionOnSet(BaseOf(y), Classified(s)')
        /\ y.allocated_edge_count = Cardinality(Finalized(s)')
        /\ y.allocated_total = SumFunctionOnSet(AllocatedOf', Finalized(s)')
        /\ y.settled_edge_count = Cardinality(Done(s)')
        /\ y.settled_amount = SumFunctionOnSet(SettledOf', Finalized(s)')
    BY <1>8, <1>14, <2>1, <2>2, <2>3
  <2> QED BY <2>4 DEF CountInv, y
<1>17. PhaseInv(s)'
  BY <1>3, <1>6, <1>8, <1>10, <1>14 DEF SessionInv, PhaseInv, y
<1>18. \A x \in Creds : SameScan(claim'[x], claim[x])
  BY <1>11 DEF SameScan, a
<1>19. CursorInv(s)'
  <2>1. /\ \A x, z \in Submitted(s) :
             x < z /\ claim[z].allocation_processed => claim[x].allocation_processed
        /\ \A x \in EdgesOf(s) : edge[x].allocation_finalized <=>
             claim[edge[x].representative].allocation_processed
        /\ \A x \in Submitted(s) : x \in Creds
    BY <1>6 DEF SessionInv, CursorInv, Submitted
  <2>2. \A x \in EdgesOf(s) : /\ edge'[x].allocation_finalized = edge[x].allocation_finalized
                             /\ edge'[x].representative = edge[x].representative
    BY <1>12, <1>13
  <2> QED BY <1>8, <1>10, <1>13, <1>18, <2>1, <2>2 DEF CursorInv, SameScan, y
<1>20. ShareInv(s)'
  <2>1. \A f \in EdgesOf(s) : /\ edge'[f].representative = edge[f].representative
                             /\ edge'[f].allocation_finalized = edge[f].allocation_finalized
                             /\ edge'[f].classified = edge[f].classified
                             /\ edge'[f].allocated_amount = edge[f].allocated_amount
    BY <1>12, <1>13
  <2>2. \A f \in EdgesOf(s) : Rank(s, f)' = Rank(s, f)
    BY <1>10, <2>1 DEF Rank
  <2>3. \A f \in EdgesOf(s) : Share(s, f)' = Share(s, f)
    BY <1>8, <2>2 DEF Share, y
  <2>4. ShareInv(s)
    BY <1>6 DEF SessionInv
  <2> QED BY <1>8, <1>10, <1>13, <1>18, <2>1, <2>3, <2>4 DEF ShareInv, SameScan, y
<1>21. SessionInv(s)'
  BY <1>16, <1>17, <1>19, <1>20 DEF SessionInv
<1>22. \A x \in SessionIds : x # s => SessionInv(x)'
  <2>1. \A x \in Creds : SessionOf(EdgeOf(x)) # s => claim'[x] = claim[x]
    BY <1>11
  <2>2. \A x \in StateHashes : SessionOf(x) # s => edge'[x] = edge[x]
    BY <1>12
  <2> QED BY <1>1, <1>7, <1>9, <2>1, <2>2, OthersUntouched
<1>23. EdgeInv'
  <2> SUFFICES ASSUME NEW x \in StateHashes
               PROVE  (/\ edge[x].classified => edge[x].exists
                       /\ edge[x].allocation_finalized => edge[x].classified
                       /\ ~edge[x].allocation_finalized => edge[x].settled_amount = 0
                       /\ edge[x].settled_amount \in {0, edge[x].allocated_amount}
                       /\ edge[x].settled_amount > 0 =>
                            claim[edge[x].representative].status = "Settled")'
    BY DEF EdgeInv
  <2>1. CASE x = e
    <3>1. /\ edge'[e].settled_amount = a /\ edge'[e].allocated_amount = a
          /\ edge'[e].allocation_finalized /\ edge'[e].exists /\ edge'[e].classified
          /\ edge'[e].representative = c
      BY <1>1, <1>3, <1>12 DEF FinalInv, EdgeInv
    <3> HIDE DEF s, r
    <3> QED BY <1>11, <2>1, <3>1
  <2>2. CASE x # e
    <3>1. edge'[x] = edge[x]
      BY <1>12, <2>2
    <3>2. edge[x].settled_amount > 0 =>
            /\ edge[x].representative \in Creds
            /\ claim[edge[x].representative].status = "Settled"
      <4>1. edge[x].settled_amount > 0 => x \in EdgesOf(SessionOf(x)) /\ SessionOf(x) \in SessionIds
        BY MessageTypes DEF EdgesOf, FinalInv, EdgeInv
      <4>2. edge[x].settled_amount > 0 => claim[edge[x].representative].status = "Settled"
        BY DEF FinalInv, EdgeInv
      <4> QED BY <4>1, <4>2, RepresentativeFacts
    <3> QED BY <1>11, <3>1, <3>2 DEF FinalInv, EdgeInv
  <2> QED BY <2>1, <2>2
<1> QED BY <1>21, <1>22, <1>23 DEF FinalInv

-----------------------------------------------------------------------------
LEMMA FinalStep ==
  SafetyInv /\ ClaimsInv /\ FinalInv /\ [Next]_vars => FinalInv'
<1> SUFFICES ASSUME SafetyInv, ClaimsInv, FinalInv, [Next]_vars PROVE FinalInv'
  OBVIOUS
<1>t. TypeOK
  BY DEF SafetyInv
<1>c. ClaimsInv'
  BY ClaimsStep
<1> USE DEF tokenVars, claimVars
<1>1. CASE InitializeProtocol
  BY <1>1, AccountsUntouchedFinal DEF InitializeProtocol
<1>2. ASSUME NEW a \in Signers, NEW b \in BOOLEAN, SetPaused(a, b) PROVE FinalInv'
  BY <1>2, AccountsUntouchedFinal DEF SetPaused
<1>3. ASSUME NEW t \in Times, CreateUserProfile(t) PROVE FinalInv'
  BY <1>3, AccountsUntouchedFinal DEF CreateUserProfile
<1>4. CASE CreateVault
  BY <1>4, AccountsUntouchedFinal DEF CreateVault
<1>5. ASSUME NEW n \in Amounts, DepositCollateral(n) PROVE FinalInv'
  BY <1>5, AccountsUntouchedFinal DEF DepositCollateral
<1>6. ASSUME NEW n \in Amounts, DonateTokens(n) PROVE FinalInv'
  BY <1>6, AccountsUntouchedFinal DEF DonateTokens
<1>7. ASSUME NEW n \in Amounts, WithdrawCollateral(n) PROVE FinalInv'
  BY <1>7, AccountsUntouchedFinal DEF WithdrawCollateral
<1>8. ASSUME NEW s \in SessionIds, NEW locked \in Amounts, NEW limit \in Amounts,
             NEW t \in Times, CreateOfflineSession(s, locked, limit, t)
      PROVE  FinalInv'
  BY <1>8, <1>t, CreateOfflineSessionFinal
<1>9. ASSUME NEW s \in SessionIds, RegisterDeviceAuthorization(s) PROVE FinalInv'
  BY <1>9, <1>t, RegisterFinal
<1>10. ASSUME NEW c \in Creds, SubmitClaim(c) PROVE FinalInv'
  <2>1. PICK pred \in Creds \cup {NoClaim}, succ \in Creds \cup {NoClaim} :
          SubmitClaimWith(c, pred, succ)
    BY <1>10 DEF SubmitClaim
  <2>2. SubmitNewEdge(c, pred, succ) \/ SubmitWrapper(c, pred, succ)
    BY <2>1 DEF SubmitClaimWith
  <2>3. SubmitLeaves(c)
    BY <2>1, <2>2, SubmitNewEdgeLeaves, SubmitWrapperLeaves
  <2>4. ~Frozen(session[SessionOf(EdgeOf(c))])
    BY <2>1, OpenSessionNotFrozen
  <2>5. claim[c].status = "None"
    BY <2>1 DEF SubmitClaimWith
  <2> QED BY <1>c, <2>3, <2>4, <2>5, SubmitFinal
<1>11. ASSUME NEW s \in SessionIds, BeginFinalization(s) PROVE FinalInv'
  BY <1>11, BeginFinalizationFinal
<1>12. ASSUME NEW e \in StateHashes, ClassifyEdge(e) PROVE FinalInv'
  BY <1>12, ClassifyEdgeFinal
<1>13. ASSUME NEW c \in Creds, AllocateNextClaim(c) PROVE FinalInv'
  <2>1. AllocateRepresentative(c) \/ SkipDuplicate(c)
    BY <1>13 DEF AllocateNextClaim
  <2> QED BY <1>13, <2>1, AllocateRepresentativeFinal, SkipDuplicateFinal
<1>14. ASSUME NEW c \in Creds, SettleClaim(c) PROVE FinalInv'
  BY <1>14, SettleClaimFinal
<1>15. ASSUME NEW s \in SessionIds, CloseSession(s) PROVE FinalInv'
  BY <1>15, CloseSessionFinal
<1>16. CASE Tick
  BY <1>16, AccountsUntouchedFinal DEF Tick
<1>17. CASE UNCHANGED vars
  BY <1>17, AccountsUntouchedFinal DEF vars
<1> HIDE DEF tokenVars, claimVars
<1> QED
  BY <1>1, <1>2, <1>3, <1>4, <1>5, <1>6, <1>7, <1>8, <1>9, <1>10, <1>11, <1>12,
     <1>13, <1>14, <1>15, <1>16, <1>17 DEF Next

LEMMA FinalInvariant == Spec => []FinalInv
BY FinalInit, FinalStep, ClaimsInvariant, SafetyInvariant, PTL DEF Spec

-----------------------------------------------------------------------------
\* Whatever the order of submission, classification and allocation, every edge
\* of an allocated session gets its pro-rata share and its part of the rounding
\* remainder, and the shares add up to the coverage (complete_allocation).
THEOREM AllocationAlwaysExact == Spec => []AllocationExact
<1>1. SafetyInv /\ ClaimsInv /\ FinalInv => AllocationExact
  <2> SUFFICES ASSUME SafetyInv, ClaimsInv, FinalInv, NEW s \in SessionIds,
                      session[s].allocation_complete
               PROVE  /\ session[s].allocated_total
                           = Min({TotalAmount(EdgesOf(s)), session[s].collateral_coverage_cap})
                      /\ \A e \in EdgesOf(s) :
                           /\ edge[e].allocated_amount = ExpectedAllocation(s, e)
                           /\ edge[e].allocated_amount <= AmountOf[e]
                           /\ claim[edge[e].representative].allocated_amount
                                = edge[e].allocated_amount
    BY DEF AllocationExact
  <2> DEFINE r == session[s]
             E == EdgesOf(s)
             T == TotalAmount(E)
             C == r.collateral_coverage_cap
             M == Min({T, C})
             Floor == [f \in E |-> (AmountOf[f] * M) \div T]
  <2>1. r \in OfflineSession /\ C \in Nat /\ r.frozen_exposure \in Nat
    BY SessionFieldTypes DEF SafetyInv, TypeOK
  <2>2. r.frozen_exposure = T /\ T \in Nat
    BY <2>1, SessionFacts DEF FrozenCounters, ClaimsInv, ExposureInv
  <2>3. M = Coverage(r)
    <3>1. IsLeast({T, C}, Coverage(r)) /\ {T, C} # {} /\ {T, C} \subseteq Nat
      BY <2>1, <2>2 DEF IsLeast, Coverage, CoverageAmount
    <3> HIDE DEF T, C
    <3> QED BY <3>1, LeastIsMin
  <2>4. /\ Classified(s) = E /\ Finalized(s) = E
        /\ r.allocated_total = Coverage(r)
        /\ r.base_allocation_total = SumFunctionOnSet(BaseOf(r), E)
        /\ ShareInv(s)
    BY DEF FinalInv, SessionInv, PhaseInv, CountInv
  <2>5. E \subseteq StateHashes /\ IsFiniteSet(E)
    BY StageSets
  <2>6. \A f \in E : Floor[f] = BaseOf(r)[f]
    BY <2>2, <2>3, <2>5 DEF BaseOf, BaseAllocation, Coverage, AmountOf
  <2>7. SumFunction(Floor) = r.base_allocation_total
    <3>1. SumFunction(Floor) = SumFunctionOnSet(Floor, E)
      BY DEF SumFunction, SumFunctionOnSet, FoldFunction
    <3> HIDE DEF Floor
    <3> QED BY <2>4, <2>5, <2>6, <3>1, SumSame
  <2>8. ASSUME NEW e \in E
        PROVE  /\ edge[e].allocated_amount = ExpectedAllocation(s, e)
               /\ edge[e].allocated_amount <= AmountOf[e]
               /\ claim[edge[e].representative].allocated_amount
                    = edge[e].allocated_amount
    <3>1. \A f \in E : edge[f].representative = Min(WrappersOf(f))
      <4> SUFFICES ASSUME NEW f \in E PROVE edge[f].representative = Min(WrappersOf(f))
        OBVIOUS
      <4>1. IsLeast(WrappersOf(f), edge[f].representative) /\ WrappersOf(f) # {}
        BY DEF ClaimsInv, WrapperInv, EdgesOf
      <4> QED BY <4>1, SetsFinite, LeastIsMin
    <3>2. Rank(s, e) = Cardinality({f \in E : Min(WrappersOf(f)) < Min(WrappersOf(e))})
      <4>1. {f \in E : edge[f].representative < edge[e].representative}
              = {f \in E : Min(WrappersOf(f)) < Min(WrappersOf(e))}
        BY <3>1
      <4> QED BY <4>1 DEF Rank
    <3>3. Share(s, e) = ExpectedAllocation(s, e)
      <4>1. ExpectedAllocation(s, e)
              = Floor[e] + IF Cardinality({f \in E : Min(WrappersOf(f)) < Min(WrappersOf(e))})
                                < M - SumFunction(Floor)
                           THEN 1 ELSE 0
        BY DEF ExpectedAllocation
      <4> HIDE DEF Floor, M, E
      <4> QED BY <2>3, <2>6, <2>7, <3>2, <4>1 DEF Share
    <3>4. edge[e].allocation_finalized
      BY <2>4 DEF Finalized
    <3> QED BY <2>4, <3>3, <3>4 DEF ShareInv
  <2> QED BY <2>3, <2>4, <2>8
<1> QED BY <1>1, SafetyInvariant, ClaimsInvariant, FinalInvariant, PTL

-----------------------------------------------------------------------------
(***************************************************************************)
(* Allocations are final.                                                  *)
(***************************************************************************)
AllocationKept ==
  \A e \in StateHashes :
    session[SessionOf(e)].allocation_complete =>
      /\ edge'[e] = [edge[e] EXCEPT !.settled_amount = edge'[e].settled_amount]
      /\ edge[e].settled_amount > 0 => edge'[e] = edge[e]
      /\ session'[SessionOf(e)].allocation_complete

LEMMA SameEdgesKept ==
  ASSUME TypeOK,
         \A e \in StateHashes :
           session[SessionOf(e)].allocation_complete => edge'[e] = edge[e],
         \A s \in SessionIds :
           session[s].allocation_complete => session'[s].allocation_complete
  PROVE  AllocationKept
<1> SUFFICES ASSUME NEW e \in StateHashes, session[SessionOf(e)].allocation_complete
             PROVE  /\ edge'[e] = [edge[e] EXCEPT !.settled_amount = edge'[e].settled_amount]
                    /\ edge[e].settled_amount > 0 => edge'[e] = edge[e]
                    /\ session'[SessionOf(e)].allocation_complete
  BY DEF AllocationKept
<1>1. edge'[e] = edge[e] /\ edge[e] \in StateEdgeRecord
  BY DEF TypeOK
<1>2. edge[e] = [edge[e] EXCEPT !.settled_amount = edge[e].settled_amount]
  BY <1>1 DEF StateEdgeRecord
<1> QED BY <1>1, <1>2, MessageTypes

\* Every step but settle_claim leaves an allocated session's edges alone.
LEMMA SettlementKeeps ==
  ASSUME SafetyInv, ClaimsInv, FinalInv, NEW c \in Creds, SettleClaim(c)
  PROVE  AllocationKept
<1> DEFINE x == EdgeOf(c)
           s == SessionOf(x)
           r == session[s]
           a == claim[c].allocated_amount
<1>1. x \in StateHashes /\ s \in SessionIds /\ r \in OfflineSession
  BY MessageTypes DEF SafetyInv, TypeOK
<1>2. PICK q \in OfflineSession :
        /\ edge' = [edge EXCEPT ![x] = [edge[x] EXCEPT !.settled_amount = a]]
        /\ q = [r EXCEPT !.settled_amount = r.settled_amount + a,
                         !.settled_edge_count = r.settled_edge_count + 1]
        /\ FinishSettlement(s, q)
  BY SettleClaimWrites DEF SafetyInv
<1>3. r.allocation_complete /\ edge[x].settled_amount = 0
  BY DEF SettleClaim, Payable
<1>4. q.allocation_complete
  BY <1>1, <1>2, <1>3 DEF OfflineSession
<1>5. /\ session'[s].allocation_complete
      /\ \A y \in SessionIds : y # s => session'[y] = session[y]
  BY <1>1, <1>2, <1>4, FinishSettlementBooks DEF SafetyInv, Frozen, SameBooks
<1> SUFFICES ASSUME NEW e \in StateHashes, session[SessionOf(e)].allocation_complete
             PROVE  /\ edge'[e] = [edge[e] EXCEPT !.settled_amount = edge'[e].settled_amount]
                    /\ edge[e].settled_amount > 0 => edge'[e] = edge[e]
                    /\ session'[SessionOf(e)].allocation_complete
  BY DEF AllocationKept
<1>6. session'[SessionOf(e)].allocation_complete
  BY <1>5, MessageTypes
<1>7. CASE e = x
  <2>1. edge'[e] = [edge[e] EXCEPT !.settled_amount = a] /\ edge[e] \in StateEdgeRecord
    BY <1>1, <1>2, <1>7 DEF SafetyInv, TypeOK
  <2>2. edge'[e].settled_amount = a
    BY <2>1 DEF StateEdgeRecord
  <2> QED BY <1>3, <1>6, <1>7, <2>1, <2>2
<1>8. CASE e # x
  <2>1. edge'[e] = edge[e] /\ edge[e] \in StateEdgeRecord
    BY <1>1, <1>2, <1>8 DEF SafetyInv, TypeOK
  <2>2. edge[e] = [edge[e] EXCEPT !.settled_amount = edge[e].settled_amount]
    BY <2>1 DEF StateEdgeRecord
  <2> QED BY <1>6, <2>1, <2>2
<1> QED BY <1>7, <1>8

LEMMA AllocationStep ==
  SafetyInv /\ ClaimsInv /\ FinalInv /\ [Next]_vars => AllocationKept
<1> SUFFICES ASSUME SafetyInv, ClaimsInv, FinalInv, [Next]_vars PROVE AllocationKept
  OBVIOUS
<1>t. TypeOK
  BY DEF SafetyInv
<1>u. UNCHANGED <<session, edge>> => AllocationKept
  BY <1>t, SameEdgesKept
<1> USE DEF tokenVars, claimVars
<1>1. CASE InitializeProtocol
  BY <1>1, <1>u DEF InitializeProtocol
<1>2. ASSUME NEW a \in Signers, NEW b \in BOOLEAN, SetPaused(a, b) PROVE AllocationKept
  BY <1>2, <1>u DEF SetPaused
<1>3. ASSUME NEW t \in Times, CreateUserProfile(t) PROVE AllocationKept
  BY <1>3, <1>u DEF CreateUserProfile
<1>4. CASE CreateVault
  BY <1>4, <1>u DEF CreateVault
<1>5. ASSUME NEW n \in Amounts, DepositCollateral(n) PROVE AllocationKept
  BY <1>5, <1>u DEF DepositCollateral
<1>6. ASSUME NEW n \in Amounts, DonateTokens(n) PROVE AllocationKept
  BY <1>6, <1>u DEF DonateTokens
<1>7. ASSUME NEW n \in Amounts, WithdrawCollateral(n) PROVE AllocationKept
  BY <1>7, <1>u DEF WithdrawCollateral
<1>8. ASSUME NEW s \in SessionIds, NEW locked \in Amounts, NEW limit \in Amounts,
             NEW t \in Times, CreateOfflineSession(s, locked, limit, t)
      PROVE  AllocationKept
  <2>1. edge' = edge /\ ~session[s].allocation_complete
    BY <1>8, SessionFacts DEF CreateOfflineSession, Lifecycle, Unfrozen
  <2>2. \A x \in SessionIds : x # s => session'[x] = session[x]
    BY <1>8, <1>t DEF CreateOfflineSession, TypeOK
  <2> QED BY <1>t, <2>1, <2>2, SameEdgesKept
<1>9. ASSUME NEW s \in SessionIds, RegisterDeviceAuthorization(s) PROVE AllocationKept
  <2>1. edge' = edge /\ session' = [session EXCEPT ![s] = [session[s] EXCEPT !.authorized = TRUE]]
    BY <1>9, <1>t DEF RegisterDeviceAuthorization, TypeOK
  <2>2. \A x \in SessionIds : session[x].allocation_complete => session'[x].allocation_complete
    BY <1>t, <2>1 DEF TypeOK, OfflineSession
  <2> QED BY <1>t, <2>1, <2>2, SameEdgesKept
<1>10. ASSUME NEW c \in Creds, SubmitClaim(c) PROVE AllocationKept
  <2>1. PICK pred \in Creds \cup {NoClaim}, succ \in Creds \cup {NoClaim} :
          SubmitClaimWith(c, pred, succ)
    BY <1>10 DEF SubmitClaim
  <2>2. SubmitNewEdge(c, pred, succ) \/ SubmitWrapper(c, pred, succ)
    BY <2>1 DEF SubmitClaimWith
  <2>3. SubmitLeaves(c)
    BY <2>1, <2>2, SubmitNewEdgeLeaves, SubmitWrapperLeaves
  <2>4. ~session[SessionOf(EdgeOf(c))].allocation_complete
    BY <2>1, OpenSessionNotFrozen DEF Frozen
  <2>5. \A e \in StateHashes :
          session[SessionOf(e)].allocation_complete => edge'[e] = edge[e]
    BY <2>3, <2>4 DEF SubmitLeaves
  <2>6. \A s \in SessionIds :
          session[s].allocation_complete => session'[s].allocation_complete
    BY <2>3 DEF SubmitLeaves, SameBooks
  <2> QED BY <1>t, <2>5, <2>6, SameEdgesKept
<1>11. ASSUME NEW s \in SessionIds, BeginFinalization(s) PROVE AllocationKept
  <2>1. PICK r \in OfflineSession :
          /\ r = FrozenSession(session[s])
          /\ \/ session' = [session EXCEPT ![s] = r]
             \/ /\ CompleteAllocation(s, [r EXCEPT !.classification_complete = TRUE])
                /\ [r EXCEPT !.classification_complete = TRUE] \in OfflineSession
    BY <1>11, <1>t, BeginFinalizationWrites
  <2>2. r.allocation_complete = session[s].allocation_complete
    BY <1>t, <2>1, FrozenSessionBooks DEF TypeOK
  <2>3. /\ session[s].allocation_complete => session'[s].allocation_complete
        /\ \A x \in SessionIds : x # s => session'[x] = session[x]
    <3>1. CASE session' = [session EXCEPT ![s] = r]
      BY <1>t, <2>2, <3>1 DEF TypeOK
    <3>2. CASE /\ CompleteAllocation(s, [r EXCEPT !.classification_complete = TRUE])
               /\ [r EXCEPT !.classification_complete = TRUE] \in OfflineSession
      <4> DEFINE q == [r EXCEPT !.classification_complete = TRUE]
      <4>1. CompletedAllocation(q).allocation_complete
        BY <3>2, CompletedAllocationBooks
      <4>2. session' = [session EXCEPT ![s] = CompletedAllocation(q)]
        BY <3>2 DEF CompleteAllocation
      <4> QED BY <1>t, <4>1, <4>2 DEF TypeOK
    <3> QED BY <2>1, <3>1, <3>2
  <2>4. edge' = edge
    BY <1>11 DEF BeginFinalization
  <2> QED BY <1>t, <2>3, <2>4, SameEdgesKept
<1>12. ASSUME NEW e \in StateHashes, ClassifyEdge(e) PROVE AllocationKept
  <2>1. ~session[SessionOf(e)].allocation_complete
    BY <1>12, MessageTypes DEF ClassifyEdge, FinalInv, SessionInv, PhaseInv
  <2>2. PICK base \in Nat, v \in BOOLEAN :
          /\ edge' = [edge EXCEPT ![e] = [edge[e] EXCEPT !.classified = TRUE,
                                                         !.conflicting = v,
                                                         !.allocated_amount = base]]
          /\ session' = [session EXCEPT ![SessionOf(e)] =
                           SessionWithClassified(session[SessionOf(e)], e, base)]
    BY <1>12, <1>t, ClassifyEdgeWrites
  <2>3. \A x \in StateHashes : x # e => edge'[x] = edge[x]
    BY <1>t, <2>2 DEF TypeOK
  <2>4. \A x \in SessionIds : x # SessionOf(e) => session'[x] = session[x]
    BY <1>t, <2>2 DEF TypeOK
  <2> QED BY <1>t, <2>1, <2>3, <2>4, SameEdgesKept
<1>13. ASSUME NEW c \in Creds, AllocateNextClaim(c) PROVE AllocationKept
  <2> DEFINE s == SessionOf(EdgeOf(c))
  <2>1. ~session[s].allocation_complete /\ s \in SessionIds /\ session[s] \in OfflineSession
    BY <1>13, <1>t, MessageTypes DEF AllocateNextClaim, TypeOK
  <2>2. \A x \in StateHashes : x # EdgeOf(c) => edge'[x] = edge[x]
    BY <1>13, <1>t DEF AllocateNextClaim, AllocateRepresentative, SkipDuplicate, TypeOK
  <2>3. \E q : FinishScan(s, q)
    BY <1>13 DEF AllocateNextClaim, AllocateRepresentative, SkipDuplicate
  <2>4. \A x \in SessionIds : x # s => session'[x] = session[x]
    BY <1>t, <2>3 DEF FinishScan, CompleteAllocation, TypeOK
  <2> QED BY <1>t, <2>1, <2>2, <2>4, SameEdgesKept
<1>14. ASSUME NEW c \in Creds, SettleClaim(c) PROVE AllocationKept
  BY <1>14, SettlementKeeps
<1>15. ASSUME NEW s \in SessionIds, CloseSession(s) PROVE AllocationKept
  <2>1. edge' = edge /\ session' = [session EXCEPT ![s] = [session[s] EXCEPT !.status = "Closed"]]
    BY <1>15 DEF CloseSession, CloseSessionState
  <2>2. \A x \in SessionIds : session[x].allocation_complete => session'[x].allocation_complete
    BY <1>t, <2>1 DEF TypeOK, OfflineSession
  <2> QED BY <1>t, <2>1, <2>2, SameEdgesKept
<1>16. CASE Tick
  BY <1>16, <1>u DEF Tick
<1>17. CASE UNCHANGED vars
  BY <1>17, <1>u DEF vars
<1> HIDE DEF tokenVars, claimVars
<1> QED
  BY <1>1, <1>2, <1>3, <1>4, <1>5, <1>6, <1>7, <1>8, <1>9, <1>10, <1>11, <1>12,
     <1>13, <1>14, <1>15, <1>16, <1>17 DEF Next

\* No instruction changes an edge of an allocated session but settle_claim, and
\* settle_claim pays an edge once: the shares cannot be recomputed.
THEOREM AllocationAlwaysFinal == Spec => AllocationIsFinal
<1>1. SafetyInv /\ ClaimsInv /\ FinalInv /\ [Next]_vars => [AllocationKept]_vars
  BY AllocationStep
<1>2. Spec => [][AllocationKept]_vars
  BY <1>1, SafetyInvariant, ClaimsInvariant, FinalInvariant, PTL DEF Spec
<1> QED BY <1>2 DEF AllocationIsFinal, AllocationKept

-----------------------------------------------------------------------------
(***************************************************************************)
(* Payments.                                                               *)
(***************************************************************************)
PaidTo(m) == {e \in StateHashes : edge[e].exists /\ Transition[e].merchant = m}

PayInv ==
  /\ vault_token + outside + SumFunctionOnSet(merchant_token, Merchants) = Supply
  /\ vault.settled_from_collateral = SumFunctionOnSet(merchant_token, Merchants)
  /\ ~vault.exists => vault.settled_from_collateral = 0
  /\ \A m \in Merchants : merchant_token[m] = SumFunctionOnSet(SettledOf, PaidTo(m))

LEMMA PaidFacts ==
  ASSUME TypeOK
  PROVE  /\ \A m : PaidTo(m) \subseteq StateHashes /\ IsFiniteSet(PaidTo(m))
         /\ \A e \in StateHashes : SettledOf[e] \in Nat
<1>1. \A m : PaidTo(m) \subseteq StateHashes
  BY DEF PaidTo
<1>2. \A m : IsFiniteSet(PaidTo(m))
  BY <1>1, SetAssumption, FS_Subset
<1> QED BY <1>1, <1>2, EdgeFieldTypes DEF TypeOK, SettledOf

\* Steps that pay nobody.
LEMMA NobodyPaid ==
  ASSUME TypeOK, PayInv, merchant_token' = merchant_token,
         vault_token' + outside' = vault_token + outside,
         vault_token' \in Nat, outside' \in Nat,
         vault'.settled_from_collateral = vault.settled_from_collateral,
         vault.exists => vault'.exists,
         \A e \in StateHashes : /\ edge'[e].exists <=> edge[e].exists
                                /\ edge'[e].settled_amount = edge[e].settled_amount
  PROVE  PayInv'
<1>1. SettledOf' = SettledOf
  BY DEF SettledOf
<1>2. \A m : PaidTo(m)' = PaidTo(m)
  BY DEF PaidTo
<1>3. SumFunctionOnSet(merchant_token, Merchants) \in Nat
  BY SumNat, SetAssumption DEF TypeOK
<1>4. vault_token \in Nat /\ outside \in Nat
  BY DEF TypeOK
<1> QED BY <1>1, <1>2, <1>3, <1>4 DEF PayInv

LEMMA SameMoney ==
  ASSUME TypeOK, PayInv, UNCHANGED <<tokenVars, vault>>,
         \A e \in StateHashes : /\ edge'[e].exists <=> edge[e].exists
                                /\ edge'[e].settled_amount = edge[e].settled_amount
  PROVE  PayInv'
BY NobodyPaid DEF TypeOK, tokenVars

\* A new edge was paid nothing.
LEMMA SubmitPays ==
  ASSUME TypeOK, PayInv, NEW c \in Creds, SubmitLeaves(c), UNCHANGED <<tokenVars, vault>>
  PROVE  PayInv'
<1> DEFINE e == EdgeOf(c)
           n == Transition[e].merchant
<1>1. e \in StateHashes
  BY MessageTypes
<1>2. CASE edge[e].exists
  <2>1. \A x \in StateHashes : /\ edge'[x].exists <=> edge[x].exists
                               /\ edge'[x].settled_amount = edge[x].settled_amount
    BY <1>2 DEF SubmitLeaves
  <2> QED BY <2>1, SameMoney
<1>3. CASE ~edge[e].exists
  <2>1. /\ edge'[e].exists /\ edge'[e].settled_amount = 0
        /\ \A x \in StateHashes : x # e => edge'[x] = edge[x]
    BY <1>3 DEF SubmitLeaves
  <2>2. \A m \in Merchants : SumFunctionOnSet(SettledOf', PaidTo(m)')
                               = SumFunctionOnSet(SettledOf, PaidTo(m))
    <3> SUFFICES ASSUME NEW m \in Merchants
                 PROVE  SumFunctionOnSet(SettledOf', PaidTo(m)')
                          = SumFunctionOnSet(SettledOf, PaidTo(m))
      OBVIOUS
    <3>1. /\ e \notin PaidTo(m) /\ IsFiniteSet(PaidTo(m)) /\ PaidTo(m) \subseteq StateHashes
          /\ \A x \in PaidTo(m) : SettledOf[x] \in Nat
      BY <1>3, PaidFacts DEF PaidTo
    <3>2. /\ \A x \in PaidTo(m) : SettledOf'[x] = SettledOf[x]
          /\ SettledOf'[e] = 0
      BY <1>1, <2>1, <3>1 DEF SettledOf
    <3>3. SumFunctionOnSet(SettledOf', PaidTo(m)) = SumFunctionOnSet(SettledOf, PaidTo(m))
      BY <3>1, <3>2, SumSame
    <3>4. CASE m = n
      <4>1. PaidTo(m)' = PaidTo(m) \cup {e}
        BY <1>1, <1>3, <2>1, <3>4 DEF PaidTo
      <4>2. \A x \in PaidTo(m) \cup {e} : SettledOf'[x] \in Nat
        BY <3>1, <3>2
      <4>3. SumFunctionOnSet(SettledOf', PaidTo(m) \cup {e})
              = SumFunctionOnSet(SettledOf', PaidTo(m)) + SettledOf'[e]
        BY <3>1, <4>2, SumAdd
      <4>4. SumFunctionOnSet(SettledOf, PaidTo(m)) \in Nat
        BY <3>1, SumNat
      <4> QED BY <3>2, <3>3, <4>1, <4>3, <4>4
    <3>5. CASE m # n
      <4>1. PaidTo(m)' = PaidTo(m)
        BY <1>1, <1>3, <2>1, <3>5 DEF PaidTo
      <4> QED BY <3>3, <4>1
    <3> QED BY <3>4, <3>5
  <2> QED BY <2>2 DEF PayInv, tokenVars
<1> QED BY <1>2, <1>3

\* settle_claim moves the allocation of one edge from the vault to its merchant.
LEMMA SettleClaimPays ==
  ASSUME SafetyInv, FinalInv, PayInv, NEW c \in Creds, SettleClaim(c)
  PROVE  PayInv'
<1> DEFINE e == EdgeOf(c)
           n == Transition[e].merchant
           a == claim[c].allocated_amount
<1>1. e \in StateHashes /\ n \in Merchants /\ TypeOK
  BY MessageTypes, MessageAssumption DEF SafetyInv, TransitionRecord
<1>2. /\ a \in Nat /\ a <= vault_token /\ vault_token' = vault_token - a
      /\ outside' = outside
      /\ merchant_token' = [merchant_token EXCEPT ![n] = merchant_token[n] + a]
      /\ vault'.settled_from_collateral = vault.settled_from_collateral + a
      /\ vault'.exists = vault.exists /\ a > 0 /\ a <= vault.reserved_amount
      /\ edge[e].settled_amount = 0 /\ edge[e].allocation_finalized
      /\ edge' = [edge EXCEPT ![e] = [edge[e] EXCEPT !.settled_amount = a]]
  BY <1>1, ClaimFieldTypes
     DEF SettleClaim, Payable, TypeOK, CollateralVault
<1> HIDE DEF a
<1>3. /\ \A x \in StateHashes : x # e => edge'[x] = edge[x]
      /\ edge'[e].settled_amount = a /\ edge'[e].exists = edge[e].exists
      /\ edge[e].exists
  BY <1>1, <1>2 DEF TypeOK, StateEdgeRecord, FinalInv, EdgeInv
<1>4. \A m : PaidTo(m)' = PaidTo(m)
  BY <1>3 DEF PaidTo
<1>5. /\ merchant_token \in [Merchants -> Nat] /\ IsFiniteSet(Merchants)
      /\ vault_token \in Nat /\ outside \in Nat
  BY <1>1, SetAssumption DEF TypeOK
<1>6. SumFunctionOnSet(merchant_token', Merchants)
        = SumFunctionOnSet(merchant_token, Merchants) + a
  <2>0. /\ \A m \in Merchants : merchant_token[m] \in Nat
        /\ \A m \in Merchants : m # n => merchant_token'[m] = merchant_token[m]
        /\ merchant_token'[n] \in Nat
    BY <1>1, <1>2, <1>5
  <2>1. SumFunctionOnSet(merchant_token', Merchants)
          = SumFunctionOnSet(merchant_token, Merchants) - merchant_token[n] + merchant_token'[n]
    BY <1>1, <1>5, <2>0, SumUpdate
  <2>2. SumFunctionOnSet(merchant_token, Merchants) \in Nat
    BY <1>5, SumNat
  <2> QED BY <1>1, <1>2, <1>5, <2>1, <2>2
<1>7. SumFunctionOnSet(merchant_token, Merchants) \in Nat
  BY <1>5, SumNat
<1>8. vault.exists
  BY <1>2 DEF SafetyInv, AccountsInOrder
<1>9. \A m \in Merchants : merchant_token'[m] = SumFunctionOnSet(SettledOf', PaidTo(m)')
  <2> SUFFICES ASSUME NEW m \in Merchants
               PROVE  merchant_token'[m] = SumFunctionOnSet(SettledOf', PaidTo(m))
    BY <1>4
  <2>1. /\ IsFiniteSet(PaidTo(m)) /\ PaidTo(m) \subseteq StateHashes
        /\ \A x \in PaidTo(m) : SettledOf[x] \in Nat
        /\ SumFunctionOnSet(SettledOf, PaidTo(m)) = merchant_token[m]
    BY <1>1, PaidFacts DEF PayInv
  <2>2. /\ \A x \in StateHashes : x # e => SettledOf'[x] = SettledOf[x]
        /\ SettledOf'[e] = a /\ SettledOf[e] = 0
    BY <1>1, <1>2, <1>3 DEF SettledOf
  <2>3. CASE m = n
    <3>1. e \in PaidTo(m)
      BY <1>1, <1>3, <2>3 DEF PaidTo
    <3>2. SumFunctionOnSet(SettledOf', PaidTo(m))
            = SumFunctionOnSet(SettledOf, PaidTo(m)) - SettledOf[e] + SettledOf'[e]
      BY <1>2, <2>1, <2>2, <3>1, SumUpdate
    <3> QED BY <1>2, <1>5, <2>1, <2>2, <2>3, <3>2
  <2>4. CASE m # n
    <3>1. \A x \in PaidTo(m) : SettledOf'[x] = SettledOf[x]
      BY <2>1, <2>2, <2>4 DEF PaidTo
    <3>2. SumFunctionOnSet(SettledOf', PaidTo(m)) = SumFunctionOnSet(SettledOf, PaidTo(m))
      BY <2>1, <3>1, SumSame
    <3> QED BY <1>2, <1>5, <2>1, <2>4, <3>2
  <2> QED BY <2>3, <2>4
<1>10. /\ vault_token' + outside' + SumFunctionOnSet(merchant_token', Merchants) = Supply
       /\ vault'.settled_from_collateral = SumFunctionOnSet(merchant_token', Merchants)
  BY <1>2, <1>5, <1>6, <1>7 DEF PayInv
<1> QED BY <1>2, <1>8, <1>9, <1>10 DEF PayInv

LEMMA PayInit == Init => PayInv
<1> SUFFICES ASSUME Init PROVE PayInv
  OBVIOUS
<1>1. TypeOK
  BY TypeInit
<1>2. /\ \A e \in StateHashes : ~edge[e].exists
      /\ \A m \in Merchants : merchant_token[m] = 0
      /\ vault_token = 0 /\ outside = Supply /\ vault.settled_from_collateral = 0
  BY DEF Init, EmptyEdge
<1>3. \A m \in Merchants : PaidTo(m) = {}
  BY <1>2 DEF PaidTo
<1>4. SumFunctionOnSet(merchant_token, Merchants) = 0
  BY <1>2, SetAssumption, SumZero
<1>5. Supply \in Nat
  BY NumberAssumption
<1> QED BY <1>2, <1>3, <1>4, <1>5, SumEmpty DEF PayInv

LEMMA PayStep ==
  SafetyInv /\ FinalInv /\ PayInv /\ [Next]_vars => PayInv'
<1> SUFFICES ASSUME SafetyInv, FinalInv, PayInv, [Next]_vars PROVE PayInv'
  OBVIOUS
<1>t. TypeOK /\ vault_token \in Nat /\ outside \in Nat /\ vault \in CollateralVault
      /\ edge \in [StateHashes -> StateEdgeRecord]
  BY DEF SafetyInv, TypeOK
<1>u. UNCHANGED <<tokenVars, vault, edge>> => PayInv'
  BY <1>t, SameMoney
<1>v. UNCHANGED <<merchant_token, edge>> /\ vault_token' + outside' = vault_token + outside
      /\ vault_token' \in Nat /\ outside' \in Nat
      /\ vault'.settled_from_collateral = vault.settled_from_collateral
      /\ (vault.exists => vault'.exists) => PayInv'
  BY <1>t, NobodyPaid
<1> USE DEF claimVars
<1>1. CASE InitializeProtocol
  BY <1>1, <1>u DEF InitializeProtocol
<1>2. ASSUME NEW a \in Signers, NEW b \in BOOLEAN, SetPaused(a, b) PROVE PayInv'
  BY <1>2, <1>u DEF SetPaused
<1>3. ASSUME NEW t \in Times, CreateUserProfile(t) PROVE PayInv'
  BY <1>3, <1>u DEF CreateUserProfile
<1>4. CASE CreateVault
  <2>1. /\ UNCHANGED <<vault_token, outside, merchant_token, edge>>
        /\ ~vault.exists /\ vault'.exists /\ vault'.settled_from_collateral = 0
    BY <1>4 DEF CreateVault, tokenVars
  <2>2. vault.settled_from_collateral = 0
    BY <2>1 DEF PayInv
  <2> QED BY <1>t, <1>v, <2>1, <2>2
<1>5. ASSUME NEW n \in Amounts, DepositCollateral(n) PROVE PayInv'
  <2>1. /\ UNCHANGED <<merchant_token, edge>> /\ n <= outside /\ n \in Nat
        /\ vault_token' = vault_token + n /\ outside' = outside - n
        /\ vault'.settled_from_collateral = vault.settled_from_collateral
        /\ vault'.exists = vault.exists
    BY <1>5, <1>t, NumberAssumption DEF DepositCollateral, CollateralVault
  <2> QED BY <1>t, <1>v, <2>1
<1>6. ASSUME NEW n \in Amounts, DonateTokens(n) PROVE PayInv'
  <2>1. /\ UNCHANGED <<merchant_token, edge, vault>> /\ n <= outside /\ n \in Nat
        /\ vault_token' = vault_token + n /\ outside' = outside - n
    BY <1>6, <1>t, NumberAssumption DEF DonateTokens
  <2> QED BY <1>t, <1>v, <2>1
<1>7. ASSUME NEW n \in Amounts, WithdrawCollateral(n) PROVE PayInv'
  <2>1. /\ UNCHANGED <<merchant_token, edge>> /\ n \in Nat
        /\ n <= vault_token - vault.reserved_amount
        /\ vault_token' = vault_token - n /\ outside' = outside + n
        /\ vault'.settled_from_collateral = vault.settled_from_collateral
        /\ vault'.exists = vault.exists
    BY <1>7, <1>t, NumberAssumption DEF WithdrawCollateral, Withdrawable, CollateralVault
  <2>2. vault.reserved_amount \in Nat
    BY <1>t, VaultFieldTypes
  <2> QED BY <1>t, <1>v, <2>1, <2>2
<1>8. ASSUME NEW s \in SessionIds, NEW locked \in Amounts, NEW limit \in Amounts,
             NEW t \in Times, CreateOfflineSession(s, locked, limit, t)
      PROVE  PayInv'
  <2>1. /\ UNCHANGED <<vault_token, outside, merchant_token, edge>>
        /\ vault'.settled_from_collateral = vault.settled_from_collateral
        /\ vault'.exists = vault.exists
    BY <1>8, <1>t DEF CreateOfflineSession, tokenVars, CollateralVault
  <2> QED BY <1>t, <1>v, <2>1
<1>9. ASSUME NEW s \in SessionIds, RegisterDeviceAuthorization(s) PROVE PayInv'
  BY <1>9, <1>u DEF RegisterDeviceAuthorization
<1>10. ASSUME NEW c \in Creds, SubmitClaim(c) PROVE PayInv'
  <2>1. PICK pred \in Creds \cup {NoClaim}, succ \in Creds \cup {NoClaim} :
          SubmitClaimWith(c, pred, succ)
    BY <1>10 DEF SubmitClaim
  <2>2. /\ SubmitNewEdge(c, pred, succ) \/ SubmitWrapper(c, pred, succ)
        /\ UNCHANGED <<tokenVars, vault>>
    BY <2>1 DEF SubmitClaimWith
  <2>3. SubmitLeaves(c)
    BY <2>1, <2>2, SubmitNewEdgeLeaves, SubmitWrapperLeaves
  <2> QED BY <1>t, <2>2, <2>3, SubmitPays
<1>c. ASSUME NEW s \in SessionIds, NEW r, CompleteAllocation(s, r)
      PROVE  /\ vault'.settled_from_collateral = vault.settled_from_collateral
             /\ vault'.exists = vault.exists
  BY <1>c, <1>t DEF CompleteAllocation, CollateralVault
<1>11. ASSUME NEW s \in SessionIds, BeginFinalization(s) PROVE PayInv'
  <2>1. UNCHANGED <<vault_token, outside, merchant_token, edge>>
    BY <1>11 DEF BeginFinalization, tokenVars
  <2>2. /\ vault'.settled_from_collateral = vault.settled_from_collateral
        /\ vault'.exists = vault.exists
    BY <1>11, <1>c DEF BeginFinalization
  <2> QED BY <1>t, <1>v, <2>1, <2>2
<1>12. ASSUME NEW e \in StateHashes, ClassifyEdge(e) PROVE PayInv'
  <2>1. PICK base \in Nat, v \in BOOLEAN :
          /\ edge' = [edge EXCEPT ![e] = [edge[e] EXCEPT !.classified = TRUE,
                                                         !.conflicting = v,
                                                         !.allocated_amount = base]]
          /\ session' = [session EXCEPT ![SessionOf(e)] =
                           SessionWithClassified(session[SessionOf(e)], e, base)]
    BY <1>12, <1>t, ClassifyEdgeWrites
  <2>2. \A x \in StateHashes : /\ edge'[x].exists <=> edge[x].exists
                               /\ edge'[x].settled_amount = edge[x].settled_amount
    BY <1>t, <2>1 DEF StateEdgeRecord
  <2>3. UNCHANGED <<tokenVars, vault>>
    BY <1>12 DEF ClassifyEdge
  <2> QED BY <1>t, <2>2, <2>3, SameMoney
<1>13. ASSUME NEW c \in Creds, AllocateNextClaim(c) PROVE PayInv'
  <2>1. EdgeOf(c) \in StateHashes /\ SessionOf(EdgeOf(c)) \in SessionIds
    BY MessageTypes
  <2>2. \E q : FinishScan(SessionOf(EdgeOf(c)), q)
    BY <1>13 DEF AllocateNextClaim, AllocateRepresentative, SkipDuplicate
  <2>3. /\ vault'.settled_from_collateral = vault.settled_from_collateral
        /\ vault'.exists = vault.exists
    BY <1>c, <2>1, <2>2 DEF FinishScan
  <2>4. UNCHANGED <<vault_token, outside, merchant_token>>
    BY <1>13 DEF AllocateNextClaim, tokenVars
  <2>5. \A x \in StateHashes : /\ edge'[x].exists <=> edge[x].exists
                               /\ edge'[x].settled_amount = edge[x].settled_amount
    <3>1. CASE AllocateRepresentative(c)
      <4>1. PICK a \in Nat, v \in {"Valid", "Conflicting"} :
              edge' = [edge EXCEPT ![EdgeOf(c)] =
                         [edge[EdgeOf(c)] EXCEPT !.allocated_amount = a,
                                                 !.allocation_finalized = TRUE]]
        BY <1>t, <3>1, AllocateRepresentativeWrites
      <4> QED BY <1>t, <2>1, <4>1 DEF StateEdgeRecord
    <3>2. CASE SkipDuplicate(c)
      BY <3>2 DEF SkipDuplicate
    <3> QED BY <1>13, <3>1, <3>2 DEF AllocateNextClaim
  <2> QED BY <1>t, <2>3, <2>4, <2>5, NobodyPaid
<1>14. ASSUME NEW c \in Creds, SettleClaim(c) PROVE PayInv'
  BY <1>14, SettleClaimPays
<1>15. ASSUME NEW s \in SessionIds, CloseSession(s) PROVE PayInv'
  BY <1>15, <1>u DEF CloseSession
<1>16. CASE Tick
  BY <1>16, <1>u DEF Tick
<1>17. CASE UNCHANGED vars
  BY <1>17, <1>u DEF vars
<1> HIDE DEF claimVars
<1> QED
  BY <1>1, <1>2, <1>3, <1>4, <1>5, <1>6, <1>7, <1>8, <1>9, <1>10, <1>11, <1>12,
     <1>13, <1>14, <1>15, <1>16, <1>17 DEF Next

\* Tokens are conserved, and a merchant holds the sum of the allocations of its
\* edges that were settled, each once and in full (settle_claim).
THEOREM PaymentsAlwaysExact == Spec => []PaymentsExact
<1>1. TypeOK /\ PayInv /\ FinalInv => PaymentsExact
  <2> SUFFICES ASSUME TypeOK, PayInv, FinalInv PROVE PaymentsExact
    OBVIOUS
  <2>1. SumFunction(merchant_token) = SumFunctionOnSet(merchant_token, Merchants)
    BY DEF SumFunction, TypeOK
  <2>2. \A e \in StateHashes :
          /\ edge[e].settled_amount \in {0, edge[e].allocated_amount}
          /\ edge[e].settled_amount > 0 => claim[edge[e].representative].status = "Settled"
    BY DEF FinalInv, EdgeInv
  <2> QED BY <2>1, <2>2 DEF PaymentsExact, PayInv, PaidTo, SettledOf
<1>2. Spec => []PayInv
  BY PayInit, PayStep, SafetyInvariant, FinalInvariant, PTL DEF Spec
<1> QED BY <1>1, <1>2, TypeCorrect, FinalInvariant, PTL

-----------------------------------------------------------------------------
(***************************************************************************)
(* The reserve is the liability of the active session, which is the only   *)
(* one that owes anything.                                                 *)
(***************************************************************************)
ReserveInv ==
  vault.reserved_amount
    = IF profile.active_session = NoSession THEN 0
      ELSE Liability(session[profile.active_session])

\* Settlements never exceed allocations, and when every edge is done they are equal.
LEMMA SettledWithin ==
  ASSUME NEW F, IsFiniteSet(F), NEW A, NEW S,
         \A x \in F : A[x] \in Nat /\ S[x] \in {0, A[x]}
  PROVE  /\ SumFunctionOnSet(S, F) \in Nat /\ SumFunctionOnSet(A, F) \in Nat
         /\ SumFunctionOnSet(S, F) <= SumFunctionOnSet(A, F)
<1>1. \A x \in F : A[x] \in Nat /\ S[x] \in Nat /\ S[x] <= A[x]
  OBVIOUS
<1> QED BY <1>1, SumNat, SumLeq

LEMMA LiabilityFacts ==
  TypeOK /\ FinalInv =>
    \A s \in SessionIds :
      /\ Liability(session[s]) \in Nat
      /\ session[s].settled_amount <= session[s].allocated_total
      /\ session[s].settled_edge_count = session[s].allocated_edge_count
           => session[s].settled_amount = session[s].allocated_total
<1> SUFFICES ASSUME TypeOK, FinalInv, NEW s \in SessionIds
             PROVE  /\ Liability(session[s]) \in Nat
                    /\ session[s].settled_amount <= session[s].allocated_total
                    /\ session[s].settled_edge_count = session[s].allocated_edge_count
                         => session[s].settled_amount = session[s].allocated_total
  OBVIOUS
<1> DEFINE r == session[s]
           F == Finalized(s)
<1>1. /\ r.allocated_edge_count = Cardinality(F)
      /\ r.allocated_total = SumFunctionOnSet(AllocatedOf, F)
      /\ r.settled_edge_count = Cardinality(Done(s))
      /\ r.settled_amount = SumFunctionOnSet(SettledOf, F)
  BY DEF FinalInv, SessionInv, CountInv
<1>2. /\ F \subseteq StateHashes /\ IsFiniteSet(F) /\ Done(s) \subseteq F
  BY StageSets
<1>3. \A x \in F : AllocatedOf[x] \in Nat /\ SettledOf[x] \in {0, AllocatedOf[x]}
  BY <1>2, EdgeFieldTypes DEF TypeOK, FinalInv, EdgeInv, AllocatedOf, SettledOf
<1>4. /\ r.settled_amount \in Nat /\ r.allocated_total \in Nat
      /\ r.settled_amount <= r.allocated_total
  BY <1>1, <1>2, <1>3, SettledWithin
<1>5. r.settled_edge_count = r.allocated_edge_count => r.settled_amount = r.allocated_total
  <2> SUFFICES ASSUME Cardinality(Done(s)) = Cardinality(F)
               PROVE  SumFunctionOnSet(SettledOf, F) = SumFunctionOnSet(AllocatedOf, F)
    BY <1>1
  <2>1. Done(s) = F
    BY <1>2, FS_Subset
  <2>2. \A x \in F : SettledOf[x] = AllocatedOf[x]
    BY <1>2, <2>1 DEF Done, SettledOf, AllocatedOf
  <2> QED BY <1>2, <2>2, SumSame
<1>6. r.collateral_coverage_cap \in Nat
  BY SessionFieldTypes DEF TypeOK
<1> QED BY <1>4, <1>5, <1>6 DEF Liability

LEMMA LiabilityFactsNext ==
  (TypeOK /\ FinalInv)' =>
    (\A s \in SessionIds :
      /\ Liability(session[s]) \in Nat
      /\ session[s].settled_amount <= session[s].allocated_total
      /\ session[s].settled_edge_count = session[s].allocated_edge_count
           => session[s].settled_amount = session[s].allocated_total)'
BY LiabilityFacts, PTL

\* What the liability of an open session is computed from.
SameDebt(q, r) ==
  /\ q.allocation_complete <=> r.allocation_complete
  /\ IF r.allocation_complete
     THEN q.allocated_total = r.allocated_total /\ q.settled_amount = r.settled_amount
     ELSE q.collateral_coverage_cap = r.collateral_coverage_cap

LEMMA DebtSame ==
  /\ \A r : SameDebt(r, r)
  /\ \A q, r : SameBooks(q, r) => SameDebt(q, r)
BY DEF SameDebt, SameBooks

\* The active session is a session, and it is open.
LEMMA ActiveFacts ==
  ASSUME SafetyInv
  PROVE  profile.active_session # NoSession =>
           /\ profile.active_session \in SessionIds
           /\ session[profile.active_session].status \notin {"None", "Closed"}
<1>1. profile.active_session \in SessionIds \cup {NoSession}
  BY DEF SafetyInv, TypeOK, UserProfile
<1> QED BY <1>1 DEF SafetyInv, OneActiveSession

LEMMA ReserveKept ==
  ASSUME SafetyInv, SafetyInv', ReserveInv,
         profile'.active_session = profile.active_session,
         vault'.reserved_amount = vault.reserved_amount,
         \A s \in SessionIds : SameDebt(session'[s], session[s])
  PROVE  ReserveInv'
<1>1. CASE profile.active_session = NoSession
  BY <1>1 DEF ReserveInv
<1>2. CASE profile.active_session # NoSession
  <2> DEFINE s == profile.active_session
             q == session'[s]
             r == session[s]
  <2>1. s \in SessionIds /\ r.status \notin {"None", "Closed"}
    BY <1>2, ActiveFacts
  <2>2. q.status \notin {"None", "Closed"}
    BY <2>1 DEF SafetyInv, OneActiveSession
  <2>3. SameDebt(q, r)
    BY <2>1
  <2>4. vault.reserved_amount = Liability(r)
    BY <1>2 DEF ReserveInv
  <2>5. Liability(q) = Liability(r)
    BY <2>1, <2>2, <2>3 DEF Liability, SameDebt
  <2>6. vault'.reserved_amount = Liability(session'[profile'.active_session])
    BY <2>4, <2>5
  <2> QED BY <1>2, <2>6 DEF ReserveInv, Liability
<1> QED BY <1>1, <1>2

\* The reserve of the active session s, once what it owes is known.
LEMMA ReserveWritten ==
  ASSUME NEW s \in SessionIds, profile'.active_session = s,
         vault'.reserved_amount = Liability(session'[s])
  PROVE  ReserveInv'
<1>1. s # NoSession
  BY SetAssumption
<1>2. vault'.reserved_amount = Liability(session'[profile'.active_session])
  OBVIOUS
<1> QED BY <1>1, <1>2 DEF ReserveInv, Liability

LEMMA ReserveOf ==
  ASSUME SafetyInv, ReserveInv, NEW s \in SessionIds,
         session[s].status \notin {"None", "Closed"}
  PROVE  profile.active_session = s /\ vault.reserved_amount = Liability(session[s])
<1>1. profile.active_session = s
  BY DEF SafetyInv, OneActiveSession
<1> QED BY <1>1, SetAssumption DEF ReserveInv

\* complete_allocation releases what the allocations leave of the cap.
LEMMA CompleteAllocationReserve ==
  ASSUME SafetyInv, ReserveInv, SafetyInv', profile' = profile, NEW s \in SessionIds,
         session[s].status \notin {"None", "Closed"}, ~session[s].allocation_complete,
         NEW r \in OfflineSession, r.settled_amount = 0,
         r.collateral_coverage_cap = session[s].collateral_coverage_cap,
         CompleteAllocation(s, r)
  PROVE  ReserveInv'
<1> DEFINE cap == r.collateral_coverage_cap
           cover == CoverageAmount(r.frozen_exposure, cap)
           y == session'[s]
<1>1. profile.active_session = s /\ vault.reserved_amount = cap
  BY ReserveOf DEF Liability
<1>2. cap \in Nat /\ cover \in Nat /\ cover <= cap
  BY SessionFieldTypes, CoverageAmountType
<1>3. vault'.reserved_amount = cap - (cap - cover)
  BY <1>1 DEF CompleteAllocation, ReleasedCollateral, SafetyInv, TypeOK, CollateralVault
<1>4. y.allocation_complete /\ y.allocated_total = cover /\ y.settled_amount = 0
  <2>1. y = CompletedAllocation(r)
    BY DEF CompleteAllocation, SafetyInv, TypeOK
  <2>2. r.allocated_total = cover
    BY DEF CompleteAllocation, CanCompleteAllocation
  <2> QED BY <2>1, <2>2, CompletedAllocationBooks
<1>5. y.status \notin {"None", "Closed"}
  BY <1>1 DEF SafetyInv, OneActiveSession
<1> HIDE DEF y, cover
<1>6. Liability(y) = cover
  BY <1>2, <1>4, <1>5 DEF Liability
<1>7. vault'.reserved_amount = Liability(y)
  BY <1>2, <1>3, <1>6
<1> QED BY <1>1, <1>7, ReserveWritten DEF y

LEMMA FinishScanReserve ==
  ASSUME SafetyInv, ReserveInv, SafetyInv', profile' = profile, NEW s \in SessionIds,
         session[s].status = "Reconciling", ~session[s].allocation_complete,
         NEW r \in OfflineSession, SameAccount(r, session[s]), FinishScan(s, r)
  PROVE  ReserveInv'
<1>1. CASE CompleteAllocation(s, r)
  <2>1. r.settled_amount = 0
    BY SessionFacts DEF Lifecycle, SameAccount
  <2> QED BY <1>1, <2>1, CompleteAllocationReserve DEF SameAccount
<1>2. CASE session' = [session EXCEPT ![s] = r] /\ UNCHANGED vault
  <2>1. SameDebt(r, session[s])
    BY DEF SameDebt, SameAccount
  <2>2. \A x \in SessionIds : SameDebt(session'[x], session[x])
    BY <1>2, <2>1, DebtSame DEF SafetyInv, TypeOK
  <2> QED BY <1>2, <2>2, ReserveKept
<1> QED BY <1>1, <1>2 DEF FinishScan

LEMMA AllocateNextClaimReserve ==
  ASSUME SafetyInv, ReserveInv, SafetyInv', NEW c \in Creds, AllocateNextClaim(c)
  PROVE  ReserveInv'
<1> DEFINE s == SessionOf(EdgeOf(c))
           r == session[s]
<1>1. s \in SessionIds /\ r \in OfflineSession /\ TypeOK
  BY MessageTypes DEF SafetyInv, TypeOK
<1>2. r.status = "Reconciling" /\ ~r.allocation_complete /\ profile' = profile
  BY DEF AllocateNextClaim
<1>3. ASSUME NEW q \in OfflineSession, SameAccount(q, r), FinishScan(s, q)
      PROVE  ReserveInv'
  BY <1>1, <1>2, <1>3, FinishScanReserve
<1>4. CASE AllocateRepresentative(c)
  <2>1. PICK a \in Nat, v \in {"Valid", "Conflicting"} :
          FinishScan(s, SessionWithScan(SessionWithAllocation(r, c, a, v), c))
    BY <1>1, <1>4, AllocateRepresentativeWrites
  <2> DEFINE m == SessionWithAllocation(r, c, a, v)
             q == SessionWithScan(m, c)
  <2>2. m \in OfflineSession /\ SameAccount(m, r)
    BY <1>1, SessionWithAllocationType, AllocationKeepsAccount
  <2> HIDE DEF m
  <2>3. q \in OfflineSession /\ SameAccount(q, m)
    BY <1>1, <2>2, SessionWithScanType, ScanKeepsAccount DEF TypeOK
  <2>4. FinishScan(s, q)
    BY <2>1 DEF m
  <2> HIDE DEF q
  <2>5. SameAccount(q, r)
    BY <2>2, <2>3 DEF SameAccount
  <2> QED BY <1>3, <2>3, <2>4, <2>5
<1>5. CASE SkipDuplicate(c)
  <2>1. /\ SessionWithScan(r, c) \in OfflineSession
        /\ SameAccount(SessionWithScan(r, c), r)
        /\ FinishScan(s, SessionWithScan(r, c))
    BY <1>1, <1>5, SessionWithScanType, ScanKeepsAccount, SkipDuplicateWrites DEF TypeOK
  <2> QED BY <1>3, <2>1
<1> QED BY <1>4, <1>5 DEF AllocateNextClaim

LEMMA BeginFinalizationReserve ==
  ASSUME SafetyInv, ReserveInv, SafetyInv', NEW s \in SessionIds, BeginFinalization(s)
  PROVE  ReserveInv'
<1> DEFINE r == session[s]
           q == FrozenSession(r)
           z == [q EXCEPT !.classification_complete = TRUE]
<1>1. r \in OfflineSession /\ q \in OfflineSession /\ Lifecycle(r)
  BY FrozenSessionType, SessionFacts DEF SafetyInv, TypeOK
<1>2. r.status \in {"Active", "ClaimWindow", "Conflicted"} /\ profile' = profile
  BY DEF BeginFinalization
<1>3. /\ q.allocation_complete = r.allocation_complete
      /\ q.allocated_total = r.allocated_total
      /\ q.settled_amount = r.settled_amount
      /\ q.frozen_edge_count = r.unique_edge_count
      /\ q.collateral_coverage_cap = r.collateral_coverage_cap
  BY <1>1, FrozenSessionBooks
<1>4. \/ q.frozen_edge_count = 0 /\ CompleteAllocation(s, z)
      \/ session' = [session EXCEPT ![s] = q] /\ vault' = vault
  BY DEF BeginFinalization
<1> HIDE DEF q
<1>5. /\ z \in OfflineSession
      /\ z.settled_amount = q.settled_amount
      /\ z.collateral_coverage_cap = q.collateral_coverage_cap
  BY <1>1 DEF OfflineSession
<1> HIDE DEF z
<1>6. CASE q.frozen_edge_count = 0 /\ CompleteAllocation(s, z)
  <2>1. ~r.allocation_complete
    BY <1>1, <1>2, <1>3, <1>6 DEF Lifecycle, Unfrozen
  <2>2. z.settled_amount = 0
    BY <1>1, <1>3, <1>5, <2>1 DEF Lifecycle
  <2> QED BY <1>2, <1>3, <1>5, <1>6, <2>1, <2>2, CompleteAllocationReserve
<1>7. CASE session' = [session EXCEPT ![s] = q] /\ vault' = vault
  <2>1. SameDebt(q, r)
    BY <1>3 DEF SameDebt
  <2>2. \A x \in SessionIds : SameDebt(session'[x], session[x])
    BY <1>7, <2>1, DebtSame DEF SafetyInv, TypeOK
  <2> QED BY <1>2, <1>7, <2>2, ReserveKept
<1> QED BY <1>4, <1>6, <1>7

\* settle_claim takes from the reserve what it pays; the settlement that closes
\* the session was the last one, so nothing stays reserved.
LEMMA SettleClaimReserve ==
  ASSUME SafetyInv, ReserveInv, SafetyInv', FinalInv', NEW c \in Creds, SettleClaim(c)
  PROVE  ReserveInv'
<1> DEFINE s == SessionOf(EdgeOf(c))
           r == session[s]
           y == session'[s]
           a == claim[c].allocated_amount
<1>1. s \in SessionIds /\ r \in OfflineSession /\ TypeOK /\ vault \in CollateralVault
  BY MessageTypes DEF SafetyInv, TypeOK
<1>2. PICK q \in OfflineSession :
        /\ a \in Nat
        /\ q = [r EXCEPT !.settled_amount = r.settled_amount + a,
                         !.settled_edge_count = r.settled_edge_count + 1]
        /\ FinishSettlement(s, q)
  BY <1>1, SettleClaimWrites
<1>3. /\ r.allocation_complete /\ r.status \notin {"None", "Closed"}
      /\ vault'.reserved_amount = vault.reserved_amount - a
  BY <1>1 DEF SettleClaim, CollateralVault
<1>4. profile.active_session = s /\ vault.reserved_amount = r.allocated_total - r.settled_amount
  BY <1>1, <1>3, ReserveOf DEF Liability
<1>5. r.allocated_total \in Nat /\ r.settled_amount \in Nat
  BY <1>1, SessionFieldTypes
<1>6. SettlementAdded(q, r, r.settled_amount + a, r.settled_edge_count + 1)
  BY <1>1, <1>2, SettledBooks
<1>7. SameBooks(y, q)
  <2>1. Frozen(q)
    BY <1>3, <1>6 DEF SettlementAdded, Frozen
  <2> QED BY <1>1, <1>2, <2>1, FinishSettlementBooks
<1>8. /\ y.allocation_complete /\ y.allocated_total = r.allocated_total
      /\ y.settled_amount = r.settled_amount + a
      /\ y.settled_edge_count = q.settled_edge_count
      /\ y.allocated_edge_count = q.allocated_edge_count
  BY <1>3, <1>6, <1>7 DEF SameBooks, SettlementAdded
<1>9. y.settled_edge_count = y.allocated_edge_count => y.settled_amount = y.allocated_total
  <2>1. (TypeOK /\ FinalInv)'
    BY DEF SafetyInv
  <2> QED BY <1>1, <2>1, LiabilityFactsNext
<1> HIDE DEF s, r, a
<1>10. CASE CloseSessionState(s, q) /\ q.settled_edge_count = q.allocated_edge_count
  <2>1. profile'.active_session = NoSession
    BY <1>1, <1>10 DEF CloseSessionState, TypeOK, UserProfile
  <2>2. y.settled_amount = y.allocated_total
    BY <1>8, <1>9, <1>10
  <2> HIDE DEF y
  <2>3. vault'.reserved_amount = 0
    BY <1>2, <1>3, <1>4, <1>5, <1>8, <2>2
  <2> QED BY <2>1, <2>3 DEF ReserveInv
<1>11. CASE profile' = profile
  <2>1. y.status \notin {"None", "Closed"}
    BY <1>1, <1>4, <1>11 DEF SafetyInv, OneActiveSession
  <2>2. Liability(y) = y.allocated_total - y.settled_amount
    BY <1>8, <2>1 DEF Liability
  <2> HIDE DEF y
  <2>3. vault'.reserved_amount = Liability(y)
    BY <1>2, <1>3, <1>4, <1>5, <1>8, <2>2
  <2> QED BY <1>1, <1>4, <1>11, <2>3, ReserveWritten DEF y
<1> QED BY <1>2, <1>10, <1>11 DEF FinishSettlement

LEMMA CloseSessionReserve ==
  ASSUME SafetyInv, ReserveInv, NEW s \in SessionIds, CloseSession(s)
  PROVE  ReserveInv'
<1> DEFINE r == session[s]
<1>1. /\ r.allocation_complete /\ r.settled_amount = r.allocated_total
      /\ r.status \notin {"None", "Closed"} /\ vault' = vault
      /\ profile'.active_session = NoSession
  BY DEF CloseSession, CloseSessionState, SafetyInv, TypeOK, UserProfile
<1>2. vault.reserved_amount = Liability(r)
  BY <1>1, ReserveOf
<1>3. r.allocated_total \in Nat
  BY SessionFieldTypes DEF SafetyInv, TypeOK
<1>4. vault'.reserved_amount = 0
  BY <1>1, <1>2, <1>3 DEF Liability
<1> QED BY <1>1, <1>4 DEF ReserveInv

LEMMA CreateOfflineSessionReserve ==
  ASSUME SafetyInv, ReserveInv, NEW s \in SessionIds, NEW locked \in Amounts,
         NEW limit \in Amounts, NEW t \in Times,
         CreateOfflineSession(s, locked, limit, t)
  PROVE  ReserveInv'
<1> DEFINE q == NewSession(locked, limit, t)
<1>1. locked \in Nat
  BY NumberAssumption
<1>2. /\ q.status = "Active" /\ ~q.allocation_complete
      /\ q.collateral_coverage_cap = locked
  BY DEF NewSession, EmptySession
<1>3. session'[s] = q
  BY DEF CreateOfflineSession, SafetyInv, TypeOK
<1> HIDE DEF q
<1>4. /\ vault'.reserved_amount = vault.reserved_amount + locked
      /\ profile.active_session = NoSession /\ profile'.active_session = s
  BY DEF CreateOfflineSession, SafetyInv, TypeOK, CollateralVault, UserProfile
<1>5. vault.reserved_amount = 0
  BY <1>4 DEF ReserveInv
<1>6. Liability(q) = locked
  BY <1>2 DEF Liability
<1>7. vault'.reserved_amount = Liability(session'[s])
  BY <1>1, <1>3, <1>4, <1>5, <1>6
<1> QED BY <1>4, <1>7, ReserveWritten

LEMMA ReserveInit == Init => ReserveInv
BY DEF Init, ReserveInv

LEMMA ReserveStep ==
  SafetyInv /\ ReserveInv /\ SafetyInv' /\ FinalInv' /\ [Next]_vars => ReserveInv'
<1> SUFFICES ASSUME SafetyInv, ReserveInv, SafetyInv', FinalInv', [Next]_vars
             PROVE  ReserveInv'
  OBVIOUS
<1>t. TypeOK /\ vault \in CollateralVault /\ profile \in UserProfile
      /\ session \in [SessionIds -> OfflineSession]
  BY DEF SafetyInv, TypeOK
<1>u. ASSUME session' = session, profile'.active_session = profile.active_session,
             vault'.reserved_amount = vault.reserved_amount
      PROVE  ReserveInv'
  BY <1>u, DebtSame, ReserveKept
<1>1. CASE InitializeProtocol
  BY <1>1, <1>u DEF InitializeProtocol
<1>2. ASSUME NEW a \in Signers, NEW b \in BOOLEAN, SetPaused(a, b) PROVE ReserveInv'
  BY <1>2, <1>u DEF SetPaused
<1>3. ASSUME NEW t \in Times, CreateUserProfile(t) PROVE ReserveInv'
  <2>1. profile.active_session = NoSession
    BY <1>3 DEF CreateUserProfile, SafetyInv, AccountsInOrder
  <2> QED BY <1>3, <1>u, <2>1 DEF CreateUserProfile
<1>4. CASE CreateVault
  <2>1. vault.reserved_amount = 0
    BY <1>4 DEF CreateVault, SafetyInv, AccountsInOrder
  <2> QED BY <1>4, <1>u, <2>1 DEF CreateVault
<1>5. ASSUME NEW n \in Amounts, DepositCollateral(n) PROVE ReserveInv'
  BY <1>5, <1>t, <1>u DEF DepositCollateral, CollateralVault
<1>6. ASSUME NEW n \in Amounts, DonateTokens(n) PROVE ReserveInv'
  BY <1>6, <1>u DEF DonateTokens
<1>7. ASSUME NEW n \in Amounts, WithdrawCollateral(n) PROVE ReserveInv'
  BY <1>7, <1>t, <1>u DEF WithdrawCollateral, CollateralVault
<1>8. ASSUME NEW s \in SessionIds, NEW locked \in Amounts, NEW limit \in Amounts,
             NEW t \in Times, CreateOfflineSession(s, locked, limit, t)
      PROVE  ReserveInv'
  BY <1>8, CreateOfflineSessionReserve
<1>9. ASSUME NEW s \in SessionIds, RegisterDeviceAuthorization(s) PROVE ReserveInv'
  <2>1. /\ UNCHANGED <<profile, vault>>
        /\ session' = [session EXCEPT ![s] = [session[s] EXCEPT !.authorized = TRUE]]
    BY <1>9, <1>t DEF RegisterDeviceAuthorization
  <2>2. \A x \in SessionIds : SameDebt(session'[x], session[x])
    <3>1. SameDebt([session[s] EXCEPT !.authorized = TRUE], session[s])
      BY <1>t DEF SameDebt, OfflineSession
    <3> QED BY <1>t, <2>1, <3>1, DebtSame
  <2> QED BY <2>1, <2>2, ReserveKept
<1>10. ASSUME NEW c \in Creds, SubmitClaim(c) PROVE ReserveInv'
  <2>1. PICK pred \in Creds \cup {NoClaim}, succ \in Creds \cup {NoClaim} :
          SubmitClaimWith(c, pred, succ)
    BY <1>10 DEF SubmitClaim
  <2>2. /\ SubmitNewEdge(c, pred, succ) \/ SubmitWrapper(c, pred, succ)
        /\ UNCHANGED <<tokenVars, vault>>
    BY <2>1 DEF SubmitClaimWith
  <2>3. SubmitLeaves(c)
    BY <2>1, <2>2, SubmitNewEdgeLeaves, SubmitWrapperLeaves
  <2>4. \A x \in SessionIds : SameDebt(session'[x], session[x])
    BY <2>3, DebtSame DEF SubmitLeaves
  <2>5. profile'.active_session = profile.active_session
    BY <1>t, <2>2 DEF SubmitNewEdge, SubmitWrapper, RevokeOfflineAccess, UserProfile
  <2> QED BY <2>2, <2>4, <2>5, ReserveKept
<1>11. ASSUME NEW s \in SessionIds, BeginFinalization(s) PROVE ReserveInv'
  BY <1>11, BeginFinalizationReserve
<1>12. ASSUME NEW e \in StateHashes, ClassifyEdge(e) PROVE ReserveInv'
  <2> DEFINE s == SessionOf(e)
  <2>1. UNCHANGED <<profile, vault>> /\ s \in SessionIds
    BY <1>12, MessageTypes DEF ClassifyEdge
  <2>2. PICK n : session' = [session EXCEPT ![s] = SessionWithClassified(session[s], e, n)]
    BY <1>12 DEF ClassifyEdge
  <2>3. SameDebt(SessionWithClassified(session[s], e, n), session[s])
    BY <1>t, <2>1, ClassifiedKeepsAccount DEF SameDebt, SameAccount
  <2>4. \A x \in SessionIds : SameDebt(session'[x], session[x])
    BY <1>t, <2>1, <2>2, <2>3, DebtSame
  <2> QED BY <2>1, <2>4, ReserveKept
<1>13. ASSUME NEW c \in Creds, AllocateNextClaim(c) PROVE ReserveInv'
  BY <1>13, AllocateNextClaimReserve
<1>14. ASSUME NEW c \in Creds, SettleClaim(c) PROVE ReserveInv'
  BY <1>14, SettleClaimReserve
<1>15. ASSUME NEW s \in SessionIds, CloseSession(s) PROVE ReserveInv'
  BY <1>15, CloseSessionReserve
<1>16. CASE Tick
  BY <1>16, <1>u DEF Tick
<1>17. CASE UNCHANGED vars
  BY <1>17, <1>u DEF vars
<1> QED
  BY <1>1, <1>2, <1>3, <1>4, <1>5, <1>6, <1>7, <1>8, <1>9, <1>10, <1>11, <1>12,
     <1>13, <1>14, <1>15, <1>16, <1>17 DEF Next

\* The vault reserves exactly what its sessions still owe: nothing is locked
\* beyond that, and nothing at all once no session is open (create_offline_session,
\* complete_allocation, settle_claim and close_session together).
THEOREM ReserveAlwaysExact == Spec => []ReserveExact
<1>1. SafetyInv /\ FinalInv /\ ReserveInv => ReserveExact
  <2> SUFFICES ASSUME SafetyInv, FinalInv, ReserveInv PROVE ReserveExact
    OBVIOUS
  <2> DEFINE L == [s \in SessionIds |-> Liability(session[s])]
             a == profile.active_session
  <2>1. SumFunction(L) = SumFunctionOnSet(L, SessionIds) /\ IsFiniteSet(SessionIds)
    BY SetAssumption DEF SumFunction
  <2>2. \A s \in SessionIds : L[s] \in Nat
    BY LiabilityFacts DEF SafetyInv
  <2>3. \A s \in SessionIds : s # a => L[s] = 0
    BY DEF SafetyInv, OneActiveSession, Liability
  <2>4. CASE a = NoSession
    <3>1. \A s \in SessionIds : L[s] = 0
      BY <2>3, <2>4, SetAssumption
    <3>2. SumFunctionOnSet(L, SessionIds) = 0
      BY <2>1, <3>1, SumZero
    <3> QED BY <2>1, <2>4, <3>2 DEF ReserveInv, ReserveExact
  <2>5. CASE a # NoSession
    <3>1. a \in SessionIds
      BY <2>5, ActiveFacts
    <3>2. IsFiniteSet(SessionIds \ {a}) /\ \A s \in SessionIds \ {a} : L[s] = 0
      BY <2>1, <2>3, FS_Subset
    <3>3. SumFunctionOnSet(L, SessionIds) = L[a] + SumFunctionOnSet(L, SessionIds \ {a})
      BY <2>1, <2>2, <3>1, SumRemove
    <3>4. SumFunctionOnSet(L, SessionIds \ {a}) = 0
      BY <3>2, SumZero
    <3>5. L[a] \in Nat /\ L[a] = vault.reserved_amount
      BY <2>2, <2>5, <3>1 DEF ReserveInv
    <3> HIDE DEF L
    <3>6. SumFunction(L) = vault.reserved_amount
      BY <2>1, <3>3, <3>4, <3>5
    <3> QED BY <3>6 DEF ReserveExact, L
  <2> QED BY <2>4, <2>5
<1>2. Spec => []ReserveInv
  BY ReserveInit, ReserveStep, SafetyInvariant, FinalInvariant, PTL DEF Spec
<1> QED BY <1>1, <1>2, SafetyInvariant, FinalInvariant, PTL

-----------------------------------------------------------------------------
(***************************************************************************)
(* The payer's record.  A closed session is never written again, but for   *)
(* its device authorization.                                               *)
(***************************************************************************)
Succeeded == {s \in SessionIds : session[s].status = "Closed" /\ Successful(session[s])}

SuccessInv ==
  /\ ~profile.exists => \A s \in SessionIds : session[s].status = "None"
  /\ profile.successful_sessions = Cardinality(Succeeded)

LEMMA SuccessKept ==
  ASSUME SuccessInv, profile'.successful_sessions = profile.successful_sessions,
         \A s \in SessionIds : session'[s].status # "None" => profile'.exists,
         \A s \in SessionIds :
           /\ session'[s].status = "Closed" <=> session[s].status = "Closed"
           /\ session[s].status = "Closed" =>
                (Successful(session'[s]) <=> Successful(session[s]))
  PROVE  SuccessInv'
<1>1. Succeeded' = Succeeded
  <2>1. \A s \in SessionIds : (session'[s].status = "Closed" /\ Successful(session'[s]))
                                <=> (session[s].status = "Closed" /\ Successful(session[s]))
    OBVIOUS
  <2> QED BY <2>1 DEF Succeeded, Successful
<1> QED BY <1>1 DEF SuccessInv

\* Steps that write the active session only, and leave it open.
LEMMA ActiveWritten ==
  ASSUME SafetyInv, SafetyInv', SuccessInv,
         profile'.successful_sessions = profile.successful_sessions,
         profile'.active_session = profile.active_session,
         profile'.exists <=> profile.exists,
         \A s \in SessionIds :
           session[s].status \in {"None", "Closed"} => session'[s] = session[s]
  PROVE  SuccessInv'
<1>1. \A s \in SessionIds :
        session'[s].status \in {"None", "Closed"} <=> session[s].status \in {"None", "Closed"}
  BY DEF SafetyInv, OneActiveSession
<1>2. \A s \in SessionIds :
        session[s].status \notin {"None", "Closed"} => profile.exists
  BY SetAssumption DEF SafetyInv, OneActiveSession, AccountsInOrder
<1>3. \A s \in SessionIds : session'[s].status # "None" => profile'.exists
  BY <1>1, <1>2 DEF SuccessInv
<1>4. \A s \in SessionIds :
           /\ session'[s].status = "Closed" <=> session[s].status = "Closed"
           /\ session[s].status = "Closed" =>
                (Successful(session'[s]) <=> Successful(session[s]))
  BY <1>1
<1> QED BY <1>3, <1>4, SuccessKept

LEMMA OneWritten ==
  ASSUME TypeOK, NEW s \in SessionIds, session[s].status \notin {"None", "Closed"},
         NEW q, session' = [session EXCEPT ![s] = q]
  PROVE  \A x \in SessionIds :
           session[x].status \in {"None", "Closed"} => session'[x] = session[x]
BY DEF TypeOK

\* close_session_state counts the session it closes.
LEMMA CloseSessionStateCounts ==
  ASSUME SafetyInv, SuccessInv, NEW s \in SessionIds, NEW r \in OfflineSession,
         session[s].status \notin {"None", "Closed"}, CloseSessionState(s, r)
  PROVE  SuccessInv'
<1> DEFINE q == [r EXCEPT !.status = "Closed"]
<1>1. profile \in UserProfile /\ session \in [SessionIds -> OfflineSession]
  BY DEF SafetyInv, TypeOK
<1>2. profile'.successful_sessions = IF Successful(r) THEN profile.successful_sessions + 1
                                     ELSE profile.successful_sessions
  BY <1>1 DEF CloseSessionState, UserProfile
<1>3. profile'.exists = profile.exists /\ profile.exists
  BY <1>1 DEF CloseSessionState, UserProfile, SuccessInv
<1>4. q.status = "Closed" /\ (Successful(q) <=> Successful(r))
  BY DEF OfflineSession, Successful
<1>5. session'[s] = q /\ \A x \in SessionIds : x # s => session'[x] = session[x]
  BY <1>1 DEF CloseSessionState
<1> HIDE DEF q
<1>6. s \notin Succeeded /\ IsFiniteSet(Succeeded)
  <2>1. Succeeded \subseteq SessionIds /\ s \notin Succeeded
    BY DEF Succeeded
  <2> QED BY <2>1, SetAssumption, FS_Subset
<1>7. Succeeded' = IF Successful(r) THEN Succeeded \cup {s} ELSE Succeeded
  <2>1. \A x \in SessionIds : x # s =>
          ((session'[x].status = "Closed" /\ Successful(session'[x]))
             <=> (session[x].status = "Closed" /\ Successful(session[x])))
    BY <1>5
  <2>2. (session'[s].status = "Closed" /\ Successful(session'[s])) <=> Successful(r)
    BY <1>4, <1>5
  <2>3. \A x : x \in Succeeded' <=>
          x \in SessionIds /\ session'[x].status = "Closed" /\ Successful(session'[x])
    BY DEF Succeeded, Successful
  <2>4. \A x : x \in Succeeded <=>
          x \in SessionIds /\ session[x].status = "Closed" /\ Successful(session[x])
    BY DEF Succeeded
  <2>5. CASE Successful(r)
    BY <2>1, <2>2, <2>3, <2>4, <2>5
  <2>6. CASE ~Successful(r)
    BY <2>1, <2>2, <2>3, <2>4, <2>6
  <2> QED BY <2>5, <2>6
<1>8. Cardinality(Succeeded \cup {s}) = Cardinality(Succeeded) + 1
  BY <1>6, FS_AddElement
<1>9. profile'.successful_sessions = Cardinality(Succeeded')
  BY <1>2, <1>7, <1>8 DEF SuccessInv
<1> QED BY <1>3, <1>9 DEF SuccessInv

LEMMA SuccessInit == Init => SuccessInv
<1> SUFFICES ASSUME Init PROVE SuccessInv
  OBVIOUS
<1>1. \A s \in SessionIds : session[s].status = "None"
  BY DEF Init, EmptySession
<1>2. Succeeded = {}
  BY <1>1 DEF Succeeded
<1> QED BY <1>1, <1>2, FS_EmptySet DEF SuccessInv, Init

LEMMA SuccessStep ==
  SafetyInv /\ SuccessInv /\ SafetyInv' /\ [Next]_vars => SuccessInv'
<1> SUFFICES ASSUME SafetyInv, SuccessInv, SafetyInv', [Next]_vars PROVE SuccessInv'
  OBVIOUS
<1>t. TypeOK /\ profile \in UserProfile /\ session \in [SessionIds -> OfflineSession]
  BY DEF SafetyInv, TypeOK
<1>u. UNCHANGED <<session, profile>> => SuccessInv'
  BY ActiveWritten
<1>w. ASSUME NEW s \in SessionIds, session[s].status \notin {"None", "Closed"},
             profile' = profile, \E q : session' = [session EXCEPT ![s] = q]
      PROVE  SuccessInv'
  BY <1>t, <1>w, OneWritten, ActiveWritten
<1>1. CASE InitializeProtocol
  BY <1>1, <1>u DEF InitializeProtocol
<1>2. ASSUME NEW a \in Signers, NEW b \in BOOLEAN, SetPaused(a, b) PROVE SuccessInv'
  BY <1>2, <1>u DEF SetPaused
<1>3. ASSUME NEW t \in Times, CreateUserProfile(t) PROVE SuccessInv'
  <2>1. /\ ~profile.exists /\ profile'.exists /\ profile'.successful_sessions = 0
        /\ session' = session
    BY <1>3 DEF CreateUserProfile
  <2>2. Succeeded = {}
    BY <2>1 DEF SuccessInv, Succeeded
  <2>3. profile.successful_sessions = 0
    BY <2>2, FS_EmptySet DEF SuccessInv
  <2> QED BY <2>1, <2>3, SuccessKept
<1>4. CASE CreateVault
  BY <1>4, <1>u DEF CreateVault
<1>5. ASSUME NEW n \in Amounts, DepositCollateral(n) PROVE SuccessInv'
  BY <1>5, <1>u DEF DepositCollateral
<1>6. ASSUME NEW n \in Amounts, DonateTokens(n) PROVE SuccessInv'
  BY <1>6, <1>u DEF DonateTokens
<1>7. ASSUME NEW n \in Amounts, WithdrawCollateral(n) PROVE SuccessInv'
  BY <1>7, <1>u DEF WithdrawCollateral
<1>8. ASSUME NEW s \in SessionIds, NEW locked \in Amounts, NEW limit \in Amounts,
             NEW t \in Times, CreateOfflineSession(s, locked, limit, t)
      PROVE  SuccessInv'
  <2>1. /\ session' = [session EXCEPT ![s] = NewSession(locked, limit, t)]
        /\ session[s].status = "None"
        /\ profile'.exists /\ profile'.successful_sessions = profile.successful_sessions
    BY <1>8, <1>t DEF CreateOfflineSession, UserProfile
  <2>2. NewSession(locked, limit, t).status = "Active"
    BY DEF NewSession, EmptySession
  <2>3. \A x \in SessionIds :
           /\ session'[x].status = "Closed" <=> session[x].status = "Closed"
           /\ session[x].status = "Closed" =>
                (Successful(session'[x]) <=> Successful(session[x]))
    BY <1>t, <2>1, <2>2
  <2> QED BY <2>1, <2>3, SuccessKept
<1>9. ASSUME NEW s \in SessionIds, RegisterDeviceAuthorization(s) PROVE SuccessInv'
  <2> DEFINE q == [session[s] EXCEPT !.authorized = TRUE]
  <2>1. /\ profile' = profile /\ session' = [session EXCEPT ![s] = q]
    BY <1>9, <1>t DEF RegisterDeviceAuthorization
  <2>2. q.status = session[s].status /\ (Successful(q) <=> Successful(session[s]))
    BY <1>t DEF OfflineSession, Successful
  <2> HIDE DEF q
  <2>3. \A x \in SessionIds :
           /\ session'[x].status = session[x].status
           /\ Successful(session'[x]) <=> Successful(session[x])
    BY <1>t, <2>1, <2>2
  <2>4. \A x \in SessionIds : session'[x].status # "None" => profile'.exists
    BY <2>1, <2>3 DEF SuccessInv
  <2> QED BY <2>1, <2>3, <2>4, SuccessKept
<1>10. ASSUME NEW c \in Creds, SubmitClaim(c) PROVE SuccessInv'
  <2> DEFINE s == SessionOf(EdgeOf(c))
  <2>1. PICK pred \in Creds \cup {NoClaim}, succ \in Creds \cup {NoClaim} :
          SubmitClaimWith(c, pred, succ)
    BY <1>10 DEF SubmitClaim
  <2>2. /\ SubmitNewEdge(c, pred, succ) \/ SubmitWrapper(c, pred, succ)
        /\ session[s].status \notin {"None", "Closed"}
    BY <2>1 DEF SubmitClaimWith, ClaimsOpen
  <2>3. s \in SessionIds
    BY MessageTypes
  <2>4. /\ profile'.successful_sessions = profile.successful_sessions
        /\ profile'.active_session = profile.active_session
        /\ profile'.exists <=> profile.exists
    BY <1>t, <2>2 DEF SubmitNewEdge, SubmitWrapper, RevokeOfflineAccess, UserProfile
  <2>5. \E q : session' = [session EXCEPT ![s] = q]
    BY <2>2 DEF SubmitNewEdge, SubmitWrapper
  <2> QED BY <1>t, <2>2, <2>3, <2>4, <2>5, OneWritten, ActiveWritten
<1>11. ASSUME NEW s \in SessionIds, BeginFinalization(s) PROVE SuccessInv'
  BY <1>11, <1>w DEF BeginFinalization, CompleteAllocation
<1>12. ASSUME NEW e \in StateHashes, ClassifyEdge(e) PROVE SuccessInv'
  <2>1. SessionOf(e) \in SessionIds
    BY MessageTypes
  <2> QED BY <1>12, <1>w, <2>1 DEF ClassifyEdge
<1>13. ASSUME NEW c \in Creds, AllocateNextClaim(c) PROVE SuccessInv'
  <2> DEFINE s == SessionOf(EdgeOf(c))
  <2>1. s \in SessionIds
    BY MessageTypes
  <2>2. \E q : FinishScan(s, q)
    BY <1>13 DEF AllocateNextClaim, AllocateRepresentative, SkipDuplicate
  <2>3. \E q : session' = [session EXCEPT ![s] = q]
    BY <2>2 DEF FinishScan, CompleteAllocation
  <2>4. session[s].status \notin {"None", "Closed"} /\ profile' = profile
    BY <1>13 DEF AllocateNextClaim
  <2> QED BY <1>w, <2>1, <2>3, <2>4
<1>14. ASSUME NEW c \in Creds, SettleClaim(c) PROVE SuccessInv'
  <2> DEFINE s == SessionOf(EdgeOf(c))
  <2>1. s \in SessionIds /\ session[s].status \notin {"None", "Closed"}
    BY <1>14, MessageTypes DEF SettleClaim
  <2>2. PICK q \in OfflineSession : FinishSettlement(s, q)
    BY <1>14, <1>t, SettleClaimWrites
  <2>3. CASE CloseSessionState(s, q)
    BY <2>1, <2>3, CloseSessionStateCounts
  <2>4. CASE profile' = profile /\ \E x : session' = [session EXCEPT ![s] = x]
    BY <1>w, <2>1, <2>4
  <2> QED BY <2>2, <2>3, <2>4 DEF FinishSettlement
<1>15. ASSUME NEW s \in SessionIds, CloseSession(s) PROVE SuccessInv'
  BY <1>15, <1>t, CloseSessionStateCounts DEF CloseSession
<1>16. CASE Tick
  BY <1>16, <1>u DEF Tick
<1>17. CASE UNCHANGED vars
  BY <1>17, <1>u DEF vars
<1> QED
  BY <1>1, <1>2, <1>3, <1>4, <1>5, <1>6, <1>7, <1>8, <1>9, <1>10, <1>11, <1>12,
     <1>13, <1>14, <1>15, <1>16, <1>17 DEF Next

\* The payer's record counts the sessions that closed without a fork and with
\* all their payments covered (close_session_state).
THEOREM SuccessesAlwaysExact == Spec => []SuccessesExact
<1>1. SafetyInv /\ ClaimsInv /\ SuccessInv => SuccessesExact
  <2> SUFFICES ASSUME SafetyInv, ClaimsInv, SuccessInv PROVE SuccessesExact
    OBVIOUS
  <2> DEFINE Good(s) == /\ session[s].status = "Closed"
                        /\ Cardinality(Children(s)) < 2
                        /\ \A e \in EdgesOf(s) : Cardinality(Children(e)) < 2
                        /\ TotalAmount(EdgesOf(s)) <= session[s].collateral_coverage_cap
  <2>1. \A p : Cardinality(Children(p)) \in Nat
    BY SetsFinite, FS_CardinalityType
  <2>2. ASSUME NEW s \in SessionIds, session[s].status = "Closed"
        PROVE  Successful(session[s]) <=> Good(s)
    <3>1. session[s].frozen_exposure = TotalAmount(EdgesOf(s))
      BY <2>2 DEF SafetyInv, FrozenCountersFinal, ClaimsInv, ExposureInv
    <3>2. session[s].authenticated_fork
            <=> \E p \in States : Cardinality(Children(p)) >= 2 /\ (p = s \/ p \in EdgesOf(s))
      BY DEF ClaimsInv, ForkInv, Forked
    <3>3. s \in States /\ \A e \in EdgesOf(s) : e \in States
      BY DEF States, EdgesOf
    <3>4. ~session[s].authenticated_fork
            <=> /\ Cardinality(Children(s)) < 2
                /\ \A e \in EdgesOf(s) : Cardinality(Children(e)) < 2
      BY <2>1, <3>2, <3>3
    <3> QED BY <2>2, <3>1, <3>4 DEF Successful
  <2>3. Succeeded = {s \in SessionIds : Good(s)}
    BY <2>2 DEF Succeeded
  <2> QED BY <2>3 DEF SuccessInv, SuccessesExact
<1>2. Spec => []SuccessInv
  BY SuccessInit, SuccessStep, SafetyInvariant, PTL DEF Spec
<1> QED BY <1>1, <1>2, SafetyInvariant, ClaimsInvariant, PTL

-----------------------------------------------------------------------------
(***************************************************************************)
(* Verdicts.  ClassificationExact is inductive relative to the invariants  *)
(* above: an edge is classified after its parent, when its session is      *)
(* frozen, and an edge of another session adds no sibling to its branch.   *)
(***************************************************************************)
Tainted(e) == \E f \in Branch[e] : Cardinality(Children(Prev(f))) >= 2

LEMMA VerdictMeans ==
  ClassificationExact <=>
    \A e \in StateHashes : edge[e].classified => (edge[e].conflicting <=> Tainted(e))
BY DEF ClassificationExact, Tainted, Prev

LEMMA VerdictMeansNext ==
  ClassificationExact' <=>
    (\A e \in StateHashes : edge[e].classified => (edge[e].conflicting <=> Tainted(e)))'
BY VerdictMeans, PTL

LEMMA VerdictKept ==
  ASSUME ClassificationExact,
         \A e \in StateHashes :
           edge'[e].classified =>
             /\ edge[e].classified
             /\ edge'[e].conflicting <=> edge[e].conflicting
             /\ \A f \in Branch[e] : Children(Prev(f))' = Children(Prev(f))
  PROVE  ClassificationExact'
<1>1. \A e \in StateHashes : edge'[e].classified => (Tainted(e)' <=> Tainted(e))
  BY DEF Tainted
<1>2. \A e \in StateHashes : edge'[e].classified => (edge'[e].conflicting <=> Tainted(e)')
  BY <1>1, VerdictMeans
<1> QED BY <1>2, VerdictMeansNext

SameVerdict(x, y) ==
  /\ x.exists <=> y.exists
  /\ x.classified <=> y.classified
  /\ x.conflicting <=> y.conflicting

LEMMA SameVerdicts ==
  ASSUME ClassificationExact, \A e \in StateHashes : SameVerdict(edge'[e], edge[e])
  PROVE  ClassificationExact'
<1>1. \A p : Children(p)' = Children(p)
  BY DEF Children, SameVerdict
<1> QED BY <1>1, VerdictKept DEF SameVerdict

\* A claim is accepted only while its session is not frozen, so no verdict of
\* its session exists yet, and it adds no child in another session.
LEMMA SubmitVerdicts ==
  ASSUME SafetyInv, ClaimsInv, FinalInv, ClassificationExact, NEW c \in Creds,
         NEW pred \in Creds \cup {NoClaim}, NEW succ \in Creds \cup {NoClaim},
         SubmitClaimWith(c, pred, succ)
  PROVE  ClassificationExact'
<1> DEFINE n == EdgeOf(c)
           s == SessionOf(n)
<1>1. n \in StateHashes /\ s \in SessionIds
  BY MessageTypes
<1>2. SubmitNewEdge(c, pred, succ) \/ SubmitWrapper(c, pred, succ)
  BY DEF SubmitClaimWith
<1>3. SubmitLeaves(c)
  BY <1>2, SubmitNewEdgeLeaves, SubmitWrapperLeaves
<1>4. ~Frozen(session[s])
  BY OpenSessionNotFrozen
<1>5. \A e \in StateHashes : edge[e].classified =>
        /\ edge[e].exists /\ SessionOf(e) # s /\ SessionOf(e) \in SessionIds
        /\ e \in EdgesOf(SessionOf(e))
  <2> SUFFICES ASSUME NEW e \in StateHashes, edge[e].classified
               PROVE  /\ edge[e].exists /\ SessionOf(e) # s /\ SessionOf(e) \in SessionIds
                      /\ e \in EdgesOf(SessionOf(e))
    OBVIOUS
  <2>1. edge[e].exists /\ SessionOf(e) \in SessionIds
    BY MessageTypes DEF FinalInv, EdgeInv
  <2>2. e \in Classified(SessionOf(e)) /\ e \in EdgesOf(SessionOf(e))
    BY <2>1 DEF Classified, EdgesOf
  <2>3. Classified(s) = {}
    BY <1>1, <1>4 DEF FinalInv, SessionInv, PhaseInv
  <2> QED BY <2>1, <2>2, <2>3
<1>6. \A e \in StateHashes : edge'[e].classified => e # n /\ edge'[e] = edge[e]
  <2>1. ~edge[n].classified
    BY <1>1, <1>5
  <2>2. ~edge'[n].classified
    BY <1>3, <2>1 DEF SubmitLeaves
  <2> QED BY <1>3, <2>2 DEF SubmitLeaves
<1>7. ASSUME NEW e \in StateHashes, edge[e].classified, NEW f \in Branch[e]
      PROVE  Children(Prev(f))' = Children(Prev(f))
  <2> DEFINE x == SessionOf(e)
  <2>1. x \in SessionIds /\ x # s /\ f \in EdgesOf(x)
    BY <1>5, <1>7 DEF ClaimsInv, ExposureInv
  <2>2. Prev(f) \in States
    BY <2>1, MessageTypes DEF EdgesOf, Prev
  <2>3. Prev(f) = x \/ Prev(f) \in EdgesOf(x)
    <3>1. f \in StateHashes /\ Continues(f) /\ SessionOf(f) = x
      BY <2>1 DEF EdgesOf, ClaimsInv, ExistInv
    <3> QED BY <3>1 DEF Continues, FollowsEdge, EdgesOf, SessionOf, Prev
  <2>4. CASE SubmitNewEdge(c, pred, succ)
    <3>1. ~edge[n].exists /\ ReachableParent(n)
      BY <2>4 DEF SubmitNewEdge
    <3>2. Prev(f) # Prev(n)
      BY <1>1, <2>1, <2>3, <3>1, NewEdgePlace
    <3>3. \A y \in StateHashes : edge'[y].exists <=> (y = n \/ edge[y].exists)
      BY <1>1, <1>3 DEF SubmitLeaves
    <3> QED BY <1>1, <2>2, <3>2, <3>3, NewEdgeSets
  <2>5. CASE SubmitWrapper(c, pred, succ)
    <3>1. edge[n].exists
      BY <2>5 DEF SubmitWrapper
    <3>2. \A y \in StateHashes : edge'[y].exists <=> edge[y].exists
      BY <1>3, <3>1 DEF SubmitLeaves
    <3> QED BY <3>2 DEF Children
  <2> QED BY <1>2, <2>4, <2>5
<1> QED BY <1>6, <1>7, VerdictKept

\* classify_edge reads the fork record of the parent state and the verdict of
\* the parent edge, which together decide the whole branch.
LEMMA ClassifyVerdict ==
  ASSUME SafetyInv, ClaimsInv, FinalInv, ClassificationExact,
         NEW e \in StateHashes, ClassifyEdge(e)
  PROVE  ClassificationExact'
<1> DEFINE p == Prev(e)
           many == Cardinality(Children(p)) >= 2
<1>1. p \in States /\ TypeOK
  BY MessageTypes DEF Prev, SafetyInv
<1>2. PICK base \in Nat, v \in BOOLEAN :
        /\ v = (InheritsConflict(e) \/ fork[p].branch_count >= 2)
        /\ edge' = [edge EXCEPT ![e] = [edge[e] EXCEPT !.classified = TRUE,
                                                       !.conflicting = v,
                                                       !.allocated_amount = base]]
        /\ session' = [session EXCEPT ![SessionOf(e)] =
                         SessionWithClassified(session[SessionOf(e)], e, base)]
  BY <1>1, ClassifyEdgeWrites DEF Prev
<1>3. /\ \A x \in StateHashes : x # e => edge'[x] = edge[x]
      /\ edge'[e].classified /\ (edge'[e].conflicting <=> v)
      /\ \A x \in StateHashes : edge'[x].exists <=> edge[x].exists
  BY <1>1, <1>2 DEF TypeOK, StateEdgeRecord
<1>4. \A x : Children(x)' = Children(x)
  BY <1>3 DEF Children
<1>5. \A x \in StateHashes : Tainted(x)' <=> Tainted(x)
  BY <1>4 DEF Tainted
<1>6. fork[p].branch_count >= 2 <=> many
  BY <1>1 DEF ClaimsInv, ForkInv
<1>7. v <=> Tainted(e)
  <2>1. CASE Transition[e].sequence = 1 /\ p = SessionOf(e)
    <3>1. p \notin StateHashes
      BY <2>1, MessageTypes, SetAssumption
    <3>2. Branch[e] = {e}
      BY <3>1, BranchUnfold
    <3>3. Tainted(e) <=> many
      BY <3>2 DEF Tainted
    <3> QED BY <1>2, <1>6, <2>1, <3>3 DEF InheritsConflict
  <2>2. CASE /\ Transition[e].sequence # 1 /\ p \in StateHashes
             /\ edge[p].classified
    <3>1. Branch[e] = {e} \cup Branch[p]
      BY <2>2, BranchUnfold
    <3>2. Tainted(e) <=> (many \/ Tainted(p))
      BY <3>1 DEF Tainted
    <3>3. InheritsConflict(e) <=> edge[p].conflicting
      BY <2>2 DEF InheritsConflict, Prev
    <3>4. edge[p].conflicting <=> Tainted(p)
      BY <2>2, VerdictMeans
    <3> QED BY <1>2, <1>6, <3>2, <3>3, <3>4
  <2> QED BY <2>1, <2>2
          DEF ClassifyEdge, ParentAllowsClassification, FollowsEdge, Prev, SessionOf
<1>8. \A x \in StateHashes :
        edge'[x].classified => (edge'[x].conflicting <=> Tainted(x)')
  <2> SUFFICES ASSUME NEW x \in StateHashes, edge'[x].classified
               PROVE  edge'[x].conflicting <=> Tainted(x)
    BY <1>5
  <2>1. CASE x = e
    BY <1>3, <1>7, <2>1
  <2>2. CASE x # e
    BY <1>3, <2>2, VerdictMeans
  <2> QED BY <2>1, <2>2
<1> QED BY <1>8, VerdictMeansNext

LEMMA VerdictStep ==
  SafetyInv /\ ClaimsInv /\ FinalInv /\ ClassificationExact /\ [Next]_vars
    => ClassificationExact'
<1> SUFFICES ASSUME SafetyInv, ClaimsInv, FinalInv, ClassificationExact, [Next]_vars
             PROVE  ClassificationExact'
  OBVIOUS
<1>t. TypeOK /\ edge \in [StateHashes -> StateEdgeRecord]
  BY DEF SafetyInv, TypeOK
<1>u. edge' = edge => ClassificationExact'
  BY SameVerdicts DEF SameVerdict
<1>1. CASE \/ InitializeProtocol \/ CreateVault \/ Tick
           \/ \E a \in Signers, b \in BOOLEAN : SetPaused(a, b)
           \/ \E t \in Times : CreateUserProfile(t)
           \/ \E n \in Amounts : DepositCollateral(n) \/ DonateTokens(n)
                                  \/ WithdrawCollateral(n)
  BY <1>1, <1>u
     DEF InitializeProtocol, CreateVault, Tick, SetPaused, CreateUserProfile,
         DepositCollateral, DonateTokens, WithdrawCollateral, claimVars
<1>2. CASE \/ \E s \in SessionIds, locked, limit \in Amounts, t \in Times :
                CreateOfflineSession(s, locked, limit, t)
           \/ \E s \in SessionIds : \/ RegisterDeviceAuthorization(s)
                                    \/ BeginFinalization(s) \/ CloseSession(s)
  BY <1>2, <1>u
     DEF CreateOfflineSession, RegisterDeviceAuthorization, BeginFinalization,
         CloseSession, claimVars
<1>3. ASSUME NEW c \in Creds, SubmitClaim(c) PROVE ClassificationExact'
  BY <1>3, SubmitVerdicts DEF SubmitClaim
<1>4. ASSUME NEW e \in StateHashes, ClassifyEdge(e) PROVE ClassificationExact'
  BY <1>4, ClassifyVerdict
<1>5. ASSUME NEW c \in Creds, AllocateNextClaim(c) PROVE ClassificationExact'
  <2>1. CASE AllocateRepresentative(c)
    <3>1. PICK a \in Nat, v \in {"Valid", "Conflicting"} :
            edge' = [edge EXCEPT ![EdgeOf(c)] =
                       [edge[EdgeOf(c)] EXCEPT !.allocated_amount = a,
                                               !.allocation_finalized = TRUE]]
      BY <1>t, <2>1, AllocateRepresentativeWrites
    <3>2. \A x \in StateHashes : SameVerdict(edge'[x], edge[x])
      BY <1>t, <3>1, MessageTypes DEF SameVerdict, StateEdgeRecord
    <3> QED BY <3>2, SameVerdicts
  <2>2. CASE SkipDuplicate(c)
    BY <1>u, <2>2 DEF SkipDuplicate
  <2> QED BY <1>5, <2>1, <2>2 DEF AllocateNextClaim
<1>6. ASSUME NEW c \in Creds, SettleClaim(c) PROVE ClassificationExact'
  <2>1. edge' = [edge EXCEPT ![EdgeOf(c)] = [edge[EdgeOf(c)] EXCEPT
                               !.settled_amount = claim[c].allocated_amount]]
    BY <1>6, <1>t, SettleClaimWrites
  <2>2. \A x \in StateHashes : SameVerdict(edge'[x], edge[x])
    BY <1>t, <2>1, MessageTypes DEF SameVerdict, StateEdgeRecord
  <2> QED BY <2>2, SameVerdicts
<1>7. CASE UNCHANGED vars
  BY <1>7, <1>u DEF vars, claimVars
<1> QED BY <1>1, <1>2, <1>3, <1>4, <1>5, <1>6, <1>7 DEF Next

\* In whatever order the edges of a session are classified, an edge is found
\* conflicting exactly when it or an edge it descends from has a sibling
\* (classify_edge).
THEOREM ClassificationAlwaysExact == Spec => []ClassificationExact
<1>1. Init => ClassificationExact
  BY DEF Init, EmptyEdge, ClassificationExact
<1> QED BY <1>1, VerdictStep, SafetyInvariant, ClaimsInvariant, FinalInvariant, PTL DEF Spec
=============================================================================
