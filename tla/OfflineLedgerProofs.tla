------------------------- MODULE OfflineLedgerProofs ------------------------
(***************************************************************************)
(* Proofs about the host's view of a session: the warnings of a merchant's *)
(* own history are never false alarms, and the auditor's reconstruction    *)
(* mirrors the chain.  The host's loops are folds, which no prover can     *)
(* unfold by induction: each one is shown to be a function of the set of   *)
(* steps taken that satisfies its recursive equation, and what it computes *)
(* follows from the smallest set of steps that would be a counterexample.  *)
(***************************************************************************)
EXTENDS OfflineGuaranteeSettlementProofs, OfflineLedger

(***************************************************************************)
(* The merchant's warnings.  What a proof bundle describes is the branch   *)
(* below its payment, climbed one hash pointer at a time.                  *)
(***************************************************************************)
Climb(S) == S \cup ({Transition[x].previous_state : x \in S} \cap StateHashes)

Climbs(g, e, n) == g = [k \in 0..n |-> IF k = 0 THEN {e} ELSE Climb(g[k - 1])]

LEMMA ClimbsExist ==
  ASSUME NEW e
  PROVE  \A n \in Nat : \E g : Climbs(g, e, n)
<1> DEFINE T == {n \in Nat : ~\E g : Climbs(g, e, n)}
<1> SUFFICES ASSUME T # {} PROVE FALSE
  OBVIOUS
<1>1. PICK n \in T : \A m \in T : n <= m
  BY NatMin
<1>2. CASE n = 0
  <2> DEFINE g == [k \in 0..n |-> {e}]
  <2>1. \A k \in 0..n : k = 0
    BY <1>2
  <2>2. Climbs(g, e, n)
    BY <2>1 DEF Climbs
  <2> QED BY <2>2
<1>3. CASE n > 0
  <2>0. n \in Nat /\ n - 1 \in Nat /\ n - 1 \notin T
    BY <1>1, <1>3
  <2>1. PICK h : Climbs(h, e, n - 1)
    BY <2>0
  <2> DEFINE g == [k \in 0..n |-> IF k = 0 THEN {e} ELSE Climb(h[k - 1])]
  <2>2. \A k \in 0..n - 1 : k \in 0..n
    BY <2>0
  <2>3. \A k \in 0..n - 1 : g[k] = h[k]
    BY <2>1, <2>2 DEF Climbs
  <2>4. \A k \in 0..n : k # 0 => k - 1 \in 0..n - 1
    BY <2>0
  <2>5. \A k \in 0..n : g[k] = IF k = 0 THEN {e} ELSE Climb(g[k - 1])
    BY <2>3, <2>4
  <2>6. g = [k \in 0..n |-> g[k]]
    OBVIOUS
  <2> HIDE DEF g
  <2>7. Climbs(g, e, n)
    BY <2>5, <2>6 DEF Climbs
  <2> QED BY <2>0, <2>7
<1> QED BY <1>2, <1>3

LEMMA LineageInBranch ==
  ASSUME NEW e \in StateHashes
  PROVE  Lineage(e) \subseteq Branch[e]
<1>m. MaxBranchDepth \in Nat
  BY NumberAssumption
<1> DEFINE g == CHOOSE h : Climbs(h, e, MaxBranchDepth)
<1>1. Climbs(g, e, MaxBranchDepth)
  BY <1>m, ClimbsExist
<1>2. Lineage(e) = g[MaxBranchDepth]
  BY DEF Lineage, Climbs, Climb
<1> HIDE DEF g
<1> DEFINE InBranch(k) == \A x \in g[k] : x \in StateHashes /\ Branch[x] \subseteq Branch[e]
           T == {k \in 0..MaxBranchDepth : ~InBranch(k)}
<1>3. T = {}
  <2> SUFFICES ASSUME T # {} PROVE FALSE
    OBVIOUS
  <2>1. PICK k \in T : \A m \in T : k <= m
    <3>1. T \subseteq Nat
      BY <1>m
    <3> HIDE DEF T
    <3> QED BY <3>1, NatMin
  <2>2. k \in 0..MaxBranchDepth /\ k \in Nat /\ ~InBranch(k)
    BY <1>m, <2>1
  <2>3. k # 0
    BY <1>1, <2>2 DEF Climbs
  <2>4. k - 1 \in 0..MaxBranchDepth /\ k - 1 \notin T
    BY <1>m, <2>1, <2>2, <2>3
  <2>5. InBranch(k - 1)
    BY <2>4
  <2>6. g[k] = Climb(g[k - 1])
    BY <1>1, <2>2, <2>3 DEF Climbs
  <2>7. ASSUME NEW x \in g[k - 1], Transition[x].previous_state \in StateHashes
        PROVE  Branch[Transition[x].previous_state] \subseteq Branch[e]
    <3>1. x \in StateHashes /\ Branch[x] \subseteq Branch[e]
      BY <2>5
    <3>2. Branch[Prev(x)] \subseteq Branch[x]
      BY <2>7, <3>1, BranchUnfold DEF Prev
    <3> QED BY <3>1, <3>2 DEF Prev
  <2>8. InBranch(k)
    BY <2>5, <2>6, <2>7 DEF Climb
  <2> QED BY <2>2, <2>8
<1>4. InBranch(MaxBranchDepth)
  BY <1>m, <1>3
<1>5. \A x \in StateHashes : x \in Branch[x]
  BY BranchUnfold
<1> QED BY <1>2, <1>4, <1>5

\* A description of a stored claim is an edge of its branch.
LEMMA Described ==
  ASSUME NEW C \in SUBSET Creds, NEW d \in ClaimDescriptors(C)
  PROVE  /\ d.claim \in C
         /\ d.result \in Branch[EdgeOf(d.claim)]
         /\ d.parent = Prev(d.result)
<1>1. PICK c \in C :
        d \in {[claim |-> c, session |-> SessionOf(e),
                parent |-> Transition[e].previous_state,
                sequence |-> Transition[e].sequence, result |-> e]
                 : e \in Lineage(EdgeOf(c))}
  BY DEF ClaimDescriptors
<1>2. PICK e \in Lineage(EdgeOf(c)) :
        d = [claim |-> c, session |-> SessionOf(e),
             parent |-> Transition[e].previous_state,
             sequence |-> Transition[e].sequence, result |-> e]
  BY <1>1
<1>3. EdgeOf(c) \in StateHashes
  BY MessageTypes
<1>4. e \in Branch[EdgeOf(c)]
  BY <1>3, LineageInBranch
<1> QED BY <1>2, <1>4 DEF Prev

LEMMA TwoChildren ==
  ASSUME NEW e \in StateHashes, NEW f \in StateHashes, e # f,
         edge[e].exists, edge[f].exists, Prev(e) = Prev(f)
  PROVE  Cardinality(Children(Prev(e))) >= 2
<1>1. {e, f} \subseteq Children(Prev(e))
  BY DEF Children, Prev
<1>2. IsFiniteSet({e}) /\ Cardinality({e}) = 1
  BY FS_Singleton
<1>3. {e, f} = {e} \cup {f}
  OBVIOUS
<1>4. Cardinality({e, f}) = 2
  <2>1. Cardinality({e} \cup {f}) = Cardinality({e}) + 1
    BY <1>2, FS_AddElement
  <2> QED BY <1>2, <1>3, <2>1
<1>5. /\ IsFiniteSet(Children(Prev(e))) /\ Cardinality(Children(Prev(e))) \in Nat
  BY SetsFinite
<1>6. Cardinality({e, f}) <= Cardinality(Children(Prev(e)))
  BY <1>1, <1>5, FS_Subset
<1> QED BY <1>4, <1>5, <1>6

\* For any history and branches of any length: a claim that a merchant's own
\* bundles show as part of a fork is one that the program classifies as
\* conflicting (findPotentialConflictHashes against classify_edge).
THEOREM WarningsAlwaysConfirmed == Spec => []LocalWarningsConfirmed
<1>1. ASSUME ClaimsInv, FinalInv, ClassificationExact PROVE LocalWarningsConfirmed
  <2> SUFFICES ASSUME NEW s \in SessionIds, NEW m \in Merchants, Allocated(s)
               PROVE  LET history == {c \in Creds :
                                        /\ claim[c].status # "None"
                                        /\ SessionOf(EdgeOf(c)) = s
                                        /\ Transition[EdgeOf(c)].merchant = m}
                      IN  \A c \in FindPotentialConflictHashes(ClaimDescriptors(history)) :
                            edge[EdgeOf(c)].conflicting
    BY DEF LocalWarningsConfirmed
  <2> DEFINE history == {c \in Creds : /\ claim[c].status # "None"
                                       /\ SessionOf(EdgeOf(c)) = s
                                       /\ Transition[EdgeOf(c)].merchant = m}
             D == ClaimDescriptors(history)
  <2>1. \A c \in history : EdgeOf(c) \in EdgesOf(s) /\ EdgeOf(c) \in StateHashes
    BY <1>1, MessageTypes DEF ClaimsInv, ExistInv, EdgesOf
  <2>2. history \in SUBSET Creds
    OBVIOUS
  <2> HIDE DEF history
  <2>3. \A d \in D : /\ d.claim \in history /\ d.parent = Prev(d.result)
                     /\ d.result \in Branch[EdgeOf(d.claim)]
    BY <2>2, Described
  <2> HIDE DEF D
  <2>4. \A d \in D : d.result \in StateHashes /\ edge[d.result].exists
    <3>1. \A c \in history : Branch[EdgeOf(c)] \subseteq EdgesOf(s)
      BY <1>1, <2>1 DEF ClaimsInv, ExposureInv
    <3> QED BY <2>3, <3>1 DEF EdgesOf
  <2>5. ASSUME NEW c \in FindPotentialConflictHashes(D)
        PROVE  edge[EdgeOf(c)].conflicting
    <3>1. PICK x \in D : /\ c = x.claim
                         /\ \E y \in D : y.parent = x.parent /\ y.result # x.result
      BY DEF FindPotentialConflictHashes
    <3>2. PICK y \in D : y.parent = x.parent /\ y.result # x.result
      BY <3>1
    <3>3. Cardinality(Children(Prev(x.result))) >= 2
      BY <2>3, <2>4, <3>2, TwoChildren
    <3>4. c \in history /\ x.result \in Branch[EdgeOf(c)]
      BY <2>3, <3>1
    <3>5. edge[EdgeOf(c)].classified
      <4>1. EdgeOf(c) \in Classified(s)
        BY <1>1, <2>1, <3>4 DEF FinalInv, SessionInv, PhaseInv, Allocated
      <4> QED BY <4>1 DEF Classified
    <3> QED BY <1>1, <2>1, <3>3, <3>4, <3>5 DEF ClassificationExact, Prev
  <2> QED BY <2>5 DEF history, D
<1> QED BY <1>1, ClaimsInvariant, FinalInvariant, ClassificationAlwaysExact, PTL

-----------------------------------------------------------------------------
(***************************************************************************)
(* What the program checked stays true: the terms of a session make an     *)
(* acceptable certificate, a claim on chain keeps to them, and an edge     *)
(* still has the parent it was accepted with.                              *)
(***************************************************************************)
ClaimTerms(c) ==
  LET t == Transition[EdgeOf(c)]
      r == session[t.session]
  IN  /\ Authentic(c) /\ t.amount > 0 /\ t.sequence \in 1..MaxBranchDepth
      /\ Credential[c].created_at \in r.issued_at..r.expires_at
      /\ Credential[c].session_expires_at = r.expires_at
      /\ t.previous_remaining <= r.branch_spending_limit

TermsInv ==
  /\ \A s \in SessionIds :
       /\ session[s].status # "None" => ValidateCertificateChain(SessionCertificate(s))
       /\ session[s].aggregate_offline_exposure <= U64Max
  /\ \A c \in Creds : claim[c].status # "None" => ClaimTerms(c)
  /\ \A e \in StateHashes : edge[e].exists => ReachableParent(e)

SameTerms(q, r) ==
  /\ q.branch_spending_limit = r.branch_spending_limit
  /\ q.collateral_coverage_cap = r.collateral_coverage_cap
  /\ q.issued_at = r.issued_at /\ q.expires_at = r.expires_at
  /\ q.claim_submission_deadline = r.claim_submission_deadline
  /\ (q.status = "None") <=> (r.status = "None")

LEMMA SameTermsKeep ==
  ASSUME NEW s \in SessionIds, SameTerms(session'[s], session[s])
  PROVE  /\ SessionCertificate(s)' = SessionCertificate(s)
         /\ \A c \in Creds : SessionOf(EdgeOf(c)) = s => (ClaimTerms(c)' <=> ClaimTerms(c))
<1>1. SessionCertificate(s)' = SessionCertificate(s)
  BY DEF SessionCertificate, SameTerms
<1>2. \A c \in Creds : SessionOf(EdgeOf(c)) = s => (ClaimTerms(c)' <=> ClaimTerms(c))
  BY DEF ClaimTerms, SameTerms, SessionOf
<1> QED BY <1>1, <1>2

\* What happens to the edges on chain, when the sessions that have some keep
\* their terms.
LEMMA ParentsKept ==
  ASSUME ClaimsInv,
         \A x \in SessionIds : session[x].status # "None" => SameTerms(session'[x], session[x]),
         \A x \in StateHashes : edge[x].exists => edge'[x].exists,
         NEW e \in StateHashes, session[SessionOf(e)].status # "None", ReachableParent(e)
  PROVE  ReachableParent(e)'
<1>1. SessionOf(e) \in SessionIds
  BY MessageTypes
<1>2. session'[SessionOf(e)].branch_spending_limit = session[SessionOf(e)].branch_spending_limit
  BY <1>1 DEF SameTerms
<1>3. FollowsEdge(e) => FollowsEdge(e)'
  BY DEF FollowsEdge
<1> QED BY <1>2, <1>3 DEF ReachableParent, SessionOf

\* No claim comes in and no session starts.
LEMMA TermsUntouched ==
  ASSUME ClaimsInv, TermsInv,
         \A x \in SessionIds : /\ SameTerms(session'[x], session[x])
                               /\ session'[x].aggregate_offline_exposure
                                    = session[x].aggregate_offline_exposure,
         \A c \in Creds : (claim'[c].status = "None") <=> (claim[c].status = "None"),
         \A e \in StateHashes : edge'[e].exists = edge[e].exists
  PROVE  TermsInv'
<1>1. \A c \in Creds : SessionOf(EdgeOf(c)) \in SessionIds
  BY MessageTypes
<1>2. \A s \in SessionIds : /\ SessionCertificate(s)' = SessionCertificate(s)
                            /\ session'[s].status = "None" <=> session[s].status = "None"
  BY SameTermsKeep DEF SameTerms
<1>3. \A s \in SessionIds :
        session'[s].status # "None" => ValidateCertificateChain(SessionCertificate(s))'
  BY <1>2 DEF TermsInv, ValidateCertificateChain
<1>4. \A c \in Creds : claim'[c].status # "None" => ClaimTerms(c)'
  BY <1>1, SameTermsKeep DEF TermsInv
<1>5. \A e \in StateHashes : edge'[e].exists => ReachableParent(e)'
  BY ParentsKept DEF TermsInv, ClaimsInv, ExistInv
<1> QED BY <1>3, <1>4, <1>5 DEF TermsInv

LEMMA NewTerms ==
  ASSUME TypeOK, ClaimsInv, TermsInv, NEW s \in SessionIds, NEW locked \in Nat, NEW limit \in Nat,
         NEW t \in Nat, CreateOfflineSession(s, locked, limit, t)
  PROVE  TermsInv'
<1> DEFINE r == NewSession(locked, limit, t)
<1>1. /\ claim' = claim /\ edge' = edge /\ session[s].status = "None"
      /\ session' = [session EXCEPT ![s] = r]
      /\ ValidSessionEconomics(locked, limit) /\ ValidSessionWindow(t)
  BY DEF CreateOfflineSession, claimVars
<1>2. /\ r.collateral_coverage_cap = locked /\ r.branch_spending_limit = limit
      /\ r.issued_at = now /\ r.expires_at = t /\ r.aggregate_offline_exposure = 0
      /\ r.claim_submission_deadline = t + ClaimGracePeriod
  BY DEF NewSession, EmptySession
<1> HIDE DEF r
<1>3. session'[s] = r /\ \A x \in SessionIds : x # s => session'[x] = session[x]
  BY <1>1 DEF TypeOK
<1>4. \A x \in SessionIds : session[x].status # "None" => SameTerms(session'[x], session[x])
  BY <1>1, <1>3 DEF SameTerms
<1>5. \A x \in SessionIds : x # s => SessionCertificate(x)' = SessionCertificate(x)
  BY <1>3 DEF SessionCertificate
<1>6. ValidateCertificateChain(SessionCertificate(s))'
  <2>1. SessionCertificate(s)' =
          [session |-> s, issued_at |-> now, expires_at |-> t,
           claim_submission_deadline |-> t + ClaimGracePeriod,
           branch_spending_limit |-> limit, collateral_coverage_cap |-> locked,
           max_branch_depth |-> MaxBranchDepth]
    BY <1>2, <1>3 DEF SessionCertificate
  <2>2. now \in Nat
    BY DEF TypeOK
  <2> QED BY <1>1, <2>1, <2>2, NumberAssumption
          DEF ValidateCertificateChain, ValidSessionEconomics, ValidSessionWindow,
              MINIMUM_COLLATERAL_RATIO_BPS, BPS_DENOMINATOR
<1>7. \A x \in SessionIds :
        session'[x].status # "None" => ValidateCertificateChain(SessionCertificate(x))'
  BY <1>3, <1>5, <1>6 DEF TermsInv, ValidateCertificateChain
<1>8. \A x \in SessionIds : session'[x].aggregate_offline_exposure <= U64Max
  BY <1>2, <1>3, NumberAssumption DEF TermsInv
<1>9. \A c \in Creds : claim[c].status # "None" =>
        /\ SessionOf(EdgeOf(c)) \in SessionIds
        /\ session[SessionOf(EdgeOf(c))].status # "None"
  BY MessageTypes DEF ClaimsInv, ExistInv
<1>10. \A c \in Creds : claim'[c].status # "None" => ClaimTerms(c)'
  BY <1>1, <1>4, <1>9, SameTermsKeep DEF TermsInv
<1>11. \A e \in StateHashes : edge'[e].exists => ReachableParent(e)'
  BY <1>1, <1>4, ParentsKept DEF TermsInv, ClaimsInv, ExistInv
<1> QED BY <1>7, <1>8, <1>10, <1>11 DEF TermsInv

LEMMA SubmitKeepsTerms ==
  ASSUME NEW r \in OfflineSession, r.status # "None"
  PROVE  /\ \A c, pred, succ : SameTerms(SessionWithClaim(r, c, pred, succ), r)
         /\ \A e, b : SameTerms(SessionWithEdge(r, e, b), r)
<1>1. \A c, pred, succ : SameTerms(SessionWithClaim(r, c, pred, succ), r)
  BY DEF SameTerms, SessionWithClaim, OfflineSession
<1>2. \A e, b : SameTerms(SessionWithEdge(r, e, b), r)
  BY DEF SameTerms, SessionWithEdge, OfflineSession
<1> QED BY <1>1, <1>2

LEMMA SubmitSameTerms ==
  ASSUME TypeOK, NEW c \in Creds, NEW pred, NEW succ, SubmitClaimWith(c, pred, succ)
  PROVE  \A x \in SessionIds : SameTerms(session'[x], session[x])
<1> DEFINE e == EdgeOf(c)
           s == SessionOf(e)
           r == session[s]
<1>1. e \in StateHashes /\ s \in SessionIds /\ r \in OfflineSession /\ r.status # "None"
  BY MessageTypes DEF TypeOK, SubmitClaimWith, ClaimsOpen
<1>2. \A x : SameTerms(x, x)
  BY DEF SameTerms
<1>3. CASE SubmitNewEdge(c, pred, succ)
  <2> DEFINE b == ConfirmsFork(Transition[e].previous_state)
             q == SessionWithEdge(r, e, b)
  <2>1. session' = [session EXCEPT ![s] = SessionWithClaim(q, c, pred, succ)]
    BY <1>3 DEF SubmitNewEdge
  <2>2. q \in OfflineSession /\ SameTerms(q, r)
    <3>1. b \in BOOLEAN /\ Transition[e].amount \in Nat
      BY <1>1, MessageTypes DEF ConfirmsFork
    <3>2. q \in OfflineSession
      BY <1>1, <3>1, SessionWithEdgeType
    <3> QED BY <1>1, <3>2, SubmitKeepsTerms
  <2> HIDE DEF q
  <2>3. SameTerms(SessionWithClaim(q, c, pred, succ), q)
    BY <1>1, <2>2, SubmitKeepsTerms DEF SameTerms
  <2>4. SameTerms(SessionWithClaim(q, c, pred, succ), r)
    BY <2>2, <2>3 DEF SameTerms
  <2> QED BY <1>1, <1>2, <2>1, <2>4 DEF TypeOK
<1>4. CASE SubmitWrapper(c, pred, succ)
  <2>1. session' = [session EXCEPT ![s] = SessionWithClaim(r, c, pred, succ)]
    BY <1>4 DEF SubmitWrapper
  <2>2. SameTerms(SessionWithClaim(r, c, pred, succ), r)
    BY <1>1, SubmitKeepsTerms
  <2> QED BY <1>1, <1>2, <2>1, <2>2 DEF TypeOK
<1> QED BY <1>3, <1>4 DEF SubmitClaimWith

LEMMA SubmitTerms ==
  ASSUME SafetyInv, ClaimsInv, TermsInv, NEW c \in Creds,
         NEW pred \in Creds \cup {NoClaim}, NEW succ \in Creds \cup {NoClaim},
         SubmitClaimWith(c, pred, succ)
  PROVE  TermsInv'
<1> DEFINE e == EdgeOf(c)
           s == SessionOf(e)
<1>t. TypeOK
  BY DEF SafetyInv
<1>1. e \in StateHashes /\ s \in SessionIds /\ session[s].status # "None"
  BY MessageTypes DEF SubmitClaimWith, ClaimsOpen
<1>2. \A x \in SessionIds : SameTerms(session'[x], session[x])
  BY <1>t, SubmitSameTerms
<1>3. /\ \A x \in SessionIds : session'[x].aggregate_offline_exposure <= U64Max
      /\ \A x \in StateHashes : edge[x].exists => edge'[x].exists
      /\ \A x \in StateHashes : edge'[x].exists /\ ~edge[x].exists =>
           x = e /\ ReachableParent(e)
      /\ \A x \in Creds : claim'[x].status # "None" => x = c \/ claim[x].status # "None"
  <2>1. CASE SubmitNewEdge(c, pred, succ)
    <3>1. /\ session[s].aggregate_offline_exposure + Transition[e].amount <= U64Max
          /\ ReachableParent(e)
      BY <2>1 DEF SubmitNewEdge
    <3>2. /\ ListWritten(s, c, pred, succ)
          /\ EdgeWritten(e, s, Transition[e].previous_state,
                         ConfirmsFork(Transition[e].previous_state))
      BY <1>t, <2>1, SubmitNewEdgeWrites
    <3> QED BY <3>1, <3>2 DEF ListWritten, EdgeWritten, TermsInv
  <2>2. CASE SubmitWrapper(c, pred, succ)
    <3>1. /\ ListWritten(s, c, pred, succ)
          /\ \A x \in StateHashes : edge'[x].exists = edge[x].exists
          /\ \A x \in SessionIds : session'[x].aggregate_offline_exposure
                                     = session[x].aggregate_offline_exposure
      BY <1>t, <2>2, SubmitWrapperWrites
    <3> QED BY <3>1 DEF ListWritten, TermsInv
  <2> QED BY <2>1, <2>2 DEF SubmitClaimWith
<1>4. ClaimTerms(c)
  <2>1. ValidClaimPayload(c)
    BY DEF SubmitClaimWith
  <2>2. Credential[c].created_at \in Nat
    BY MessageAssumption DEF CredentialRecord
  <2>3. session[s] \in OfflineSession
    BY <1>1, <1>t DEF TypeOK
  <2>4. session[s].issued_at \in Nat /\ session[s].expires_at \in Nat
    BY <2>3, SessionFieldTypes
  <2> QED BY <2>1, <2>2, <2>4 DEF ValidClaimPayload, ClaimTerms, SessionOf
<1>5. \A x \in SessionIds :
        session'[x].status # "None" => ValidateCertificateChain(SessionCertificate(x))'
  <2>1. \A x \in SessionIds : /\ SessionCertificate(x)' = SessionCertificate(x)
                              /\ session'[x].status = "None" <=> session[x].status = "None"
    BY <1>2, SameTermsKeep DEF SameTerms
  <2> QED BY <2>1 DEF TermsInv, ValidateCertificateChain
<1>6. \A x \in Creds : claim'[x].status # "None" => ClaimTerms(x)'
  <2>1. \A x \in Creds : SessionOf(EdgeOf(x)) \in SessionIds
    BY MessageTypes
  <2>2. \A x \in Creds : claim'[x].status # "None" => ClaimTerms(x)
    BY <1>3, <1>4 DEF TermsInv
  <2> QED BY <1>2, <2>1, <2>2, SameTermsKeep
<1>7. \A x \in StateHashes : edge'[x].exists => ReachableParent(x)'
  <2>1. \A x \in StateHashes : edge'[x].exists =>
          ReachableParent(x) /\ session[SessionOf(x)].status # "None"
    BY <1>1, <1>3 DEF TermsInv, ClaimsInv, ExistInv
  <2> QED BY <1>2, <1>3, <2>1, ParentsKept
<1> QED BY <1>3, <1>5, <1>6, <1>7 DEF TermsInv

LEMMA TermsInit == Init => TermsInv
<1> SUFFICES ASSUME Init PROVE TermsInv
  OBVIOUS
<1>1. /\ \A s \in SessionIds : /\ session[s].status = "None"
                               /\ session[s].aggregate_offline_exposure = 0
      /\ \A c \in Creds : claim[c].status = "None"
      /\ \A e \in StateHashes : ~edge[e].exists
  BY DEF Init, EmptySession, EmptyClaim, EmptyEdge
<1> QED BY <1>1, NumberAssumption DEF TermsInv

LEMMA TermsStep == SafetyInv /\ ClaimsInv /\ TermsInv /\ [Next]_vars => TermsInv'
<1> SUFFICES ASSUME SafetyInv, ClaimsInv, TermsInv, [Next]_vars PROVE TermsInv'
  OBVIOUS
<1>t. TypeOK
  BY DEF SafetyInv
<1>1. CASE Quiet
  <2>1. \A x \in SessionIds : /\ SameTerms(session'[x], session[x])
                              /\ session'[x].aggregate_offline_exposure
                                   = session[x].aggregate_offline_exposure
    BY <1>1 DEF Quiet, SameSession, SameTerms
  <2>2. /\ \A c \in Creds : (claim'[c].status = "None") <=> (claim[c].status = "None")
        /\ \A e \in StateHashes : edge'[e].exists = edge[e].exists
    BY <1>1 DEF Quiet, SameClaim, SameEdge
  <2> QED BY <2>1, <2>2, TermsUntouched
<1>2. ASSUME NEW t \in Times, CreateUserProfile(t) PROVE TermsInv'
  <2>1. session' = session /\ claim' = claim /\ edge' = edge
    BY <1>2 DEF CreateUserProfile, claimVars
  <2> QED BY <2>1, TermsUntouched DEF SameTerms
<1>3. ASSUME NEW s \in SessionIds, NEW locked \in Amounts, NEW limit \in Amounts,
             NEW t \in Times, CreateOfflineSession(s, locked, limit, t)
      PROVE  TermsInv'
  <2>1. locked \in Nat /\ limit \in Nat /\ t \in Nat
    BY NumberAssumption DEF Times
  <2> QED BY <1>3, <1>t, <2>1, NewTerms
<1>4. ASSUME NEW c \in Creds, SubmitClaim(c) PROVE TermsInv'
  BY <1>4, SubmitTerms DEF SubmitClaim
<1> QED BY <1>1, <1>2, <1>3, <1>4, StepKinds DEF Eventful

LEMMA TermsInvariant == Spec => []TermsInv
BY TermsInit, TermsStep, ClaimsInvariant, SafetyInvariant, PTL DEF Spec

-----------------------------------------------------------------------------
(***************************************************************************)
(* Folds in ascending order.  The three loops of the host are the fold of  *)
(* one operator each; Work puts them together, so that one lemma shows     *)
(* that the recursive function behind a fold exists.                       *)
(***************************************************************************)
LEMMA MaxFacts ==
  ASSUME NEW S, S \subseteq Nat, IsFiniteSet(S)
  PROVE  \A s \in SUBSET S : s # {} =>
           /\ Max(s) \in s /\ \A y \in s : y <= Max(s)
           /\ s \ {Max(s)} \in SUBSET S
           /\ IsFiniteSet(s) /\ Cardinality(s) \in Nat /\ Cardinality(s) > 0
           /\ Cardinality(s \ {Max(s)}) = Cardinality(s) - 1
<1> DEFINE HasMax(s) == \E x \in s : \A y \in s : y <= x
           T == {Cardinality(s) : s \in {t \in SUBSET S : t # {} /\ ~HasMax(t)}}
<1>f. \A s \in SUBSET S : IsFiniteSet(s) /\ Cardinality(s) \in Nat
  BY FS_Subset, FS_CardinalityType
<1>1. T = {}
  <2> SUFFICES ASSUME T # {} PROVE FALSE
    OBVIOUS
  <2>1. PICK n \in T : \A m \in T : n <= m
    BY <1>f, NatMin
  <2>2. PICK s \in SUBSET S : s # {} /\ ~HasMax(s) /\ n = Cardinality(s)
    OBVIOUS
  <2>3. PICK x \in s : TRUE
    BY <2>2
  <2> DEFINE t == s \ {x}
  <2>4. t \in SUBSET S /\ Cardinality(t) = n - 1 /\ n \in Nat
    BY <1>f, <2>2, RemoveFacts
  <2>5. t # {}
    BY <2>2
  <2>6. HasMax(t)
    <3> SUFFICES ASSUME ~HasMax(t) PROVE FALSE
      OBVIOUS
    <3> HIDE DEF HasMax, t
    <3>1. n - 1 \in T
      BY <2>4, <2>5
    <3> QED BY <2>1, <2>4, <3>1
  <2>7. PICK z \in t : \A y \in t : y <= z
    BY <2>6
  <2>8. x \in Nat /\ z \in Nat /\ \A y \in s : y \in Nat
    OBVIOUS
  <2>9. CASE x <= z
    BY <2>2, <2>7, <2>8, <2>9
  <2>10. CASE z < x
    <3>1. \A y \in s : y <= x
      BY <2>7, <2>8, <2>10
    <3> QED BY <2>2, <3>1
  <2> QED BY <2>8, <2>9, <2>10
<1> SUFFICES ASSUME NEW s \in SUBSET S, s # {}
             PROVE  /\ Max(s) \in s /\ \A y \in s : y <= Max(s)
                    /\ s \ {Max(s)} \in SUBSET S
                    /\ IsFiniteSet(s) /\ Cardinality(s) \in Nat /\ Cardinality(s) > 0
                    /\ Cardinality(s \ {Max(s)}) = Cardinality(s) - 1
  OBVIOUS
<1>2. HasMax(s)
  BY <1>1
<1>3. Max(s) \in s /\ \A y \in s : y <= Max(s)
  <2>1. PICK x \in s : \A y \in s : y <= x
    BY <1>2
  <2>2. \A y \in s : x >= y
    BY <2>1
  <2>3. Max(s) \in s /\ \A y \in s : Max(s) >= y
    BY <2>2 DEF Max
  <2> QED BY <2>3
<1> QED BY <1>3, <1>f, RemoveFacts

Work(k, x, acc, c) ==
  CASE k = "place" -> PlaceCredential(x, acc, c)
    [] k = "pass" -> IF acc.pending = {} THEN acc ELSE Round(x, acc)
    [] OTHER -> acc \cup {EdgeOf(d) : d \in {y \in x : ParentOf(y) \in acc}}

WorksOn(g, k, x, base, D) ==
  g = [s \in D |-> IF s = {} THEN base ELSE Work(k, x, g[s \ {Max(s)}], Max(s))]

LEMMA WorksUpToExist ==
  ASSUME NEW k, NEW x, NEW base, NEW S, S \subseteq Nat, IsFiniteSet(S)
  PROVE  \A n \in Nat : \E g : WorksOn(g, k, x, base, UpTo(S, n))
<1> DEFINE T == {n \in Nat : ~\E g : WorksOn(g, k, x, base, UpTo(S, n))}
<1> SUFFICES ASSUME T # {} PROVE FALSE
  OBVIOUS
<1>1. PICK n \in T : \A m \in T : n <= m
  BY NatMin
<1>f. \A s \in SUBSET S : IsFiniteSet(s) /\ Cardinality(s) \in Nat
  BY FS_Subset, FS_CardinalityType
<1>2. CASE n = 0
  <2> DEFINE g == [s \in UpTo(S, n) |-> base]
  <2>1. \A s \in UpTo(S, n) : s = {}
    BY <1>2, <1>f, FS_EmptySet DEF UpTo
  <2>2. WorksOn(g, k, x, base, UpTo(S, n))
    BY <2>1 DEF WorksOn
  <2> QED BY <2>2
<1>3. CASE n > 0
  <2>1. PICK h : WorksOn(h, k, x, base, UpTo(S, n - 1))
    BY <1>1, <1>3
  <2> DEFINE g == [s \in UpTo(S, n) |->
                     IF s = {} THEN base ELSE Work(k, x, h[s \ {Max(s)}], Max(s))]
  <2>2. UpTo(S, n - 1) \subseteq UpTo(S, n)
    BY <1>f DEF UpTo
  <2>3. \A s \in UpTo(S, n - 1) : g[s] = h[s]
    BY <2>1, <2>2 DEF WorksOn
  <2>4. ASSUME NEW s \in UpTo(S, n), s # {}
        PROVE  s \ {Max(s)} \in UpTo(S, n - 1)
    <3>1. s \in SUBSET S /\ Cardinality(s) <= n
      BY DEF UpTo
    <3>2. /\ Cardinality(s \ {Max(s)}) = Cardinality(s) - 1 /\ Cardinality(s) \in Nat
          /\ s \ {Max(s)} \in SUBSET S
      BY <3>1, <2>4, MaxFacts
    <3> QED BY <3>1, <3>2 DEF UpTo
  <2>5. \A s \in UpTo(S, n) :
          g[s] = IF s = {} THEN base ELSE Work(k, x, g[s \ {Max(s)}], Max(s))
    BY <2>3, <2>4
  <2>6. g = [s \in UpTo(S, n) |-> g[s]]
    OBVIOUS
  <2> HIDE DEF g
  <2>7. WorksOn(g, k, x, base, UpTo(S, n))
    BY <2>5, <2>6 DEF WorksOn
  <2> QED BY <2>7
<1> QED BY <1>2, <1>3

LEMMA WorksExist ==
  ASSUME NEW k, NEW x, NEW base, NEW S, S \subseteq Nat, IsFiniteSet(S)
  PROVE  \E g : WorksOn(g, k, x, base, SUBSET S)
<1>1. Cardinality(S) \in Nat /\ \A s \in SUBSET S : Cardinality(s) <= Cardinality(S)
  BY FS_Subset, FS_CardinalityType
<1>2. UpTo(S, Cardinality(S)) = SUBSET S
  BY <1>1 DEF UpTo
<1>3. \E g : WorksOn(g, k, x, base, UpTo(S, Cardinality(S)))
  BY <1>1, WorksUpToExist
<1> QED BY <1>2, <1>3

\* The loop over the pending credentials, the passes, and the spreading of a
\* conflict, as functions of the set of steps taken.
Places(g, cert, base, S) ==
  g = [s \in SUBSET S |-> IF s = {} THEN base
                          ELSE PlaceCredential(cert, g[s \ {Max(s)}], Max(s))]

Passes(g, cert, base, S) ==
  g = [s \in SUBSET S |-> IF s = {} THEN base
                          ELSE IF g[s \ {Max(s)}].pending = {} THEN g[s \ {Max(s)}]
                          ELSE Round(cert, g[s \ {Max(s)}])]

Spreads(g, edges, base, S) ==
  g = [s \in SUBSET S |-> IF s = {} THEN base
         ELSE g[s \ {Max(s)}] \cup
                {EdgeOf(c) : c \in {x \in edges : ParentOf(x) \in g[s \ {Max(s)}]}}]

LEMMA PlacesExist ==
  ASSUME NEW cert, NEW base, NEW S, S \subseteq Nat, IsFiniteSet(S)
  PROVE  \E g : /\ Places(g, cert, base, S)
                /\ PlaceAll(cert, base, S) = g[S]
<1> DEFINE g == CHOOSE h : Places(h, cert, base, S)
<1>1. PlaceAll(cert, base, S) = g[S]
  BY DEF FoldAscending, MapThenFoldSet, Places, PlaceAll
<1>2. PICK h : WorksOn(h, "place", cert, base, SUBSET S)
  BY WorksExist
<1>3. Places(h, cert, base, S)
  BY <1>2 DEF WorksOn, Work, Places
<1>4. Places(g, cert, base, S)
  BY <1>3
<1> QED BY <1>1, <1>4

LEMMA PassesExist ==
  ASSUME NEW cert, NEW C,
         IsFiniteSet(EmptyGraph(cert, C).pending)
  PROVE  LET base == EmptyGraph(cert, C)
             N == 0..Cardinality(base.pending)
         IN  \E g : /\ Passes(g, cert, base, N)
                    /\ BuildStateGraph(cert, C) = g[N]
<1> DEFINE base == EmptyGraph(cert, C)
           N == 0..Cardinality(base.pending)
           g == CHOOSE h : Passes(h, cert, base, N)
<1>1. BuildStateGraph(cert, C) = g[N]
  BY DEF FoldAscending, MapThenFoldSet, Passes, BuildStateGraph
<1>2. N \subseteq Nat /\ IsFiniteSet(N)
  <2>1. Cardinality(base.pending) \in Nat
    BY FS_CardinalityType
  <2> HIDE DEF base
  <2> QED BY <2>1, FS_Interval
<1>3. PICK h : WorksOn(h, "pass", cert, base, SUBSET N)
  BY <1>2, WorksExist
<1> HIDE DEF base, N
<1>4. Passes(h, cert, base, N)
  BY <1>3 DEF WorksOn, Work, Passes
<1>5. Passes(g, cert, base, N)
  BY <1>4
<1> QED BY <1>1, <1>5 DEF base, N

LEMMA SpreadsExist ==
  ASSUME NEW gr, IsFiniteSet(gr.edges)
  PROVE  LET base == {EdgeOf(c) : c \in {x \in gr.edges : ParentOf(x) \in DetectForks(gr)}}
             N == 1..Cardinality(gr.edges)
         IN  \E g : /\ Spreads(g, gr.edges, base, N)
                    /\ ConflictingChildHashes(gr) = g[N]
<1> DEFINE base == {EdgeOf(c) : c \in {x \in gr.edges : ParentOf(x) \in DetectForks(gr)}}
           N == 1..Cardinality(gr.edges)
           g == CHOOSE h : Spreads(h, gr.edges, base, N)
<1>1. ConflictingChildHashes(gr) = g[N]
  BY DEF FoldAscending, MapThenFoldSet, Spreads, ConflictingChildHashes
<1>2. N \subseteq Nat /\ IsFiniteSet(N)
  BY FS_CardinalityType, FS_Interval
<1>3. PICK h : WorksOn(h, "spread", gr.edges, base, SUBSET N)
  BY <1>2, WorksExist
<1> HIDE DEF base, N
<1>4. Spreads(h, gr.edges, base, N)
  BY <1>3 DEF WorksOn, Work, Spreads
<1>5. Spreads(g, gr.edges, base, N)
  BY <1>4
<1> QED BY <1>1, <1>5 DEF base, N

-----------------------------------------------------------------------------
(***************************************************************************)
(* The loop over the credentials.  L: the claims on chain, E: their edges, *)
(* H: the credentials held.  A member of L is valid wherever it has a      *)
(* parent, any other credential is valid nowhere.                          *)
(***************************************************************************)
StateNode(e) ==
  [state |-> e, sequence |-> Transition[e].sequence,
   remaining |-> Transition[e].new_remaining]

NodesOf(cert, E) == {Genesis(cert)} \cup {StateNode(e) : e \in E}

Decided(cert, L, E, H) ==
  /\ L \subseteq H /\ H \subseteq Creds /\ E = {EdgeOf(c) : c \in L}
  /\ cert.session \in SessionIds
  /\ \A e \in E :
       /\ e \in StateHashes /\ Transition[e].sequence \in Nat
       /\ \/ Prev(e) = cert.session
          \/ Prev(e) \in E /\ Transition[Prev(e)].sequence < Transition[e].sequence
  /\ \A c \in H, n \in NodesOf(cert, E) :
       n.state = ParentOf(c) => (VerifyStateTransition(cert, n, c) <=> c \in L)

GraphType(cert, L, E, H) ==
  [nodes: SUBSET NodesOf(cert, E), edges: SUBSET L, pending: SUBSET H,
   waiting: SUBSET H, invalid: SUBSET H, duplicates: SUBSET H, progressed: BOOLEAN]

GraphInv(cert, L, E, H, g) ==
  /\ g \in GraphType(cert, L, E, H)
  /\ g.nodes = {Genesis(cert)} \cup {StateNode(EdgeOf(c)) : c \in g.edges}
  /\ \A x, y \in g.edges : EdgeOf(x) = EdgeOf(y) => x = y
  /\ \A x \in g.duplicates : \E y \in g.edges : EdgeOf(y) = EdgeOf(x)
  /\ g.invalid \cap L = {}

HasParent(g, c) == \E n \in g.nodes : n.state = ParentOf(c)
Known(g, c) == \E x \in g.edges : EdgeOf(x) = EdgeOf(c)

\* The fields that placing a credential may write.
Holds(p, nodes, edges, waiting, invalid, duplicates, progressed) ==
  /\ p.nodes = nodes /\ p.edges = edges /\ p.waiting = waiting
  /\ p.invalid = invalid /\ p.duplicates = duplicates /\ p.progressed = progressed

Placing(cert, L, E, H, g, c, p) ==
  /\ p \in GraphType(cert, L, E, H) /\ p.pending = g.pending
  /\ ~HasParent(g, c) =>
       Holds(p, g.nodes, g.edges, g.waiting \cup {c}, g.invalid, g.duplicates,
             g.progressed)
  /\ HasParent(g, c) /\ c \in L /\ Known(g, c) =>
       Holds(p, g.nodes, g.edges, g.waiting, g.invalid, g.duplicates \cup {c}, TRUE)
  /\ HasParent(g, c) /\ c \in L /\ ~Known(g, c) =>
       Holds(p, g.nodes \cup {StateNode(EdgeOf(c))}, g.edges \cup {c}, g.waiting,
             g.invalid, g.duplicates, TRUE)
  /\ HasParent(g, c) /\ c \notin L =>
       Holds(p, g.nodes, g.edges, g.waiting, g.invalid \cup {c}, g.duplicates, TRUE)

LEMMA PlaceCases ==
  ASSUME NEW cert, NEW L, NEW E, NEW H, Decided(cert, L, E, H),
         NEW g, GraphInv(cert, L, E, H, g), NEW c \in H,
         NEW p, p = PlaceCredential(cert, g, c)
  PROVE  Placing(cert, L, E, H, g, c, p)
<1> DEFINE parents == {n \in g.nodes : n.state = ParentOf(c)}
           valid == \A n \in parents : VerifyStateTransition(cert, n, c)
           known == {x \in g.edges : EdgeOf(x) = EdgeOf(c)}
           collides == \E n \in g.nodes : n.state = EdgeOf(c)
           placed == [g EXCEPT !.progressed = TRUE]
<1>t. g \in GraphType(cert, L, E, H)
  BY DEF GraphInv
<1>1. parents # {} <=> HasParent(g, c)
  BY DEF HasParent
<1>2. known # {} <=> Known(g, c)
  BY DEF Known
<1>3. HasParent(g, c) => (valid <=> c \in L)
  <2>1. g.nodes \subseteq NodesOf(cert, E)
    BY <1>t DEF GraphType
  <2>2. \A n \in parents : VerifyStateTransition(cert, n, c) <=> c \in L
    BY <2>1 DEF Decided
  <2> QED BY <1>1, <2>2
<1>4. c \in L /\ ~Known(g, c) => ~collides
  <2> SUFFICES ASSUME c \in L, ~Known(g, c), NEW n \in g.nodes, n.state = EdgeOf(c)
               PROVE  FALSE
    OBVIOUS
  <2>1. CASE n = Genesis(cert)
    <3>1. EdgeOf(c) = cert.session
      BY <2>1 DEF Genesis
    <3>2. EdgeOf(c) \in StateHashes /\ cert.session \in SessionIds
      BY DEF Decided
    <3> QED BY <3>1, <3>2, SetAssumption
  <2>2. CASE n # Genesis(cert)
    <3>1. PICK x \in g.edges : n = StateNode(EdgeOf(x))
      BY <2>2 DEF GraphInv
    <3>2. EdgeOf(x) = EdgeOf(c)
      BY <3>1 DEF StateNode
    <3> QED BY <3>2 DEF Known
  <2> QED BY <2>1, <2>2
<1>5. p = CASE parents = {} -> [g EXCEPT !.waiting = @ \cup {c}]
            [] parents # {} /\ valid /\ known # {} ->
                 [placed EXCEPT !.duplicates = @ \cup {c}]
            [] parents # {} /\ valid /\ known = {} /\ ~collides ->
                 [placed EXCEPT !.edges = @ \cup {c},
                                !.nodes = @ \cup {NextState(c)}]
            [] OTHER -> [placed EXCEPT !.invalid = @ \cup {c}]
  BY DEF PlaceCredential, ParentOf
<1>6. NextState(c) = StateNode(EdgeOf(c))
  BY DEF NextState, StateNode
<1> HIDE DEF parents, valid, known, collides
<1>h. g.nodes \subseteq NodesOf(cert, E) /\ g.edges \subseteq L /\ L \subseteq H
  BY <1>t DEF GraphType, Decided
<1>n. c \in L => StateNode(EdgeOf(c)) \in NodesOf(cert, E)
  BY DEF NodesOf, Decided
<1>p. /\ placed \in GraphType(cert, L, E, H) /\ placed.pending = g.pending
      /\ Holds(placed, g.nodes, g.edges, g.waiting, g.invalid, g.duplicates, TRUE)
  BY <1>t DEF GraphType, Holds
<1> HIDE DEF placed
<1>7. CASE ~HasParent(g, c)
  <2>1. p = [g EXCEPT !.waiting = @ \cup {c}]
    BY <1>1, <1>5, <1>7
  <2>2. /\ p \in GraphType(cert, L, E, H) /\ p.pending = g.pending
        /\ Holds(p, g.nodes, g.edges, g.waiting \cup {c}, g.invalid, g.duplicates,
                 g.progressed)
    BY <2>1, <1>t DEF GraphType, Holds
  <2> QED BY <2>2, <1>7 DEF Placing
<1>8. CASE HasParent(g, c) /\ c \in L /\ Known(g, c)
  <2>1. p = [placed EXCEPT !.duplicates = @ \cup {c}]
    BY <1>1, <1>2, <1>3, <1>5, <1>8
  <2>2. /\ p \in GraphType(cert, L, E, H) /\ p.pending = g.pending
        /\ Holds(p, g.nodes, g.edges, g.waiting, g.invalid, g.duplicates \cup {c}, TRUE)
    BY <2>1, <1>p, <1>t DEF GraphType, Holds
  <2> QED BY <2>2, <1>8 DEF Placing
<1>9. CASE HasParent(g, c) /\ c \in L /\ ~Known(g, c)
  <2>1. p = [placed EXCEPT !.edges = @ \cup {c}, !.nodes = @ \cup {NextState(c)}]
    BY <1>1, <1>2, <1>3, <1>4, <1>5, <1>9
  <2>2. /\ p \in GraphType(cert, L, E, H) /\ p.pending = g.pending
        /\ Holds(p, g.nodes \cup {StateNode(EdgeOf(c))}, g.edges \cup {c}, g.waiting,
                 g.invalid, g.duplicates, TRUE)
    <3> DEFINE node == StateNode(EdgeOf(c))
    <3>1. p = [placed EXCEPT !.edges = @ \cup {c}, !.nodes = @ \cup {node}]
      BY <2>1, <1>6
    <3>2. node \in NodesOf(cert, E) /\ c \in L
      BY <1>n, <1>9
    <3> HIDE DEF node
    <3>3. p \in GraphType(cert, L, E, H)
      BY <3>1, <3>2, <1>p DEF GraphType
    <3>4. /\ p.nodes = placed.nodes \cup {node} /\ p.edges = placed.edges \cup {c}
          /\ p.pending = placed.pending /\ p.waiting = placed.waiting
          /\ p.invalid = placed.invalid /\ p.duplicates = placed.duplicates
          /\ p.progressed = placed.progressed
      BY <3>1, <1>p DEF GraphType
    <3> QED BY <3>3, <3>4, <1>p DEF Holds, node
  <2> QED BY <2>2, <1>9 DEF Placing
<1>10. CASE HasParent(g, c) /\ c \notin L
  <2>1. p = [placed EXCEPT !.invalid = @ \cup {c}]
    BY <1>1, <1>3, <1>5, <1>10
  <2>2. /\ p \in GraphType(cert, L, E, H) /\ p.pending = g.pending
        /\ Holds(p, g.nodes, g.edges, g.waiting, g.invalid \cup {c}, g.duplicates, TRUE)
    BY <2>1, <1>p, <1>t DEF GraphType, Holds
  <2> QED BY <2>2, <1>10 DEF Placing
<1> QED BY <1>7, <1>8, <1>9, <1>10

\* Where one pass stands after the entries of t, from the graph base.
PassAt(cert, L, E, H, base, t, g) ==
  /\ GraphInv(cert, L, E, H, g)
  /\ g.pending = base.pending
  /\ base.edges \subseteq g.edges /\ base.duplicates \subseteq g.duplicates
  /\ g.waiting \subseteq t
  /\ L \cap t \subseteq g.edges \cup g.duplicates \cup g.waiting
  /\ g.progressed => g.waiting # t
  /\ ~g.progressed => /\ g.nodes = base.nodes /\ g.waiting = t
                      /\ \A c \in t : ~HasParent(base, c)

LEMMA PlaceStep ==
  ASSUME NEW cert, NEW L, NEW E, NEW H, Decided(cert, L, E, H), NEW base,
         NEW t, NEW g, PassAt(cert, L, E, H, base, t, g), NEW c \in H, c \notin t
  PROVE  PassAt(cert, L, E, H, base, t \cup {c}, PlaceCredential(cert, g, c))
<1> DEFINE p == PlaceCredential(cert, g, c)
<1>d. p = PlaceCredential(cert, g, c)
  OBVIOUS
<1> HIDE DEF p
<1>g. GraphInv(cert, L, E, H, g)
  BY DEF PassAt
<1>t. /\ g \in GraphType(cert, L, E, H)
      /\ g.nodes \subseteq NodesOf(cert, E) /\ g.edges \subseteq L /\ g.waiting \subseteq H
      /\ g.invalid \subseteq H /\ g.duplicates \subseteq H /\ L \subseteq H
  BY <1>g DEF GraphInv, GraphType, Decided
<1>q. Placing(cert, L, E, H, g, c, p)
  BY <1>d, <1>g, PlaceCases
<1>c. c \in L => StateNode(EdgeOf(c)) \in NodesOf(cert, E)
  BY DEF NodesOf, Decided
<1>p. /\ g.pending = base.pending
      /\ base.edges \subseteq g.edges /\ base.duplicates \subseteq g.duplicates
      /\ g.waiting \subseteq t
      /\ L \cap t \subseteq g.edges \cup g.duplicates \cup g.waiting
      /\ g.progressed => g.waiting # t
      /\ ~g.progressed => /\ g.nodes = base.nodes /\ g.waiting = t
                          /\ \A x \in t : ~HasParent(base, x)
  BY DEF PassAt
<1>u. c \notin g.waiting
  BY <1>p
<1>1. CASE ~HasParent(g, c)
  <2>2. /\ p \in GraphType(cert, L, E, H)
        /\ p.nodes = g.nodes /\ p.edges = g.edges /\ p.pending = g.pending
        /\ p.waiting = g.waiting \cup {c} /\ p.invalid = g.invalid
        /\ p.duplicates = g.duplicates /\ p.progressed = g.progressed
    BY <1>1, <1>q DEF Placing, Holds
  <2>3. GraphInv(cert, L, E, H, p)
    BY <2>2, <1>g DEF GraphInv
  <2>4. ~g.progressed => ~HasParent(base, c)
    BY <1>1 DEF PassAt, HasParent
  <2>20. /\ p.pending = base.pending
         /\ base.edges \subseteq p.edges /\ base.duplicates \subseteq p.duplicates
         /\ p.waiting \subseteq t \cup {c}
    BY <2>2, <1>p
  <2>21. L \cap (t \cup {c}) \subseteq p.edges \cup p.duplicates \cup p.waiting
    BY <2>2, <1>p
  <2>22. p.progressed => p.waiting # t \cup {c}
    BY <2>2, <1>p, <1>u
  <2>23. ~p.progressed => /\ p.nodes = base.nodes /\ p.waiting = t \cup {c}
                          /\ \A x \in t \cup {c} : ~HasParent(base, x)
    BY <2>2, <1>p, <2>4
  <2> QED BY <2>3, <2>20, <2>21, <2>22, <2>23 DEF PassAt, p
<1>2. CASE HasParent(g, c) /\ c \in L /\ Known(g, c)
  <2>2. /\ p \in GraphType(cert, L, E, H)
        /\ p.nodes = g.nodes /\ p.edges = g.edges /\ p.pending = g.pending
        /\ p.waiting = g.waiting /\ p.invalid = g.invalid
        /\ p.duplicates = g.duplicates \cup {c} /\ p.progressed = TRUE
    BY <1>2, <1>q DEF Placing, Holds
  <2>3. GraphInv(cert, L, E, H, p)
    BY <2>2, <1>g, <1>2 DEF GraphInv, Known
  <2>20. /\ p.pending = base.pending
         /\ base.edges \subseteq p.edges /\ base.duplicates \subseteq p.duplicates
         /\ p.waiting \subseteq t \cup {c}
    BY <2>2, <1>p
  <2>21. L \cap (t \cup {c}) \subseteq p.edges \cup p.duplicates \cup p.waiting
    BY <2>2, <1>p
  <2>22. p.progressed => p.waiting # t \cup {c}
    BY <2>2, <1>p, <1>u
  <2> QED BY <2>2, <2>3, <2>20, <2>21, <2>22 DEF PassAt, p
<1>3. CASE HasParent(g, c) /\ c \in L /\ ~Known(g, c)
  <2>2. /\ p \in GraphType(cert, L, E, H)
        /\ p.nodes = g.nodes \cup {StateNode(EdgeOf(c))} /\ p.edges = g.edges \cup {c}
        /\ p.pending = g.pending /\ p.waiting = g.waiting /\ p.invalid = g.invalid
        /\ p.duplicates = g.duplicates /\ p.progressed = TRUE
    BY <1>3, <1>q DEF Placing, Holds
  <2>3. GraphInv(cert, L, E, H, p)
    <3>1. p.nodes = {Genesis(cert)} \cup {StateNode(EdgeOf(x)) : x \in p.edges}
      BY <2>2, <1>g DEF GraphInv
    <3>2. \A x, y \in p.edges : EdgeOf(x) = EdgeOf(y) => x = y
      BY <2>2, <1>g, <1>3 DEF GraphInv, Known
    <3>3. \A x \in p.duplicates : \E y \in p.edges : EdgeOf(y) = EdgeOf(x)
      BY <2>2, <1>g DEF GraphInv
    <3> QED BY <2>2, <3>1, <3>2, <3>3, <1>g DEF GraphInv
  <2>20. /\ p.pending = base.pending
         /\ base.edges \subseteq p.edges /\ base.duplicates \subseteq p.duplicates
         /\ p.waiting \subseteq t \cup {c}
    BY <2>2, <1>p
  <2>21. L \cap (t \cup {c}) \subseteq p.edges \cup p.duplicates \cup p.waiting
    BY <2>2, <1>p
  <2>22. p.progressed => p.waiting # t \cup {c}
    BY <2>2, <1>p, <1>u
  <2> QED BY <2>2, <2>3, <2>20, <2>21, <2>22 DEF PassAt, p
<1>4. CASE HasParent(g, c) /\ c \notin L
  <2>2. /\ p \in GraphType(cert, L, E, H)
        /\ p.nodes = g.nodes /\ p.edges = g.edges /\ p.pending = g.pending
        /\ p.waiting = g.waiting /\ p.invalid = g.invalid \cup {c}
        /\ p.duplicates = g.duplicates /\ p.progressed = TRUE
    BY <1>4, <1>q DEF Placing, Holds
  <2>3. GraphInv(cert, L, E, H, p)
    BY <2>2, <1>g, <1>4 DEF GraphInv
  <2>20. /\ p.pending = base.pending
         /\ base.edges \subseteq p.edges /\ base.duplicates \subseteq p.duplicates
         /\ p.waiting \subseteq t \cup {c}
    BY <2>2, <1>p
  <2>21. L \cap (t \cup {c}) \subseteq p.edges \cup p.duplicates \cup p.waiting
    BY <2>2, <1>p, <1>4
  <2>22. p.progressed => p.waiting # t \cup {c}
    BY <2>2, <1>p, <1>u
  <2> QED BY <2>2, <2>3, <2>20, <2>21, <2>22 DEF PassAt, p
<1> QED BY <1>1, <1>2, <1>3, <1>4

\* A whole pass over the pending credentials.
LEMMA PlaceAllFacts ==
  ASSUME NEW cert, NEW L, NEW E, NEW H, Decided(cert, L, E, H), IsFiniteSet(H),
         NEW base, GraphInv(cert, L, E, H, base), base.waiting = {}, ~base.progressed
  PROVE  PassAt(cert, L, E, H, base, base.pending, PlaceAll(cert, base, base.pending))
<1> DEFINE S == base.pending
<1>1. S \subseteq H /\ S \subseteq Nat /\ IsFiniteSet(S)
  <2>1. S \subseteq H
    BY DEF GraphInv, GraphType
  <2>2. S \subseteq Nat
    BY <2>1, SetAssumption DEF Decided
  <2>3. IsFiniteSet(S)
    BY <2>1, FS_Subset
  <2> QED BY <2>1, <2>2, <2>3
<1> HIDE DEF S
<1>2. PICK g : Places(g, cert, base, S) /\ PlaceAll(cert, base, S) = g[S]
  BY <1>1, PlacesExist
<1> DEFINE T == {Cardinality(t) : t \in {u \in SUBSET S : ~PassAt(cert, L, E, H, base, u, g[u])}}
<1>f. \A t \in SUBSET S : IsFiniteSet(t) /\ Cardinality(t) \in Nat
  BY <1>1, FS_Subset, FS_CardinalityType
<1>3. T = {}
  <2> SUFFICES ASSUME T # {} PROVE FALSE
    OBVIOUS
  <2>1. PICK n \in T : \A m \in T : n <= m
    BY <1>f, NatMin
  <2>2. PICK t \in SUBSET S : ~PassAt(cert, L, E, H, base, t, g[t]) /\ n = Cardinality(t)
    OBVIOUS
  <2>3. CASE t = {}
    <3>1. g[t] = base
      BY <1>2, <2>3 DEF Places
    <3>2. PassAt(cert, L, E, H, base, {}, base)
      BY DEF PassAt
    <3> QED BY <2>2, <2>3, <3>1, <3>2
  <2>4. CASE t # {}
    <3> DEFINE c == Max(t)
               u == t \ {c}
    <3>1. c \in t /\ u \in SUBSET S /\ Cardinality(u) = n - 1 /\ n \in Nat
      BY <2>2, <2>4, <1>1, MaxFacts
    <3>2. g[t] = PlaceCredential(cert, g[u], c)
      BY <1>2, <2>4 DEF Places
    <3>3. PassAt(cert, L, E, H, base, u, g[u])
      <4> SUFFICES ASSUME ~PassAt(cert, L, E, H, base, u, g[u]) PROVE FALSE
        OBVIOUS
      <4> HIDE DEF u
      <4>1. n - 1 \in T
        BY <3>1
      <4> QED BY <2>1, <3>1, <4>1
    <3>4. t = u \cup {c} /\ c \notin u /\ c \in H
      BY <3>1, <1>1
    <3> HIDE DEF u, c
    <3>5. PassAt(cert, L, E, H, base, t, g[t])
      BY <3>2, <3>3, <3>4, PlaceStep
    <3> QED BY <2>2, <3>5
  <2> QED BY <2>3, <2>4
<1>4. PassAt(cert, L, E, H, base, S, g[S])
  BY <1>3
<1> QED BY <1>2, <1>4 DEF S

\* Between two passes every claim on chain is placed or pending.
RoundInv(cert, L, E, H, g) ==
  /\ GraphInv(cert, L, E, H, g)
  /\ L \subseteq g.edges \cup g.duplicates \cup g.pending

\* What a pass leaves without a parent is not on chain: the pending claim with
\* the least sequence has its parent among the nodes.
LEMMA NothingStranded ==
  ASSUME NEW cert, NEW L, NEW E, NEW H, Decided(cert, L, E, H),
         NEW g, RoundInv(cert, L, E, H, g),
         \A c \in g.pending : ~HasParent(g, c)
  PROVE  L \cap g.pending = {}
<1> DEFINE Seqs == {Transition[EdgeOf(c)].sequence : c \in L \cap g.pending}
<1> SUFFICES ASSUME L \cap g.pending # {} PROVE FALSE
  OBVIOUS
<1>1. \A c \in L : EdgeOf(c) \in E /\ Transition[EdgeOf(c)].sequence \in Nat
  BY DEF Decided
<1>2. PICK n \in Seqs : \A m \in Seqs : n <= m
  BY <1>1, NatMin
<1>3. PICK c \in L \cap g.pending : n = Transition[EdgeOf(c)].sequence
  OBVIOUS
<1>n. g.nodes = {Genesis(cert)} \cup {StateNode(EdgeOf(x)) : x \in g.edges}
  BY DEF RoundInv, GraphInv
<1>4. CASE ParentOf(c) = cert.session
  <2>1. Genesis(cert) \in g.nodes /\ Genesis(cert).state = ParentOf(c)
    BY <1>4, <1>n DEF Genesis
  <2> QED BY <2>1 DEF HasParent
<1>5. CASE /\ ParentOf(c) \in E
           /\ Transition[ParentOf(c)].sequence < Transition[EdgeOf(c)].sequence
  <2>1. PICK d \in L : EdgeOf(d) = ParentOf(c)
    BY <1>5 DEF Decided
  <2>2. d \notin g.pending
    <3> SUFFICES ASSUME d \in g.pending PROVE FALSE
      OBVIOUS
    <3>1. Transition[EdgeOf(d)].sequence \in Seqs
      OBVIOUS
    <3>2. n <= Transition[EdgeOf(d)].sequence
      BY <1>2, <3>1
    <3>3. Transition[EdgeOf(d)].sequence < n
      BY <1>3, <1>5, <2>1
    <3> QED BY <1>1, <1>3, <3>2, <3>3
  <2>3. \E y \in g.edges : EdgeOf(y) = EdgeOf(d)
    BY <2>2 DEF RoundInv, GraphInv
  <2>4. PICK y \in g.edges : EdgeOf(y) = ParentOf(c)
    BY <2>1, <2>3
  <2>5. StateNode(EdgeOf(y)) \in g.nodes /\ StateNode(EdgeOf(y)).state = ParentOf(c)
    BY <1>n, <2>4 DEF StateNode
  <2> QED BY <2>5 DEF HasParent
<1> QED BY <1>1, <1>4, <1>5 DEF Decided, ParentOf, Prev

LEMMA RoundStep ==
  ASSUME NEW cert, NEW L, NEW E, NEW H, Decided(cert, L, E, H), IsFiniteSet(H),
         NEW g, RoundInv(cert, L, E, H, g), g.pending # {}
  PROVE  LET q == Round(cert, g)
         IN  /\ RoundInv(cert, L, E, H, q)
             /\ q.pending \subseteq g.pending /\ q.pending # g.pending
<1> DEFINE base == [g EXCEPT !.waiting = {}, !.progressed = FALSE]
           done == PlaceAll(cert, base, base.pending)
           q == Round(cert, g)
<1>t. g \in GraphType(cert, L, E, H)
  BY DEF RoundInv, GraphInv
<1>1. /\ base \in GraphType(cert, L, E, H)
      /\ base.nodes = g.nodes /\ base.edges = g.edges /\ base.pending = g.pending
      /\ base.invalid = g.invalid /\ base.duplicates = g.duplicates
      /\ base.waiting = {} /\ base.progressed = FALSE
  BY <1>t DEF GraphType
<1>2. q = IF done.progressed THEN [done EXCEPT !.pending = done.waiting]
          ELSE [done EXCEPT !.pending = {}, !.invalid = @ \cup done.waiting]
  BY <1>1 DEF Round
<1> HIDE DEF base
<1>3. GraphInv(cert, L, E, H, base)
  BY <1>1 DEF RoundInv, GraphInv
<1>4. PassAt(cert, L, E, H, base, base.pending, done)
  BY <1>1, <1>3, PlaceAllFacts
<1> HIDE DEF done, q
<1>5. /\ done \in GraphType(cert, L, E, H) /\ GraphInv(cert, L, E, H, done)
      /\ done.pending = g.pending /\ done.waiting \subseteq g.pending
      /\ g.edges \subseteq done.edges /\ g.duplicates \subseteq done.duplicates
      /\ done.progressed => done.waiting # g.pending
      /\ L \cap g.pending \subseteq done.edges \cup done.duplicates \cup done.waiting
  BY <1>1, <1>4 DEF PassAt, GraphInv
<1>6. L \subseteq done.edges \cup done.duplicates \cup done.waiting
  BY <1>5 DEF RoundInv
<1>7. CASE done.progressed
  <2>1. /\ q \in GraphType(cert, L, E, H)
        /\ q.nodes = done.nodes /\ q.edges = done.edges /\ q.pending = done.waiting
        /\ q.invalid = done.invalid /\ q.duplicates = done.duplicates
    BY <1>2, <1>5, <1>7 DEF GraphType
  <2>2. GraphInv(cert, L, E, H, q)
    BY <1>5, <2>1 DEF GraphInv
  <2>3. L \subseteq q.edges \cup q.duplicates \cup q.pending
    BY <1>6, <2>1
  <2> QED BY <1>5, <1>7, <2>1, <2>2, <2>3 DEF RoundInv, q
<1>8. CASE ~done.progressed
  <2>1. /\ q \in GraphType(cert, L, E, H)
        /\ q.nodes = done.nodes /\ q.edges = done.edges /\ q.pending = {}
        /\ q.invalid = done.invalid \cup done.waiting /\ q.duplicates = done.duplicates
    BY <1>2, <1>5, <1>8 DEF GraphType
  <2>2. \A c \in g.pending : ~HasParent(g, c)
    BY <1>1, <1>4, <1>8 DEF PassAt, HasParent
  <2>3. L \cap g.pending = {}
    BY <2>2, NothingStranded
  <2>4. L \cap done.waiting = {}
    BY <2>3, <1>5
  <2>5. GraphInv(cert, L, E, H, q)
    BY <1>5, <2>1, <2>4 DEF GraphInv
  <2> QED BY <1>6, <2>1, <2>4, <2>5 DEF RoundInv, q
<1> QED BY <1>7, <1>8

\* The graph the host builds has exactly one credential for every edge on chain.
LEMMA GraphBuilt ==
  ASSUME NEW cert, NEW L, NEW E, NEW H, Decided(cert, L, E, H), IsFiniteSet(H),
         NEW C, {C[i] : i \in DOMAIN C} \ {Malformed} = H
  PROVE  LET g == BuildStateGraph(cert, C)
         IN  /\ g.edges \subseteq L
             /\ {EdgeOf(c) : c \in g.edges} = E
             /\ \A x, y \in g.edges : EdgeOf(x) = EdgeOf(y) => x = y
<1> DEFINE base == EmptyGraph(cert, C)
           N == 0..Cardinality(H)
<1>1. /\ base.pending = H /\ base.nodes = {Genesis(cert)} /\ base.edges = {}
      /\ base.duplicates = {} /\ base.invalid = {}
      /\ base \in GraphType(cert, L, E, H)
  BY DEF EmptyGraph, GraphType, NodesOf
<1>2. RoundInv(cert, L, E, H, base)
  <2> HIDE DEF base
  <2>1. L \subseteq H
    BY DEF Decided
  <2> QED BY <1>1, <2>1 DEF RoundInv, GraphInv
<1>3. PICK g : Passes(g, cert, base, N) /\ BuildStateGraph(cert, C) = g[N]
  <2>1. IsFiniteSet(base.pending)
    BY <1>1
  <2> QED BY <1>1, <2>1, PassesExist
<1> HIDE DEF base
<1> DEFINE Good(t) ==
             /\ RoundInv(cert, L, E, H, g[t])
             /\ \/ g[t].pending = {}
                \/ Cardinality(g[t].pending) + Cardinality(t) <= Cardinality(H)
           T == {Cardinality(t) : t \in {u \in SUBSET N : ~Good(u)}}
<1>n. Cardinality(H) \in Nat /\ N \subseteq Nat /\ IsFiniteSet(N)
  BY FS_CardinalityType, FS_Interval
<1>c. Cardinality(N) = Cardinality(H) + 1
  BY <1>n, FS_Interval
<1> HIDE DEF N
<1>f. \A t \in SUBSET N : IsFiniteSet(t) /\ Cardinality(t) \in Nat
  BY <1>n, FS_Subset, FS_CardinalityType
<1>4. T = {}
  <2> SUFFICES ASSUME T # {} PROVE FALSE
    OBVIOUS
  <2>1. PICK n \in T : \A m \in T : n <= m
    BY <1>f, NatMin
  <2>2. PICK t \in SUBSET N : ~Good(t) /\ n = Cardinality(t)
    OBVIOUS
  <2>3. CASE t = {}
    <3>1. g[t] = base
      BY <1>3, <2>3 DEF Passes
    <3>2. Cardinality(base.pending) + Cardinality(t) <= Cardinality(H)
      BY <1>1, <1>n, <2>3, FS_EmptySet
    <3> QED BY <1>2, <2>2, <3>1, <3>2
  <2>4. CASE t # {}
    <3> DEFINE c == Max(t)
               u == t \ {c}
               h == g[u]
    <3>1. c \in t /\ u \in SUBSET N /\ Cardinality(u) = n - 1 /\ n \in Nat
      BY <2>2, <2>4, <1>n, MaxFacts
    <3>2. g[t] = IF h.pending = {} THEN h ELSE Round(cert, h)
      BY <1>3, <2>4 DEF Passes
    <3>3. Good(u)
      <4> SUFFICES ASSUME ~Good(u) PROVE FALSE
        OBVIOUS
      <4> HIDE DEF u, Good
      <4>1. n - 1 \in T
        BY <3>1
      <4> QED BY <2>1, <3>1, <4>1
    <3> HIDE DEF u, c
    <3>4. CASE h.pending = {}
      BY <2>2, <3>2, <3>3, <3>4
    <3>5. CASE h.pending # {}
      <4> DEFINE q == Round(cert, h)
      <4>1. /\ RoundInv(cert, L, E, H, q)
            /\ q.pending \subseteq h.pending /\ q.pending # h.pending
        BY <3>3, <3>5, RoundStep
      <4>2. g[t] = q
        BY <3>2, <3>5
      <4>3. IsFiniteSet(h.pending)
        <5>1. h.pending \subseteq H
          BY <3>3 DEF RoundInv, GraphInv, GraphType
        <5> QED BY <5>1, FS_Subset
      <4> HIDE DEF q, h
      <4>4. /\ Cardinality(q.pending) \in Nat /\ Cardinality(h.pending) \in Nat
            /\ Cardinality(q.pending) < Cardinality(h.pending)
        <5>1. IsFiniteSet(q.pending)
          BY <4>1, <4>3, FS_Subset
        <5>2. /\ Cardinality(q.pending) <= Cardinality(h.pending)
              /\ Cardinality(q.pending) = Cardinality(h.pending) => q.pending = h.pending
          BY <4>1, <4>3, FS_Subset
        <5>3. Cardinality(q.pending) \in Nat /\ Cardinality(h.pending) \in Nat
          BY <4>3, <5>1, FS_CardinalityType
        <5> QED BY <4>1, <5>2, <5>3
      <4>5. Cardinality(h.pending) + (n - 1) <= Cardinality(H)
        BY <3>1, <3>3, <3>5 DEF h
      <4>6. Cardinality(q.pending) + n <= Cardinality(H)
        BY <4>4, <4>5, <3>1, <1>n
      <4> QED BY <2>2, <4>1, <4>2, <4>6
    <3> QED BY <3>4, <3>5
  <2> QED BY <2>3, <2>4
<1>5. Good(N)
  BY <1>4
<1> DEFINE r == g[N]
<1>6. RoundInv(cert, L, E, H, r) /\ r.pending = {}
  <2>1. r.pending \subseteq H
    BY <1>5 DEF RoundInv, GraphInv, GraphType
  <2>2. Cardinality(r.pending) \in Nat
    BY <2>1, FS_Subset, FS_CardinalityType
  <2> HIDE DEF r
  <2> QED BY <1>5, <1>c, <1>n, <2>2 DEF r
<1> HIDE DEF r
<1>7. /\ r.edges \subseteq L
      /\ \A x, y \in r.edges : EdgeOf(x) = EdgeOf(y) => x = y
  BY <1>6 DEF RoundInv, GraphInv, GraphType
<1>8. {EdgeOf(c) : c \in r.edges} = E
  <2>1. \A c \in r.edges : EdgeOf(c) \in E
    BY <1>7 DEF Decided
  <2>2. \A c \in L : \E y \in r.edges : EdgeOf(y) = EdgeOf(c)
    BY <1>6 DEF RoundInv, GraphInv
  <2>3. \A e \in E : \E c \in L : e = EdgeOf(c)
    BY DEF Decided
  <2> QED BY <2>1, <2>2, <2>3
<1> QED BY <1>3, <1>7, <1>8 DEF r

-----------------------------------------------------------------------------
(***************************************************************************)
(* What an auditor holds, and why the host decides it the way the program  *)
(* did.                                                                    *)
(***************************************************************************)
Held(s) ==
  {c \in Creds : /\ SessionOf(EdgeOf(c)) = s
                 /\ claim[c].status # "None" \/ ~ReachableParent(EdgeOf(c))}

LEMMA HeapHolds ==
  ASSUME NEW s
  PROVE  {Heap(s)[i] : i \in DOMAIN Heap(s)} \ {Malformed} = Held(s)
<1> DEFINE n == Max(Creds)
           F == [i \in 1..2 * n |-> IF 1 + (i % n) \in Held(s) THEN 1 + (i % n) ELSE Malformed]
<1>1. Heap(s) = F
  BY DEF Heap, Held
<1> HIDE DEF n
<1>2. \A i \in DOMAIN F : F[i] \in Held(s) \cup {Malformed}
  OBVIOUS
<1>3. Held(s) \subseteq Creds /\ Malformed \notin Held(s)
  BY SetAssumption DEF Held, Malformed
<1>4. ASSUME NEW c \in Held(s) PROVE \E i \in DOMAIN F : F[i] = c
  <2>1. c \in Nat /\ c > 0 /\ n \in Nat /\ c <= n
    <3>1. Creds \subseteq Nat /\ IsFiniteSet(Creds) /\ 0 \notin Creds /\ c \in Creds
      BY <1>3, SetAssumption
    <3>2. n \in Creds /\ \A y \in Creds : y <= n
      BY <3>1, MaxFacts DEF n
    <3> QED BY <3>1, <3>2
  <2>2. CASE c > 1
    <3>1. (c - 1) % n = c - 1
      BY <2>1, <2>2
    <3>2. c - 1 \in 1..2 * n /\ 1 + (c - 1) = c
      BY <2>1, <2>2
    <3> QED BY <3>1, <3>2
  <2>3. CASE c = 1
    <3>1. n % n = 0 /\ n \in 1..2 * n
      BY <2>1
    <3> QED BY <3>1, <2>3
  <2> QED BY <2>1, <2>2, <2>3
<1>5. {F[i] : i \in DOMAIN F} \ {Malformed} = Held(s)
  <2> HIDE DEF F
  <2> QED BY <1>2, <1>3, <1>4
<1> QED BY <1>1, <1>5

LEMMA HeldFinite ==
  \A s : IsFiniteSet(Held(s)) /\ Held(s) \subseteq Creds /\ Submitted(s) \subseteq Held(s)
BY SetAssumption, FS_Subset DEF Held, Submitted

\* The terms that the claims of an edge were checked against.
LEMMA EdgeTerms ==
  ASSUME ClaimsInv, TermsInv, NEW s \in SessionIds, NEW e \in EdgesOf(s)
  PROVE  /\ e \in StateHashes /\ SessionOf(e) = s /\ ReachableParent(e)
         /\ Transition[e].session = s
         /\ Transition[e].amount > 0 /\ Transition[e].sequence \in 1..MaxBranchDepth
         /\ Transition[e].previous_remaining <= session[s].branch_spending_limit
         /\ Transition[e].new_remaining + Transition[e].amount
              = Transition[e].previous_remaining
<1> DEFINE c == edge[e].representative
<1>1. /\ e \in StateHashes /\ edge[e].exists /\ SessionOf(e) = s
      /\ c \in Creds /\ c \in Submitted(s) /\ EdgeOf(c) = e
  BY RepresentativeFacts
<1>2. ClaimTerms(c)
  BY <1>1 DEF TermsInv, Submitted
<1>3. ReachableParent(e)
  BY <1>1 DEF TermsInv
<1>4. Transition[e].new_remaining + Transition[e].amount = Transition[e].previous_remaining
  BY <1>1 DEF ClaimsInv, ExistInv
<1> HIDE DEF c
<1> QED BY <1>1, <1>2, <1>3, <1>4 DEF ClaimTerms, SessionOf

LEMMA EdgeParent ==
  ASSUME ClaimsInv, TermsInv, NEW s \in SessionIds, NEW e \in EdgesOf(s)
  PROVE  \/ /\ Prev(e) = s /\ Transition[e].sequence = 1
            /\ Transition[e].previous_remaining = session[s].branch_spending_limit
         \/ /\ Prev(e) \in EdgesOf(s) /\ Prev(e) # s
            /\ Transition[Prev(e)].sequence + 1 = Transition[e].sequence
            /\ Transition[Prev(e)].new_remaining = Transition[e].previous_remaining
<1>1. e \in StateHashes /\ ReachableParent(e) /\ Transition[e].session = s
  BY EdgeTerms
<1>2. CASE FollowsEdge(e)
  <2>1. Prev(e) \in StateHashes /\ edge[Prev(e)].exists /\ SessionOf(Prev(e)) = s
    BY <1>1, <1>2 DEF FollowsEdge, Prev, SessionOf
  <2>2. Prev(e) # s
    BY <2>1, SetAssumption
  <2> QED BY <1>1, <1>2, <2>1, <2>2 DEF FollowsEdge, Prev, EdgesOf
<1>3. CASE ~FollowsEdge(e)
  BY <1>1, <1>3 DEF ReachableParent, Prev
<1> QED BY <1>2, <1>3

\* A claim on chain follows the state that the host has for its parent.
LEMMA ClaimVerifies ==
  ASSUME TypeOK, ClaimsInv, TermsInv, NEW s \in SessionIds, NEW c \in Submitted(s),
         NEW n \in NodesOf(SessionCertificate(s), EdgesOf(s)), n.state = ParentOf(c)
  PROVE  VerifyStateTransition(SessionCertificate(s), n, c)
<1> DEFINE e == EdgeOf(c)
           t == Transition[e]
           cert == SessionCertificate(s)
           limit == session[s].branch_spending_limit
<1>1. e \in EdgesOf(s) /\ c \in Creds
  BY MessageTypes DEF Submitted, ClaimsInv, ExistInv, EdgesOf
<1>2. /\ e \in StateHashes /\ t.session = s /\ t.amount > 0
      /\ t.sequence \in 1..MaxBranchDepth /\ t.previous_remaining <= limit
      /\ t.new_remaining + t.amount = t.previous_remaining
  BY <1>1, EdgeTerms
<1>3. /\ Authentic(c)
      /\ Credential[c].created_at \in session[s].issued_at..session[s].expires_at
      /\ Credential[c].session_expires_at = session[s].expires_at
  BY <1>1, <1>2 DEF TermsInv, ClaimTerms, Submitted
<1>4. /\ t.amount \in Nat /\ t.previous_remaining \in Nat /\ t.new_remaining \in Nat
      /\ t.sequence \in Nat /\ limit \in Nat
  <2>1. t \in TransitionRecord
    BY <1>2, MessageAssumption
  <2>2. session[s] \in OfflineSession
    BY DEF TypeOK
  <2> QED BY <2>1, <2>2, SessionFieldTypes DEF TransitionRecord
<1>5. /\ cert.session = s /\ cert.branch_spending_limit = limit
      /\ cert.max_branch_depth = MaxBranchDepth
      /\ cert.issued_at = session[s].issued_at /\ cert.expires_at = session[s].expires_at
  BY DEF SessionCertificate
<1>6. /\ n.sequence + 1 = t.sequence /\ n.remaining = t.previous_remaining
      /\ n.sequence \in Nat
  <2>1. CASE n = Genesis(cert)
    <3>1. n.state = s /\ n.sequence = 0 /\ n.remaining = limit
      BY <1>5, <2>1 DEF Genesis
    <3>2. Prev(e) = s
      BY <3>1 DEF ParentOf, Prev
    <3> QED BY <1>1, <3>1, <3>2, EdgeParent
  <2>2. CASE n # Genesis(cert)
    <3>1. PICK p \in EdgesOf(s) : n = StateNode(p)
      BY <2>2 DEF NodesOf
    <3>2. /\ n.state = p /\ n.sequence = Transition[p].sequence
          /\ n.remaining = Transition[p].new_remaining
      BY <3>1 DEF StateNode
    <3>3. p = Prev(e) /\ p \in StateHashes
      BY <3>1, <3>2, EdgeTerms DEF ParentOf, Prev
    <3>4. p # s /\ Transition[p].sequence \in Nat
      BY <3>3, SetAssumption, MessageAssumption DEF TransitionRecord
    <3> QED BY <1>1, <3>2, <3>3, <3>4, EdgeParent
  <2> QED BY <2>1, <2>2
<1> HIDE DEF cert, limit
<1>7. n.sequence <= MaxBranchDepth /\ n.remaining <= limit
  BY <1>2, <1>4, <1>6, NumberAssumption
<1>8. ValidatePaymentCredential(cert, n, c)
  BY <1>2, <1>3, <1>4, <1>5, <1>6 DEF ValidatePaymentCredential, ParentOf
<1> QED BY <1>5, <1>7, <1>8 DEF VerifyStateTransition, cert

\* What follows a state of the host's graph has a parent on chain.
LEMMA VerifiedReachable ==
  ASSUME TypeOK, ClaimsInv, TermsInv, NEW s \in SessionIds, NEW c \in Creds,
         NEW n \in NodesOf(SessionCertificate(s), EdgesOf(s)),
         VerifyStateTransition(SessionCertificate(s), n, c)
  PROVE  ReachableParent(EdgeOf(c))
<1> DEFINE e == EdgeOf(c)
           t == Transition[e]
           cert == SessionCertificate(s)
           limit == session[s].branch_spending_limit
<1>1. cert.session = s /\ cert.branch_spending_limit = limit
  BY DEF SessionCertificate
<1>2. /\ t.session = s /\ t.previous_state = n.state /\ t.sequence = n.sequence + 1
      /\ t.previous_remaining = n.remaining
  BY <1>1 DEF VerifyStateTransition, ValidatePaymentCredential
<1>3. CASE n = Genesis(cert)
  <2>1. n.state = s /\ n.sequence = 0 /\ n.remaining = limit
    BY <1>1, <1>3 DEF Genesis
  <2> QED BY <1>2, <2>1 DEF ReachableParent
<1>4. CASE n # Genesis(cert)
  <2>1. PICK p \in EdgesOf(s) : n = StateNode(p)
    BY <1>4 DEF NodesOf
  <2>2. /\ n.state = p /\ n.sequence = Transition[p].sequence
        /\ n.remaining = Transition[p].new_remaining
    BY <2>1 DEF StateNode
  <2>3. /\ p \in StateHashes /\ edge[p].exists /\ Transition[p].session = s
        /\ Transition[p].sequence \in 1..MaxBranchDepth
    BY EdgeTerms DEF EdgesOf
  <2>4. FollowsEdge(e)
    BY <1>2, <2>2, <2>3 DEF FollowsEdge
  <2>5. t.sequence # 1
    BY <1>2, <2>2, <2>3, NumberAssumption
  <2> QED BY <2>4, <2>5 DEF ReachableParent
<1> QED BY <1>3, <1>4

LEMMA ChainDecides ==
  ASSUME TypeOK, ClaimsInv, TermsInv, NEW s \in SessionIds
  PROVE  Decided(SessionCertificate(s), Submitted(s), EdgesOf(s), Held(s))
<1> DEFINE cert == SessionCertificate(s)
           L == Submitted(s)
           E == EdgesOf(s)
<1>1. E = {EdgeOf(c) : c \in L}
  <2>1. \A c \in L : EdgeOf(c) \in E
    BY MessageTypes DEF Submitted, ClaimsInv, ExistInv, EdgesOf
  <2>2. \A e \in E : \E c \in L : e = EdgeOf(c)
    BY RepresentativeFacts
  <2> QED BY <2>1, <2>2
<1>2. ASSUME NEW e \in E
      PROVE  /\ e \in StateHashes /\ Transition[e].sequence \in Nat
             /\ \/ Prev(e) = s
                \/ Prev(e) \in E /\ Transition[Prev(e)].sequence < Transition[e].sequence
  <2>1. e \in StateHashes /\ Transition[e].sequence \in Nat
    BY EdgeTerms
  <2>2. Prev(e) \in E => Transition[Prev(e)].sequence \in Nat
    BY EdgeTerms
  <2> QED BY <2>1, <2>2, EdgeParent
<1>3. ASSUME NEW c \in Held(s), NEW n \in NodesOf(cert, E), n.state = ParentOf(c)
      PROVE  VerifyStateTransition(cert, n, c) <=> c \in L
  <2>1. c \in L => VerifyStateTransition(cert, n, c)
    BY <1>3, ClaimVerifies
  <2>2. c \notin L => ~VerifyStateTransition(cert, n, c)
    BY VerifiedReachable DEF Held, Submitted
  <2> QED BY <2>1, <2>2
<1>4. cert.session = s
  BY DEF SessionCertificate
<1> QED BY <1>1, <1>2, <1>3, <1>4, HeldFinite DEF Decided

-----------------------------------------------------------------------------
(***************************************************************************)
(* Sums over the accepted credentials and over the edges on chain.         *)
(***************************************************************************)
LEMMA SumImage ==
  ASSUME NEW f, NEW g, NEW C, IsFiniteSet(C),
         \A x, y \in C : EdgeOf(x) = EdgeOf(y) => x = y,
         \A x \in C : f[x] \in Nat /\ f[x] = g[EdgeOf(x)]
  PROVE  /\ IsFiniteSet({EdgeOf(c) : c \in C})
         /\ Cardinality({EdgeOf(c) : c \in C}) = Cardinality(C)
         /\ SumFunctionOnSet(f, C) = SumFunctionOnSet(g, {EdgeOf(c) : c \in C})
<1> DEFINE Im(s) == {EdgeOf(c) : c \in s}
           Same(s) == /\ IsFiniteSet(Im(s)) /\ Cardinality(Im(s)) = Cardinality(s)
                      /\ SumFunctionOnSet(f, s) = SumFunctionOnSet(g, Im(s))
           T == {Cardinality(s) : s \in {t \in SUBSET C : ~Same(t)}}
<1> SUFFICES ASSUME T # {} PROVE FALSE
  <2> HIDE DEF Same
  <2>1. C \in SUBSET C
    OBVIOUS
  <2>2. Same(C)
    BY <2>1
  <2> QED BY <2>2 DEF Same
<1> HIDE DEF Same
<1>f. \A s \in SUBSET C : IsFiniteSet(s) /\ Cardinality(s) \in Nat
  BY FS_Subset, FS_CardinalityType
<1>1. PICK n \in T : \A m \in T : n <= m
  <2>1. T \subseteq Nat
    BY <1>f
  <2> HIDE DEF T
  <2> QED BY <2>1, NatMin
<1>2. PICK s \in SUBSET C : ~Same(s) /\ n = Cardinality(s)
  OBVIOUS
<1>3. s # {}
  <2> SUFFICES ASSUME s = {} PROVE FALSE
    OBVIOUS
  <2>1. Im(s) = {}
    OBVIOUS
  <2> HIDE DEF Im
  <2> QED BY <1>2, <2>1, SumEmpty, FS_EmptySet DEF Same
<1>4. PICK x \in s : TRUE
  BY <1>3
<1> DEFINE t == s \ {x}
<1>5. t \in SUBSET C /\ Cardinality(t) = n - 1 /\ n \in Nat /\ IsFiniteSet(t)
  BY <1>2, <1>f, RemoveFacts
<1>6. Same(t)
  <2> SUFFICES ASSUME ~Same(t) PROVE FALSE
    OBVIOUS
  <2> HIDE DEF t
  <2>1. n - 1 \in T
    BY <1>5
  <2> HIDE DEF T
  <2>2. n <= n - 1
    BY <1>1, <2>1
  <2> QED BY <1>5, <2>2
<1>7. Im(s) = Im(t) \cup {EdgeOf(x)} /\ EdgeOf(x) \notin Im(t)
  OBVIOUS
<1>8. s = t \cup {x} /\ x \notin t
  OBVIOUS
<1>9. /\ \A y \in t \cup {x} : f[y] \in Nat
      /\ \A e \in Im(t) \cup {EdgeOf(x)} : g[e] \in Nat
      /\ f[x] = g[EdgeOf(x)]
  OBVIOUS
<1> HIDE DEF t, Im
<1>10. SumFunctionOnSet(f, s) = SumFunctionOnSet(f, t) + f[x]
  BY <1>5, <1>8, <1>9, SumAdd
<1>11. SumFunctionOnSet(g, Im(s)) = SumFunctionOnSet(g, Im(t)) + g[EdgeOf(x)]
  BY <1>6, <1>7, <1>9, SumAdd DEF Same
<1>12. IsFiniteSet(Im(s)) /\ Cardinality(Im(s)) = Cardinality(Im(t)) + 1
  BY <1>6, <1>7, FS_AddElement DEF Same
<1>13. Cardinality(Im(s)) = Cardinality(s)
  BY <1>12, <1>6, <1>5, <1>2 DEF Same
<1> QED BY <1>2, <1>6, <1>9, <1>10, <1>11, <1>12, <1>13 DEF Same

LEMMA SumMarked ==
  ASSUME NEW f, NEW h, NEW S, IsFiniteSet(S), NEW A \in SUBSET S,
         \A x \in S : f[x] \in Nat /\ h[x] = f[x] + IF x \in A THEN 1 ELSE 0
  PROVE  SumFunctionOnSet(h, S) = SumFunctionOnSet(f, S) + Cardinality(A)
<1> DEFINE Marked(s) == SumFunctionOnSet(h, s) = SumFunctionOnSet(f, s) + Cardinality(A \cap s)
           T == {Cardinality(s) : s \in {t \in SUBSET S : ~Marked(t)}}
<1> SUFFICES ASSUME T # {} PROVE FALSE
  <2>1. S \in SUBSET S /\ A \cap S = A
    OBVIOUS
  <2>2. Marked(S)
    BY <2>1
  <2> QED BY <2>1, <2>2
<1>f. \A s \in SUBSET S : IsFiniteSet(s) /\ Cardinality(s) \in Nat
  BY FS_Subset, FS_CardinalityType
<1>1. PICK n \in T : \A m \in T : n <= m
  BY <1>f, NatMin
<1>2. PICK s \in SUBSET S : ~Marked(s) /\ n = Cardinality(s)
  OBVIOUS
<1>3. s # {}
  <2> SUFFICES ASSUME s = {} PROVE FALSE
    OBVIOUS
  <2>1. A \cap s = {}
    OBVIOUS
  <2>2. SumFunctionOnSet(h, s) = 0 /\ SumFunctionOnSet(f, s) = 0 /\ Cardinality(A \cap s) = 0
    BY <2>1, SumEmpty, FS_EmptySet
  <2> QED BY <1>2, <2>2
<1>4. PICK x \in s : TRUE
  BY <1>3
<1> DEFINE t == s \ {x}
<1>5. t \in SUBSET S /\ Cardinality(t) = n - 1 /\ n \in Nat /\ IsFiniteSet(t)
  BY <1>2, <1>f, RemoveFacts
<1>6. Marked(t)
  <2> SUFFICES ASSUME ~Marked(t) PROVE FALSE
    OBVIOUS
  <2> HIDE DEF t, Marked
  <2>1. n - 1 \in T
    BY <1>5
  <2> QED BY <1>1, <1>5, <2>1
<1>7. s = t \cup {x} /\ x \notin t
  OBVIOUS
<1>8. \A y \in t \cup {x} : f[y] \in Nat /\ h[y] \in Nat
  OBVIOUS
<1>9. A \cap s = IF x \in A THEN (A \cap t) \cup {x} ELSE A \cap t
  OBVIOUS
<1>10. A \cap t \in SUBSET S /\ x \notin A \cap t
  OBVIOUS
<1>11. h[x] = f[x] + IF x \in A THEN 1 ELSE 0
  OBVIOUS
<1> HIDE DEF t
<1>12. /\ SumFunctionOnSet(f, s) = SumFunctionOnSet(f, t) + f[x]
       /\ SumFunctionOnSet(h, s) = SumFunctionOnSet(h, t) + h[x]
  BY <1>5, <1>7, <1>8, SumAdd
<1>13. Cardinality(A \cap s) = Cardinality(A \cap t) + IF x \in A THEN 1 ELSE 0
  <2>1. IsFiniteSet(A \cap t) /\ Cardinality(A \cap t) \in Nat
    BY <1>10, <1>f
  <2>2. Cardinality((A \cap t) \cup {x}) = Cardinality(A \cap t) + 1
    BY <2>1, <1>10, FS_AddElement
  <2>3. CASE x \in A
    BY <1>9, <2>2, <2>3
  <2>4. CASE x \notin A
    BY <1>9, <2>1, <2>4
  <2> QED BY <2>3, <2>4
<1>14. /\ SumFunctionOnSet(f, t) \in Nat /\ Cardinality(A \cap t) \in Nat
       /\ f[x] \in Nat /\ h[x] \in Nat
  BY <1>5, <1>8, <1>10, <1>f, SumNat
<1>15. SumFunctionOnSet(h, t) = SumFunctionOnSet(f, t) + Cardinality(A \cap t)
  BY <1>6
<1>16. Marked(s)
  BY <1>11, <1>12, <1>13, <1>14, <1>15
<1> QED BY <1>2, <1>16

\* As many members of C as there are units of dust, up to all of them, have
\* fewer smaller members than that.
LEMMA RankCount ==
  ASSUME NEW S, S \subseteq Nat, IsFiniteSet(S)
  PROVE  \A d \in 0..Cardinality(S) :
           Cardinality({c \in S : Cardinality({x \in S : x < c}) < d}) = d
<1> DEFINE First(C, d) == {c \in C : Cardinality({x \in C : x < c}) < d}
           Counted(C) == \A d \in 0..Cardinality(C) : Cardinality(First(C, d)) = d
           T == {Cardinality(C) : C \in {D \in SUBSET S : ~Counted(D)}}
<1> SUFFICES ASSUME T # {} PROVE FALSE
  <2>1. S \in SUBSET S
    OBVIOUS
  <2>2. Counted(S)
    BY <2>1
  <2> QED BY <2>2
<1>f. \A s \in SUBSET S : IsFiniteSet(s) /\ Cardinality(s) \in Nat
  BY FS_Subset, FS_CardinalityType
<1>1. PICK n \in T : \A m \in T : n <= m
  BY <1>f, NatMin
<1>2. PICK C \in SUBSET S : ~Counted(C) /\ n = Cardinality(C)
  OBVIOUS
<1>3. PICK d \in 0..n : Cardinality(First(C, d)) # d
  BY <1>2
<1>n. n \in Nat /\ d \in Nat
  BY <1>2, <1>f
<1>r. \A c \in C : {x \in C : x < c} \in SUBSET S /\ Cardinality({x \in C : x < c}) \in Nat
  <2>1. \A c \in C : {x \in C : x < c} \in SUBSET S
    OBVIOUS
  <2> QED BY <2>1, <1>f
<1>4. CASE d = n
  <2>1. ASSUME NEW c \in C PROVE Cardinality({x \in C : x < c}) < n
    <3>1. {x \in C : x < c} \subseteq C \ {c}
      OBVIOUS
    <3>2. Cardinality(C \ {c}) = n - 1 /\ IsFiniteSet(C \ {c})
      BY <1>2, <1>f, RemoveFacts
    <3>3. Cardinality({x \in C : x < c}) <= n - 1
      BY <3>1, <3>2, FS_Subset
    <3> QED BY <1>n, <1>r, <3>3
  <2>2. First(C, d) = C
    BY <1>4, <2>1
  <2> QED BY <1>2, <1>3, <1>4, <2>2
<1>5. CASE d < n
  <2>1. C # {}
    BY <1>2, <1>5, <1>n, FS_EmptySet
  <2> DEFINE m == Max(C)
             D == C \ {m}
  <2>2. /\ m \in C /\ \A y \in C : y <= m
        /\ D \in SUBSET S /\ Cardinality(D) = n - 1
    BY <1>2, <2>1, MaxFacts
  <2> HIDE DEF m
  <2>3. Counted(D)
    <3> SUFFICES ASSUME ~Counted(D) PROVE FALSE
      OBVIOUS
    <3> HIDE DEF D, Counted
    <3>1. n - 1 \in T
      BY <2>2
    <3> QED BY <1>1, <1>n, <2>2, <3>1
  <2>4. Cardinality(First(D, d)) = d
    <3>1. d \in 0..Cardinality(D)
      BY <1>5, <1>n, <2>2
    <3> QED BY <2>3, <3>1
  <2>5. \A c \in D : {x \in C : x < c} = {x \in D : x < c}
    <3>1. \A c \in D : c \in Nat /\ m \in Nat /\ c <= m
      BY <2>2
    <3> QED BY <3>1
  <2>6. {x \in C : x < m} = D
    <3>1. \A x \in C : x \in Nat /\ m \in Nat /\ x <= m
      BY <2>2
    <3>2. \A x \in C : x < m <=> x # m
      BY <3>1
    <3> QED BY <3>2
  <2>7. m \notin First(C, d)
    BY <2>2, <2>6, <1>5, <1>n
  <2>8. First(C, d) = First(D, d)
    BY <2>2, <2>5, <2>7
  <2> QED BY <1>3, <2>4, <2>8
<1> QED BY <1>n, <1>3, <1>4, <1>5

Paid == [c \in Creds |-> AmountPaid(c)]

Exposures(h, C) ==
  h = [s \in SUBSET C |-> IF s = {} THEN 0 ELSE AmountPaid(Pick(s)) + h[s \ {Pick(s)}]]

LEMMA ExposureIsSum ==
  ASSUME NEW C \in SUBSET Creds, IsFiniteSet(C)
  PROVE  CheckedExposure(C) = SumFunctionOnSet(Paid, C)
<1> DEFINE x == CHOOSE h : Exposures(h, C)
           y == CHOOSE h : Sums(h, Paid, C)
<1>1. CheckedExposure(C) = x[C]
  BY DEF CheckedExposure, MapThenSumSet, MapThenFoldSet, Exposures, Pick
<1>2. SumFunctionOnSet(Paid, C) = y[C]
  BY SumIsChoice
<1>3. \A s \in SUBSET C : s # {} => Paid[Pick(s)] = AmountPaid(Pick(s))
  <2>1. \A s \in SUBSET C : s # {} => Pick(s) \in Creds
    BY DEF Pick
  <2> QED BY <2>1 DEF Paid
<1>4. \A h : Exposures(h, C) => Sums(h, Paid, C)
  BY <1>3 DEF Exposures, Sums, SumsOn
<1>5. \A h : Sums(h, Paid, C) => Exposures(h, C)
  BY <1>3 DEF Exposures, Sums, SumsOn
<1>6. \E h : Sums(h, Paid, C)
  BY SumsExist
<1>7. Sums(y, Paid, C)
  BY <1>6
<1>8. Exposures(x, C)
  BY <1>5, <1>6
<1>9. Sums(x, Paid, C)
  BY <1>4, <1>8
<1> HIDE DEF x, y
<1>10. C \in SUBSET C
  OBVIOUS
<1> QED BY <1>1, <1>2, <1>7, <1>9, <1>10, SumsAgree

LEMMA SumOfIsSum == ASSUME NEW f PROVE SumOf(f) = SumFunctionOnSet(f, DOMAIN f)
BY DEF SumOf, FoldFunction, SumFunctionOnSet, FoldFunctionOnSet, MapThenFoldSet

\* A pro-rata share is the whole amount when everything is covered, and less
\* than the amount when not.
LEMMA ProRata ==
  ASSUME NEW a \in Nat, NEW T \in Nat, NEW k \in Nat, T > 0, a > 0, k <= T
  PROVE  /\ (a * k) \div T \in Nat
         /\ k = T => (a * k) \div T = a
         /\ k < T => (a * k) \div T < a
<1> DEFINE n == a * k
           q == n \div T
<1>1. n \in Nat
  OBVIOUS
<1>2. q \in Nat
  <2> HIDE DEF n
  <2> QED BY <1>1
<1>3. q * T <= n /\ n < (q + 1) * T
  <2> HIDE DEF n
  <2> QED BY <1>1
<1> HIDE DEF q
<1>4. ASSUME k = T PROVE q = a
  <2>1. q * T <= a * T /\ a * T < (q + 1) * T
    BY <1>3, <1>4
  <2>2. ~(q >= a + 1)
    BY <1>2, <2>1
  <2>3. ~(a >= q + 1)
    BY <1>2, <2>1
  <2> QED BY <1>2, <2>2, <2>3
<1>5. ASSUME k < T PROVE q < a
  <2>1. a * k < a * T
    BY <1>5
  <2>2. q * T < a * T
    BY <1>1, <1>2, <1>3, <2>1
  <2>3. ~(q >= a)
    BY <1>2, <2>2
  <2> QED BY <1>2, <2>3
<1> QED BY <1>2, <1>4, <1>5 DEF q

-----------------------------------------------------------------------------
(***************************************************************************)
(* Forks and conflicts.  An accepted graph: one credential for every edge  *)
(* of session s on chain.                                                  *)
(***************************************************************************)
Accepted(s, C) ==
  /\ C \subseteq Submitted(s)
  /\ {EdgeOf(c) : c \in C} = EdgesOf(s)
  /\ \A x, y \in C : EdgeOf(x) = EdgeOf(y) => x = y

LEMMA ChildrenInSession ==
  ASSUME ClaimsInv, TermsInv, NEW s \in SessionIds, NEW p \in {s} \cup EdgesOf(s)
  PROVE  Children(p) = {e \in EdgesOf(s) : Prev(e) = p}
<1>1. ASSUME NEW e \in Children(p) PROVE e \in EdgesOf(s) /\ Prev(e) = p
  <2>1. e \in StateHashes /\ edge[e].exists /\ Prev(e) = p
    BY <1>1 DEF Children, Prev
  <2> DEFINE r == SessionOf(e)
  <2>2. r \in SessionIds /\ e \in EdgesOf(r)
    BY <2>1, MessageTypes DEF EdgesOf
  <2> HIDE DEF r
  <2>3. CASE p = s
    <3>1. s \notin StateHashes
      BY SetAssumption
    <3>2. p \notin EdgesOf(r)
      BY <2>3, <3>1 DEF EdgesOf
    <3>3. Prev(e) = r
      BY <2>1, <2>2, <3>2, EdgeParent
    <3> QED BY <2>1, <2>2, <2>3, <3>3
  <2>4. CASE p \in EdgesOf(s)
    <3>1. p \in StateHashes /\ SessionOf(p) = s
      BY <2>4 DEF EdgesOf
    <3>2. p # r
      BY <2>2, <3>1, SetAssumption
    <3>3. p \in EdgesOf(r)
      BY <2>1, <2>2, <3>2, EdgeParent
    <3>4. r = s
      BY <3>1, <3>3 DEF EdgesOf
    <3> QED BY <2>1, <2>2, <3>4
  <2> QED BY <2>3, <2>4
<1>2. \A e \in EdgesOf(s) : Prev(e) = p => e \in Children(p)
  BY DEF EdgesOf, Children, Prev
<1> QED BY <1>1, <1>2

\* The edges of the graph that leave a state, and the states they leave.
LEMMA ForkMeans ==
  ASSUME ClaimsInv, TermsInv, NEW s \in SessionIds, NEW g, Accepted(s, g.edges)
  PROVE  /\ DetectForks(g) = {p \in {s} \cup EdgesOf(s) : fork[p].branch_count > 1}
         /\ \A e \in EdgesOf(s) : /\ Prev(e) \in {s} \cup EdgesOf(s)
                                  /\ Prev(e) \in DetectForks(g)
                                       <=> Cardinality(Children(Prev(e))) >= 2
<1> DEFINE C == g.edges
           E == EdgesOf(s)
           Kids(p) == {EdgeOf(c) : c \in {x \in C : ParentOf(x) = p}}
<1>1. \A c \in C : EdgeOf(c) \in E /\ ParentOf(c) = Prev(EdgeOf(c))
  BY DEF Accepted, ParentOf, Prev
<1>2. \A e \in E : \E c \in C : EdgeOf(c) = e
  BY DEF Accepted
<1>3. \A e \in E : Prev(e) \in {s} \cup E
  BY EdgeParent
<1>4. ASSUME NEW p \in {s} \cup E PROVE Kids(p) = Children(p)
  <2>1. Kids(p) = {e \in E : Prev(e) = p}
    BY <1>1, <1>2
  <2> QED BY <2>1, ChildrenInSession
<1>5. \A p \in {s} \cup E : /\ fork[p].branch_count = Cardinality(Children(p))
                            /\ Cardinality(Children(p)) \in Nat
  <2>1. {s} \cup E \subseteq States
    BY DEF States, EdgesOf
  <2> QED BY <2>1, SetsFinite DEF ClaimsInv, ForkInv
<1>6. DetectForks(g) = {p \in {ParentOf(c) : c \in C} : Cardinality(Kids(p)) > 1}
  BY DEF DetectForks
<1>7. {ParentOf(c) : c \in C} = {Prev(e) : e \in E}
  BY <1>1, <1>2
<1> HIDE DEF Kids
<1>8. \A p \in {Prev(e) : e \in E} : p \in {s} \cup E /\ Kids(p) = Children(p)
  BY <1>3, <1>4
<1>9. DetectForks(g) = {p \in {Prev(e) : e \in E} : Cardinality(Children(p)) > 1}
  BY <1>6, <1>7, <1>8
<1>10. ASSUME NEW p \in {s} \cup E, Cardinality(Children(p)) > 1
       PROVE  p \in {Prev(e) : e \in E}
  <2>1. Children(p) # {}
    BY <1>10, FS_EmptySet
  <2>2. Children(p) = {e \in E : Prev(e) = p}
    BY ChildrenInSession
  <2> QED BY <2>1, <2>2
<1>11. DetectForks(g) = {p \in {s} \cup E : fork[p].branch_count > 1}
  BY <1>3, <1>5, <1>9, <1>10
<1>12. \A e \in E : Prev(e) \in DetectForks(g) <=> Cardinality(Children(Prev(e))) >= 2
  BY <1>3, <1>5, <1>9
<1> QED BY <1>3, <1>11, <1>12

LEMMA TaintUnfold ==
  ASSUME ClaimsInv, TermsInv, NEW s \in SessionIds, NEW e \in EdgesOf(s)
  PROVE  Tainted(e) <=> \/ Cardinality(Children(Prev(e))) >= 2
                        \/ Prev(e) \in EdgesOf(s) /\ Tainted(Prev(e))
<1>1. e \in StateHashes
  BY EdgeTerms
<1>2. Branch[e] = {e} \cup IF Prev(e) \in StateHashes THEN Branch[Prev(e)] ELSE {}
  BY <1>1, BranchUnfold
<1>3. Prev(e) \in StateHashes <=> Prev(e) \in EdgesOf(s)
  <2>1. EdgesOf(s) \subseteq StateHashes /\ s \notin StateHashes
    BY SetAssumption DEF EdgesOf
  <2> QED BY <2>1, EdgeParent
<1> QED BY <1>2, <1>3 DEF Tainted

\* The host marks exactly the edges that have a sibling or descend from one
\* that has.
LEMMA ConflictsFound ==
  ASSUME ClaimsInv, TermsInv, NEW s \in SessionIds, NEW gr, Accepted(s, gr.edges),
         IsFiniteSet(gr.edges), Cardinality(gr.edges) = Cardinality(EdgesOf(s))
  PROVE  ConflictingChildHashes(gr) = {e \in EdgesOf(s) : Tainted(e)}
<1> DEFINE E == EdgesOf(s)
           Forks == DetectForks(gr)
           base == {EdgeOf(c) : c \in {x \in gr.edges : ParentOf(x) \in Forks}}
           N == 1..Cardinality(gr.edges)
<1>e. /\ \A c \in gr.edges : EdgeOf(c) \in E /\ ParentOf(c) = Prev(EdgeOf(c))
      /\ \A e \in E : \E c \in gr.edges : EdgeOf(c) = e
  BY DEF Accepted, ParentOf, Prev
<1>k. \A e \in E : Prev(e) \in Forks <=> Cardinality(Children(Prev(e))) >= 2
  BY ForkMeans
<1>1. PICK g : Spreads(g, gr.edges, base, N) /\ ConflictingChildHashes(gr) = g[N]
  BY SpreadsExist
<1>2. base = {e \in E : Prev(e) \in Forks}
  BY <1>e
<1>3. \A X : {EdgeOf(c) : c \in {x \in gr.edges : ParentOf(x) \in X}} = {e \in E : Prev(e) \in X}
  BY <1>e
<1> HIDE DEF base, Forks
<1>4. /\ g[{}] = base
      /\ \A t \in SUBSET N : t # {} =>
           g[t] = g[t \ {Max(t)}] \cup {e \in E : Prev(e) \in g[t \ {Max(t)}]}
  BY <1>1, <1>3 DEF Spreads
<1>n. /\ N \subseteq Nat /\ IsFiniteSet(N) /\ Cardinality(N) = Cardinality(E)
      /\ Cardinality(E) \in Nat /\ IsFiniteSet(E)
  <2>1. Cardinality(E) \in Nat /\ IsFiniteSet(E)
    BY SetsFinite
  <2> QED BY <2>1, FS_Interval
<1> HIDE DEF N
<1>f. \A t \in SUBSET N : IsFiniteSet(t) /\ Cardinality(t) \in Nat
  BY <1>n, FS_Subset, FS_CardinalityType
<1>t. \A e \in E : Tainted(e) <=> \/ Prev(e) \in Forks
                                  \/ Prev(e) \in E /\ Tainted(Prev(e))
  BY <1>k, TaintUnfold
<1> DEFINE Saturated(X) == \A e \in E : Prev(e) \in X => e \in X
           Good(t) == /\ base \subseteq g[t] /\ g[t] \subseteq E
                      /\ \A e \in g[t] : Tainted(e)
                      /\ Saturated(g[t]) \/ Cardinality(t) <= Cardinality(g[t])
           T == {Cardinality(t) : t \in {u \in SUBSET N : ~Good(u)}}
<1>5. T = {}
  <2> SUFFICES ASSUME T # {} PROVE FALSE
    OBVIOUS
  <2>1. PICK n \in T : \A m \in T : n <= m
    <3>1. T \subseteq Nat
      BY <1>f
    <3> HIDE DEF T
    <3> QED BY <3>1, NatMin
  <2>2. PICK t \in SUBSET N : ~Good(t) /\ n = Cardinality(t)
    OBVIOUS
  <2>3. CASE t = {}
    <3>1. base \subseteq E /\ \A e \in base : Tainted(e)
      BY <1>2, <1>t
    <3>2. IsFiniteSet(base) /\ Cardinality(base) \in Nat /\ Cardinality({}) = 0
      BY <3>1, <1>n, FS_Subset, FS_CardinalityType, FS_EmptySet
    <3>3. Good({})
      BY <1>4, <3>1, <3>2
    <3> QED BY <2>2, <2>3, <3>3
  <2>4. CASE t # {}
    <3> DEFINE c == Max(t)
               u == t \ {c}
               X == g[u]
               Y == g[t]
    <3>1. u \in SUBSET N /\ Cardinality(u) = n - 1 /\ n \in Nat
      BY <2>2, <2>4, <1>n, MaxFacts
    <3>2. Y = X \cup {e \in E : Prev(e) \in X}
      BY <1>4, <2>4
    <3>3. Good(u)
      <4> SUFFICES ASSUME ~Good(u) PROVE FALSE
        OBVIOUS
      <4> HIDE DEF u, Good
      <4>1. n - 1 \in T
        BY <3>1
      <4> HIDE DEF T
      <4>2. n <= n - 1
        BY <2>1, <4>1
      <4> QED BY <3>1, <4>2
    <3> HIDE DEF c, u
    <3>4. /\ base \subseteq X /\ X \subseteq E /\ \A e \in X : Tainted(e)
          /\ Saturated(X) \/ n - 1 <= Cardinality(X)
      BY <3>1, <3>3
    <3> HIDE DEF X, Y
    <3>5. base \subseteq Y /\ Y \subseteq E
      BY <3>2, <3>4
    <3>6. \A e \in Y : Tainted(e)
      BY <3>2, <3>4, <1>t
    <3>7. Saturated(Y) \/ n <= Cardinality(Y)
      <4>1. CASE Saturated(X)
        <5>1. Y = X
          BY <3>2, <3>4, <4>1
        <5> QED BY <4>1, <5>1
      <4>2. CASE ~Saturated(X)
        <5>1. X \subseteq Y /\ X # Y
          BY <3>2, <4>2
        <5>2. IsFiniteSet(Y) /\ IsFiniteSet(X)
          BY <3>4, <3>5, <1>n, FS_Subset
        <5>3. /\ Cardinality(X) <= Cardinality(Y)
              /\ Cardinality(X) = Cardinality(Y) => X = Y
          BY <5>1, <5>2, FS_Subset
        <5>4. Cardinality(X) \in Nat /\ Cardinality(Y) \in Nat
          BY <5>2, FS_CardinalityType
        <5> HIDE DEF Saturated
        <5> QED BY <3>1, <3>4, <4>2, <5>1, <5>3, <5>4
      <4> QED BY <4>1, <4>2
    <3>8. Good(t)
      BY <2>2, <3>5, <3>6, <3>7 DEF Y
    <3> QED BY <2>2, <3>8
  <2> QED BY <2>3, <2>4
<1> DEFINE Z == g[N]
<1>6. Good(N)
  BY <1>5
<1>7. base \subseteq Z /\ Z \subseteq E /\ \A e \in Z : Tainted(e)
  BY <1>6
<1>8. Saturated(Z)
  <2>1. CASE Cardinality(N) <= Cardinality(Z)
    <3>1. /\ IsFiniteSet(Z) /\ Cardinality(Z) <= Cardinality(E)
          /\ Cardinality(Z) = Cardinality(E) => Z = E
      BY <1>7, <1>n, FS_Subset
    <3>2. Cardinality(Z) \in Nat
      BY <3>1, FS_CardinalityType
    <3>3. Z = E
      BY <1>n, <2>1, <3>1, <3>2
    <3> QED BY <3>3
  <2> QED BY <1>6, <2>1
<1> HIDE DEF Z
<1> DEFINE U == {Transition[e].sequence : e \in {x \in E : Tainted(x) /\ x \notin Z}}
<1>9. U = {}
  <2> SUFFICES ASSUME U # {} PROVE FALSE
    OBVIOUS
  <2>1. \A e \in E : Transition[e].sequence \in Nat
    BY EdgeTerms
  <2>2. PICK n \in U : \A m \in U : n <= m
    <3>1. U \subseteq Nat
      BY <2>1
    <3> HIDE DEF U
    <3> QED BY <3>1, NatMin
  <2>3. PICK e \in E : Tainted(e) /\ e \notin Z /\ n = Transition[e].sequence
    OBVIOUS
  <2>4. CASE Prev(e) \in Forks
    BY <1>2, <1>7, <2>3, <2>4
  <2>5. CASE Prev(e) \in E /\ Tainted(Prev(e))
    <3> DEFINE p == Prev(e)
    <3>1. p \notin Z
      BY <1>8, <2>3
    <3>2. Transition[p].sequence \in U
      BY <2>5, <3>1
    <3>3. Transition[p].sequence + 1 = n
      <4>1. p # s
        BY <2>5, SetAssumption DEF EdgesOf
      <4> QED BY <2>3, <4>1, EdgeParent
    <3> HIDE DEF U
    <3>4. n <= Transition[p].sequence
      BY <2>2, <3>2
    <3> QED BY <2>1, <2>5, <3>3, <3>4
  <2> QED BY <1>t, <2>3, <2>4, <2>5
<1>10. Z = {e \in E : Tainted(e)}
  BY <1>7, <1>9
<1> QED BY <1>1, <1>10 DEF Z

-----------------------------------------------------------------------------
(***************************************************************************)
(* The allocation of the host against the one of the program.              *)
(***************************************************************************)
\* The books of an allocated session.
LEMMA AllocatedBooks ==
  ASSUME SafetyInv, ClaimsInv, FinalInv, TermsInv, NEW s \in SessionIds, Allocated(s)
  PROVE  LET r == session[s]
             E == EdgesOf(s)
         IN  /\ r \in OfflineSession /\ r.status # "None"
             /\ r.collateral_coverage_cap \in Nat /\ r.frozen_exposure \in Nat
             /\ r.frozen_exposure = TotalAmount(E) /\ r.frozen_exposure <= U64Max
             /\ r.coverage_status = "Insolvent"
                  <=> r.frozen_exposure > r.collateral_coverage_cap
             /\ Classified(s) = E /\ Finalized(s) = E
             /\ r.allocated_total = Coverage(r)
             /\ r.allocated_total = SumFunctionOnSet(AllocatedOf, E)
             /\ r.base_allocation_total = SumFunctionOnSet(BaseOf(r), E)
             /\ \A e \in E : edge[e].allocated_amount = Share(s, e)
<1> DEFINE r == session[s]
           E == EdgesOf(s)
<1>1. r \in OfflineSession /\ r.collateral_coverage_cap \in Nat /\ r.frozen_exposure \in Nat
  BY SessionFieldTypes DEF SafetyInv, TypeOK
<1>2. /\ r.frozen_exposure = r.aggregate_offline_exposure
      /\ r.status # "None"
      /\ r.coverage_status = "Insolvent"
           <=> r.frozen_exposure > r.collateral_coverage_cap
  BY DEF SafetyInv, FrozenCountersFinal, Lifecycle, Unfrozen, Allocated
<1>3. r.aggregate_offline_exposure = TotalAmount(E) /\ r.aggregate_offline_exposure <= U64Max
  BY DEF ClaimsInv, ExposureInv, TermsInv
<1>4. CountInv(s) /\ PhaseInv(s) /\ ShareInv(s)
  BY DEF FinalInv, SessionInv
<1>5. /\ Classified(s) = E /\ Finalized(s) = E /\ r.allocated_total = Coverage(r)
      /\ r.allocated_total = SumFunctionOnSet(AllocatedOf, E)
      /\ r.base_allocation_total = SumFunctionOnSet(BaseOf(r), E)
  BY <1>4 DEF PhaseInv, CountInv, Allocated
<1>6. \A e \in E : edge[e].allocated_amount = Share(s, e)
  BY <1>4, <1>5 DEF ShareInv, Finalized
<1> QED BY <1>1, <1>2, <1>3, <1>5, <1>6

LEMMA HostExposure ==
  ASSUME NEW s \in SessionIds, NEW C, Accepted(s, C), C \subseteq Creds, IsFiniteSet(C)
  PROVE  /\ Cardinality(C) = Cardinality(EdgesOf(s))
         /\ CheckedExposure(C) = TotalAmount(EdgesOf(s))
<1>1. /\ \A x, y \in C : EdgeOf(x) = EdgeOf(y) => x = y
      /\ {EdgeOf(c) : c \in C} = EdgesOf(s)
  BY DEF Accepted
<1>2. \A x \in C : Paid[x] \in Nat /\ Paid[x] = AmountOf[EdgeOf(x)]
  <2>1. \A x \in C : x \in Creds /\ EdgeOf(x) \in StateHashes
    BY MessageTypes
  <2> QED BY <2>1, MessageTypes DEF Paid, AmountPaid, AmountOf
<1>3. /\ Cardinality({EdgeOf(c) : c \in C}) = Cardinality(C)
      /\ SumFunctionOnSet(Paid, C) = SumFunctionOnSet(AmountOf, {EdgeOf(c) : c \in C})
  BY <1>1, <1>2, SumImage
<1>4. CheckedExposure(C) = SumFunctionOnSet(Paid, C)
  BY ExposureIsSum
<1> QED BY <1>1, <1>3, <1>4 DEF TotalAmount

\* What the program paid in units of dust fits the number of edges.
LEMMA DustFits ==
  ASSUME SafetyInv, ClaimsInv, FinalInv, TermsInv, NEW s \in SessionIds, Allocated(s),
         EdgesOf(s) # {}
  PROVE  LET r == session[s]
         IN  /\ r.frozen_exposure > 0
             /\ Coverage(r) - r.base_allocation_total \in 0..Cardinality(EdgesOf(s))
             /\ r.base_allocation_total \in Nat
             /\ \A e \in EdgesOf(s) : BaseOf(r)[e] \in Nat
<1> DEFINE r == session[s]
           E == EdgesOf(s)
           d == Coverage(r) - r.base_allocation_total
           A == {e \in E : Rank(s, e) < d}
<1>1. /\ r \in OfflineSession /\ r.frozen_exposure = TotalAmount(E)
      /\ r.allocated_total = Coverage(r)
      /\ r.allocated_total = SumFunctionOnSet(AllocatedOf, E)
      /\ r.base_allocation_total = SumFunctionOnSet(BaseOf(r), E)
      /\ \A e \in E : edge[e].allocated_amount = Share(s, e)
      /\ r.frozen_exposure \in Nat
  BY AllocatedBooks
<1>2. IsFiniteSet(E) /\ E \subseteq StateHashes
  BY StageSets
<1>3. r.frozen_exposure > 0
  <2>1. \A e \in E : AmountOf[e] \in Nat /\ AmountOf[e] > 0
    BY <1>2, MessageTypes, EdgeTerms DEF AmountOf
  <2>2. PICK e \in E : TRUE
    OBVIOUS
  <2>3. SumFunctionOnSet(AmountOf, E) = AmountOf[e] + SumFunctionOnSet(AmountOf, E \ {e})
    BY <1>2, <2>1, SumRemove
  <2>4. SumFunctionOnSet(AmountOf, E \ {e}) \in Nat
    <3>1. IsFiniteSet(E \ {e})
      BY <1>2, FS_Subset
    <3> QED BY <2>1, <3>1, SumNat
  <2> QED BY <1>1, <2>1, <2>3, <2>4 DEF TotalAmount
<1>4. \A e \in E : BaseOf(r)[e] \in Nat
  BY <1>1, <1>2, <1>3, BaseTypes
<1>5. \A e \in E : AllocatedOf[e] = BaseOf(r)[e] + IF e \in A THEN 1 ELSE 0
  BY <1>1, <1>2 DEF AllocatedOf, Share
<1>6. A \in SUBSET E
  OBVIOUS
<1> HIDE DEF A
<1>7. SumFunctionOnSet(AllocatedOf, E) = SumFunctionOnSet(BaseOf(r), E) + Cardinality(A)
  BY <1>2, <1>4, <1>5, <1>6, SumMarked
<1>8. /\ Cardinality(A) \in Nat /\ Cardinality(A) <= Cardinality(E)
      /\ Cardinality(E) \in Nat
  BY <1>2, <1>6, FS_Subset, FS_CardinalityType
<1>9. SumFunctionOnSet(BaseOf(r), E) \in Nat
  BY <1>2, <1>4, SumNat
<1> HIDE DEF r, E
<1>10. d \in 0..Cardinality(E)
  BY <1>1, <1>7, <1>8, <1>9
<1> QED BY <1>1, <1>3, <1>4, <1>9, <1>10 DEF r, E

\* The host's allocation passes its own checks, agrees with the program on the
\* total, and is nowhere more than one unit away.
LEMMA HostCoverage ==
  ASSUME SafetyInv, ClaimsInv, FinalInv, TermsInv, NEW s \in SessionIds, Allocated(s),
         NEW C, Accepted(s, C), C \subseteq Creds, IsFiniteSet(C)
  PROVE  LET r == session[s]
             v == AllocateDeterministicCoverage(C, r.collateral_coverage_cap)
         IN  /\ v.sound
             /\ v.coverage = r.allocated_total
             /\ v.insolvent <=> r.coverage_status = "Insolvent"
             /\ \A c \in C : edge[EdgeOf(c)].allocated_amount - v.base[c] \in 0..1
<1> DEFINE r == session[s]
           E == EdgesOf(s)
           cap == r.collateral_coverage_cap
           T == CheckedExposure(C)
           k == CoverageAmount(T, cap)
           base == BaseShares(C, T, k)
           dust == k - SumOf(base)
           payout == Payouts(C, base, dust)
           v == AllocateDeterministicCoverage(C, cap)
<1>b. /\ r \in OfflineSession /\ cap \in Nat /\ r.frozen_exposure \in Nat
      /\ r.frozen_exposure = TotalAmount(E) /\ r.frozen_exposure <= U64Max
      /\ r.coverage_status = "Insolvent" <=> r.frozen_exposure > cap
      /\ r.allocated_total = Coverage(r)
      /\ r.base_allocation_total = SumFunctionOnSet(BaseOf(r), E)
      /\ \A e \in E : edge[e].allocated_amount = Share(s, e)
  BY AllocatedBooks
<1>t. T = r.frozen_exposure /\ Cardinality(C) = Cardinality(E)
  BY <1>b, HostExposure
<1>k. k = Coverage(r) /\ k \in Nat /\ k <= T /\ T \in Nat
  BY <1>b, <1>t, CoverageAmountType DEF Coverage
<1>v. /\ v.coverage = k /\ v.insolvent = (T > cap) /\ v.base = base
      /\ v.sound = (/\ T <= U64Max
                    /\ \A c \in C : AmountPaid(c) > 0 /\ payout[c] <= AmountPaid(c)
                    /\ SumOf(payout) = k)
  BY DEF AllocateDeterministicCoverage, CoverageResult
<1>e. \A c \in C : /\ c \in Creds /\ EdgeOf(c) \in E /\ EdgeOf(c) \in StateHashes
                   /\ AmountPaid(c) = Transition[EdgeOf(c)].amount
                   /\ AmountPaid(c) \in Nat
  <2>1. \A c \in C : c \in Creds /\ EdgeOf(c) \in E /\ EdgeOf(c) \in StateHashes
    BY MessageTypes DEF Accepted
  <2> QED BY <2>1, MessageTypes DEF AmountPaid
<1>a. \A c \in C : AmountPaid(c) > 0
  BY <1>e, EdgeTerms
<1> HIDE DEF v, T
<1>d. DOMAIN base = C /\ DOMAIN payout = C
  BY DEF BaseShares, Payouts
<1>s. SumOf(base) = SumFunctionOnSet(base, C) /\ SumOf(payout) = SumFunctionOnSet(payout, C)
  BY <1>d, SumOfIsSum
<1>f. \A c \in C : base[c] = BaseOf(r)[EdgeOf(c)] /\ base[c] = (AmountPaid(c) * k) \div T
  BY <1>e, <1>t DEF BaseShares, BaseOf, BaseAllocation
<1>p. \A c \in C : payout[c] = base[c] + IF Cardinality({x \in C : x < c}) < dust THEN 1 ELSE 0
  BY DEF Payouts
<1> HIDE DEF base, payout
<1>1. CASE E = {}
  <2>1. C = {}
    BY <1>1, <1>e
  <2>2. T = 0
    BY <1>1, <1>b, <1>t, SumEmpty DEF TotalAmount
  <2>3. k = 0 /\ SumOf(payout) = 0
    BY <1>k, <1>s, <2>1, <2>2, SumEmpty
  <2>4. v.sound
    <3> HIDE DEF k
    <3> QED BY <1>b, <1>t, <1>v, <2>1, <2>3
  <2> QED BY <1>b, <1>t, <1>k, <1>v, <2>1, <2>4 DEF v
<1>2. CASE E # {}
  <2>1. /\ r.frozen_exposure > 0 /\ Coverage(r) - r.base_allocation_total \in 0..Cardinality(E)
        /\ r.base_allocation_total \in Nat /\ \A e \in E : BaseOf(r)[e] \in Nat
    BY <1>2, DustFits
  <2>2. SumOf(base) = r.base_allocation_total
    <3>1. /\ \A x, y \in C : EdgeOf(x) = EdgeOf(y) => x = y
          /\ {EdgeOf(c) : c \in C} = E
      BY DEF Accepted
    <3>2. \A x \in C : base[x] \in Nat /\ base[x] = BaseOf(r)[EdgeOf(x)]
      BY <1>e, <1>f, <2>1
    <3>3. SumFunctionOnSet(base, C) = SumFunctionOnSet(BaseOf(r), {EdgeOf(c) : c \in C})
      BY <3>1, <3>2, SumImage
    <3> QED BY <1>b, <1>s, <3>1, <3>3
  <2>3. dust \in 0..Cardinality(C)
    BY <1>k, <1>t, <2>1, <2>2
  <2> DEFINE A == {c \in C : Cardinality({x \in C : x < c}) < dust}
  <2>4. Cardinality(A) = dust
    <3>1. C \subseteq Nat
      BY SetAssumption
    <3> HIDE DEF dust
    <3> QED BY <2>3, <3>1, RankCount
  <2>5. SumOf(payout) = k
    <3>1. \A c \in C : base[c] \in Nat /\ payout[c] = base[c] + IF c \in A THEN 1 ELSE 0
      BY <1>e, <1>f, <1>p, <2>1
    <3>2. A \in SUBSET C
      OBVIOUS
    <3> HIDE DEF A, dust
    <3>3. SumFunctionOnSet(payout, C) = SumFunctionOnSet(base, C) + Cardinality(A)
      BY <3>1, <3>2, SumMarked
    <3>4. SumOf(payout) = SumOf(base) + dust
      BY <1>s, <2>4, <3>3
    <3> QED BY <3>4, <1>k, <2>1, <2>2 DEF dust
  <2>6. ASSUME NEW c \in C PROVE payout[c] <= AmountPaid(c)
    <3> DEFINE a == AmountPaid(c)
    <3>1. a \in Nat /\ a > 0 /\ T > 0 /\ T \in Nat /\ k \in Nat /\ k <= T
      BY <1>a, <1>e, <1>k, <1>t, <2>1
    <3> HIDE DEF a, k
    <3>2. /\ (a * k) \div T \in Nat
          /\ k = T => (a * k) \div T = a
          /\ k < T => (a * k) \div T < a
      BY <3>1, ProRata
    <3>3. base[c] = (a * k) \div T
      BY <1>f DEF a
    <3>4. CASE k = T
      <4>1. dust = 0
        <5>1. \A x \in C : base[x] = Paid[x]
          <6> SUFFICES ASSUME NEW x \in C PROVE base[x] = Paid[x]
            OBVIOUS
          <6>1. AmountPaid(x) \in Nat /\ AmountPaid(x) > 0
            BY <1>a, <1>e
          <6>2. (AmountPaid(x) * k) \div T = AmountPaid(x)
            BY <3>1, <3>4, <6>1, ProRata
          <6> QED BY <1>e, <1>f, <6>2 DEF Paid
        <5>2. SumFunctionOnSet(base, C) = SumFunctionOnSet(Paid, C)
          BY <5>1, SumSame
        <5>3. SumFunctionOnSet(Paid, C) = T
          BY ExposureIsSum DEF T
        <5> QED BY <1>s, <3>1, <3>4, <5>2, <5>3
      <4>2. Cardinality({x \in C : x < c}) \in Nat
        <5>1. IsFiniteSet({x \in C : x < c})
          BY FS_Subset
        <5> QED BY <5>1, FS_CardinalityType
      <4>3. payout[c] = base[c]
        BY <1>p, <3>2, <3>3, <4>1, <4>2
      <4> QED BY <3>1, <3>2, <3>3, <3>4, <4>3 DEF a
    <3>5. CASE k < T
      <4>1. base[c] \in Nat /\ base[c] < a
        BY <3>2, <3>3, <3>5
      <4>2. payout[c] = base[c] \/ payout[c] = base[c] + 1
        <5> HIDE DEF dust
        <5>1. payout[c] = base[c] + IF Cardinality({x \in C : x < c}) < dust THEN 1 ELSE 0
          BY <1>p
        <5> QED BY <4>1, <5>1
      <4> QED BY <3>1, <4>1, <4>2 DEF a
    <3> QED BY <3>1, <3>4, <3>5
  <2>7. ASSUME NEW c \in C
        PROVE  edge[EdgeOf(c)].allocated_amount - base[c] \in 0..1
    <3>1. edge[EdgeOf(c)].allocated_amount = Share(s, EdgeOf(c))
      BY <1>b, <1>e
    <3>2. base[c] \in Nat /\ base[c] = BaseOf(r)[EdgeOf(c)]
      BY <1>e, <1>f, <2>1
    <3> QED BY <3>1, <3>2 DEF Share
  <2>8. v.sound
    <3> HIDE DEF k
    <3> QED BY <1>a, <1>b, <1>t, <1>v, <2>5, <2>6
  <2> QED BY <1>b, <1>k, <1>t, <1>v, <2>7, <2>8 DEF v
<1> QED BY <1>1, <1>2

-----------------------------------------------------------------------------
\* The auditor's reconstruction agrees with the program for every allocated
\* session: buildStateGraph, detectForks, conflictingChildHashes and
\* allocateDeterministicCoverage against begin_finalization, classify_edge and
\* allocate_next_claim.
THEOREM ReconciliationAlwaysMirrors == Spec => []ReconciliationMirrorsChain
<1>1. ASSUME SafetyInv, ClaimsInv, FinalInv, TermsInv, ClassificationExact
      PROVE  ReconciliationMirrorsChain
  <2> SUFFICES ASSUME NEW s \in SessionIds, Allocated(s)
               PROVE  /\ ValidateCertificateChain(SessionCertificate(s))
                      /\ Mirrors(s, ReconcileSession(SessionCertificate(s), Heap(s)),
                                 EdgesOf(s))
    BY DEF ReconciliationMirrorsChain, EdgesOf
  <2> DEFINE cert == SessionCertificate(s)
             E == EdgesOf(s)
             g == BuildStateGraph(cert, Heap(s))
             C == g.edges
             cap == session[s].collateral_coverage_cap
             v == AllocateDeterministicCoverage(C, cap)
             r == ReconcileSession(cert, Heap(s))
  <2>t. TypeOK
    BY <1>1 DEF SafetyInv
  <2>1. ValidateCertificateChain(cert)
    <3>1. session[s].status # "None"
      BY <1>1, AllocatedBooks
    <3> QED BY <1>1, <3>1 DEF TermsInv
  <2>2. Accepted(s, C)
    <3>1. Decided(cert, Submitted(s), E, Held(s))
      BY <1>1, <2>t, ChainDecides
    <3>2. /\ {Heap(s)[i] : i \in DOMAIN Heap(s)} \ {Malformed} = Held(s)
          /\ IsFiniteSet(Held(s))
      BY HeapHolds, HeldFinite
    <3> HIDE DEF cert
    <3> QED BY <3>1, <3>2, GraphBuilt DEF Accepted
  <2>3. r.graph = g /\ r.exposure = CheckedExposure(C)
    BY DEF ReconcileSession, ReconcileGraph, Reconciled
  <2>4. r.conflicting = {c \in C : EdgeOf(c) \in ConflictingChildHashes(g)}
    BY DEF ReconcileSession, ReconcileGraph, Reconciled
  <2>5. r.coverage = v
    <3>1. cert.collateral_coverage_cap = cap
      BY DEF SessionCertificate
    <3> QED BY <3>1 DEF ReconcileSession, ReconcileGraph, Reconciled
  <2> HIDE DEF g, r, cert
  <2>6. C \subseteq Creds /\ IsFiniteSet(C)
    <3>1. C \subseteq Creds
      BY <2>2 DEF Accepted, Submitted
    <3> QED BY <3>1, SetAssumption, FS_Subset
  <2>7. Cardinality(C) = Cardinality(E) /\ CheckedExposure(C) = TotalAmount(E)
    BY <2>2, <2>6, HostExposure
  <2>8. session[s].frozen_exposure = TotalAmount(E) /\ Classified(s) = E
    BY <1>1, AllocatedBooks
  <2>9. DetectForks(g) = {p \in {s} \cup E : fork[p].branch_count > 1}
    BY <1>1, <2>2, ForkMeans
  <2>10. ConflictingChildHashes(g) = {e \in E : Tainted(e)}
    BY <1>1, <2>2, <2>6, <2>7, ConflictsFound
  <2>11. \A e \in E : edge[e].conflicting <=> Tainted(e)
    BY <1>1, <2>8, VerdictMeans DEF Classified, EdgesOf
  <2>12. \A c \in C : EdgeOf(c) \in E
    BY <2>2 DEF Accepted
  <2>13. \A c \in C : c \in r.conflicting <=> edge[EdgeOf(c)].conflicting
    BY <2>4, <2>10, <2>11, <2>12
  <2>14. /\ v.sound /\ v.coverage = session[s].allocated_total
         /\ v.insolvent <=> session[s].coverage_status = "Insolvent"
         /\ \A c \in C : edge[EdgeOf(c)].allocated_amount - v.base[c] \in 0..1
    BY <1>1, <2>2, <2>6, HostCoverage
  <2>15. {EdgeOf(c) : c \in C} = E
    BY <2>2 DEF Accepted
  <2> HIDE DEF v, E
  <2>16. Mirrors(s, r, E)
    BY <2>3, <2>5, <2>7, <2>8, <2>9, <2>13, <2>14, <2>15 DEF Mirrors
  <2> QED BY <2>1, <2>16 DEF r, cert, E
<1> QED BY <1>1, SafetyInvariant, ClaimsInvariant, FinalInvariant, TermsInvariant,
           ClassificationAlwaysExact, PTL
=============================================================================
