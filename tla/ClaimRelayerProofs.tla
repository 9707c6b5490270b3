------------------------- MODULE ClaimRelayerProofs -------------------------
(***************************************************************************)
(* The claim relayer, for any number of connections, credentials, other    *)
(* relayers, failed calls and restarts: it runs in front of the program    *)
(* without changing what the program promises, it never claims a success   *)
(* that did not happen, and a plan nobody overtook is one that the program *)
(* accepts.                                                                *)
(***************************************************************************)
EXTENDS ClaimRelayer, OfflineGuaranteeProofs

(***************************************************************************)
(* What a step of the chain does to a plan made before it: a claim stays   *)
(* on chain, and a session either gets another claim or keeps its list and *)
(* its edges' representatives.                                             *)
(***************************************************************************)
SessionKept(s) ==
  /\ session'[s].submitted_claim_count = session[s].submitted_claim_count
  /\ Submitted(s)' = Submitted(s)
  /\ \A e \in StateHashes :
       SessionOf(e) = s => /\ edge'[e].exists <=> edge[e].exists
                           /\ edge'[e].representative = edge[e].representative

ChainGrows ==
  /\ \A c \in Creds : claim[c].status # "None" => claim'[c].status # "None"
  /\ \A s \in SessionIds :
       \/ session'[s].submitted_claim_count = session[s].submitted_claim_count + 1
       \/ SessionKept(s)

LEMMA QuietMoves ==
  ASSUME Quiet
  PROVE  ChainGrows
<1>1. \A s \in SessionIds : Submitted(s)' = Submitted(s)
  BY QuietSets
<1>2. \A s \in SessionIds : SessionKept(s)
  BY <1>1 DEF SessionKept, Quiet, SameSession, SameEdge
<1> QED BY <1>2 DEF ChainGrows, Quiet, SameClaim

LEMMA SubmitMoves ==
  ASSUME TypeOK, NEW c \in Creds,
         NEW pred \in Creds \cup {NoClaim}, NEW succ \in Creds \cup {NoClaim},
         SubmitClaimWith(c, pred, succ)
  PROVE  ChainGrows /\ claim'[c].status # "None"
<1> DEFINE e == EdgeOf(c)
           s == SessionOf(e)
<1>1. /\ ListWritten(s, c, pred, succ)
      /\ \A x \in StateHashes : x # e => edge'[x] = edge[x]
  <2>1. SubmitNewEdge(c, pred, succ) \/ SubmitWrapper(c, pred, succ)
    BY DEF SubmitClaimWith
  <2> QED BY <2>1, SubmitNewEdgeWrites, SubmitWrapperWrites
<1> HIDE DEF s, e
<1>2. /\ \A x \in Creds : claim[x].status # "None" => claim'[x].status # "None"
      /\ claim'[c].status # "None"
  BY <1>1 DEF ListWritten
<1>3. session'[s].submitted_claim_count = session[s].submitted_claim_count + 1
        \/ s \notin SessionIds
  BY <1>1 DEF ListWritten
<1>4. ASSUME NEW x \in SessionIds, x # s PROVE SessionKept(x)
  <2>1. session'[x].submitted_claim_count = session[x].submitted_claim_count
    BY <1>1, <1>4 DEF ListWritten
  <2>2. \A y \in Creds : SessionOf(EdgeOf(y)) = x
          => (claim'[y].status # "None" <=> claim[y].status # "None")
    BY <1>1, <1>4 DEF ListWritten, s, e
  <2>3. Submitted(x)' = Submitted(x)
    BY <2>2 DEF Submitted
  <2>4. \A y \in StateHashes : SessionOf(y) = x => edge'[y] = edge[y]
    BY <1>1, <1>4 DEF s
  <2> QED BY <2>1, <2>3, <2>4 DEF SessionKept
<1> QED BY <1>2, <1>3, <1>4 DEF ChainGrows

LEMMA ChainMoves ==
  ASSUME SafetyInv, ClaimsInv, [Next]_vars
  PROVE  ChainGrows
<1>t. TypeOK
  BY DEF SafetyInv
<1>1. ASSUME NEW t \in Times, CreateUserProfile(t) PROVE ChainGrows
  BY <1>1 DEF CreateUserProfile, claimVars, ChainGrows, SessionKept, Submitted
<1>2. ASSUME NEW s \in SessionIds, NEW locked \in Amounts, NEW limit \in Amounts,
             NEW t \in Times, CreateOfflineSession(s, locked, limit, t)
      PROVE  ChainGrows
  <2>1. /\ claim' = claim /\ edge' = edge /\ session[s].status = "None"
        /\ session' = [session EXCEPT ![s] = NewSession(locked, limit, t)]
    BY <1>2 DEF CreateOfflineSession, claimVars
  <2>2. /\ \A x \in SessionIds : x # s => session'[x] = session[x]
        /\ session'[s].submitted_claim_count = 0
    BY <1>t, <2>1 DEF TypeOK, NewSession, EmptySession
  <2>3. session[s].submitted_claim_count = 0
    BY <2>1, UnusedSession, FS_EmptySet DEF ClaimsInv, ListInv
  <2>4. \A x \in SessionIds :
          session'[x].submitted_claim_count = session[x].submitted_claim_count
    BY <2>2, <2>3
  <2>5. \A x : Submitted(x)' = Submitted(x)
    BY <2>1 DEF Submitted
  <2> QED BY <2>1, <2>4, <2>5 DEF ChainGrows, SessionKept
<1>3. ASSUME NEW c \in Creds, SubmitClaim(c) PROVE ChainGrows
  BY <1>3, <1>t, SubmitMoves DEF SubmitClaim
<1> QED BY <1>1, <1>2, <1>3, StepKinds, QuietMoves DEF Eventful

-----------------------------------------------------------------------------
(***************************************************************************)
(* The relayer's invariant.                                                *)
(***************************************************************************)
Handled == {r \in Requests : request[r].at # "idle"}

RequestInv(r) ==
  /\ request[r].at # "idle" => request[r].cred \in Relayed
  /\ request[r].answer \in {"ok", "exists"} =>
       request[r].cred \in Relayed /\ claim[request[r].cred].status # "None"

ServerInv ==
  /\ request \in [Requests -> Request]
  /\ rate \in [Requests -> 0..RateLimit + 1]
  /\ concurrent = Cardinality(Handled)
  /\ \A r \in Requests : RequestInv(r)

\* The neighbours and the representative that c's plan names are right for as
\* long as its session has the claims that the plan was made from.
PlanInv(c) ==
  LET s == SessionOf(EdgeOf(c))
      op == inflight[c]
  IN  (op.at \in {"edge", "send"} /\ claim[c].status = "None") =>
        /\ op.count <= session[s].submitted_claim_count
        /\ session[s].submitted_claim_count = op.count =>
             /\ IsGreatest(Before(Submitted(s), c), op.pred)
             /\ IsLeast(After(Submitted(s), c), op.succ)
             /\ op.at = "send" => op.rep = RequiredRepresentative(c)

OpInv(c) ==
  /\ inflight[c].at = "send" => inflight[c].rep \in Creds
  /\ inflight[c].result = "landed" => claim[c].status # "None"
  /\ PlanInv(c)

SubmitInv ==
  /\ inflight \in [Relayed -> Submission]
  /\ transactions \subseteq Transaction
  /\ faults \in 0..MaxFaults
  /\ \A c \in Relayed : OpInv(c)

RelayInv == ServerInv /\ SubmitInv

-----------------------------------------------------------------------------
(***************************************************************************)
(* The HTTP server.                                                        *)
(***************************************************************************)
LEMMA HandledFinite ==
  IsFiniteSet(Handled) /\ Cardinality(Handled) \in Nat
BY RelayerAssumption, FS_Subset, FS_CardinalityType DEF Handled

LEMMA CardinalityRemoved ==
  ASSUME NEW T, IsFiniteSet(T), NEW R, R \subseteq T
  PROVE  Cardinality(T \ R) = Cardinality(T) - Cardinality(R)
<1>1. T \cap R = R
  OBVIOUS
<1>2. Cardinality(T \ R) = Cardinality(T) - Cardinality(T \cap R)
  BY FS_Difference
<1> QED BY <1>1, <1>2

\* Answering requests that are being handled frees exactly their places, and a
\* success is only told when it happened.
LEMMA AnsweredServer ==
  ASSUME ServerInv, NEW R \in SUBSET Handled, NEW answer \in Answers,
         \A r \in R : answer \in {"ok", "exists"}
                        => claim[request[r].cred].status # "None",
         Answered(R, answer), claim' = claim, rate' = rate
  PROVE  ServerInv'
<1>1. request' = [r \in Requests |->
                    IF r \in R
                    THEN [request[r] EXCEPT !.at = "idle", !.answer = answer]
                    ELSE request[r]]
  BY DEF Answered
<1>2. \A r \in Requests : request[r] \in Request
  BY DEF ServerInv
<1>3. \A q \in Request : /\ [q EXCEPT !.at = "idle", !.answer = answer] \in Request
                         /\ [q EXCEPT !.at = "idle", !.answer = answer].at = "idle"
                         /\ [q EXCEPT !.at = "idle", !.answer = answer].cred = q.cred
                         /\ [q EXCEPT !.at = "idle", !.answer = answer].answer = answer
  BY DEF Request
<1>4. ASSUME NEW r \in Requests
      PROVE  /\ request'[r] \in Request
             /\ r \in R => /\ request'[r].at = "idle" /\ request'[r].answer = answer
                           /\ request'[r].cred = request[r].cred
             /\ r \notin R => request'[r] = request[r]
  BY <1>1, <1>2, <1>3
<1>5. request' \in [Requests -> Request]
  BY <1>1, <1>4
<1>6. Handled' = Handled \ R
  BY <1>4 DEF Handled
<1>7. concurrent' = Cardinality(Handled')
  <2>1. Cardinality(Handled \ R) = Cardinality(Handled) - Cardinality(R)
    BY HandledFinite, CardinalityRemoved
  <2> QED BY <1>6, <2>1 DEF Answered, ServerInv
<1>8. ASSUME NEW r \in Requests PROVE RequestInv(r)'
  <2>1. RequestInv(r)
    BY DEF ServerInv
  <2>2. CASE r \in R
    <3>1. request[r].cred \in Relayed
      BY <2>1, <2>2 DEF RequestInv, Handled
    <3> QED BY <1>4, <2>2, <3>1 DEF RequestInv
  <2>3. CASE r \notin R
    BY <1>4, <2>1, <2>3 DEF RequestInv
  <2> QED BY <2>2, <2>3
<1> QED BY <1>5, <1>7, <1>8 DEF ServerInv

\* Nothing on the server changes, and claims stay on chain.
LEMMA SameServer ==
  ASSUME ServerInv, ChainGrows, UNCHANGED <<request, rate, concurrent>>
  PROVE  ServerInv'
<1>1. Handled' = Handled
  BY DEF Handled
<1>2. \A r \in Requests : RequestInv(r)'
  BY RelayerAssumption DEF ServerInv, RequestInv, ChainGrows
<1> QED BY <1>1, <1>2 DEF ServerInv

LEMMA CountedType ==
  ASSUME NEW n \in 0..RateLimit + 1 PROVE Counted(n) \in 0..RateLimit + 1
BY RelayerAssumption DEF Counted

LEMMA PostServer ==
  ASSUME ServerInv, NEW r \in Requests, NEW c \in Relayed, Post(r, c)
  PROVE  ServerInv'
<1> DEFINE limited == Counted(rate[r]) > RateLimit
           admitted == ~limited /\ ~(~limited /\ concurrent >= MaxConcurrent)
           q == [at |-> IF admitted THEN "reading" ELSE "idle", cred |-> c,
                 answer |-> IF admitted THEN "none" ELSE "error"]
<1>1. /\ request[r].at = "idle"
      /\ rate' = [rate EXCEPT ![r] = Counted(@)]
      /\ concurrent' = IF admitted THEN concurrent + 1 ELSE concurrent
      /\ request' = [request EXCEPT ![r] = q]
      /\ claim' = claim
  BY DEF Post, vars, claimVars
<1>2. /\ q \in Request /\ q.cred \in Relayed /\ q.answer \notin {"ok", "exists"}
      /\ (q.at # "idle") <=> admitted
  BY DEF Request, Answers
<1> HIDE DEF q, admitted
<1>3. /\ request' \in [Requests -> Request]
      /\ request'[r] = q /\ \A x \in Requests : x # r => request'[x] = request[x]
  BY <1>1, <1>2 DEF ServerInv
<1>4. rate' \in [Requests -> 0..RateLimit + 1]
  BY <1>1, CountedType DEF ServerInv
<1>5. concurrent' = Cardinality(Handled')
  <2>1. r \notin Handled
    BY <1>1 DEF Handled
  <2>2. CASE admitted
    <3>1. Handled' = Handled \cup {r}
      BY <1>2, <1>3, <2>2 DEF Handled
    <3> QED BY <1>1, <2>1, <2>2, <3>1, HandledFinite, FS_AddElement DEF ServerInv
  <2>3. CASE ~admitted
    <3>1. Handled' = Handled
      BY <1>1, <1>2, <1>3, <2>3 DEF Handled
    <3> QED BY <1>1, <2>3, <3>1 DEF ServerInv
  <2> QED BY <2>2, <2>3
<1>6. \A x \in Requests : RequestInv(x)'
  BY <1>1, <1>2, <1>3 DEF RequestInv, ServerInv
<1> QED BY <1>3, <1>4, <1>5, <1>6 DEF ServerInv

LEMMA ReadBodyServer ==
  ASSUME ServerInv, NEW r \in Requests, ReadBody(r)
  PROVE  ServerInv' /\ request[r].cred \in Relayed
<1>1. /\ request[r].at = "reading" /\ request' = [request EXCEPT ![r].at = "waiting"]
      /\ rate' = rate /\ concurrent' = concurrent /\ claim' = claim
  BY DEF ReadBody, vars, claimVars
<1>2. request \in [Requests -> Request] /\ request[r] \in Request
  BY DEF ServerInv
<1>3. /\ request' \in [Requests -> Request]
      /\ request'[r].at = "waiting" /\ request'[r].cred = request[r].cred
      /\ request'[r].answer = request[r].answer
      /\ \A x \in Requests : x # r => request'[x] = request[x]
  BY <1>1, <1>2 DEF Request
<1>4. Handled' = Handled
  BY <1>1, <1>3 DEF Handled
<1>5. request[r].cred \in Relayed
  BY <1>1 DEF ServerInv, RequestInv
<1>6. \A x \in Requests : RequestInv(x)'
  BY <1>1, <1>3, <1>5 DEF RequestInv, ServerInv
<1> QED BY <1>1, <1>3, <1>4, <1>5, <1>6 DEF ServerInv

LEMMA RestartServer ==
  ASSUME ServerInv, Restart
  PROVE  ServerInv'
<1>1. /\ request' = [r \in Requests |-> [request[r] EXCEPT !.at = "idle", !.answer = "none"]]
      /\ rate' = [r \in Requests |-> 0] /\ concurrent' = 0
  BY DEF Restart
<1>2. \A q \in Request : /\ [q EXCEPT !.at = "idle", !.answer = "none"] \in Request
                         /\ [q EXCEPT !.at = "idle", !.answer = "none"].at = "idle"
                         /\ [q EXCEPT !.at = "idle", !.answer = "none"].answer = "none"
  BY DEF Request, Answers
<1>3. \A r \in Requests : request[r] \in Request
  BY DEF ServerInv
<1>4. \A r \in Requests : /\ request'[r] \in Request
                          /\ request'[r].at = "idle" /\ request'[r].answer = "none"
  BY <1>1, <1>2, <1>3
<1>5. request' \in [Requests -> Request]
  BY <1>1, <1>4
<1>6. Handled' = {}
  BY <1>4 DEF Handled
<1>7. rate' \in [Requests -> 0..RateLimit + 1]
  <2>1. 0 \in 0..RateLimit + 1
    BY RelayerAssumption
  <2> QED BY <1>1, <2>1
<1>8. \A r \in Requests : RequestInv(r)'
  BY <1>4 DEF RequestInv
<1> QED BY <1>1, <1>5, <1>6, <1>7, <1>8, FS_EmptySet DEF ServerInv

-----------------------------------------------------------------------------
(***************************************************************************)
(* Submissions.                                                            *)
(***************************************************************************)
LEMMA RelayedTypes ==
  ASSUME NEW c \in Relayed
  PROVE  c \in Creds /\ EdgeOf(c) \in StateHashes /\ SessionOf(EdgeOf(c)) \in SessionIds
BY RelayerAssumption, MessageTypes

LEMMA SubmissionFieldTypes ==
  ASSUME NEW op \in Submission
  PROVE  /\ op.count \in Nat
         /\ op.pred \in Creds \cup {NoClaim} /\ op.succ \in Creds \cup {NoClaim}
         /\ op.rep \in Creds \cup {NoClaim}
BY DEF Submission

\* A plan ages well: either its session got another claim, or it is as right as
\* it was.
LEMMA PlanKept ==
  ASSUME TypeOK, SubmitInv, ChainGrows, NEW c \in Relayed,
         inflight'[c].at = inflight[c].at, inflight'[c].count = inflight[c].count,
         inflight'[c].pred = inflight[c].pred, inflight'[c].succ = inflight[c].succ,
         inflight'[c].rep = inflight[c].rep
  PROVE  PlanInv(c)'
<1> DEFINE s == SessionOf(EdgeOf(c))
           n == session[s].submitted_claim_count
<1>1. c \in Creds /\ EdgeOf(c) \in StateHashes /\ s \in SessionIds
  BY RelayedTypes
<1>2. n \in Nat /\ inflight[c].count \in Nat
  BY <1>1, SessionFieldTypes, SubmissionFieldTypes DEF TypeOK, SubmitInv
<1>3. claim'[c].status = "None" => claim[c].status = "None"
  BY <1>1 DEF ChainGrows
<1>4. PlanInv(c)
  BY DEF SubmitInv, OpInv
<1>5. CASE session'[s].submitted_claim_count = n + 1
  <2>1. \A k \in Nat : k <= n => k <= n + 1 /\ n + 1 # k
    BY <1>2
  <2> QED BY <1>2, <1>3, <1>4, <1>5, <2>1 DEF PlanInv
<1>6. CASE SessionKept(s)
  <2>1. RequiredRepresentative(c)' = RequiredRepresentative(c)
    BY <1>1, <1>6 DEF RequiredRepresentative, SessionKept
  <2> QED BY <1>3, <1>4, <1>6, <2>1 DEF PlanInv, SessionKept
<1> QED BY <1>1, <1>5, <1>6 DEF ChainGrows

\* Every submission but the one of c is left alone.
LEMMA OthersKept ==
  ASSUME TypeOK, SubmitInv, ChainGrows, NEW c, c \in Relayed => OpInv(c)',
         \A x \in Relayed : x # c => inflight'[x] = inflight[x]
  PROVE  \A x \in Relayed : OpInv(x)'
<1> SUFFICES ASSUME NEW x \in Relayed, x # c PROVE OpInv(x)'
  OBVIOUS
<1>1. PlanInv(x)'
  BY PlanKept
<1>2. OpInv(x) /\ x \in Creds
  BY RelayedTypes DEF SubmitInv
<1> QED BY <1>1, <1>2 DEF OpInv, ChainGrows

\* No submission moves, whatever the chain does.
LEMMA SameSubmissions ==
  ASSUME TypeOK, SubmitInv, ChainGrows, inflight' = inflight,
         transactions' = transactions, faults' \in 0..MaxFaults
  PROVE  SubmitInv'
<1>1. ASSUME NEW x \in Relayed PROVE OpInv(x)'
  <2>1. PlanInv(x)'
    BY PlanKept
  <2>2. OpInv(x) /\ x \in Creds
    BY RelayedTypes DEF SubmitInv
  <2> QED BY <2>1, <2>2 DEF OpInv, ChainGrows
<1> QED BY <1>1 DEF SubmitInv

\* A submission that has no plan yet or no longer.
LEMMA UnplannedOp ==
  ASSUME NEW c, inflight'[c].at \notin {"edge", "send"}, inflight'[c].result = "none"
  PROVE  OpInv(c)'
BY DEF OpInv, PlanInv

LEMMA NotRunningType ==
  /\ NotRunning \in Submission
  /\ NotRunning.at = "off" /\ NotRunning.result = "none"
  /\ \A at \in {"claim", "confirm"} :
       /\ [NotRunning EXCEPT !.at = at] \in Submission
       /\ [NotRunning EXCEPT !.at = at].at = at
       /\ [NotRunning EXCEPT !.at = at].result = "none"
BY DEF NotRunning, Submission

\* Writing the submission of c.
LEMMA OpWritten ==
  ASSUME SubmitInv, NEW c \in Relayed, NEW op \in Submission,
         inflight' = [inflight EXCEPT ![c] = op]
  PROVE  /\ inflight' \in [Relayed -> Submission]
         /\ inflight'[c] = op
         /\ \A x \in Relayed : x # c => inflight'[x] = inflight[x]
BY DEF SubmitInv

LEMMA DisownedType ==
  ASSUME transactions \subseteq Transaction, NEW c
  PROVE  Disowned(c) \subseteq Transaction
<1>1. \A t \in Transaction : [t EXCEPT !.own = FALSE] \in Transaction
  BY DEF Transaction
<1> QED BY <1>1 DEF Disowned

LEMMA PlannedType ==
  ASSUME SubmitInv, NEW c \in Relayed, inflight[c].at = "send", NEW own \in BOOLEAN
  PROVE  Planned(c, own) \in Transaction
<1>1. /\ inflight[c].pred \in Creds \cup {NoClaim}
      /\ inflight[c].succ \in Creds \cup {NoClaim} /\ inflight[c].rep \in Creds
  BY SubmissionFieldTypes DEF SubmitInv, OpInv
<1> QED BY <1>1 DEF Planned, Transaction

LEMMA FaultType ==
  ASSUME SubmitInv, Fault \/ UNCHANGED faults
  PROVE  faults' \in 0..MaxFaults
BY RelayerAssumption DEF SubmitInv, Fault

\* The submission of c ends: everybody who shares it gets the same answer.
LEMMA SettleKeeps ==
  ASSUME TypeOK, RelayInv, ChainGrows, NEW c \in Relayed, NEW answer \in Answers,
         answer \in {"ok", "exists"} => claim[c].status # "None",
         Settle(c, answer), Fault \/ UNCHANGED faults
  PROVE  RelayInv'
<1>1. /\ inflight' = [inflight EXCEPT ![c] = NotRunning]
      /\ transactions' = Disowned(c) /\ Answered(Waiting(c), answer)
      /\ claim' = claim /\ rate' = rate
  BY DEF Settle, vars, claimVars
<1>2. Waiting(c) \in SUBSET Handled /\ \A r \in Waiting(c) : request[r].cred = c
  BY DEF Waiting, Handled
<1>3. ServerInv'
  BY <1>1, <1>2, AnsweredServer DEF RelayInv
<1> USE DEF RelayInv
<1>4. /\ inflight' \in [Relayed -> Submission] /\ inflight'[c] = NotRunning
      /\ \A x \in Relayed : x # c => inflight'[x] = inflight[x]
  BY <1>1, OpWritten, NotRunningType
<1>5. \A x \in Relayed : OpInv(x)'
  <2>1. OpInv(c)'
    BY <1>4, NotRunningType, UnplannedOp
  <2> QED BY <1>4, <2>1, OthersKept
<1>6. transactions' \subseteq Transaction
  BY <1>1, DisownedType DEF SubmitInv
<1>7. faults' \in 0..MaxFaults
  BY FaultType
<1> QED BY <1>3, <1>4, <1>5, <1>6, <1>7 DEF SubmitInv

\* The submission of c goes on with op.
LEMMA AdvanceKeeps ==
  ASSUME TypeOK, RelayInv, ChainGrows, NEW c \in Relayed, NEW op \in Submission,
         Advance(c, op), (inflight'[c] = op) => OpInv(c)'
  PROVE  RelayInv'
<1>1. /\ inflight' = [inflight EXCEPT ![c] = op]
      /\ UNCHANGED <<request, rate, concurrent>>
      /\ transactions' = transactions /\ faults' = faults
  BY DEF Advance
<1>2. ServerInv'
  BY <1>1, SameServer DEF RelayInv
<1> USE DEF RelayInv
<1>3. /\ inflight' \in [Relayed -> Submission] /\ inflight'[c] = op
      /\ \A x \in Relayed : x # c => inflight'[x] = inflight[x]
  BY <1>1, OpWritten
<1>4. \A x \in Relayed : OpInv(x)'
  BY <1>3, OthersKept
<1> QED BY <1>1, <1>2, <1>3, <1>4 DEF SubmitInv

-----------------------------------------------------------------------------
(***************************************************************************)
(* The plan.  On a list that is linked as the program keeps it, the        *)
(* relayer's search finds the neighbours of c, and the program accepts     *)
(* them.                                                                   *)
(***************************************************************************)
LEMMA LeastUnique ==
  ASSUME NEW S, S \subseteq Nat, NEW x, IsLeast(S, x), NEW y, IsLeast(S, y)
  PROVE  x = y
<1>1. CASE S # {}
  <2>1. x \in Nat /\ y \in Nat /\ x <= y /\ y <= x
    BY <1>1 DEF IsLeast
  <2> QED BY <2>1
<1> QED BY <1>1 DEF IsLeast

LEMMA GreatestUnique ==
  ASSUME NEW S, S \subseteq Nat, NEW x, IsGreatest(S, x), NEW y, IsGreatest(S, y)
  PROVE  x = y
<1>1. CASE S # {}
  <2>1. x \in Nat /\ y \in Nat /\ x <= y /\ y <= x
    BY <1>1 DEF IsGreatest
  <2> QED BY <2>1
<1> QED BY <1>1 DEF IsGreatest

LEMMA LeastExists ==
  ASSUME NEW S, S \subseteq Nat
  PROVE  IsLeast(S, Least(S))
<1>1. CASE S # {}
  <2>1. \E x \in S : \A y \in S : x <= y
    BY <1>1, NatMin
  <2> QED BY <1>1, <2>1 DEF Least, IsLeast
<1> QED BY <1>1 DEF Least, IsLeast

LEMMA GreatestIs ==
  ASSUME NEW S, S \subseteq Nat, NEW x, IsGreatest(S, x)
  PROVE  IsGreatest(S, Greatest(S))
BY DEF Greatest, IsGreatest

LEMMA FoundNeighbours ==
  ASSUME TypeOK, ListInv, NEW s \in SessionIds, NEW c \in Creds
  PROVE  LET S == Submitted(s)
             succ == Successor(S, c)
             pred == Predecessor(S, succ)
         IN  /\ IsLeast(After(S, c), succ)
             /\ succ \in Creds \cup {NoClaim} /\ pred \in Creds \cup {NoClaim}
             /\ c \notin S => IsGreatest(Before(S, c), pred)
<1> DEFINE S == Submitted(s)
           succ == Successor(S, c)
           pred == Predecessor(S, succ)
           P == IF succ = NoClaim THEN S ELSE Before(S, succ)
<1>1. /\ S \subseteq Nat /\ 0 \notin S /\ S \subseteq Creds /\ c \in Nat
  BY SetsFinite, SetAssumption DEF Submitted
<1>2. /\ IsGreatest(S, session[s].claim_tail)
      /\ \A x \in S : IsGreatest(Before(S, x), claim[x].previous_claim)
  BY <1>1 DEF ListInv, Linked, PrevLink
<1> HIDE DEF S
<1>3. IsLeast(After(S, c), succ)
  <2>1. {x \in S : c < x} = After(S, c) /\ After(S, c) \subseteq Nat
    BY <1>1 DEF After
  <2> QED BY <2>1, LeastExists DEF Successor
<1>4. succ = NoClaim \/ succ \in S
  BY <1>3 DEF IsLeast, After
<1> HIDE DEF succ
<1>5. P \subseteq S /\ P \subseteq Nat
  BY <1>1 DEF Before
<1>6. IsGreatest(P, pred)
  <2>1. pred = Greatest(P)
    BY DEF Predecessor, Before
  <2>2. \E x : IsGreatest(P, x)
    BY <1>2, <1>4
  <2> HIDE DEF P, pred
  <2> QED BY <1>5, <2>1, <2>2, GreatestIs
<1>7. ASSUME c \notin S PROVE P = Before(S, c)
  <2>1. CASE succ = NoClaim
    <3>1. After(S, c) = {}
      BY <1>1, <1>3, <2>1 DEF IsLeast, After, NoClaim
    <3>2. \A y \in S : y \in Nat /\ ~(y > c) /\ y # c
      BY <1>1, <1>7, <3>1 DEF After
    <3>3. \A y \in S : y < c
      BY <1>1, <3>2
    <3> QED BY <2>1, <3>3 DEF Before
  <2>2. CASE succ # NoClaim
    <3>1. succ \in After(S, c) /\ \A y \in After(S, c) : succ <= y
      BY <1>3, <2>2 DEF IsLeast
    <3>2. succ \in Nat /\ c < succ
      BY <1>1, <3>1 DEF After
    <3>3. \A y \in S : y \in Nat /\ y # c /\ (y > c => succ <= y)
      BY <1>1, <1>7, <3>1 DEF After
    <3>4. \A y \in S : y < succ <=> y < c
      <4>1. \A y \in Nat : (y # c /\ (y > c => succ <= y)) => (y < succ <=> y < c)
        BY <1>1, <3>2
      <4> QED BY <3>3, <4>1
    <3> QED BY <2>2, <3>4 DEF Before
  <2> QED BY <2>1, <2>2
<1>8. pred \in Creds \cup {NoClaim}
  BY <1>1, <1>5, <1>6 DEF IsGreatest
<1> HIDE DEF P, pred
<1>9. c \notin S => IsGreatest(Before(S, c), pred)
  BY <1>6, <1>7
<1> QED BY <1>1, <1>3, <1>4, <1>8, <1>9 DEF S, succ, pred

LEMMA NeighboursAccepted ==
  ASSUME TypeOK, ListInv, NEW s \in SessionIds, NEW c \in Creds,
         claim[c].status = "None", NEW pred, NEW succ,
         IsGreatest(Before(Submitted(s), c), pred),
         IsLeast(After(Submitted(s), c), succ)
  PROVE  CanInsertBetween(s, c, pred, succ)
<1> DEFINE S == Submitted(s)
           r == session[s]
<1>1. /\ S \subseteq Nat /\ 0 \notin S /\ IsFiniteSet(S) /\ c \in Nat /\ c \notin S
      /\ r.submitted_claim_count = Cardinality(S)
      /\ IsLeast(S, r.claim_head) /\ IsGreatest(S, r.claim_tail)
      /\ \A x \in S : /\ IsLeast(After(S, x), claim[x].next_claim)
                      /\ IsGreatest(Before(S, x), claim[x].previous_claim)
                      /\ SessionOf(EdgeOf(x)) = s
  BY SetsFinite, SetAssumption DEF ListInv, Linked, NextLink, PrevLink, Submitted
<1>2. IsGreatest(Before(S, c), pred) /\ IsLeast(After(S, c), succ)
  OBVIOUS
<1> HIDE DEF S
<1>3. \A y \in S : y \in Nat /\ y # 0 /\ y # c /\ (y < c \/ y > c)
  BY <1>1
<1>4. /\ \/ pred = NoClaim /\ Before(S, c) = {}
         \/ pred # NoClaim /\ pred \in S /\ pred < c /\ \A y \in S : y < c => y <= pred
      /\ \/ succ = NoClaim /\ After(S, c) = {}
         \/ succ # NoClaim /\ succ \in S /\ c < succ /\ \A y \in S : y > c => succ <= y
  <2>1. \/ pred = NoClaim /\ Before(S, c) = {}
        \/ pred # NoClaim /\ pred \in S /\ pred < c /\ \A y \in S : y < c => y <= pred
    BY <1>2, <1>3 DEF IsGreatest, Before, NoClaim
  <2>2. \/ succ = NoClaim /\ After(S, c) = {}
        \/ succ # NoClaim /\ succ \in S /\ c < succ /\ \A y \in S : y > c => succ <= y
    BY <1>1, <1>2, <1>3 DEF IsLeast, After, NoClaim
  <2> QED BY <2>1, <2>2
<1>5. S # {} => r.submitted_claim_count # 0
  BY <1>1, FS_EmptySet
<1>6. CASE pred = NoClaim /\ succ = NoClaim
  <2>1. S = {}
    BY <1>3, <1>4, <1>6 DEF Before, After
  <2>2. r.submitted_claim_count = 0 /\ r.claim_head = NoClaim
    BY <1>1, <2>1, FS_EmptySet DEF IsLeast
  <2> QED BY <1>6, <2>2 DEF CanInsertBetween
<1>7. CASE pred = NoClaim /\ succ # NoClaim
  <2>1. \A y \in S : y > c /\ succ <= y
    BY <1>3, <1>4, <1>7 DEF Before
  <2>2. IsLeast(S, succ)
    BY <1>4, <1>7, <2>1 DEF IsLeast
  <2>3. succ = r.claim_head
    BY <1>1, <2>2, LeastUnique
  <2>4. \A y \in S : ~(y < succ)
    <3>1. succ \in Nat /\ \A y \in Nat : succ <= y => ~(y < succ)
      BY <1>3, <1>4, <1>7
    <3> QED BY <1>3, <2>1, <3>1
  <2>5. claim[succ].previous_claim = NoClaim
    BY <1>1, <1>4, <1>7, <2>4 DEF IsGreatest, Before
  <2> QED BY <1>1, <1>4, <1>5, <1>7, <2>3, <2>5 DEF CanInsertBetween
<1>8. CASE pred # NoClaim /\ succ = NoClaim
  <2>1. \A y \in S : y < c /\ y <= pred
    BY <1>3, <1>4, <1>8 DEF After
  <2>2. IsGreatest(S, pred)
    BY <1>4, <1>8, <2>1 DEF IsGreatest
  <2>3. pred = r.claim_tail
    BY <1>1, <2>2, GreatestUnique
  <2>4. \A y \in S : ~(y > pred)
    <3>1. pred \in Nat /\ \A y \in Nat : y <= pred => ~(y > pred)
      BY <1>3, <1>4, <1>8
    <3> QED BY <1>3, <2>1, <3>1
  <2>5. claim[pred].next_claim = NoClaim
    BY <1>1, <1>4, <1>8, <2>4 DEF IsLeast, After
  <2> QED BY <1>1, <1>4, <1>5, <1>8, <2>3, <2>5 DEF CanInsertBetween
<1>9. CASE pred # NoClaim /\ succ # NoClaim
  <2>0. /\ pred \in S /\ succ \in S /\ pred \in Nat /\ succ \in Nat
        /\ pred < c /\ c < succ
        /\ \A y \in S : y \in Nat /\ y # c /\ (y < c => y <= pred) /\ (y > c => succ <= y)
    BY <1>3, <1>4, <1>9
  <2>1. \A y \in Nat : (y # c /\ (y < c => y <= pred) /\ (y > c => succ <= y))
                         => (y > pred => succ <= y) /\ (y < succ => y <= pred)
    BY <1>1, <2>0
  <2>2. IsLeast(After(S, pred), succ) /\ IsGreatest(Before(S, succ), pred)
    <3>1. pred < succ /\ succ > pred
      BY <1>1, <2>0
    <3> QED BY <2>0, <2>1, <3>1 DEF IsLeast, IsGreatest, After, Before
  <2>3. After(S, pred) \subseteq Nat /\ Before(S, succ) \subseteq Nat
    BY <1>1 DEF After, Before
  <2>4. claim[pred].next_claim = succ /\ claim[succ].previous_claim = pred
    BY <1>1, <2>0, <2>2, <2>3, LeastUnique, GreatestUnique
  <2> QED BY <1>1, <1>5, <1>9, <2>0, <2>4 DEF CanInsertBetween
<1> QED BY <1>6, <1>7, <1>8, <1>9

-----------------------------------------------------------------------------
(***************************************************************************)
(* The steps of #submit.                                                   *)
(***************************************************************************)
LEMMA ReadClaimKeeps ==
  ASSUME TypeOK, RelayInv, ChainGrows, NEW c \in Relayed, ReadClaim(c)
  PROVE  RelayInv'
<1>1. CASE claim[c].status # "None" /\ Settle(c, "exists") /\ UNCHANGED faults
  BY <1>1, SettleKeeps DEF Answers
<1>2. CASE Advance(c, [inflight[c] EXCEPT !.at = "session"])
  <2> DEFINE op == [inflight[c] EXCEPT !.at = "session"]
  <2>1. inflight[c] \in Submission
    BY DEF RelayInv, SubmitInv
  <2>2. op \in Submission /\ op.at = "session" /\ op.result = inflight[c].result
    BY <2>1 DEF Submission
  <2>3. inflight[c].result = "landed" => claim[c].status # "None"
    BY DEF RelayInv, SubmitInv, OpInv
  <2>4. claim'[c].status # "None" \/ claim[c].status = "None"
    BY RelayedTypes DEF ChainGrows
  <2> HIDE DEF op
  <2>5. (inflight'[c] = op) => OpInv(c)'
    BY <2>2, <2>3, <2>4 DEF OpInv, PlanInv
  <2> QED BY <1>2, <2>2, <2>5, AdvanceKeeps DEF op
<1> QED BY <1>1, <1>2 DEF ReadClaim

LEMMA ReadSessionKeeps ==
  ASSUME TypeOK, RelayInv, ChainGrows, NEW c \in Relayed, ReadSession(c)
  PROVE  RelayInv'
<1> DEFINE r == session[SessionOf(EdgeOf(c))]
           op == [inflight[c] EXCEPT !.at = "list", !.count = r.submitted_claim_count,
                                     !.head = r.claim_head, !.tail = r.claim_tail]
<1>1. CASE Settle(c, "error") /\ UNCHANGED faults
  BY <1>1, SettleKeeps DEF Answers
<1>2. CASE Advance(c, op)
  <2>1. inflight[c] \in Submission /\ r \in OfflineSession
    BY RelayedTypes DEF RelayInv, SubmitInv, TypeOK
  <2>2. /\ r.submitted_claim_count \in Nat /\ r.claim_head \in Creds \cup {NoClaim}
        /\ r.claim_tail \in Creds \cup {NoClaim}
    BY <2>1, SessionFieldTypes
  <2> HIDE DEF r
  <2>3. op \in Submission /\ op.at = "list" /\ op.result = inflight[c].result
    BY <2>1, <2>2 DEF Submission
  <2>4. inflight[c].result = "landed" => claim[c].status # "None"
    BY DEF RelayInv, SubmitInv, OpInv
  <2>5. claim'[c].status # "None" \/ claim[c].status = "None"
    BY RelayedTypes DEF ChainGrows
  <2> HIDE DEF op
  <2>6. (inflight'[c] = op) => OpInv(c)'
    BY <2>3, <2>4, <2>5 DEF OpInv, PlanInv
  <2> QED BY <1>2, <2>3, <2>6, AdvanceKeeps
<1> QED BY <1>1, <1>2 DEF ReadSession

LEMMA ReadListKeeps ==
  ASSUME TypeOK, ListInv, RelayInv, ChainGrows, NEW c \in Relayed, ReadList(c)
  PROVE  RelayInv'
<1> DEFINE s == SessionOf(EdgeOf(c))
           S == Submitted(s)
           succ == Successor(S, c)
           pred == Predecessor(S, succ)
           b == ParentListed(S, c)
           n == inflight[c].count
           op == [NotRunning EXCEPT !.at = "edge", !.count = n, !.succ = succ,
                                    !.pred = pred, !.hasParent = b]
<1>1. Listed(s) = S
  BY DEF Listed, Submitted
<1>2. \/ Settle(c, "error") /\ UNCHANGED faults
      \/ n = Cardinality(S) /\ Advance(c, op)
  BY <1>1 DEF ReadList, ClaimListFits
<1>3. CASE Settle(c, "error") /\ UNCHANGED faults
  BY <1>3, SettleKeeps DEF Answers
<1>4. CASE n = Cardinality(S) /\ Advance(c, op)
  <2>1. c \in Creds /\ s \in SessionIds
    BY RelayedTypes
  <2>2. /\ IsLeast(After(S, c), succ)
        /\ succ \in Creds \cup {NoClaim} /\ pred \in Creds \cup {NoClaim}
        /\ c \notin S => IsGreatest(Before(S, c), pred)
    BY <2>1, FoundNeighbours
  <2>3. n \in Nat
    BY SubmissionFieldTypes DEF RelayInv, SubmitInv
  <2>4. session[s].submitted_claim_count = n
    BY <1>4, <2>1 DEF ListInv
  <2>5. claim[c].status = "None" => c \notin S
    BY DEF Submitted
  <2>b. b \in BOOLEAN
    BY DEF ParentListed
  <2> HIDE DEF S, succ, pred, b, n
  <2>6. /\ op \in Submission /\ op.at = "edge" /\ op.result = "none" /\ op.count = n
        /\ op.succ = succ /\ op.pred = pred
    BY <2>2, <2>3, <2>b DEF Submission, NotRunning
  <2>7. /\ claim' = claim /\ session' = session
    BY <1>4 DEF Advance, vars, claimVars
  <2>8. S = Submitted(s) /\ Submitted(s)' = Submitted(s)
    BY <2>7 DEF S, Submitted
  <2> HIDE DEF op
  <2>9. (inflight'[c] = op) => OpInv(c)'
    <3> SUFFICES ASSUME inflight'[c] = op PROVE OpInv(c)'
      OBVIOUS
    <3>1. PlanInv(c)'
      BY <2>2, <2>3, <2>4, <2>5, <2>6, <2>7, <2>8 DEF PlanInv
    <3> QED BY <2>6, <3>1 DEF OpInv
  <2> QED BY <1>4, <2>6, <2>9, AdvanceKeeps
<1> QED BY <1>2, <1>3, <1>4

LEMMA ReadEdgeKeeps ==
  ASSUME TypeOK, RelayInv, ChainGrows, NEW c \in Relayed, ReadEdge(c),
         edge[EdgeOf(c)].exists => edge[EdgeOf(c)].representative \in Creds
  PROVE  RelayInv'
<1> DEFINE rep == RequiredRepresentative(c)
           op == [inflight[c] EXCEPT !.at = "send", !.hasParent = FALSE, !.rep = rep]
<1>1. /\ inflight[c].at = "edge"
      /\ \/ Settle(c, "error") /\ UNCHANGED faults
         \/ Advance(c, op)
  BY DEF ReadEdge, RequiredRepresentative
<1>2. CASE Settle(c, "error") /\ UNCHANGED faults
  BY <1>2, SettleKeeps DEF Answers
<1>3. CASE Advance(c, op)
  <2>1. inflight[c] \in Submission /\ OpInv(c) /\ c \in Creds
    BY RelayedTypes DEF RelayInv, SubmitInv
  <2>2. rep \in Creds
    BY <2>1 DEF RequiredRepresentative
  <2>3. claim' = claim /\ session' = session /\ edge' = edge
    BY <1>3 DEF Advance, vars, claimVars
  <2>4. RequiredRepresentative(c)' = rep
    BY <2>3 DEF RequiredRepresentative
  <2> HIDE DEF rep
  <2>5. /\ op \in Submission /\ op.at = "send" /\ op.rep = rep
        /\ op.result = inflight[c].result /\ op.count = inflight[c].count
        /\ op.pred = inflight[c].pred /\ op.succ = inflight[c].succ
    BY <2>1, <2>2 DEF Submission
  <2>6. \A x : Submitted(x)' = Submitted(x)
    BY <2>3 DEF Submitted
  <2> HIDE DEF op
  <2>7. (inflight'[c] = op) => OpInv(c)'
    <3> SUFFICES ASSUME inflight'[c] = op PROVE OpInv(c)'
      OBVIOUS
    <3>1. PlanInv(c)'
      BY <1>1, <2>1, <2>3, <2>4, <2>5, <2>6 DEF PlanInv, OpInv
    <3> QED BY <2>1, <2>2, <2>3, <2>5, <3>1 DEF OpInv
  <2> QED BY <1>3, <2>5, <2>7, AdvanceKeeps
<1> QED BY <1>1, <1>2, <1>3

LEMMA SendKeeps ==
  ASSUME TypeOK, RelayInv, ChainGrows, NEW c \in Relayed, Send(c)
  PROVE  RelayInv'
<1>0. inflight[c].at = "send" /\ ServerInv /\ SubmitInv
  BY DEF Send, RelayInv
<1>1. Planned(c, TRUE) \in Transaction /\ Planned(c, FALSE) \in Transaction
  BY <1>0, PlannedType
<1>2. CASE /\ transactions' = transactions \cup {Planned(c, TRUE)}
           /\ inflight' = [inflight EXCEPT ![c] = [NotRunning EXCEPT !.at = "confirm"]]
           /\ UNCHANGED <<vars, request, rate, concurrent, faults>>
  <2> DEFINE op == [NotRunning EXCEPT !.at = "confirm"]
  <2>1. op \in Submission /\ op.at = "confirm" /\ op.result = "none"
    BY NotRunningType
  <2> HIDE DEF op
  <2>2. /\ inflight' \in [Relayed -> Submission] /\ inflight'[c] = op
        /\ \A x \in Relayed : x # c => inflight'[x] = inflight[x]
    BY <1>0, <1>2, <2>1, OpWritten DEF op
  <2>3. \A x \in Relayed : OpInv(x)'
    BY <1>0, <2>1, <2>2, UnplannedOp, OthersKept
  <2>4. ServerInv'
    BY <1>0, <1>2, SameServer
  <2> QED BY <1>0, <1>1, <1>2, <2>2, <2>3, <2>4 DEF RelayInv, SubmitInv
<1>3. CASE /\ Fault
           /\ transactions' = Disowned(c) \cup {Planned(c, FALSE)}
           /\ inflight' = [inflight EXCEPT ![c] = NotRunning]
           /\ Answered(Waiting(c), "error")
           /\ UNCHANGED <<vars, rate>>
  <2>1. Waiting(c) \in SUBSET Handled /\ "error" \in Answers /\ claim' = claim
    BY <1>3 DEF Waiting, Handled, Answers, vars, claimVars
  <2>2. ServerInv'
    BY <1>0, <1>3, <2>1, AnsweredServer
  <2>3. /\ inflight' \in [Relayed -> Submission] /\ inflight'[c] = NotRunning
        /\ \A x \in Relayed : x # c => inflight'[x] = inflight[x]
    BY <1>0, <1>3, OpWritten, NotRunningType
  <2>4. OpInv(c)'
    BY <2>3, NotRunningType, UnplannedOp
  <2>5. \A x \in Relayed : OpInv(x)'
    BY <1>0, <2>3, <2>4, OthersKept
  <2>6. transactions' \subseteq Transaction
    BY <1>0, <1>1, <1>3, DisownedType DEF SubmitInv
  <2>7. faults' \in 0..MaxFaults
    BY <1>0, <1>3, FaultType
  <2> QED BY <2>2, <2>3, <2>5, <2>6, <2>7 DEF RelayInv, SubmitInv
<1>4. CASE Settle(c, "error") /\ UNCHANGED faults
  BY <1>4, SettleKeeps DEF Answers
<1> QED BY <1>2, <1>3, <1>4 DEF Send

LEMMA ConfirmKeeps ==
  ASSUME TypeOK, RelayInv, ChainGrows, NEW c \in Relayed, Confirm(c)
  PROVE  RelayInv'
<1>1. /\ Settle(c, ConfirmationAnswer(inflight[c].result)) /\ UNCHANGED faults
  BY DEF Confirm
<1>2. ConfirmationAnswer(inflight[c].result) \in Answers
  BY DEF ConfirmationAnswer, Answers
<1>3. ConfirmationAnswer(inflight[c].result) \in {"ok", "exists"}
        => claim[c].status # "None"
  BY DEF ConfirmationAnswer, RelayInv, SubmitInv, OpInv
<1> QED BY <1>1, <1>2, <1>3, SettleKeeps

\* A transaction leaves the network, and the submission that waits for it, if
\* any, learns its fate.
LEMMA ResultKeeps ==
  ASSUME TypeOK, RelayInv, ChainGrows, NEW t \in transactions,
         NEW result \in {"landed", "failed"},
         result = "landed" => claim'[t.cred].status # "None",
         transactions' = transactions \ {t},
         inflight' = WithResult(t, result),
         UNCHANGED <<request, rate, concurrent>>, Fault \/ UNCHANGED faults
  PROVE  RelayInv'
<1>1. ServerInv /\ SubmitInv /\ ServerInv'
  BY SameServer DEF RelayInv
<1>2. t.cred \in Relayed
  BY <1>1 DEF SubmitInv, Transaction
<1>3. inflight[t.cred] \in Submission /\ inflight \in [Relayed -> Submission]
  BY <1>1, <1>2 DEF SubmitInv
<1> DEFINE c == t.cred
           op == [inflight[c] EXCEPT !.result = result]
<1>4. /\ op \in Submission /\ op.at = inflight[c].at /\ op.count = inflight[c].count
      /\ op.pred = inflight[c].pred /\ op.succ = inflight[c].succ
      /\ op.rep = inflight[c].rep /\ op.result = result
  BY <1>3 DEF Submission
<1>5. inflight' = inflight \/ inflight' = [inflight EXCEPT ![c] = op]
  BY DEF WithResult
<1> HIDE DEF op
<1>6. /\ inflight' \in [Relayed -> Submission]
      /\ \A x \in Relayed : x # c => inflight'[x] = inflight[x]
      /\ inflight'[c] = inflight[c] \/ inflight'[c] = op
  BY <1>2, <1>3, <1>4, <1>5
<1>7. OpInv(c)'
  <2>0. /\ inflight'[c].at = inflight[c].at /\ inflight'[c].count = inflight[c].count
        /\ inflight'[c].pred = inflight[c].pred /\ inflight'[c].succ = inflight[c].succ
        /\ inflight'[c].rep = inflight[c].rep
        /\ inflight'[c].result \in {inflight[c].result, result}
    BY <1>4, <1>6
  <2>1. PlanInv(c)'
    BY <1>1, <1>2, <2>0, PlanKept
  <2>2. OpInv(c) /\ c \in Creds
    BY <1>1, <1>2, RelayedTypes DEF SubmitInv
  <2> QED BY <2>0, <2>1, <2>2 DEF OpInv, ChainGrows
<1>8. \A x \in Relayed : OpInv(x)'
  BY <1>1, <1>6, <1>7, OthersKept
<1>9. faults' \in 0..MaxFaults /\ transactions' \subseteq Transaction
  BY <1>1, FaultType DEF SubmitInv
<1> QED BY <1>1, <1>6, <1>8, <1>9 DEF RelayInv, SubmitInv

LEMMA TransactionFieldTypes ==
  ASSUME RelayInv, NEW t \in transactions
  PROVE  /\ t.cred \in Relayed /\ t.cred \in Creds
         /\ t.pred \in Creds \cup {NoClaim} /\ t.succ \in Creds \cup {NoClaim}
BY RelayerAssumption DEF RelayInv, SubmitInv, Transaction

LEMMA LandKeeps ==
  ASSUME TypeOK, RelayInv, ChainGrows, NEW t \in transactions, Land(t)
  PROVE  RelayInv'
<1>1. SubmitClaimWith(t.cred, t.pred, t.succ)
  BY DEF Land, Execute
<1>2. claim'[t.cred].status # "None"
  BY <1>1, TransactionFieldTypes, SubmitMoves
<1> QED BY <1>2, ResultKeeps DEF Land

LEMMA DropKeeps ==
  ASSUME TypeOK, RelayInv, ChainGrows, NEW t \in transactions, Drop(t)
  PROVE  RelayInv'
BY ResultKeeps DEF Drop

LEMMA RestartKeeps ==
  ASSUME TypeOK, RelayInv, ChainGrows, Restart
  PROVE  RelayInv'
<1>1. ServerInv'
  BY RestartServer DEF RelayInv
<1>2. /\ Fault /\ inflight' = [c \in Relayed |-> NotRunning]
      /\ transactions' = {[t EXCEPT !.own = FALSE] : t \in transactions}
  BY DEF Restart
<1>3. \A t \in Transaction : [t EXCEPT !.own = FALSE] \in Transaction
  BY DEF Transaction
<1>4. transactions' \subseteq Transaction
  BY <1>2, <1>3 DEF RelayInv, SubmitInv
<1>5. \A c \in Relayed : inflight'[c] = NotRunning
  BY <1>2
<1>6. inflight' \in [Relayed -> Submission] /\ \A c \in Relayed : OpInv(c)'
  BY <1>2, <1>5, NotRunningType, UnplannedOp
<1>7. faults' \in 0..MaxFaults
  BY <1>2, FaultType DEF RelayInv
<1> QED BY <1>1, <1>4, <1>6, <1>7 DEF RelayInv, SubmitInv

LEMMA ReadBodyKeeps ==
  ASSUME TypeOK, RelayInv, ChainGrows, NEW r \in Requests, ReadBody(r)
  PROVE  RelayInv'
<1> DEFINE c == request[r].cred
           op == IF inflight[c].at = "off" THEN [NotRunning EXCEPT !.at = "claim"]
                 ELSE inflight[c]
<1>1. ServerInv' /\ c \in Relayed /\ SubmitInv
  BY ReadBodyServer DEF RelayInv
<1>2. /\ inflight' = [inflight EXCEPT ![c] = op]
      /\ transactions' = transactions /\ faults' = faults
  BY <1>1 DEF ReadBody, SubmitInv
<1>3. op \in Submission
  BY <1>1, NotRunningType DEF SubmitInv
<1>4. CASE inflight[c].at = "off"
  <2>1. op.at = "claim" /\ op.result = "none"
    BY <1>4, NotRunningType
  <2> HIDE DEF op, c
  <2>2. /\ inflight' \in [Relayed -> Submission] /\ inflight'[c] = op
        /\ \A x \in Relayed : x # c => inflight'[x] = inflight[x]
    BY <1>1, <1>2, <1>3 DEF SubmitInv
  <2>3. \A x \in Relayed : x = c => OpInv(x)'
    BY <2>1, <2>2, UnplannedOp
  <2>4. \A x \in Relayed : x # c => OpInv(x)'
    <3> SUFFICES ASSUME NEW x \in Relayed, x # c PROVE OpInv(x)'
      OBVIOUS
    <3>1. inflight'[x] = inflight[x]
      BY <2>2
    <3>2. PlanInv(x)'
      BY <1>1, <3>1, PlanKept
    <3>3. OpInv(x) /\ x \in Creds
      BY <1>1, RelayedTypes DEF SubmitInv
    <3> QED BY <3>1, <3>2, <3>3 DEF OpInv, ChainGrows
  <2> QED BY <1>1, <1>2, <2>2, <2>3, <2>4 DEF RelayInv, SubmitInv
<1>5. CASE inflight[c].at # "off"
  <2>1. inflight' = inflight
    BY <1>1, <1>2, <1>5 DEF SubmitInv
  <2>2. faults' \in 0..MaxFaults
    BY <1>1, <1>2 DEF SubmitInv
  <2> QED BY <1>1, <1>2, <2>1, <2>2, SameSubmissions DEF RelayInv
<1> QED BY <1>4, <1>5

LEMMA ServerStepKeeps ==
  ASSUME TypeOK, RelayInv, ChainGrows, NEW r \in Requests,
         WindowEnds(r) \/ BadBody(r) \/ Timeout(r) \/ \E c \in Relayed : Post(r, c)
  PROVE  RelayInv'
<1>0. ServerInv /\ SubmitInv
  BY DEF RelayInv
<1>1. inflight' = inflight /\ transactions' = transactions /\ claim' = claim
  BY DEF WindowEnds, BadBody, Timeout, Post, vars, claimVars
<1>2. Fault \/ UNCHANGED faults
  BY DEF WindowEnds, BadBody, Timeout, Post
<1>3. SubmitInv'
  BY <1>0, <1>1, <1>2, FaultType, SameSubmissions
<1>4. CASE WindowEnds(r)
  <2>1. /\ request' = request /\ concurrent' = concurrent
        /\ rate' = [rate EXCEPT ![r] = 0]
    BY <1>4 DEF WindowEnds
  <2>2. 0 \in 0..RateLimit + 1
    BY RelayerAssumption
  <2>3. rate' \in [Requests -> 0..RateLimit + 1]
    BY <1>0, <2>1, <2>2 DEF ServerInv
  <2>4. Handled' = Handled /\ \A x \in Requests : RequestInv(x)'
    BY <1>0, <1>1, <2>1 DEF Handled, ServerInv, RequestInv
  <2> QED BY <1>0, <1>3, <2>1, <2>3, <2>4 DEF RelayInv, ServerInv
<1>5. CASE BadBody(r) \/ Timeout(r)
  <2>1. {r} \in SUBSET Handled /\ "error" \in Answers
    BY <1>5 DEF BadBody, Timeout, Handled, Answers
  <2>2. Answered({r}, "error") /\ rate' = rate
    BY <1>5 DEF BadBody, Timeout
  <2> QED BY <1>0, <1>1, <1>3, <2>1, <2>2, AnsweredServer DEF RelayInv
<1>6. ASSUME NEW c \in Relayed, Post(r, c) PROVE RelayInv'
  BY <1>0, <1>3, <1>6, PostServer DEF RelayInv
<1> QED BY <1>4, <1>5, <1>6

\* A step of the chain that the relayer has no part in.
LEMMA ChainStepKeeps ==
  ASSUME TypeOK, RelayInv, ChainGrows, UNCHANGED relayVars
  PROVE  RelayInv'
<1>1. faults' \in 0..MaxFaults
  BY DEF relayVars, RelayInv, SubmitInv
<1>2. ServerInv'
  BY SameServer DEF relayVars, RelayInv
<1>3. SubmitInv'
  BY <1>1, SameSubmissions DEF relayVars, RelayInv
<1> QED BY <1>2, <1>3 DEF RelayInv

LEMMA CallFailsKeeps ==
  ASSUME TypeOK, RelayInv, ChainGrows, NEW c \in Relayed, CallFails(c)
  PROVE  RelayInv'
BY SettleKeeps DEF CallFails, Answers

-----------------------------------------------------------------------------
(***************************************************************************)
(* The relayer and the chain together.                                     *)
(***************************************************************************)

\* Every step of the relayer is a step of the chain or leaves it alone.
LEMMA RelayStepOfChain ==
  ASSUME RelayInv, [RelayNext]_allVars
  PROVE  [Next]_vars
<1>1. ASSUME NEW t \in transactions, Land(t) PROVE Next
  <2>1. SubmitClaimWith(t.cred, t.pred, t.succ)
    BY <1>1 DEF Land, Execute
  <2> QED BY <2>1, TransactionFieldTypes DEF Next, SubmitClaim
<1>2. ASSUME NEW t \in transactions, Drop(t) PROVE UNCHANGED vars
  BY <1>2 DEF Drop
<1>3. ASSUME NEW r \in Requests, NEW c \in Relayed, Post(r, c) PROVE UNCHANGED vars
  BY <1>3 DEF Post
<1>4. ASSUME NEW r \in Requests,
             WindowEnds(r) \/ ReadBody(r) \/ BadBody(r) \/ Timeout(r)
      PROVE  UNCHANGED vars
  BY <1>4 DEF WindowEnds, ReadBody, BadBody, Timeout
<1>5. ASSUME NEW c \in Relayed, SubmitStep(c) \/ CallFails(c) PROVE UNCHANGED vars
  BY <1>5 DEF SubmitStep, CallFails, ReadClaim, ReadSession, ReadList, ReadEdge,
              Send, Confirm, Settle, Advance
<1>6. Restart => UNCHANGED vars
  BY DEF Restart
<1>7. UNCHANGED allVars => UNCHANGED vars
  BY DEF allVars
<1> QED BY <1>1, <1>2, <1>3, <1>4, <1>5, <1>6, <1>7 DEF RelayNext

LEMMA RepresentativeType ==
  ASSUME WrapperInv, NEW e \in StateHashes, edge[e].exists
  PROVE  edge[e].representative \in Creds
BY DEF WrapperInv, IsLeast, WrappersOf

LEMMA RelayStep ==
  SafetyInv /\ ClaimsInv /\ RelayInv /\ [RelayNext]_allVars => RelayInv'
<1> SUFFICES ASSUME SafetyInv, ClaimsInv, RelayInv, [RelayNext]_allVars
             PROVE  RelayInv'
  OBVIOUS
<1>0. TypeOK /\ ListInv /\ WrapperInv /\ ChainGrows
  BY RelayStepOfChain, ChainMoves DEF SafetyInv, ClaimsInv
<1>1. ASSUME NEW r \in Requests, NEW c \in Relayed, Post(r, c) PROVE RelayInv'
  BY <1>0, <1>1, ServerStepKeeps
<1>2. ASSUME NEW r \in Requests, WindowEnds(r) \/ BadBody(r) \/ Timeout(r)
      PROVE  RelayInv'
  BY <1>0, <1>2, ServerStepKeeps
<1>3. ASSUME NEW r \in Requests, ReadBody(r) PROVE RelayInv'
  BY <1>0, <1>3, ReadBodyKeeps
<1>4. ASSUME NEW c \in Relayed, ReadClaim(c) \/ ReadSession(c) PROVE RelayInv'
  BY <1>0, <1>4, ReadClaimKeeps, ReadSessionKeeps
<1>5. ASSUME NEW c \in Relayed, ReadList(c) PROVE RelayInv'
  BY <1>0, <1>5, ReadListKeeps
<1>6. ASSUME NEW c \in Relayed, ReadEdge(c) PROVE RelayInv'
  BY <1>0, <1>6, ReadEdgeKeeps, RepresentativeType, RelayedTypes
<1>7. ASSUME NEW c \in Relayed, Send(c) PROVE RelayInv'
  BY <1>0, <1>7, SendKeeps
<1>8. ASSUME NEW c \in Relayed, Confirm(c) \/ CallFails(c) PROVE RelayInv'
  BY <1>0, <1>8, ConfirmKeeps, CallFailsKeeps
<1>9. ASSUME NEW t \in transactions, Land(t) \/ Drop(t) PROVE RelayInv'
  BY <1>0, <1>9, LandKeeps, DropKeeps
<1>10. CASE Restart
  BY <1>0, <1>10, RestartKeeps
<1>11. CASE UNCHANGED relayVars
  BY <1>0, <1>11, ChainStepKeeps
<1>12. UNCHANGED allVars => UNCHANGED relayVars
  BY DEF allVars
<1> QED BY <1>1, <1>2, <1>3, <1>4, <1>5, <1>6, <1>7, <1>8, <1>9, <1>10, <1>11,
           <1>12 DEF RelayNext, SubmitStep

LEMMA RelayInitial == Init /\ RelayInit => RelayInv
<1> SUFFICES ASSUME RelayInit PROVE RelayInv
  OBVIOUS
<1>1. /\ request = [r \in Requests |-> NoRequest] /\ rate = [r \in Requests |-> 0]
      /\ concurrent = 0 /\ inflight = [c \in Relayed |-> NotRunning]
      /\ transactions = {} /\ faults = 0
  BY DEF RelayInit
<1>2. NoRequest \in Request /\ NoRequest.at = "idle" /\ NoRequest.answer = "none"
  BY DEF NoRequest, Request, Answers
<1>3. Handled = {} /\ \A r \in Requests : RequestInv(r)
  BY <1>1, <1>2 DEF Handled, RequestInv
<1>4. 0 \in 0..RateLimit + 1 /\ 0 \in 0..MaxFaults
  BY RelayerAssumption
<1>5. ServerInv
  BY <1>1, <1>2, <1>3, <1>4, FS_EmptySet DEF ServerInv
<1>6. \A c \in Relayed : OpInv(c)
  BY <1>1, NotRunningType DEF OpInv, PlanInv
<1>7. SubmitInv
  BY <1>1, <1>4, <1>6, NotRunningType DEF SubmitInv
<1> QED BY <1>5, <1>7 DEF RelayInv

LEMMA RelayInvariant ==
  RelaySpec => [](SafetyInv /\ ClaimsInv /\ RelayInv) /\ Spec
<1>1. Init /\ RelayInit => SafetyInv /\ ClaimsInv /\ RelayInv
  BY SafetyInit, ClaimsInit, RelayInitial
<1>2. ASSUME SafetyInv, ClaimsInv, RelayInv, [RelayNext]_allVars
      PROVE  [Next]_vars /\ SafetyInv' /\ ClaimsInv' /\ RelayInv'
  BY <1>2, RelayStepOfChain, SafetyStep, ClaimsStep, RelayStep
<1> QED BY <1>1, <1>2, PTL DEF RelaySpec, Spec

\* The relayer is one more client of the program: whatever it and the network
\* do, the chain under it runs by the program's own specification, so that
\* everything proved of the program holds with the relayer in front of it.
THEOREM RelayRefinesChain == RelaySpec => Spec
BY RelayInvariant, PTL

\* Requests, submissions and transactions keep their shapes, and the server's
\* counter is the number of requests it handles, whatever is answered, shared,
\* timed out, failed or restarted: no place of MaxConcurrent is ever lost.
THEOREM RelayTypeCorrect == RelaySpec => []RelayTypeOK
<1>1. RelayInv => RelayTypeOK
  BY DEF RelayInv, ServerInv, SubmitInv, RelayTypeOK, Handled
<1> QED BY <1>1, RelayInvariant, PTL

\* For any interleaving of requests, chain steps, failed calls and restarts, a
\* merchant that was told "ok" or "already exists" has its claim on chain.
THEOREM AnswersAlwaysTrue == RelaySpec => []AnswersAreTrue
<1>1. RelayInv => AnswersAreTrue
  BY DEF RelayInv, ServerInv, RequestInv, AnswersAreTrue
<1> QED BY <1>1, RelayInvariant, PTL

\* For any list, a plan made from it that no other claim overtook names the
\* neighbours and the representative that the program requires.
THEOREM PlanAlwaysFits == RelaySpec => []PlanFitsProgram
<1>1. ASSUME SafetyInv, ClaimsInv, RelayInv PROVE PlanFitsProgram
  <2> SUFFICES ASSUME NEW c \in Relayed, inflight[c].at = "send",
                      claim[c].status = "None",
                      session[SessionOf(EdgeOf(c))].submitted_claim_count
                        = inflight[c].count
               PROVE  /\ CanInsertBetween(SessionOf(EdgeOf(c)), c, inflight[c].pred,
                                          inflight[c].succ)
                      /\ inflight[c].rep = RequiredRepresentative(c)
    BY DEF PlanFitsProgram
  <2> DEFINE s == SessionOf(EdgeOf(c))
  <2>1. TypeOK /\ ListInv /\ PlanInv(c)
    BY <1>1 DEF SafetyInv, ClaimsInv, RelayInv, SubmitInv, OpInv
  <2>2. /\ IsGreatest(Before(Submitted(s), c), inflight[c].pred)
        /\ IsLeast(After(Submitted(s), c), inflight[c].succ)
        /\ inflight[c].rep = RequiredRepresentative(c)
    BY <2>1 DEF PlanInv
  <2>3. c \in Creds /\ s \in SessionIds
    BY RelayedTypes
  <2> HIDE DEF s
  <2>4. CanInsertBetween(s, c, inflight[c].pred, inflight[c].succ)
    BY <2>1, <2>2, <2>3, NeighboursAccepted
  <2> QED BY <2>2, <2>4 DEF s
<1> QED BY <1>1, RelayInvariant, PTL
=============================================================================
