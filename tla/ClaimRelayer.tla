---------------------------- MODULE ClaimRelayer ----------------------------
(***************************************************************************)
(* The claim relayer (apps/claim-relayer) in front of the on-chain         *)
(* program: an HTTP server with a rate limit, a cap on the requests it     *)
(* handles and a response timeout; single-flight submissions that read the *)
(* chain call by call, build a transaction from what they read, send and   *)
(* confirm it.  Other relayers, the clock and the authorities change the   *)
(* chain between any two calls, calls fail, and the process may restart.   *)
(*                                                                         *)
(* What a request carries beyond its credential hash is checked without    *)
(* state (strictRequest, hash, signature, domain): a request that fails    *)
(* these checks is refused like one whose first call fails.  An edge that  *)
(* is on chain stays there, so the parent account that a plan names is     *)
(* right whenever the program reads it, and is left out.                   *)
(***************************************************************************)
EXTENDS OfflineGuarantee

CONSTANTS
  Requests,       \* HTTP connections of the merchants, each its own address
  Relayed,        \* credentials of the merchants that use this relayer
  MaxConcurrent,
  RateLimit,      \* rateLimitPerMinute
  MaxFaults       \* bound: failed calls and restarts

ASSUME RelayerAssumption ==
  /\ IsFiniteSet(Requests)
  /\ Relayed \subseteq Creds
  /\ MaxConcurrent \in Nat \ {0} /\ RateLimit \in Nat \ {0}
  /\ MaxFaults \in Nat

VARIABLES
  request,      \* connection -> the request on it and its last answer
  rate,         \* connection -> requests counted in the current window
  concurrent,
  inflight,     \* credential hash -> its running #submit
  transactions, \* sent, neither executed nor expired
  faults

relayVars == <<request, rate, concurrent, inflight, transactions, faults>>
allVars == <<vars, relayVars>>

\* 200, 409 CLAIM_ALREADY_EXISTS, and every other status.
Answers == {"none", "ok", "exists", "error"}

Request ==
  [at: {"idle", "reading", "waiting"}, cred: Relayed \cup {NoClaim},
   answer: Answers]

\* `at` is the call that #submit awaits; the rest are its local variables,
\* back at their defaults after their last use.
Submission ==
  [at: {"off", "claim", "session", "list", "edge", "send", "confirm"},
   count: Nat, head: Creds \cup {NoClaim}, tail: Creds \cup {NoClaim},
   pred: Creds \cup {NoClaim}, succ: Creds \cup {NoClaim},
   hasParent: BOOLEAN, rep: Creds \cup {NoClaim},
   result: {"none", "landed", "failed"}]

\* `own`: the running #submit waits for this transaction.
Transaction ==
  [cred: Relayed, pred: Creds \cup {NoClaim}, succ: Creds \cup {NoClaim},
   rep: Creds, own: BOOLEAN]

NoRequest == [at |-> "idle", cred |-> NoClaim, answer |-> "none"]

NotRunning ==
  [at |-> "off", count |-> 0, head |-> NoClaim, tail |-> NoClaim,
   pred |-> NoClaim, succ |-> NoClaim, hasParent |-> FALSE, rep |-> NoClaim,
   result |-> "none"]

RelayInit ==
  /\ request = [r \in Requests |-> NoRequest]
  /\ rate = [r \in Requests |-> 0]
  /\ concurrent = 0
  /\ inflight = [c \in Relayed |-> NotRunning]
  /\ transactions = {}
  /\ faults = 0

-----------------------------------------------------------------------------
(***************************************************************************)
(* The HTTP server.                                                        *)
(***************************************************************************)
Waiting(c) == {r \in Requests : request[r].at = "waiting" /\ request[r].cred = c}

\* The counter only matters up to the first request beyond the limit.
Counted(n) == IF n > RateLimit THEN n ELSE n + 1

\* A POST up to its first await.
Post(r, c) ==
  LET limited == Counted(rate[r]) > RateLimit
      busy == ~limited /\ concurrent >= MaxConcurrent
      admitted == ~limited /\ ~busy
  IN  /\ request[r].at = "idle"
      /\ rate' = [rate EXCEPT ![r] = Counted(@)]
      /\ concurrent' = IF admitted THEN concurrent + 1 ELSE concurrent
      /\ request' = [request EXCEPT ![r] =
                       [at |-> IF admitted THEN "reading" ELSE "idle",
                        cred |-> c,
                        answer |-> IF admitted THEN "none" ELSE "error"]]
      /\ UNCHANGED <<vars, inflight, transactions, faults>>

\* A minute has passed since the window of this address started.
WindowEnds(r) ==
  /\ rate[r] > 0
  /\ rate' = [rate EXCEPT ![r] = 0]
  /\ UNCHANGED <<vars, request, concurrent, inflight, transactions, faults>>

MutantAnswered(R, answer) ==
  /\ request' = [r \in Requests |->
                   IF r \in R
                   THEN [request[r] EXCEPT !.at = "idle", !.answer = answer]
                   ELSE request[r]]
  /\ concurrent' = IF answer = "error" THEN concurrent
                   ELSE concurrent - Cardinality(R)

\* The requests R are answered and leave the server.
Answered(R, answer) ==
  /\ request' = [r \in Requests |->
                   IF r \in R
                   THEN [request[r] EXCEPT !.at = "idle", !.answer = answer]
                   ELSE request[r]]
  /\ concurrent' = concurrent - Cardinality(R)

Fault == faults < MaxFaults /\ faults' = faults + 1

\* readJson, then submit: a running submission of the credential is shared.
ReadBody(r) ==
  LET c == request[r].cred
  IN  /\ request[r].at = "reading"
      /\ request' = [request EXCEPT ![r].at = "waiting"]
      /\ inflight' = [inflight EXCEPT ![c] =
                        IF @.at = "off" THEN [NotRunning EXCEPT !.at = "claim"]
                        ELSE @]
      /\ UNCHANGED <<vars, rate, concurrent, transactions, faults>>

BadBody(r) ==
  /\ request[r].at = "reading"
  /\ Fault
  /\ Answered({r}, "error")
  /\ UNCHANGED <<vars, rate, inflight, transactions>>

\* withTimeout: the client is answered, the submission goes on.
Timeout(r) ==
  /\ request[r].at = "waiting"
  /\ Answered({r}, "error")
  /\ UNCHANGED <<vars, rate, inflight, transactions, faults>>

-----------------------------------------------------------------------------
(***************************************************************************)
(* #submit.  Every step is one call to the RPC node.                       *)
(***************************************************************************)
Disowned(c) ==
  {IF t.cred = c THEN [t EXCEPT !.own = FALSE] ELSE t : t \in transactions}

\* The promise settles and leaves the map; everybody who shares it is answered.
Settle(c, answer) ==
  /\ inflight' = [inflight EXCEPT ![c] = NotRunning]
  /\ transactions' = Disowned(c)
  /\ Answered(Waiting(c), answer)
  /\ UNCHANGED <<vars, rate>>

Advance(c, op) ==
  /\ inflight' = [inflight EXCEPT ![c] = op]
  /\ UNCHANGED <<vars, request, rate, concurrent, transactions, faults>>

\* Any awaited call rejects.
CallFails(c) == inflight[c].at # "off" /\ Fault /\ Settle(c, "error")

ReadClaim(c) ==
  /\ inflight[c].at = "claim"
  /\ \/ claim[c].status # "None" /\ Settle(c, "exists") /\ UNCHANGED faults
     \/ claim[c].status = "None"
        /\ Advance(c, [inflight[c] EXCEPT !.at = "session"])

ReadSession(c) ==
  LET r == session[SessionOf(EdgeOf(c))]
  IN  /\ inflight[c].at = "session"
      /\ \/ r.status = "None" /\ Settle(c, "error") /\ UNCHANGED faults
         \/ r.status # "None"
            /\ Advance(c, [inflight[c] EXCEPT
                             !.at = "list", !.count = r.submitted_claim_count,
                             !.head = r.claim_head, !.tail = r.claim_tail])

Least(S) == IF S = {} THEN NoClaim ELSE CHOOSE x \in S : \A y \in S : x <= y
Greatest(S) == IF S = {} THEN NoClaim ELSE CHOOSE x \in S : \A y \in S : y <= x

\* getProgramAccounts of the session's claims, to be sorted by hash.
Listed(s) == {x \in Creds : claim[x].status # "None" /\ SessionOf(EdgeOf(x)) = s}

\* assertClaimList, against the session account read before.
ClaimListFits(op, L) ==
  /\ op.count = Cardinality(L)
  /\ op.head = Least(L) /\ op.tail = Greatest(L)
  /\ \A x \in L : /\ claim[x].previous_claim = Greatest({y \in L : y < x})
                  /\ claim[x].next_claim = Least({y \in L : y > x})

MutantSuccessor(L, c) == Least({x \in L : x >= Greatest({y \in L : y < c})})

\* findIndex: the first listed claim above c.
Successor(L, c) == Least({x \in L : c < x})

\* The claim listed before the successor, or the last one.
Predecessor(L, succ) ==
  Greatest(IF succ = NoClaim THEN L ELSE {x \in L : x < succ})

MutantParentListed(L, c) ==
  \E x \in L : /\ Transition[EdgeOf(x)].sequence = Transition[EdgeOf(c)].sequence
               /\ EdgeOf(x) = Transition[EdgeOf(c)].previous_state

ParentListed(L, c) ==
  \E x \in L : /\ Transition[EdgeOf(x)].sequence + 1 = Transition[EdgeOf(c)].sequence
               /\ EdgeOf(x) = Transition[EdgeOf(c)].previous_state

ReadList(c) ==
  LET op == inflight[c]
      L == Listed(SessionOf(EdgeOf(c)))
      succ == Successor(L, c)
  IN  /\ op.at = "list"
      /\ \/ ~ClaimListFits(op, L) /\ Settle(c, "error") /\ UNCHANGED faults
         \/ ClaimListFits(op, L)
            /\ Advance(c, [NotRunning EXCEPT
                             !.at = "edge", !.count = op.count, !.succ = succ,
                             !.pred = Predecessor(L, succ),
                             !.hasParent = ParentListed(L, c)])

\* The representative of an edge on chain, or the claim itself and its parent.
ReadEdge(c) ==
  LET op == inflight[c]
      e == EdgeOf(c)
  IN  /\ op.at = "edge"
      /\ \/ edge[e].exists
            /\ Advance(c, [op EXCEPT !.at = "send", !.hasParent = FALSE,
                                     !.rep = edge[e].representative])
         \/ ~edge[e].exists /\ (Transition[e].sequence > 1 => op.hasParent)
            /\ Advance(c, [op EXCEPT !.at = "send", !.hasParent = FALSE,
                                     !.rep = c])
         \/ ~edge[e].exists /\ Transition[e].sequence > 1 /\ ~op.hasParent
            /\ Settle(c, "error") /\ UNCHANGED faults

\* The account that submit_claim requires as the representative.
RequiredRepresentative(c) ==
  IF edge[EdgeOf(c)].exists THEN edge[EdgeOf(c)].representative ELSE c

\* The transaction executes.
Execute(t) ==
  t.rep = RequiredRepresentative(t.cred) /\ SubmitClaimWith(t.cred, t.pred, t.succ)

Planned(c, own) ==
  [cred |-> c, pred |-> inflight[c].pred, succ |-> inflight[c].succ,
   rep |-> inflight[c].rep, own |-> own]

\* sendRawTransaction with preflight.  A call that rejects may have sent.
Send(c) ==
  /\ inflight[c].at = "send"
  /\ \/ /\ ENABLED Execute(Planned(c, TRUE))
        /\ transactions' = transactions \cup {Planned(c, TRUE)}
        /\ inflight' = [inflight EXCEPT ![c] = [NotRunning EXCEPT !.at = "confirm"]]
        /\ UNCHANGED <<vars, request, rate, concurrent, faults>>
     \/ /\ ENABLED Execute(Planned(c, TRUE))
        /\ Fault
        /\ transactions' = Disowned(c) \cup {Planned(c, FALSE)}
        /\ inflight' = [inflight EXCEPT ![c] = NotRunning]
        /\ Answered(Waiting(c), "error")
        /\ UNCHANGED <<vars, rate>>
     \/ ~ENABLED Execute(Planned(c, TRUE)) /\ Settle(c, "error")
        /\ UNCHANGED faults

MutantConfirmationAnswer(result) == "ok"

\* confirmation.value.err
ConfirmationAnswer(result) == IF result = "landed" THEN "ok" ELSE "error"

Confirm(c) ==
  /\ inflight[c].at = "confirm"
  /\ inflight[c].result # "none"
  /\ Settle(c, ConfirmationAnswer(inflight[c].result))
  /\ UNCHANGED faults

WithResult(t, result) ==
  IF t.own THEN [inflight EXCEPT ![t.cred].result = result] ELSE inflight

\* The cluster executes a transaction, or it fails or expires.
Land(t) ==
  /\ Execute(t)
  /\ transactions' = transactions \ {t}
  /\ inflight' = WithResult(t, "landed")
  /\ UNCHANGED <<request, rate, concurrent, faults>>

Drop(t) ==
  /\ \/ ~ENABLED Execute(t) /\ UNCHANGED faults
     \/ Fault
  /\ transactions' = transactions \ {t}
  /\ inflight' = WithResult(t, "failed")
  /\ UNCHANGED <<vars, request, rate, concurrent>>

\* The process ends and starts again: what is in memory is gone.
Restart ==
  /\ Fault
  /\ request' = [r \in Requests |-> [request[r] EXCEPT !.at = "idle", !.answer = "none"]]
  /\ rate' = [r \in Requests |-> 0]
  /\ concurrent' = 0
  /\ inflight' = [c \in Relayed |-> NotRunning]
  /\ transactions' = {[t EXCEPT !.own = FALSE] : t \in transactions}
  /\ UNCHANGED vars

-----------------------------------------------------------------------------
SubmitStep(c) ==
  \/ ReadClaim(c) \/ ReadSession(c) \/ ReadList(c) \/ ReadEdge(c)
  \/ Send(c) \/ Confirm(c)

RelayNext ==
  \/ \E r \in Requests, c \in Relayed : Post(r, c)
  \/ \E r \in Requests : WindowEnds(r) \/ ReadBody(r) \/ BadBody(r) \/ Timeout(r)
  \/ \E c \in Relayed : SubmitStep(c) \/ CallFails(c)
  \/ \E t \in transactions : Land(t) \/ Drop(t)
  \/ Restart
  \/ Next /\ UNCHANGED relayVars

RelaySpec == Init /\ RelayInit /\ [][RelayNext]_allVars

Admitted(r, c) == Post(r, c) /\ request'[r].at = "reading"

\* Windows end, bodies arrive or the server's timeouts answer, calls return,
\* transactions land or fail, and a merchant that keeps asking is not turned
\* away every time.
RelayFairness ==
  /\ \A r \in Requests : WF_allVars(WindowEnds(r)) /\ WF_allVars(ReadBody(r))
  /\ \A c \in Relayed : /\ WF_allVars(SubmitStep(c))
                      /\ SF_allVars(\E r \in Requests : Admitted(r, c))
  /\ WF_allVars(\E t \in transactions : Land(t) \/ Drop(t))

-----------------------------------------------------------------------------
\* Requests, submissions and transactions have their shapes, and the server
\* counts exactly the requests it is handling.
RelayTypeOK ==
  /\ request \in [Requests -> Request]
  /\ rate \in [Requests -> 0..RateLimit + 1]
  /\ concurrent = Cardinality({r \in Requests : request[r].at # "idle"})
  /\ inflight \in [Relayed -> Submission]
  /\ transactions \subseteq Transaction
  /\ faults \in 0..MaxFaults

\* The relayer never claims a success that did not happen: after "ok" or
\* "claim already exists" the Claim account is on chain, whatever calls failed,
\* timed out or were shared (#submit, README: "A retry after an
\* already-confirmed claim receives 409").
AnswersAreTrue ==
  \A r \in Requests :
    request[r].answer \in {"ok", "exists"} => claim[request[r].cred].status # "None"

\* What plan() computes is what insert_claim_in_order and submit_claim check:
\* if no claim was added since the plan read the session, the program accepts
\* the plan's neighbours and representative.
PlanFitsProgram ==
  \A c \in Relayed :
    LET s == SessionOf(EdgeOf(c))
        op == inflight[c]
    IN  (/\ op.at = "send" /\ claim[c].status = "None"
         /\ session[s].submitted_claim_count = op.count) =>
          /\ CanInsertBetween(s, c, op.pred, op.succ)
          /\ op.rep = RequiredRepresentative(c)

\* The transition below c's is on chain, or c pays from the genesis state.
ParentOnChain(c) ==
  Transition[EdgeOf(c)].sequence > 1 => edge[Transition[EdgeOf(c)].previous_state].exists

\* A merchant that keeps asking gets its claim on chain once the parent edge is
\* there, whatever other relayers submit in between, unless the protocol is
\* paused or the deadline passes: stale plans are given up and made again, and
\* an early request for a claim whose parent is missing does no harm.
ClaimsLand ==
  \A c \in Relayed :
    ParentOnChain(c) ~>
      (\/ claim[c].status # "None"
       \/ config.paused
       \/ now > session[SessionOf(EdgeOf(c))].claim_submission_deadline)
=============================================================================
