------------------------------ MODULE MCClaims ------------------------------
(***************************************************************************)
(* One session with every shape of claim: four payments from the genesis   *)
(* state, a descendant of one of them with two wrappers, and a credential  *)
(* that the program must refuse.                                           *)
(***************************************************************************)
EXTENDS OfflineGuaranteeProperties, OfflineLedger

Step(prev, seq, amount, m, remaining) ==
  [session |-> "s1", previous_state |-> prev, sequence |-> seq,
   amount |-> amount, merchant |-> m, previous_remaining |-> remaining,
   new_remaining |-> remaining - amount]

Steps ==
  [a1 |-> Step("s1", 1, 1, "m1", 2),
   a2 |-> Step("a1", 2, 1, "m2", 1),
   b1 |-> Step("s1", 1, 2, "m1", 2),
   c1 |-> Step("s1", 1, 2, "m2", 2),
   d1 |-> Step("s1", 1, 2, "m2", 2),
   x2 |-> Step("a1", 2, 2, "m2", 2)]

MCTransition == [e \in StateHashes |-> Steps[e]]

Wrap(state) ==
  [new_state |-> state, created_at |-> 1, session_expires_at |-> 2,
   authentic |-> TRUE]

\* Credential hashes 2 and 5 wrap the same edge, one below and one above the
\* hash of its parent's credential; 7 overspends its parent.
Wrapped == <<"d1", "a2", "a1", "b1", "a2", "c1", "x2">>

MCCredential == [c \in Creds |-> Wrap(Wrapped[c])]

\* The state after InitializeProtocol, CreateUserProfile(2), CreateVault,
\* DepositCollateral(6), CreateOfflineSession("s1", 6, 2, 2) and
\* RegisterDeviceAuthorization("s1"), all at time 1.
ReadyInit ==
  /\ now = 1
  /\ config = [initialized |-> TRUE, paused |-> FALSE]
  /\ profile = [exists |-> TRUE, offline_access_enabled |-> TRUE,
                successful_sessions |-> 0, conflict_count |-> 0,
                revoked_at |-> 0, identity_expires_at |-> 2,
                active_session |-> "s1"]
  /\ vault = [exists |-> TRUE, deposited_amount |-> 6, reserved_amount |-> 6,
              settled_from_collateral |-> 0]
  /\ vault_token = 6
  /\ outside = 0
  /\ merchant_token = [m \in Merchants |-> 0]
  /\ session = [s \in SessionIds |->
                  [NewSession(6, 2, 2) EXCEPT !.authorized = TRUE]]
  /\ claim = [c \in Creds |-> EmptyClaim]
  /\ edge = [e \in StateHashes |-> EmptyEdge]
  /\ fork = [p \in States |-> EmptyFork]

ReadySpec == ReadyInit /\ [][Next]_vars
ReadyFairSpec == ReadySpec /\ Fairness
=============================================================================
