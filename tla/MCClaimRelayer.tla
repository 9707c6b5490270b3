--------------------------- MODULE MCClaimRelayer ---------------------------
(***************************************************************************)
(* A payment and a descendant of it with two credentials.  The smaller of  *)
(* these reaches the chain through this relayer, and any of them through   *)
(* others, in any order.                                                   *)
(***************************************************************************)
EXTENDS ClaimRelayer

Step(prev, seq, m, remaining) ==
  [session |-> "s1", previous_state |-> prev, sequence |-> seq, amount |-> 1,
   merchant |-> m, previous_remaining |-> remaining,
   new_remaining |-> remaining - 1]

MCTransition == [a1 |-> Step("s1", 1, "m1", 2), a2 |-> Step("a1", 2, "m2", 1)]

Wrap(state) ==
  [new_state |-> state, created_at |-> 1, session_expires_at |-> 2,
   authentic |-> TRUE]

\* A payment and two credentials of its descendant.
MCCredential == <<Wrap("a1"), Wrap("a2"), Wrap("a2")>>

\* The session is open and its device authorized, as in MCClaims.
ReadyInit ==
  /\ now = 1
  /\ config = [initialized |-> TRUE, paused |-> FALSE]
  /\ profile = [exists |-> TRUE, offline_access_enabled |-> TRUE,
                successful_sessions |-> 0, conflict_count |-> 0,
                revoked_at |-> 0, identity_expires_at |-> 2,
                active_session |-> "s1"]
  /\ vault = [exists |-> TRUE, deposited_amount |-> 6, reserved_amount |-> 6,
              settled_from_collateral |-> 0]
  /\ vault_token = 6
  /\ outside = 0
  /\ merchant_token = [m \in Merchants |-> 0]
  /\ session = [s \in SessionIds |->
                  [NewSession(6, 2, 2) EXCEPT !.authorized = TRUE]]
  /\ claim = [c \in Creds |-> EmptyClaim]
  /\ edge = [e \in StateHashes |-> EmptyEdge]
  /\ fork = [p \in States |-> EmptyFork]
  /\ RelayInit

ReadySpec == ReadyInit /\ [][RelayNext]_allVars
ReadyFairSpec == ReadySpec /\ RelayFairness
=============================================================================
