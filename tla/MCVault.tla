------------------------------- MODULE MCVault -------------------------------
(***************************************************************************)
(* The whole life of a payer's vault from nothing: deposits, donations,    *)
(* withdrawals and pauses interleaved with two sessions, one after the     *)
(* other, that share the collateral.                                       *)
(***************************************************************************)
EXTENDS OfflineGuaranteeProperties

Step(s, m) ==
  [session |-> s, previous_state |-> s, sequence |-> 1, amount |-> 1,
   merchant |-> m, previous_remaining |-> 1, new_remaining |-> 0]

\* The first session may fork at its genesis state; the second cannot.
MCTransition ==
  [a1 |-> Step("s1", "m1"), b1 |-> Step("s1", "m2"), z1 |-> Step("s2", "m1")]

\* A session opened at time 1 expires at 2, one opened at time 4 at 5.
\* Credential 4 carries the wrong expiry for its session.
MCCredential ==
  <<[new_state |-> "b1", created_at |-> 1, session_expires_at |-> 2,
     authentic |-> TRUE],
    [new_state |-> "z1", created_at |-> 4, session_expires_at |-> 5,
     authentic |-> TRUE],
    [new_state |-> "a1", created_at |-> 2, session_expires_at |-> 2,
     authentic |-> TRUE],
    [new_state |-> "z1", created_at |-> 4, session_expires_at |-> 6,
     authentic |-> TRUE]>>
=============================================================================
