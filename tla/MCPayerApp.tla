----------------------------- MODULE MCPayerApp -----------------------------
(***************************************************************************)
(* Two merchants whose requests fit the limit together, a request of       *)
(* another environment, and one of the payer's own wallet.                 *)
(***************************************************************************)
EXTENDS PayerApp

MCAmount == [r \in Requests |-> IF r = "r1" THEN 1 ELSE 2]
=============================================================================
