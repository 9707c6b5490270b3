------------------------- MODULE MCPayerProvisioning -------------------------
(***************************************************************************)
(* Two devices of one wallet, and enough session ids for both to have held *)
(* one that ended.                                                         *)
(***************************************************************************)
EXTENDS PayerProvisioning
=============================================================================
