---------------------------- MODULE MCMerchantApp ----------------------------
(***************************************************************************)
(* Three payments for two requests: a payer answers the first one twice.   *)
(***************************************************************************)
EXTENDS MerchantApp

MCAnswers == <<"h1", "h1", "h2">>
=============================================================================
