---------------------------- MODULE MCCrashStore ----------------------------
(***************************************************************************)
(* Two components and three commits, any of which may be cut short.         *)
(***************************************************************************)
EXTENDS CrashStore

MCOrder == <<"branch-state", "device-secret">>
=============================================================================
