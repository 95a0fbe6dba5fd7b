---------------------------- MODULE MCProvisioning ----------------------------
(***************************************************************************)
(* A small instance of Provisioning for TLC: more commands than one, and   *)
(* no blueprint short.                                                     *)
(***************************************************************************)
EXTENDS Provisioning
=============================================================================
