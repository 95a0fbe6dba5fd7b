----------------------------- MODULE MCOidcLogin -----------------------------
(***************************************************************************)
(* Small instances of OidcLogin for TLC.                                   *)
(***************************************************************************)
EXTENDS OidcLogin, TLC

Symmetry == Permutations(Browsers)
=============================================================================
