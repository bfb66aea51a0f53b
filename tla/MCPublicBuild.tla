---------------------------- MODULE MCPublicBuild ----------------------------
(* Small instances of PublicBuild for TLC. *)
EXTENDS PublicBuild

CONSTANTS p, q
=============================================================================
