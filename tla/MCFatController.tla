-------------------------- MODULE MCFatController --------------------------
(* Two workers, a listener, and two connections, one of them unusable.      *)
EXTENDS FatController
=============================================================================
