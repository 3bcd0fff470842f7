---------------------------- MODULE MCMultiprocess ----------------------------
(***************************************************************************)
(* Multiprocess on small instances; the .cfg files give the bounds.         *)
(***************************************************************************)
EXTENDS Multiprocess
=============================================================================
