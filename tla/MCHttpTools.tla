---------------------------- MODULE MCHttpTools ----------------------------
(***************************************************************************)
(* HttpTools on small instances; the .cfg files give the bounds.            *)
(***************************************************************************)
EXTENDS HttpTools
=============================================================================
