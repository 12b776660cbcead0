---------------------------- MODULE MCRunControl ----------------------------
(***************************************************************************)
(* Small instances of RunControl for TLC.                                  *)
(***************************************************************************)
EXTENDS RunControl
=============================================================================
