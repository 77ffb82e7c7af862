--------------------------- MODULE MCStakeManager ---------------------------
(***************************************************************************)
(* Small instances of StakeManager for TLC.                                *)
(***************************************************************************)
EXTENDS StakeManager

NoParents == { << >> }
=============================================================================
