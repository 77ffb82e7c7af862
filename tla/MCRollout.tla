----------------------------- MODULE MCRollout -----------------------------
(***************************************************************************)
(* A small instance of Rollout for TLC.                                    *)
(***************************************************************************)
EXTENDS Rollout

\* A root and a block derived from it.
SeedSources == << << >>, << 1 >> >>
=============================================================================
