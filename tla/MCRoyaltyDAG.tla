---------------------------- MODULE MCRoyaltyDAG ----------------------------
(***************************************************************************)
(* A small instance of RoyaltyDAG for TLC.                                 *)
(***************************************************************************)
EXTENDS RoyaltyDAG, TLC

To(id, share) == [to |-> id, share |-> share]

Ids == Permutations(Asset)

\* No parent, one with or without a share, two that share evenly.
Lists ==
  { << >> } \cup { << To(p, s) >> : p \in Asset, s \in {0, 1} }
  \cup { << To(p, 1), To(q, 1) >> : p, q \in Asset }
=============================================================================
