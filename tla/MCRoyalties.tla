---------------------------- MODULE MCRoyalties ----------------------------
(***************************************************************************)
(* A small instance of Royalties for TLC.                                  *)
(***************************************************************************)
EXTENDS Royalties

\* Two assets of one creator.
Creators == [id \in Id |-> IF id = 2 THEN 2 ELSE 1]

To(id, percent) == [to |-> id, share |-> percent]

\* No parent, one at any rate, two (or one twice) that share evenly or exceed 100.
Lists ==
  { << >> } \cup { << To(p, s) >> : p \in Id, s \in {0, 50, 100} }
  \cup { << To(p, 50), To(q, 50) >> : p \in Id, q \in Id }
  \cup { << To(p, 100), To(q, 50) >> : p \in Id, q \in Id }
=============================================================================
