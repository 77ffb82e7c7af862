------------------------ MODULE MCRoyaltySettlement ------------------------
(***************************************************************************)
(* Small instances of RoyaltySettlement for TLC.                           *)
(***************************************************************************)
EXTENDS RoyaltySettlement

\* No parents, two, and the block itself with another one twice.
SomeParents == { << >>, << 2, 3 >>, << 1, 2, 2 >> }

OneParent == { << >>, << 1 >> }
=============================================================================
