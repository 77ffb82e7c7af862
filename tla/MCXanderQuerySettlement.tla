----------------------- MODULE MCXanderQuerySettlement -----------------------
(***************************************************************************)
(* Small instances of XanderQuerySettlement for TLC.                       *)
(***************************************************************************)
EXTENDS XanderQuerySettlement

\* Bound: an agent approves one spender at a time, and never itself.
OneApproval ==
  \A x \in Agent :
    \A y \in Address : allowance[x][y] > 0 =>
      y # x /\ \A z \in Address \ {y} : allowance[x][z] = 0
=============================================================================
