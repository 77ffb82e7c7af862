-------------------------- MODULE RoyaltyEstimate ---------------------------
(***************************************************************************)
(* The off-chain estimate of how a payment is divided along a royalty      *)
(* graph (calculateDistribution of core/invariants/economic.ts).           *)
(*                                                                         *)
(* A state is an array of RoyaltyNodes as a registry may return it: any    *)
(* graph, loops, repeated parents and parents that are missing from it     *)
(* included.  Shares are percents.  Amounts are rounded down: the code     *)
(* computes in floating point, whose rounding is not modelled.  The        *)
(* recursion is a loop over the calls that are still to be made, and no    *)
(* RECURSIVE operator, so that it can be reasoned about.                   *)
(***************************************************************************)
EXTENDS Sums, Sequences

CONSTANTS
  NumIds,       \* the asset ids are 1 .. NumIds
  NumCreators,  \* the creators are 1 .. NumCreators
  Creator,      \* the creator of each asset
  BaseRoyalties,
  Lineages,     \* lists of parents: sequences of [to, share]
  Payment       \* the amount that is divided

Id == 1 .. NumIds
Percent == 0 .. 100
RoyaltyEdge == [to : Id, share : Percent]

ASSUME RoyaltyEstimateAssumption ==
  /\ NumIds \in Nat /\ NumCreators \in Nat /\ Payment \in Nat
  /\ Creator \in [Id -> 1 .. NumCreators]
  /\ BaseRoyalties \subseteq Percent
  /\ Lineages \subseteq Seq(RoyaltyEdge)

VARIABLE nodes   \* id -> [baseRoyalty, parents], for the ids in the array

RoyaltyNode == [baseRoyalty : BaseRoyalties, parents : Lineages]

Known(id)     == id \in DOMAIN nodes
ParentsOf(id) == IF Known(id) THEN nodes[id].parents ELSE << >>
TotalParentShare(parents) ==
  SumTo([i \in DOMAIN parents |-> parents[i].share], Len(parents))

GraphInit == nodes = << >>

\* One more node in the array.
AddNode(id, node) ==
  /\ ~ Known(id)
  /\ nodes' = [i \in DOMAIN nodes \cup {id} |-> IF i = id THEN node ELSE nodes[i]]

GraphNext == \E id \in Id, node \in RoyaltyNode : AddNode(id, node)

GraphSpec == GraphInit /\ [][GraphNext]_nodes

-----------------------------------------------------------------------------
(* calculateDistribution visits every asset once; a second amount for it is  *)
(* dropped.                                                                  *)

\* Mutant: the shares are never normalised.
ParentAmountAsGiven(remaining, share, total) == (remaining * share) \div 100

\* The share of a parent, of all its siblings' total if that is above 100.
ParentAmount(remaining, share, total) ==
  (remaining * share) \div (IF total > 100 THEN total ELSE 100)

\* The calls of traverse that a call makes for its parents.
ParentCalls(parents, remaining) ==
  IF remaining = 0 THEN << >>
  ELSE [i \in DOMAIN parents |->
         [to     |-> parents[i].to,
          amount |-> ParentAmount(remaining, parents[i].share, TotalParentShare(parents))]]

\* One call: `todo' holds the calls that are still to be made, depth first.
Traverse(estimate) ==
  IF estimate.todo = << >> THEN estimate
  ELSE LET call         == Head(estimate.todo)
           expands      == Known(call.to) /\ call.to \notin estimate.visited
           creatorShare == (call.amount * nodes[call.to].baseRoyalty) \div 100
       IN  [ visited      |-> estimate.visited \cup {call.to},
             distribution |->
               IF expands
                 THEN [estimate.distribution EXCEPT ![Creator[call.to]] = @ + creatorShare]
                 ELSE estimate.distribution,
             todo         |->
               (IF expands THEN ParentCalls(nodes[call.to].parents, call.amount - creatorShare)
                           ELSE << >>) \o Tail(estimate.todo) ]

NoAmounts == [creator \in 1 .. NumCreators |-> 0]

FirstCall(id, amount) ==
  [ visited |-> {}, distribution |-> NoAmounts,
    todo |-> << [to |-> id, amount |-> amount] >> ]

\* As many calls as there can be: the first, and one for each parent of each node.
NumCalls == 1 + SumTo([id \in Id |-> Len(ParentsOf(id))], NumIds)

Estimates(id, amount) ==
  LET estimate[n \in 0 .. NumCalls] ==
        IF n = 0 THEN FirstCall(id, amount) ELSE Traverse(estimate[n - 1])
  IN  estimate

calculateDistribution(id, amount) == Estimates(id, amount)[NumCalls].distribution

-----------------------------------------------------------------------------
\* An estimate never gives away more than the payment, on any graph, loops and
\* shares above 100 percent included (economic.ts:159-195).
EstimateWithinPayment ==
  \A id \in Id : SumTo(calculateDistribution(id, Payment), NumCreators) <= Payment
=============================================================================
