----------------------------- MODULE Royalties -----------------------------
(***************************************************************************)
(* The off-chain checks and estimates on royalty graphs                    *)
(* (core/invariants/economic.ts) against the contract that pays along such *)
(* graphs (contracts/Royalty.sol, RoyaltyDAG).                             *)
(*                                                                         *)
(* The graphs are those of RoyaltyEstimate.  The contract's basis points   *)
(* are a hundred times as many as the percents of the off-chain code.      *)
(***************************************************************************)
EXTENDS RoyaltyEstimate, SequencesExt

-----------------------------------------------------------------------------
(* findCycles: a depth-first search.  The ids on the path are those of the   *)
(* recursion stack.                                                          *)

RECURSIVE Visit(_, _, _)
Visit(id, path, search) ==
  IF Contains(path, id)
  THEN [search EXCEPT !.cycles = @ \cup
          {Append(SubSeq(path, SelectInSeq(path, LAMBDA i : i = id), Len(path)), id)}]
  ELSE IF id \in search.visited THEN search
  ELSE FoldLeft(LAMBDA found, link : Visit(link.to, Append(path, id), found),
                [search EXCEPT !.visited = @ \cup {id}], ParentsOf(id))

\* A mutant of findCycles asks for the visited nodes before the stack.
RECURSIVE VisitOnce(_, _, _)
VisitOnce(id, path, search) ==
  IF id \in search.visited THEN search
  ELSE FoldLeft(LAMBDA found, link : VisitOnce(link.to, Append(path, id), found),
                [search EXCEPT !.visited = @ \cup {id}], ParentsOf(id))

findCyclesUnvisited ==
  FoldLeft(LAMBDA search, id : VisitOnce(id, << >>, search),
           [visited |-> {}, cycles |-> {}], SetToSortSeq(DOMAIN nodes, <)).cycles

findCycles ==
  FoldLeft(LAMBDA search, id : Visit(id, << >>, search),
           [visited |-> {}, cycles |-> {}], SetToSortSeq(DOMAIN nodes, <)).cycles

\* findAllPaths: the total shares of the paths that start at an id, after some
\* edges with a total so far.  A path ends where there are no further parents.
RECURSIVE PathTotals(_, _)
PathTotals(id, total) ==
  IF ParentsOf(id) = << >> THEN {total}
  ELSE UNION { PathTotals(link.to, total + link.share) : link \in Range(ParentsOf(id)) }

\* The nodes that nobody in the array derives from.
Leaves ==
  DOMAIN nodes \ UNION { {link.to : link \in Range(ParentsOf(id))} : id \in DOMAIN nodes }

findAllPaths == UNION { PathTotals(leaf, 0) : leaf \in Leaves }

validateRoyaltyDAG ==
  /\ findCycles = {}
  /\ \A totalShare \in findAllPaths : totalShare <= 100

-----------------------------------------------------------------------------
(* RoyaltyDAG._distribute, on a contract that holds the assets of the array. *)
(* ok is FALSE when the transaction reverts: on a division by the sum of     *)
(* shares that are all zero.                                                 *)

RECURSIVE Distribute(_, _, _)
Distribute(id, amount, paid) ==
  LET creatorShare == IF Known(id) THEN (amount * nodes[id].baseRoyalty) \div 100 ELSE 0
      parents      == ParentsOf(id)
      own          == IF creatorShare = 0 THEN paid
                      ELSE [paid EXCEPT !.balances[Creator[id]] = @ + creatorShare]
  IN  IF amount = creatorShare \/ parents = << >> THEN own
      ELSE IF TotalParentShare(parents) = 0 THEN [own EXCEPT !.ok = FALSE]
      ELSE FoldLeft(LAMBDA acc, link :
             Distribute(link.to,
                        ((amount - creatorShare) * link.share) \div TotalParentShare(parents), acc),
             own, parents)

distributePayment(id, amount) == Distribute(id, amount, [ok |-> TRUE, balances |-> NoAmounts])

-----------------------------------------------------------------------------
\* The definition that findCycles and findAllPaths are meant to compute: walks
\* along edges, and the largest share on the way.
IsEdge(p, q) == \E link \in Range(ParentsOf(p)) : link.to = q
LargestShare(p, q) ==
  CHOOSE s \in 0 .. 100 :
    /\ \E link \in Range(ParentsOf(p)) : link = [to |-> q, share |-> s]
    /\ \A link \in Range(ParentsOf(p)) : link.to = q => link.share <= s
Walks ==
  { w \in UNION { [1 .. k -> Id] : k \in 2 .. NumIds + 1 } :
      \A i \in 1 .. Len(w) - 1 : IsEdge(w[i], w[i + 1]) }
WalkShare(w) ==
  FoldLeft(LAMBDA sum, i : sum + LargestShare(w[i], w[i + 1]), 0,
           [i \in 1 .. Len(w) - 1 |-> i])

\* validateRoyaltyDAG accepts exactly the graphs in which no walk along parents
\* comes back to its start or promises more than 100 percent, although it searches
\* each node once and follows paths only from the nodes that nobody derives from
\* (economic.ts:24-65, 78-125).
ValidationExact ==
  validateRoyaltyDAG <=> \A w \in Walks : w[1] # w[Len(w)] /\ WalkShare(w) <= 100

\* On a validated graph the contract can pay unless all of an asset's shares are
\* zero, and every creator gets at least what the estimate says: the estimate
\* drops second paths and shares below 100 percent, the contract pays them out
\* (economic.ts:165-195, Royalty.sol:52-81).
ContractPaysEstimate ==
  validateRoyaltyDAG =>
    \A id \in Id :
      LET payout == distributePayment(id, Payment)
      IN  /\ (\A i \in Id : ParentsOf(i) = << >> \/ TotalParentShare(ParentsOf(i)) > 0) => payout.ok
          /\ payout.ok => \A creator \in 1 .. NumCreators :
               calculateDistribution(id, Payment)[creator] <= payout.balances[creator]
=============================================================================
