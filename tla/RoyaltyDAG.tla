----------------------------- MODULE RoyaltyDAG -----------------------------
(***************************************************************************)
(* RoyaltyDAG (contracts/Royalty.sol): assets with weighted parents, and   *)
(* payments that are divided up the graph by recursion.                    *)
(*                                                                         *)
(* A payment is one transaction of several steps, one for each call of     *)
(* _distribute, so that its recursion is a sequence of pending calls.      *)
(* Nobody is called during it, so nothing else happens before it ends.     *)
(* Accounts are numbers, and Nobody is the zero address.  Royalties        *)
(* compares the same recursion with the off-chain estimate.                *)
(***************************************************************************)
EXTENDS Sums, Sequences

CONSTANTS
  Asset,         \* asset ids
  NumAccounts,   \* accounts are 1 .. NumAccounts
  Whole,         \* 10000 basis points
  Rates,         \* base royalties that are registered: nothing checks them
  ParentLists,   \* sequences of [to, share] that are registered
  Amounts,       \* payments
  MaxEther,      \* bound: ether that the contract holds
  MaxCalls       \* bound: calls of _distribute for which there is gas

Nobody == 0
Account == 1 .. NumAccounts
Link == [to : Asset, share : Nat]

ASSUME RoyaltyDAGAssumption ==
  /\ NumAccounts \in Nat /\ Whole \in Nat \ {0}
  /\ Rates \subseteq Nat /\ Amounts \subseteq Nat
  /\ ParentLists \subseteq Seq(Link)
  /\ MaxEther \in Nat /\ MaxCalls \in Nat

VARIABLES
  assets,    \* id -> [creator, baseRoyalty, parents]
  balances,  \* account -> what it may withdraw
  held,      \* the contract's ether
  paying,    \* whether a payment is under way
  pending,   \* the calls of _distribute that it has still to make
  calls,     \* how many it has made
  before     \* the balances and the ether it started from

ledger == << balances, held >>
payment == << paying, pending, calls, before >>
vars == << assets, ledger, payment >>

Unregistered == [creator |-> Nobody, baseRoyalty |-> 0, parents |-> << >>]
Registered == {id \in Asset : assets[id].creator # Nobody}

NoPayment == [balances |-> [a \in Account \cup {Nobody} |-> 0], held |-> 0]

Init ==
  /\ assets = [id \in Asset |-> Unregistered]
  /\ balances = [a \in Account \cup {Nobody} |-> 0]
  /\ held = 0
  /\ paying = FALSE /\ pending = << >> /\ calls = 0
  /\ before = NoPayment

-----------------------------------------------------------------------------
(* Registration *)

\* Mutant: a parent need not be there.
ParentsAnywhere(id, creator, parents) == TRUE

\* The creator is written before the parents are looked up: an asset with a
\* creator may name itself.
ParentsKnown(id, creator, parents) ==
  \A i \in DOMAIN parents :
    \/ parents[i].to \in Registered
    \/ parents[i].to = id /\ creator # Nobody

\* Anybody registers for any creator.  Under the zero address an asset takes no
\* descendants, and may be registered again.
registerAsset(id, creator, baseRoyalty, parents) ==
  /\ ~ paying
  /\ id \notin Registered
  /\ ParentsKnown(id, creator, parents)
  /\ assets' = [assets EXCEPT ![id] =
       [creator |-> creator, baseRoyalty |-> baseRoyalty, parents |-> parents]]
  /\ UNCHANGED << ledger, payment >>

-----------------------------------------------------------------------------
(* Payment *)

distributePayment(id, amount) ==
  /\ ~ paying
  /\ held + amount <= MaxEther
  /\ held' = held + amount
  /\ paying' = TRUE
  /\ pending' = << [to |-> id, amount |-> amount] >>
  /\ calls' = 0
  /\ before' = [balances |-> balances, held |-> held]
  /\ UNCHANGED << assets, balances >>

CreatorShare(call) == (call.amount * assets[call.to].baseRoyalty) \div Whole
Remaining(call) == call.amount - CreatorShare(call)
Shares(parents) == [i \in DOMAIN parents |-> parents[i].share]
TotalShare(parents) == SumTo(Shares(parents), Len(parents))

\* Mutant: the parents divide the whole amount.
PartsOfWhole(call) ==
  LET parents == assets[call.to].parents
  IN  [i \in DOMAIN parents |->
         [to     |-> parents[i].to,
          amount |-> (call.amount * parents[i].share) \div TotalShare(parents)]]

\* Mutant: a share is of the whole, and not of all shares together.
PartsOfBps(call) ==
  LET parents == assets[call.to].parents
  IN  [i \in DOMAIN parents |->
         [to     |-> parents[i].to,
          amount |-> (Remaining(call) * parents[i].share) \div (Whole + 1)]]

\* The calls that a call makes for its parents.
Parts(call) ==
  LET parents == assets[call.to].parents
  IN  [i \in DOMAIN parents |->
         [to     |-> parents[i].to,
          amount |-> (Remaining(call) * parents[i].share) \div TotalShare(parents)]]

\* Nothing is divided if nothing remains or there is nobody above.
Divides(call) == Remaining(call) > 0 /\ assets[call.to].parents # << >>

\* A base royalty above the whole makes the subtraction revert, and shares that
\* are all zero the division.
_distribute ==
  LET call == Head(pending)
  IN  /\ paying /\ pending # << >> /\ calls < MaxCalls
      /\ Remaining(call) >= 0
      /\ Divides(call) => TotalShare(assets[call.to].parents) > 0
      /\ balances' = [balances EXCEPT ![assets[call.to].creator] = @ + CreatorShare(call)]
      /\ pending' = (IF Divides(call) THEN Parts(call) ELSE << >>) \o Tail(pending)
      /\ calls' = calls + 1
      /\ UNCHANGED << assets, held, paying, before >>

Ended ==
  /\ paying' = FALSE /\ pending' = << >> /\ calls' = 0
  /\ before' = NoPayment

Commit ==
  /\ paying /\ pending = << >>
  /\ Ended
  /\ UNCHANGED << assets, ledger >>

\* Gas, which the sender chooses, may end before any call.
Revert ==
  /\ paying
  /\ Ended
  /\ balances' = before.balances /\ held' = before.held
  /\ UNCHANGED assets

\* transfer leaves the payee no gas to call back, and reverts if it fails.
withdraw(a) ==
  /\ ~ paying
  /\ balances[a] > 0
  /\ balances' = [balances EXCEPT ![a] = 0]
  /\ held' = held - balances[a]
  /\ UNCHANGED << assets, payment >>

Next ==
  \/ \E id \in Asset, creator \in Account \cup {Nobody}, baseRoyalty \in Rates,
        parents \in ParentLists : registerAsset(id, creator, baseRoyalty, parents)
  \/ \E id \in Asset, amount \in Amounts : distributePayment(id, amount)
  \/ _distribute \/ Commit \/ Revert
  \/ \E a \in Account : withdraw(a)

Spec == Init /\ [][Next]_vars

-----------------------------------------------------------------------------
\* Types of all variables, Solidity's unsigned ones among them.
Balances == [Account \cup {Nobody} -> Nat]
TypeOK ==
  /\ assets \in [Asset -> [creator : Account \cup {Nobody}, baseRoyalty : Nat,
                           parents : Seq(Link)]]
  /\ balances \in Balances /\ held \in Nat
  /\ paying \in BOOLEAN /\ calls \in Nat
  /\ pending \in Seq([to : Asset, amount : Nat])
  /\ before \in [balances : Balances, held : Nat]

\* All that is owed, to the zero address too.
Owed(owing) == owing[Nobody] + SumTo(owing, NumAccounts)
Promised(list) == SumTo([i \in DOMAIN list |-> list[i].amount], Len(list))

\* The contract holds what it owes and what the payment under way has still to
\* divide, for base royalties and shares that nothing checks (Royalty.sol:56-81):
\* a withdrawal never spends another's ether.
Solvent == Owed(balances) + Promised(pending) <= held

\* An asset that names itself is the only loop: any set of registered assets has
\* one whose parents, other than itself, are all outside (Royalty.sol:33-43).  "No
\* cycles in royalty graph - Enforced by EconomicInvariants.validateNoCycles and
\* on-chain validation" (docs/INVARIANTS.md:18) is too much: the creator is written
\* (37) before the parents are looked up (41), and the asset finds itself.
OnlySelfLoops ==
  \A S \in SUBSET Registered :
    S # {} => \E id \in S : \A i \in DOMAIN assets[id].parents :
                               assets[id].parents[i].to \notin S \ {id}

\* Such an asset, if it has no other parent and leaves its creator less than the
\* whole, takes no payment: once a payment reaches it, directly or from a
\* descendant, it goes round it until the gas ends and all is as before
\* (Royalty.sol:37-42, 66-77).
OwnOnlyParent(id) ==
  /\ assets[id].baseRoyalty < Whole
  /\ Len(assets[id].parents) = 1 /\ assets[id].parents[1].to = id
Stuck(list) == \E i \in DOMAIN list : list[i].amount > 0 /\ OwnOnlyParent(list[i].to)

SelfParentTakesNoPayment ==
  [][ paying /\ Stuck(pending) =>
        \/ paying' /\ Stuck(pending')
        \/ ~ paying' /\ balances' = before.balances /\ held' = before.held ]_vars
=============================================================================
