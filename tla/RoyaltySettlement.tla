-------------------------- MODULE RoyaltySettlement --------------------------
(***************************************************************************)
(* RoyaltySettlement (packages/protocol/contracts/RoyaltySettlement.sol)   *)
(* over KnowledgeRegistry: it splits a query fee between the curator of a  *)
(* Knowledge Block and the curators of its registered parents.             *)
(*                                                                         *)
(* settleQuery pays while it reads the registry: the curator first, then   *)
(* one parent after the other.  Each payment hands control to the payee,   *)
(* so the transaction is several actions, and `call' is its frame.  While  *)
(* a contract has control, contracts may register Knowledge Blocks and set *)
(* ratios; settleQuery itself is nonReentrant.                             *)
(***************************************************************************)
EXTENDS KnowledgeRegistry, Sums

CONSTANTS
  Contract,      \* the accounts that are contracts, and so can call back
  Fees,          \* the amounts that are sent to settleQuery
  Ratios,        \* the ratios that setRoyaltyRatio is called with
  EtherSupply    \* bound: the contract cannot hold more ether than exists

Bps == 10000     \* the whole, in basis points
InitialCuratorBps == 8000

ASSUME RoyaltySettlementAssumption ==
  /\ Contract \subseteq Account
  /\ Fees \subseteq Nat /\ Ratios \subseteq Nat /\ EtherSupply \in Nat

VARIABLES
  defaultCuratorBps,
  curatorBps,    \* hash -> the curator's part; 0 stands for the default
  balance,       \* address(this).balance
  call           \* the transaction in progress; its `paid' are the amounts of the
                 \* RoyaltyDistributed events, `unpaid' the links whose payment failed,
                 \* `estimate' what calculateDistribution announced at the start

vars == << blocks, defaultCuratorBps, curatorBps, balance, call >>

Nothing == [a \in Account |-> 0]
Idle    == [op |-> "idle", hash |-> 0, fee |-> 0, perParent |-> 0, i |-> 0,
            callee |-> Zero, paid |-> Nothing, unpaid |-> {}, estimate |-> Nothing,
            saved |-> << >>]

\* What a failed transaction restores.
Snapshot == [blocks |-> blocks, defaultCuratorBps |-> defaultCuratorBps,
             curatorBps |-> curatorBps, balance |-> balance]

Init ==
  /\ InitBlocks
  /\ defaultCuratorBps = InitialCuratorBps
  /\ curatorBps = [h \in Hash |-> 0]
  /\ balance = 0
  /\ call = Idle

-----------------------------------------------------------------------------
(* The split.                                                              *)

\* _getCuratorBps
CuratorBps(h) == IF curatorBps[h] = 0 THEN defaultCuratorBps ELSE curatorBps[h]

CuratorShare(h, fee) == (fee * CuratorBps(h)) \div Bps

Parents(h) == blocks[h].parents

\* How many entries of the parents' list are registered now.
VerifiedCount(h) ==
  SumTo([i \in DOMAIN Parents(h) |-> IF isVerified(Parents(h)[i]) THEN 1 ELSE 0],
        Len(Parents(h)))

\* Is there something to divide, and somebody to divide it among?
Divides(h, remainder) == remainder > 0 /\ VerifiedCount(h) > 0

\* Mutant: the remainder is divided among all the parents that are listed.
PerParentOfAll(h, remainder) ==
  IF Divides(h, remainder) THEN remainder \div Len(Parents(h)) ELSE 0

\* Mutant: every parent gets the remainder.
PerParentWhole(h, remainder) == IF Divides(h, remainder) THEN remainder ELSE 0

\* What each registered parent gets of the remainder.
PerParent(h, remainder) ==
  IF Divides(h, remainder) THEN remainder \div VerifiedCount(h) ELSE 0

\* calculateDistribution, added up by recipient.
calculateDistribution(h, fee) ==
  LET curatorShare == (fee * CuratorBps(h)) \div Bps
      remainder    == fee - curatorShare
      perParent    == IF VerifiedCount(h) > 0 /\ remainder > 0
                      THEN remainder \div VerifiedCount(h) ELSE 0
      Listed(a, i) == isVerified(Parents(h)[i]) /\ getCurator(Parents(h)[i]) = a
  IN  [a \in Account |->
         (IF getCurator(h) = a THEN curatorShare ELSE 0)
         + SumTo([i \in DOMAIN Parents(h) |-> IF Listed(a, i) THEN perParent ELSE 0],
                 Len(Parents(h)))]

-----------------------------------------------------------------------------
MayCall(a) ==
  \/ call.op = "idle"
  \/ call.callee \in Contract /\ a \in Contract

InControl == call.callee = Zero

Register ==
  /\ \E a \in Account, h \in Hash, parents \in ParentLists :
       MayCall(a) /\ registerKB(a, h, parents)
  /\ UNCHANGED << defaultCuratorBps, curatorBps, balance, call >>

\* Anybody may set any ratio; hash 0 stands for the default.
setRoyaltyRatio(sender, h, bps) ==
  /\ MayCall(sender) /\ bps <= Bps
  /\ IF h = 0
     THEN defaultCuratorBps' = bps /\ UNCHANGED curatorBps
     ELSE curatorBps' = [curatorBps EXCEPT ![h] = bps] /\ UNCHANGED defaultCuratorBps
  /\ UNCHANGED << blocks, balance, call >>

\* settleQuery up to the curator's payment (a call without ether changes nothing).
settleQuery(h, fee) ==
  LET share == CuratorShare(h, fee)
  IN  /\ call.op = "idle"
      /\ fee > 0 /\ balance + fee <= EtherSupply
      /\ isVerified(h)
      /\ call' = [op |-> "curator", hash |-> h, fee |-> fee, perParent |-> 0, i |-> 1,
                  callee |-> getCurator(h), paid |-> [Nothing EXCEPT ![getCurator(h)] = share],
                  unpaid |-> {}, estimate |-> calculateDistribution(h, fee),
                  saved |-> Snapshot]
      /\ balance' = balance + fee - share
      /\ UNCHANGED << blocks, defaultCuratorBps, curatorBps >>

\* The curator returned: the registered parents are counted, and the remainder
\* of the fee is divided among them, or the loop is skipped.
CuratorPaid ==
  LET h         == call.hash
      remainder == call.fee - call.paid[getCurator(h)]
  IN  /\ call.op = "curator"
      /\ call' = [call EXCEPT !.op = "parents", !.callee = Zero,
                    !.perParent = PerParent(h, remainder),
                    !.i = IF Divides(h, remainder) THEN 1 ELSE Len(Parents(h)) + 1]
      /\ UNCHANGED << blocks, defaultCuratorBps, curatorBps, balance >>

InLoop  == call.op = "parents" /\ InControl /\ call.i <= Len(Parents(call.hash))
LoopEnd == call.op = "parents" /\ InControl /\ call.i > Len(Parents(call.hash))
Parent  == Parents(call.hash)[call.i]

\* A parent that is not registered when its turn comes is passed over.
SkipParent ==
  /\ InLoop /\ ~ isVerified(Parent)
  /\ call' = [call EXCEPT !.i = @ + 1]
  /\ UNCHANGED << blocks, defaultCuratorBps, curatorBps, balance >>

\* The ether leaves and the parent's curator takes control.
PayParent ==
  /\ InLoop /\ isVerified(Parent)
  /\ call.perParent <= balance
  /\ call' = [call EXCEPT !.callee = getCurator(Parent),
                          !.paid[getCurator(Parent)] = @ + call.perParent]
  /\ balance' = balance - call.perParent
  /\ UNCHANGED << blocks, defaultCuratorBps, curatorBps >>

\* The payment fails, as the payee is a contract that refuses it or the ether is
\* not there: it is not repeated, and the loop goes on (`if (sent)').
PaymentFails ==
  /\ InLoop /\ isVerified(Parent)
  /\ getCurator(Parent) \in Contract \/ call.perParent > balance
  /\ call' = [call EXCEPT !.i = @ + 1, !.unpaid = @ \cup {call.i}]
  /\ UNCHANGED << blocks, defaultCuratorBps, curatorBps, balance >>

ParentPaid ==
  /\ call.op = "parents" /\ ~ InControl
  /\ call' = [call EXCEPT !.callee = Zero, !.i = @ + 1]
  /\ UNCHANGED << blocks, defaultCuratorBps, curatorBps, balance >>

Finish ==
  /\ LoopEnd
  /\ call' = Idle
  /\ UNCHANGED << blocks, defaultCuratorBps, curatorBps, balance >>

\* The curator refuses the payment or the gas runs out.
Revert ==
  /\ call.op # "idle"
  /\ blocks' = call.saved.blocks
  /\ defaultCuratorBps' = call.saved.defaultCuratorBps
  /\ curatorBps' = call.saved.curatorBps
  /\ balance' = call.saved.balance
  /\ call' = Idle

Settle == CuratorPaid \/ SkipParent \/ PayParent \/ PaymentFails \/ ParentPaid \/ Finish

Next ==
  \/ Register
  \/ \E a \in Account, h \in Hash \cup {0}, b \in Ratios : setRoyaltyRatio(a, h, b)
  \/ \E h \in Hash, fee \in Fees : settleQuery(h, fee)
  \/ Settle
  \/ Revert

Spec == Init /\ [][Next]_vars

-----------------------------------------------------------------------------
\* The parents of the settled block that are registered did not become more
\* while it was settled.
NoParentAppeared ==
  \A i \in DOMAIN Parents(call.hash) :
    LET p == Parents(call.hash)[i] IN blocks[p] = call.saved.blocks[p]

\* A settlement spends the fee that was sent and nothing that earlier
\* settlements left in the contract, unless a parent was registered by a payee
\* while the fee was being paid out: parents are counted once (54-57) and their
\* registration is asked again before each payment (62).
SpendsOwnFee ==
  call.op # "idle" /\ NoParentAppeared => balance >= call.saved.balance

\* calculateDistribution is an exact estimate: if every payee accepts and no
\* parent is registered meanwhile, everybody is paid what it announced for the
\* ratios at the start, whatever ratios are set during the payments (40-70, 72-108).
EstimateHonoured ==
  LoopEnd /\ call.unpaid = {} /\ NoParentAppeared =>
    call.paid = call.estimate

\* What IRoyaltySettlement.sol:18 says of settleQuery: it pays the curator and
\* all the (registered) parents, in a single transaction.
AllParentsPaid == LoopEnd => call.unpaid = {}
=============================================================================
