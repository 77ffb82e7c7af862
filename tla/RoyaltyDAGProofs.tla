-------------------------- MODULE RoyaltyDAGProofs --------------------------
(***************************************************************************)
(* Theorems about RoyaltyDAG, for all assets, accounts, rates, shares and  *)
(* payments, and any amount of gas; and about RoyaltyEstimate, for all     *)
(* arrays of nodes.                                                        *)
(***************************************************************************)
EXTENDS RoyaltyDAG, RoyaltyEstimate, SumLemmas, TLAPS

Call == [to : Asset, amount : Nat]

\* What a payment started from was solvent.
BeforeSolvent == Owed(before.balances) <= before.held

\* Parents have a creator.
ParentsRegistered ==
  \A id \in Asset : \A i \in DOMAIN assets[id].parents :
    assets[id].parents[i].to \in Registered

\* Between payments no call is pending.
Quiet == ~ paying => pending = << >>

IInv == TypeOK /\ Solvent /\ BeforeSolvent /\ Quiet
LineageInv == TypeOK /\ ParentsRegistered /\ OnlySelfLoops

-----------------------------------------------------------------------------
(* Lists of calls, on chain and off *)

\* The amount of a call is a natural.
LEMMA CallAmounts == \A c \in Call : c.amount \in Nat
BY DEF Call

Amount(list) == [i \in DOMAIN list |-> list[i].amount]

\* Promises add up over two lists.
LEMMA PromisedConcat ==
  ASSUME NEW C, \A c \in C : c.amount \in Nat, NEW s \in Seq(C), NEW t \in Seq(C)
  PROVE  Promised(s \o t) = Promised(s) + Promised(t)
<1>1. /\ Len(s) \in Nat /\ DOMAIN s = 1 .. Len(s)
      /\ Len(t) \in Nat /\ DOMAIN t = 1 .. Len(t)
      /\ Len(s \o t) = Len(s) + Len(t) /\ DOMAIN (s \o t) = 1 .. Len(s) + Len(t)
      /\ \A i \in 1 .. Len(s) : s[i] \in C /\ (s \o t)[i] = s[i]
      /\ \A i \in 1 .. Len(t) : t[i] \in C /\ (s \o t)[Len(s) + i] = t[i]
  OBVIOUS
<1>2. \A i \in 1 .. Len(s) : Amount(s)[i] \in Int /\ Amount(s \o t)[i] = Amount(s)[i]
  <2> TAKE i \in 1 .. Len(s)
  <2>1. i \in 1 .. Len(s) + Len(t) BY <1>1
  <2> QED BY <1>1, <2>1 DEF Amount
<1>3. \A i \in 1 .. Len(t) : /\ Amount(t)[i] \in Int
                             /\ Amount(s \o t)[Len(s) + i] = Amount(t)[i]
  <2> TAKE i \in 1 .. Len(t)
  <2>1. Len(s) + i \in 1 .. Len(s) + Len(t) BY <1>1
  <2> QED BY <1>1, <2>1 DEF Amount
<1>4. SumTo(Amount(s \o t), Len(s) + Len(t))
        = SumTo(Amount(s), Len(s)) + SumTo(Amount(t), Len(t))
  <2>1. Joined(Amount(s \o t), Amount(s), Len(s), Amount(t), Len(t))
    BY <1>2, <1>3 DEF Joined
  <2>2. Len(s) \in Nat /\ Len(t) \in Nat
    BY <1>1
  <2> QED BY <2>1, <2>2, SumConcat, SMT
<1> QED BY <1>1, <1>4 DEF Promised, Amount

\* What is promised to a list of calls is a natural.
LEMMA PromisedNat ==
  ASSUME NEW C, \A c \in C : c.amount \in Nat, NEW s \in Seq(C)
  PROVE  Promised(s) \in Nat
<1>1. Len(s) \in Nat /\ \A i \in 1 .. Len(s) : Amount(s)[i] \in Nat
  <2>1. Len(s) \in Nat /\ DOMAIN s = 1 .. Len(s) /\ \A i \in 1 .. Len(s) : s[i] \in C
    OBVIOUS
  <2> QED BY <2>1 DEF Amount
<1>2. SumTo(Amount(s), Len(s)) \in Nat
  BY <1>1, SumNat, Zenon
<1> QED BY <1>2 DEF Promised, Amount

\* Nothing is promised to no call.
LEMMA PromisedNone == Promised(<< >>) = 0
BY SumZero DEF Promised

\* What is promised to a single call is its amount.
LEMMA PromisedOne ==
  ASSUME NEW c, c.amount \in Nat
  PROVE  Promised(<< c >>) = c.amount
<1> DEFINE g == Amount(<< c >>)
<1>1. DOMAIN << c >> = 1 .. 1 /\ Len(<< c >>) = 1 /\ g[1] = c.amount /\ c.amount \in Nat
  BY DEF Amount
<1>2. Promised(<< c >>) = SumTo(g, 1)
  BY <1>1 DEF Promised, Amount
<1> HIDE DEF g
<1>3. SumTo(g, 0) = 0
  BY SumZero
<1>4. SumTo(g, 0 + 1) = SumTo(g, 0) + g[0 + 1]
  <2>1. \A i \in 1 .. 1 : g[i] \in Int BY <1>1
  <2>2. 1 \in Nat /\ 0 \in 0 .. 1 - 1 OBVIOUS
  <2> QED BY <2>1, <2>2, SumStep, Zenon
<1>5. SumTo(g, 1) = 0 + g[1]
  BY <1>3, <1>4
<1> QED BY <1>1, <1>2, <1>5

-----------------------------------------------------------------------------
(* One call of _distribute *)

\* A call splits its amount into the creator's share and what remains.
LEMMA Split ==
  ASSUME TypeOK, NEW call \in Call, Remaining(call) >= 0
  PROVE  /\ CreatorShare(call) \in Nat /\ Remaining(call) \in Nat
         /\ CreatorShare(call) + Remaining(call) = call.amount
<1>1. /\ call.amount \in Nat /\ assets[call.to].baseRoyalty \in Nat
      /\ Whole \in Nat \ {0}
  BY RoyaltyDAGAssumption DEF TypeOK, Call
<1>2. call.amount * assets[call.to].baseRoyalty \in Nat
  BY <1>1, SMT
<1>3. CreatorShare(call) \in Nat
  BY <1>1, <1>2, DivBounds DEF CreatorShare
<1> QED BY <1>1, <1>3 DEF Remaining

\* Its parts are calls, and do not exceed what remains.
LEMMA PartsWithinRemaining ==
  ASSUME TypeOK, NEW call \in Call, Remaining(call) \in Nat,
         TotalShare(assets[call.to].parents) > 0
  PROVE  /\ Parts(call) \in Seq(Call)
         /\ Promised(Parts(call)) <= Remaining(call)
<1>1. PICK parents : parents = assets[call.to].parents
  OBVIOUS
<1>2. PICK n \in Nat : n = Len(parents) /\ DOMAIN parents = 1 .. n
                       /\ \A i \in 1 .. n : parents[i] \in Link
  <2>1. parents \in Seq(Link)
    BY <1>1 DEF TypeOK, Call
  <2> QED BY <2>1
<1>3. PICK g : g = Shares(parents)
  OBVIOUS
<1>4. \A i \in 1 .. n : g[i] \in Nat /\ g[i] = parents[i].share /\ parents[i].to \in Asset
  BY <1>2, <1>3 DEF Shares, Link
<1>5. PICK t : t = SumTo(g, n)
  OBVIOUS
<1>6. t \in Nat \ {0} /\ t = TotalShare(parents)
  <2>1. t \in Nat BY <1>4, <1>5, SumNat
  <2>2. t = TotalShare(parents) BY <1>2, <1>3, <1>5 DEF TotalShare
  <2>3. t > 0 BY <2>2, <1>1
  <2> QED BY <2>1, <2>2, <2>3
<1>7. PICK r \in Nat : r = Remaining(call)
  OBVIOUS
<1> DEFINE p == [i \in 1 .. n |-> (r * g[i]) \div t]
<1>8. (\A i \in 1 .. n : p[i] \in Nat) /\ SumTo(p, n) <= r
  <2>1. \A i \in 1 .. n : p[i] = (r * g[i]) \div t OBVIOUS
  <2>2. \A i \in 1 .. n : g[i] \in Nat BY <1>4
  <2>3. SumTo(g, n) <= t BY <1>5, <1>6
  <2> HIDE DEF p
  <2> QED BY <1>6, <2>1, <2>2, <2>3, SumOfParts, Zenon
<1>9. Parts(call) = [i \in 1 .. n |-> [to |-> parents[i].to, amount |-> p[i]]]
  BY <1>1, <1>2, <1>4, <1>6, <1>7 DEF Parts
<1> HIDE DEF p
<1>10. /\ Parts(call) \in [1 .. n -> Call]
       /\ \A i \in 1 .. n : Parts(call)[i].amount = p[i]
  BY <1>4, <1>8, <1>9 DEF Call
<1>11. Parts(call) \in Seq(Call) /\ Len(Parts(call)) = n /\ DOMAIN Parts(call) = 1 .. n
  BY <1>10
<1>12. Promised(Parts(call)) = SumTo(p, n)
  <2>1. \A i \in 1 .. n : Amount(Parts(call))[i] = p[i]
    BY <1>10, <1>11 DEF Amount
  <2>2. \A i \in 1 .. n : p[i] \in Int
    BY <1>8
  <2>3. SumTo(Amount(Parts(call)), n) = SumTo(p, n)
    BY <2>1, <2>2, SumSame, Zenon
  <2> QED BY <1>11, <2>3 DEF Promised, Amount
<1> QED BY <1>7, <1>8, <1>11, <1>12

\* Crediting an account raises what is owed by as much.
LEMMA OwedUpdate ==
  ASSUME NEW owing \in Balances, NEW a \in Account \cup {Nobody}, NEW amount \in Nat
  PROVE  /\ [owing EXCEPT ![a] = amount] \in Balances
         /\ Owed([owing EXCEPT ![a] = amount]) = Owed(owing) + (amount - owing[a])
<1> DEFINE new == [owing EXCEPT ![a] = amount]
<1>1. /\ new \in Balances /\ new[a] = amount
      /\ \A b \in Account \cup {Nobody} : b # a => new[b] = owing[b]
  BY DEF Balances
<1>2. NumAccounts \in Nat /\ \A i \in 1 .. NumAccounts : owing[i] \in Int /\ new[i] \in Int
  BY <1>1, RoyaltyDAGAssumption DEF Balances, Account
<1>3. owing[Nobody] \in Int /\ owing[a] \in Int /\ SumTo(owing, NumAccounts) \in Int
  BY <1>2, SumInt DEF Balances
<1> HIDE DEF new
<1>4. CASE a = Nobody
  <2>1. \A i \in 1 .. NumAccounts : new[i] = owing[i]
    BY <1>1, <1>2, <1>4 DEF Account, Nobody
  <2>2. SumTo(new, NumAccounts) = SumTo(owing, NumAccounts)
    BY <1>2, <2>1, SumSame, Zenon
  <2>3. Owed(new) = Owed(owing) + (amount - owing[a])
    BY <1>1, <1>3, <1>4, <2>2 DEF Owed
  <2> QED BY <1>1, <2>3 DEF new
<1>5. CASE a # Nobody
  <2>1. a \in 1 .. NumAccounts /\ new[Nobody] = owing[Nobody]
    BY <1>1, <1>5 DEF Account
  <2>2. \A i \in 1 .. NumAccounts : i # a => new[i] = owing[i]
    BY <1>1 DEF Account
  <2>3. SumTo(new, NumAccounts) = SumTo(owing, NumAccounts) + (new[a] - owing[a])
    BY <1>2, <2>1, <2>2, SumUpdate, Zenon
  <2>4. Owed(new) = Owed(owing) + (amount - owing[a])
    BY <1>1, <1>3, <2>1, <2>3 DEF Owed
  <2> QED BY <1>1, <2>4 DEF new
<1> QED BY <1>4, <1>5

\* What is owed to the accounts is a natural.
LEMMA OwedNat ==
  ASSUME NEW owing \in Balances
  PROVE  Owed(owing) \in Nat
<1>1. NumAccounts \in Nat /\ \A i \in 1 .. NumAccounts : owing[i] \in Nat
  BY RoyaltyDAGAssumption DEF Balances, Account
<1>2. owing[Nobody] \in Nat
  BY DEF Balances
<1> QED BY <1>1, <1>2, SumNat DEF Owed

-----------------------------------------------------------------------------
(* Types *)

\* The invariant holds initially.
LEMMA InitIInv == Init => IInv
<1> SUFFICES ASSUME Init PROVE IInv
  OBVIOUS
<1>1. NoPayment \in [balances : Balances, held : Nat] /\ NoPayment.balances = balances
  BY DEF Init, NoPayment, Balances
<1>2. TypeOK
  <2>1. assets \in [Asset -> [creator : Account \cup {Nobody}, baseRoyalty : Nat,
                             parents : Seq(Link)]]
    <3>1. Unregistered \in [creator : Account \cup {Nobody}, baseRoyalty : Nat,
                            parents : Seq(Link)]
      BY DEF Unregistered
    <3> HIDE DEF Unregistered
    <3> QED BY <3>1 DEF Init
  <2>2. balances \in Balances
    BY DEF Init, Balances
  <2>3. pending \in Seq([to : Asset, amount : Nat])
    BY DEF Init
  <2> QED BY <1>1, <2>1, <2>2, <2>3 DEF Init, TypeOK
<1>3. Owed(balances) = 0
  <2>1. NumAccounts \in Nat /\ \A i \in 1 .. NumAccounts : balances[i] = 0
    BY RoyaltyDAGAssumption DEF Init, Account
  <2>2. SumTo(balances, NumAccounts) = 0
    BY <2>1, SumOfZeros, Zenon
  <2> QED BY <2>2 DEF Init, Owed
<1>4. Promised(pending) = 0
  BY PromisedNone DEF Init
<1> QED BY <1>1, <1>2, <1>3, <1>4 DEF Init, IInv, Solvent, BeforeSolvent, Quiet, NoPayment

\* What the end of a payment leaves is an empty payment.
LEMMA EndedOK ==
  ASSUME Ended
  PROVE  /\ paying' \in BOOLEAN /\ calls' \in Nat
         /\ pending' = << >> /\ pending' \in Seq(Call) /\ Promised(pending') = 0
         /\ before' \in [balances : Balances, held : Nat] /\ BeforeSolvent'
<1>1. before'.balances \in Balances /\ before'.held = 0
      /\ before' \in [balances : Balances, held : Nat]
  BY DEF Ended, NoPayment, Balances
<1>2. Owed(before'.balances) = 0
  <2>1. PICK g : g = before'.balances
    OBVIOUS
  <2>2. NumAccounts \in Nat /\ g[Nobody] = 0 /\ \A i \in 1 .. NumAccounts : g[i] = 0
    BY <2>1, RoyaltyDAGAssumption DEF Ended, NoPayment, Account
  <2>3. SumTo(g, NumAccounts) = 0
    BY <2>2, SumOfZeros, Zenon
  <2> QED BY <2>1, <2>2, <2>3 DEF Owed
<1>3. BeforeSolvent'
  BY <1>1, <1>2 DEF BeforeSolvent
<1>4. Promised(pending') = 0
  BY PromisedNone DEF Ended
<1>5. paying' = FALSE /\ calls' = 0 /\ pending' = << >>
  BY DEF Ended
<1>6. pending' \in Seq(Call)
  BY <1>5
<1> QED BY <1>1, <1>3, <1>4, <1>5, <1>6

\* Types that are the same or spelled out.
LEMMA Typed ==
  ASSUME TypeOK
  PROVE  /\ balances \in Balances /\ held \in Nat /\ pending \in Seq(Call)
         /\ before.balances \in Balances /\ before.held \in Nat
         /\ Owed(balances) \in Nat /\ Promised(pending) \in Nat
<1>1. balances \in Balances /\ held \in Nat /\ pending \in Seq(Call)
  BY DEF TypeOK, Call
<1> QED BY <1>1, OwedNat, PromisedNat, CallAmounts DEF TypeOK

-----------------------------------------------------------------------------
(* Every step keeps the ether in order. *)

\* A registration keeps the invariant.
LEMMA RegisterKeeps ==
  ASSUME IInv, NEW id \in Asset, NEW creator \in Account \cup {Nobody},
         NEW baseRoyalty \in Rates, NEW parents \in ParentLists,
         registerAsset(id, creator, baseRoyalty, parents)
  PROVE  IInv'
<1>1. baseRoyalty \in Nat /\ parents \in Seq(Link)
  BY RoyaltyDAGAssumption
<1>2. UNCHANGED << ledger, payment >>
  BY DEF registerAsset
<1>3. assets' \in [Asset -> [creator : Account \cup {Nobody}, baseRoyalty : Nat,
                             parents : Seq(Link)]]
  BY <1>1 DEF registerAsset, IInv, TypeOK
<1> QED BY <1>2, <1>3
     DEF IInv, TypeOK, Solvent, BeforeSolvent, Quiet, ledger, payment

\* The start of a payment keeps the invariant.
LEMMA DistributePaymentKeeps ==
  ASSUME IInv, NEW id \in Asset, NEW amount \in Amounts, distributePayment(id, amount)
  PROVE  IInv'
<1> DEFINE call == [to |-> id, amount |-> amount]
<1>1. call \in Call /\ amount \in Nat
  BY RoyaltyDAGAssumption DEF Call
<1>2. pending' \in Seq(Call) /\ Promised(pending') = amount
  <2>1. pending' = << call >> BY DEF distributePayment
  <2>2. Promised(<< call >>) = amount BY <1>1, PromisedOne, CallAmounts
  <2>3. << call >> \in Seq(Call) BY <1>1
  <2> HIDE DEF call
  <2> QED BY <2>1, <2>2, <2>3
<1>3. Promised(pending) = 0
  BY PromisedNone DEF distributePayment, IInv, Quiet
<1>4. /\ balances' = balances /\ held' = held + amount
      /\ before' = [balances |-> balances, held |-> held]
      /\ assets' = assets /\ paying' = TRUE /\ calls' = 0
  BY DEF distributePayment
<1>5. /\ balances \in Balances /\ held \in Nat /\ Owed(balances) \in Nat
      /\ Owed(balances) <= held
  BY <1>3, Typed DEF IInv, Solvent
<1>6. TypeOK'
  BY <1>1, <1>2, <1>4, <1>5 DEF IInv, TypeOK, Call
<1>7. Solvent'
  BY <1>1, <1>2, <1>4, <1>5 DEF Solvent
<1>8. BeforeSolvent'
  BY <1>4, <1>5 DEF BeforeSolvent
<1> QED BY <1>4, <1>6, <1>7, <1>8 DEF IInv, Quiet

\* A call of the recursion keeps the invariant: its parts are at most its amount.
LEMMA DistributeKeeps ==
  ASSUME IInv, _distribute
  PROVE  IInv'
<1> DEFINE call  == Head(pending)
           parts == IF Divides(call) THEN Parts(call) ELSE << >>
           c     == assets[call.to].creator
<1>1. /\ call \in Call /\ Tail(pending) \in Seq(Call)
      /\ pending = << call >> \o Tail(pending)
  BY Typed DEF _distribute, IInv
<1>2. c \in Account \cup {Nobody}
  BY <1>1 DEF IInv, TypeOK, Call
<1>3. /\ CreatorShare(call) \in Nat /\ Remaining(call) \in Nat
      /\ CreatorShare(call) + Remaining(call) = call.amount /\ call.amount \in Nat
  <2>1. Remaining(call) >= 0 BY DEF _distribute
  <2> HIDE DEF call
  <2> QED BY <1>1, <2>1, Split DEF IInv, Call
<1>4. parts \in Seq(Call) /\ Promised(parts) <= Remaining(call) /\ Promised(parts) \in Nat
  <2>1. CASE Divides(call)
    <3>1. TotalShare(assets[call.to].parents) > 0 BY <2>1 DEF _distribute
    <3>2. parts = Parts(call) BY <2>1
    <3> HIDE DEF call, parts
    <3>3. Parts(call) \in Seq(Call) /\ Promised(Parts(call)) <= Remaining(call)
      BY <1>1, <1>3, <3>1, PartsWithinRemaining DEF IInv
    <3> QED BY <3>2, <3>3, PromisedNat, CallAmounts
  <2>2. CASE ~ Divides(call)
    <3>1. parts = << >> BY <2>2
    <3> HIDE DEF call, parts
    <3> QED BY <3>1, <1>3, PromisedNone
  <2> QED BY <2>1, <2>2
<1>5. /\ balances' = [balances EXCEPT ![c] = balances[c] + CreatorShare(call)]
      /\ pending' = parts \o Tail(pending)
      /\ UNCHANGED << assets, held, paying, before >> /\ calls' = calls + 1
  BY DEF _distribute
<1> HIDE DEF call, parts, c
<1>6. balances \in Balances /\ balances[c] \in Nat /\ held \in Nat /\ Owed(balances) \in Nat
  BY <1>2, Typed DEF IInv, Balances
<1>7. balances' \in Balances /\ Owed(balances') = Owed(balances) + CreatorShare(call)
  <2>1. PICK amount \in Nat : amount = balances[c] + CreatorShare(call)
    BY <1>3, <1>6
  <2>2. /\ [balances EXCEPT ![c] = amount] \in Balances
        /\ Owed([balances EXCEPT ![c] = amount]) = Owed(balances) + (amount - balances[c])
    BY <1>2, <1>6, <2>1, OwedUpdate, Zenon
  <2> QED BY <1>3, <1>5, <1>6, <2>1, <2>2
<1>8. Promised(pending) = call.amount + Promised(Tail(pending))
  <2>1. Promised(<< call >> \o Tail(pending)) = Promised(<< call >>) + Promised(Tail(pending))
    <3>1. << call >> \in Seq(Call) BY <1>1
    <3> QED BY <1>1, <3>1, PromisedConcat, CallAmounts, Zenon
  <2>2. Promised(<< call >>) = call.amount BY <1>1, PromisedOne, CallAmounts
  <2> QED BY <1>1, <2>1, <2>2
<1>9. Promised(pending') = Promised(parts) + Promised(Tail(pending))
      /\ pending' \in Seq(Call) /\ Promised(Tail(pending)) \in Nat
  <2>1. Promised(parts \o Tail(pending)) = Promised(parts) + Promised(Tail(pending))
    BY <1>1, <1>4, PromisedConcat, CallAmounts, Zenon
  <2>2. Promised(Tail(pending)) \in Nat BY <1>1, PromisedNat, CallAmounts
  <2>3. parts \o Tail(pending) \in Seq(Call) BY <1>1, <1>4
  <2> QED BY <1>5, <2>1, <2>2, <2>3
<1>10. TypeOK'
  BY <1>5, <1>7, <1>9 DEF IInv, TypeOK, Call
<1>11. Solvent'
  <2>1. Owed(balances) + Promised(pending) <= held BY DEF IInv, Solvent
  <2>2. PICK owed \in Nat, own \in Nat, rest \in Nat, left \in Nat :
          /\ owed = Owed(balances) /\ own = CreatorShare(call)
          /\ rest = Promised(Tail(pending)) /\ left = Promised(parts)
    BY <1>3, <1>4, <1>6, <1>9
  <2>3. left <= Remaining(call) /\ own + Remaining(call) = call.amount
    BY <1>3, <1>4, <2>2
  <2>4. owed + (call.amount + rest) <= held
    BY <1>8, <2>1, <2>2
  <2>5. (owed + own) + (left + rest) <= held
    BY <1>3, <1>6, <2>3, <2>4
  <2> QED BY <1>5, <1>7, <1>9, <2>2, <2>5 DEF Solvent
<1>12. BeforeSolvent'
  BY <1>5 DEF IInv, BeforeSolvent
<1>13. Quiet'
  BY <1>5 DEF _distribute, Quiet
<1> QED BY <1>10, <1>11, <1>12, <1>13 DEF IInv

\* The end of a payment keeps the invariant.
LEMMA CommitKeeps ==
  ASSUME IInv, Commit
  PROVE  IInv'
<1>1. Ended /\ UNCHANGED << assets, ledger >> /\ pending = << >>
  BY DEF Commit
<1>2. TypeOK'
  BY <1>1, EndedOK DEF IInv, TypeOK, ledger, Call
<1>3. Solvent'
  <2>1. Promised(pending) = 0 /\ Promised(pending') = 0
    BY <1>1, EndedOK, PromisedNone
  <2>2. balances' = balances /\ held' = held
    BY <1>1 DEF ledger
  <2> QED BY <2>1, <2>2 DEF IInv, Solvent
<1> QED BY <1>1, <1>2, <1>3, EndedOK DEF IInv, Quiet

\* Undoing a payment keeps the invariant.
LEMMA RevertKeeps ==
  ASSUME IInv, Revert
  PROVE  IInv'
<1>1. Ended /\ assets' = assets /\ balances' = before.balances /\ held' = before.held
  BY DEF Revert
<1>2. before.balances \in Balances /\ before.held \in Nat
  BY Typed DEF IInv
<1>3. TypeOK'
  BY <1>1, <1>2, EndedOK DEF IInv, TypeOK, Call
<1>4. Solvent'
  <2>1. Promised(pending') = 0 BY <1>1, EndedOK
  <2>2. Owed(before.balances) <= before.held /\ Owed(before.balances) \in Nat
    BY <1>2, OwedNat DEF IInv, BeforeSolvent
  <2> QED BY <1>1, <2>1, <2>2 DEF Solvent
<1> QED BY <1>1, <1>3, <1>4, EndedOK DEF IInv, Quiet

\* A withdrawal keeps the invariant.
LEMMA WithdrawKeeps ==
  ASSUME IInv, NEW a \in Account, withdraw(a)
  PROVE  IInv'
<1>1. /\ balances' = [balances EXCEPT ![a] = 0] /\ held' = held - balances[a]
      /\ UNCHANGED << assets, payment >>
  BY DEF withdraw
<1>2. /\ balances \in Balances /\ held \in Nat /\ balances[a] \in Nat
      /\ Owed(balances) \in Nat /\ Promised(pending) \in Nat
  BY Typed DEF IInv, Balances
<1>3. balances' \in Balances /\ Owed(balances') = Owed(balances) - balances[a]
  <2>1. /\ [balances EXCEPT ![a] = 0] \in Balances
        /\ Owed([balances EXCEPT ![a] = 0]) = Owed(balances) + (0 - balances[a])
    BY <1>2, OwedUpdate
  <2> QED BY <1>1, <1>2, <2>1
<1>4. Owed(balances') \in Nat
  BY <1>3, OwedNat
<1>5. Owed(balances) + Promised(pending) <= held
  BY DEF IInv, Solvent
<1>6. held' \in Nat /\ Owed(balances') + Promised(pending) <= held'
  BY <1>1, <1>2, <1>3, <1>4, <1>5
<1>7. UNCHANGED << assets, paying, pending, calls, before >>
  BY <1>1 DEF payment
<1> QED BY <1>3, <1>6, <1>7 DEF IInv, TypeOK, Solvent, BeforeSolvent, Quiet

\* Every step keeps the invariant.
LEMMA NextKeeps ==
  ASSUME IInv, [Next]_vars
  PROVE  IInv'
<1>1. CASE UNCHANGED vars
  BY <1>1 DEF vars, ledger, payment, IInv, TypeOK, Solvent, BeforeSolvent, Quiet
<1>2. CASE Next
  BY <1>2, RegisterKeeps, DistributePaymentKeeps, DistributeKeeps, CommitKeeps,
     RevertKeeps, WithdrawKeeps DEF Next
<1> QED BY <1>1, <1>2

\* The variables keep their types: no withdrawal takes more ether than there is,
\* and no amount of a payment gets below zero.
THEOREM RoyaltyTypeCorrect == Spec => []TypeOK
<1>1. IInv => TypeOK
  BY DEF IInv
<1> QED BY <1>1, InitIInv, NextKeeps, PTL DEF Spec

\* The contract always holds what it owes (Royalty.sol:56-91).
THEOREM RoyaltiesAreCovered == Spec => []Solvent
<1>1. IInv => Solvent
  BY DEF IInv
<1> QED BY <1>1, InitIInv, NextKeeps, PTL DEF Spec

-----------------------------------------------------------------------------
(* Lineage *)

\* Initially there are no parents.
LEMMA InitLineage == Init => LineageInv
<1> SUFFICES ASSUME Init PROVE LineageInv
  OBVIOUS
<1>1. TypeOK
  BY InitIInv DEF IInv
<1>2. Registered = {}
  BY DEF Init, Registered, Unregistered
<1>3. \A id \in Asset : DOMAIN assets[id].parents = {}
  BY DEF Init, Unregistered
<1> QED BY <1>1, <1>2, <1>3 DEF LineageInv, ParentsRegistered, OnlySelfLoops

\* A new asset is nobody's parent yet, so a set that has it and others has the
\* same source as without it.
LEMMA RegisterLineage ==
  ASSUME LineageInv, NEW id \in Asset, NEW creator \in Account \cup {Nobody},
         NEW baseRoyalty \in Rates, NEW parents \in ParentLists,
         registerAsset(id, creator, baseRoyalty, parents)
  PROVE  ParentsRegistered' /\ OnlySelfLoops'
<1> DEFINE asset == [creator |-> creator, baseRoyalty |-> baseRoyalty, parents |-> parents]
<1>1. /\ assets'[id] = asset /\ \A k \in Asset \ {id} : assets'[k] = assets[k]
      /\ id \notin Registered /\ ParentsKnown(id, creator, parents)
  BY DEF registerAsset, LineageInv, TypeOK
<1>2. /\ asset.creator = creator /\ asset.parents = parents
      /\ Registered' = IF creator = Nobody THEN Registered ELSE Registered \cup {id}
      /\ Registered \subseteq Asset
  BY <1>1 DEF Registered
<1> HIDE DEF asset
<1>3. ASSUME NEW k \in Asset \ {id}, NEW i \in DOMAIN assets[k].parents
      PROVE  assets[k].parents[i].to # id
  BY <1>1, <1>3 DEF LineageInv, ParentsRegistered
<1>4. ParentsRegistered'
  <2> SUFFICES ASSUME NEW k \in Asset, NEW i \in DOMAIN assets'[k].parents
               PROVE  \/ assets'[k].parents[i].to \in Registered'
                      \/ assets'[k].parents[i].to = k /\ k \in Registered'
    BY DEF ParentsRegistered
  <2>1. CASE k = id
    BY <1>1, <1>2, <2>1 DEF ParentsKnown
  <2>2. CASE k # id
    BY <1>1, <1>2, <2>2 DEF LineageInv, ParentsRegistered
  <2> QED BY <2>1, <2>2
<1>5. OnlySelfLoops'
  <2> SUFFICES ASSUME NEW S \in SUBSET Registered', S # {}
               PROVE  \E k \in S : \A i \in DOMAIN assets'[k].parents :
                                      assets'[k].parents[i].to \notin S \ {k}
    BY DEF OnlySelfLoops
  <2>1. CASE S \ {id} = {}
    BY <2>1
  <2>2. CASE S \ {id} # {}
    <3>1. S \ {id} \in SUBSET Registered
      BY <1>2
    <3>2. PICK k \in S \ {id} : \A i \in DOMAIN assets[k].parents :
                                  assets[k].parents[i].to \notin (S \ {id}) \ {k}
      BY <2>2, <3>1 DEF LineageInv, OnlySelfLoops
    <3>3. k \in Asset \ {id} /\ assets'[k] = assets[k]
      BY <1>1, <1>2, <3>1, <3>2
    <3> QED BY <1>3, <3>2, <3>3
  <2> QED BY <2>1, <2>2
<1> QED BY <1>4, <1>5

\* Every step keeps the lineage: parents are registered, and loops have one asset.
LEMMA NextLineage ==
  ASSUME IInv, LineageInv, [Next]_vars
  PROVE  LineageInv'
<1>1. TypeOK'
  BY NextKeeps DEF IInv
<1>2. CASE \E id \in Asset, creator \in Account \cup {Nobody}, baseRoyalty \in Rates,
              parents \in ParentLists : registerAsset(id, creator, baseRoyalty, parents)
  BY <1>1, <1>2, RegisterLineage DEF LineageInv
<1>3. CASE UNCHANGED assets
  BY <1>1, <1>3 DEF LineageInv, ParentsRegistered, OnlySelfLoops, Registered
<1> QED BY <1>2, <1>3 DEF Next, vars, distributePayment, _distribute, Commit, Revert, withdraw

\* The only loops are of assets that name themselves: the parents of any other
\* asset were registered before it, or under it for nobody (Royalty.sol:33-43).
THEOREM LoopsAreSelfMade == Spec => []OnlySelfLoops
<1>1. Init => IInv /\ LineageInv
  BY InitIInv, InitLineage
<1>2. IInv /\ LineageInv /\ [Next]_vars => (IInv /\ LineageInv)'
  BY NextKeeps, NextLineage
<1>3. IInv /\ LineageInv => OnlySelfLoops
  BY DEF LineageInv
<1> QED BY <1>1, <1>2, <1>3, PTL DEF Spec

-----------------------------------------------------------------------------
(* Payments that go round *)

Going(c) == c.amount > 0 /\ OwnOnlyParent(c.to)

\* A call on an asset that is its own only parent leaves something to divide.
LEMMA Undivided ==
  ASSUME TypeOK, NEW c \in Call, Going(c)
  PROVE  Remaining(c) \in Nat \ {0} /\ Divides(c)
<1> DEFINE asset == assets[c.to]
<1>1. /\ c.amount \in Nat \ {0} /\ asset.baseRoyalty \in Nat /\ asset.baseRoyalty < Whole
      /\ asset.parents \in Seq(Link) /\ Len(asset.parents) = 1
      /\ Whole \in Nat \ {0}
  BY RoyaltyDAGAssumption DEF TypeOK, Call, Going, OwnOnlyParent
<1> HIDE DEF asset
<1>2. PICK a \in Nat \ {0}, b \in Nat, w \in Nat \ {0} :
        a = c.amount /\ b = asset.baseRoyalty /\ w = Whole /\ b < w
  BY <1>1
<1>3. (a * b) \div w \in Nat /\ (a * b) \div w < a
  <2>1. a * b \in Nat
    BY SMT
  <2>2. PICK q \in Nat : q = (a * b) \div w /\ w * q <= a * b
    BY <2>1, DivBounds
  <2>3. b + 1 <= w
    BY <1>2
  <2>4. ~ (a <= q)
    <3> SUFFICES ASSUME a <= q PROVE FALSE
      OBVIOUS
    <3>1. w * a <= w * q BY SMT
    <3>2. (b + 1) * a <= w * a BY <2>3, SMT
    <3>3. (b + 1) * a = a * b + a BY SMT
    <3>4. w * q \in Int /\ w * a \in Int BY SMT
    <3> QED BY <2>1, <2>2, <3>1, <3>2, <3>3, <3>4
  <2> QED BY <2>2, <2>4
<1>4. PICK r \in Nat \ {0} : r = Remaining(c)
  <2>1. Remaining(c) = a - (a * b) \div w
    BY <1>2 DEF Remaining, CreatorShare, asset
  <2> QED BY <1>3, <2>1
<1>5. asset.parents # << >>
  <2>1. PICK list \in Seq(Link) : list = asset.parents /\ Len(list) = 1
    BY <1>1
  <2>2. 1 \in DOMAIN list /\ DOMAIN << >> = {}
    BY <2>1
  <2> QED BY <2>1, <2>2
<1> QED BY <1>4, <1>5 DEF Divides, asset

\* It hands all of that to a call like itself.
LEMMA RoundAgain ==
  ASSUME TypeOK, NEW c \in Call, Going(c), TotalShare(assets[c.to].parents) > 0
  PROVE  Len(Parts(c)) = 1 /\ Going(Parts(c)[1])
<1> DEFINE asset == assets[c.to]
           link  == asset.parents[1]
<1>1. asset.parents \in Seq(Link) /\ Len(asset.parents) = 1 /\ link.to = c.to
  BY DEF TypeOK, Call, Going, OwnOnlyParent
<1>2. DOMAIN asset.parents = {1} /\ link \in Link /\ link.share \in Nat
  <2>1. PICK list \in Seq(Link) : list = asset.parents /\ Len(list) = 1
    BY <1>1
  <2>2. DOMAIN list = {1} /\ list[1] \in Link
    BY <2>1
  <2> QED BY <2>1, <2>2 DEF Link
<1> HIDE DEF asset
<1>3. PICK r \in Nat \ {0} : r = Remaining(c)
  BY Undivided
<1>4. TotalShare(asset.parents) = link.share
  <2>1. PICK g : g = Shares(asset.parents)
    OBVIOUS
  <2>2. g[1] = link.share /\ (\A i \in 1 .. 1 : g[i] \in Int)
    BY <1>2, <2>1 DEF Shares
  <2>3. SumTo(g, 0 + 1) = SumTo(g, 0) + g[0 + 1] /\ SumTo(g, 0) = 0
    <3>1. 1 \in Nat /\ 0 \in 0 .. 1 - 1 OBVIOUS
    <3> QED BY <2>2, <3>1, SumStep, SumZero, Zenon
  <2>4. SumTo(g, 1) = link.share
    BY <1>2, <2>2, <2>3
  <2> QED BY <1>1, <2>1, <2>4 DEF TotalShare
<1>5. PICK t \in Nat \ {0} : t = link.share
  BY <1>2, <1>4 DEF asset
<1>6. Parts(c) = [i \in {1} |-> [to     |-> asset.parents[i].to,
                                 amount |-> (r * asset.parents[i].share) \div t]]
  BY <1>2, <1>3, <1>4, <1>5 DEF Parts, asset
<1>7. (r * t) \div t = r
  BY DivExact
<1>8. DOMAIN Parts(c) = {1} /\ Parts(c)[1] = [to |-> c.to, amount |-> r]
  BY <1>1, <1>5, <1>6, <1>7
<1>9. Len(Parts(c)) = 1
  <2>1. Parts(c) \in [1 .. 1 -> {[to |-> c.to, amount |-> r]}]
    BY <1>6, <1>8
  <2> QED BY <2>1
<1>10. Going(Parts(c)[1])
  BY <1>8 DEF Going
<1> QED BY <1>9, <1>10

\* A payment that reaches the loop stays in it.
LEMMA StuckStays ==
  ASSUME TypeOK, _distribute, Stuck(pending)
  PROVE  Stuck(pending')
<1> DEFINE call  == Head(pending)
           parts == IF Divides(call) THEN Parts(call) ELSE << >>
           rest  == Tail(pending)
<1>1. PICK j \in DOMAIN pending : Going(pending[j])
  BY DEF Stuck, Going
<1>2. /\ pending' = parts \o rest /\ assets' = assets
      /\ pending \in Seq(Call) /\ pending # << >>
  BY DEF _distribute, TypeOK, Call
<1>3. /\ call \in Call /\ call = pending[1] /\ rest \in Seq(Call)
      /\ Len(pending) \in Nat /\ DOMAIN pending = 1 .. Len(pending)
      /\ Len(rest) = Len(pending) - 1
      /\ \A i \in 1 .. Len(rest) : rest[i] = pending[i + 1]
  BY <1>2
<1>4. parts \in Seq(Call)
  <2>1. CASE Divides(call)
    <3>1. TotalShare(assets[call.to].parents) > 0 /\ Remaining(call) >= 0
      BY <2>1 DEF _distribute
    <3>2. parts = Parts(call) BY <2>1
    <3> HIDE DEF call, parts
    <3>3. Remaining(call) \in Nat BY <1>3, <3>1, Split
    <3> QED BY <1>3, <3>1, <3>2, <3>3, PartsWithinRemaining
  <2>2. CASE ~ Divides(call)
    BY <2>2
  <2> QED BY <2>1, <2>2
<1>5. ASSUME NEW i \in DOMAIN pending', Going(pending'[i])
      PROVE  Stuck(pending')
  BY <1>2, <1>5 DEF Stuck, Going, OwnOnlyParent
<1>6. CASE j = 1
  <2>1. Going(call)
    BY <1>1, <1>3, <1>6
  <2>2. TotalShare(assets[call.to].parents) > 0
    <3>1. Divides(call) => TotalShare(assets[call.to].parents) > 0
      BY DEF _distribute
    <3> HIDE DEF call
    <3>2. Divides(call)
      BY <1>3, <2>1, Undivided
    <3> QED BY <3>1, <3>2
  <2>3. Divides(call) /\ Len(Parts(call)) = 1 /\ Going(Parts(call)[1])
    <3> HIDE DEF call
    <3> QED BY <1>3, <2>1, <2>2, Undivided, RoundAgain
  <2>4. Len(parts) = 1 /\ Going(parts[1])
    BY <2>3
  <2> HIDE DEF parts, rest, call
  <2>5. 1 \in DOMAIN pending' /\ pending'[1] = parts[1]
    <3>1. PICK s \in Seq(Call), t \in Seq(Call) : s = parts /\ t = rest
      BY <1>3, <1>4
    <3>2. Len(s) = 1
      BY <2>4, <3>1
    <3>3. /\ DOMAIN (s \o t) = 1 .. Len(s) + Len(t) /\ Len(t) \in Nat
          /\ \A i \in 1 .. Len(s) : (s \o t)[i] = s[i]
      OBVIOUS
    <3>4. 1 \in DOMAIN (s \o t) /\ (s \o t)[1] = s[1]
      BY <3>2, <3>3
    <3> QED BY <1>2, <3>1, <3>4
  <2> QED BY <1>5, <2>4, <2>5
<1>7. CASE j # 1
  <2> HIDE DEF parts, rest, call
  <2>1. j - 1 \in 1 .. Len(rest) /\ rest[j - 1] = pending[j]
    BY <1>1, <1>3, <1>7
  <2>2. /\ Len(parts) + (j - 1) \in DOMAIN pending'
        /\ pending'[Len(parts) + (j - 1)] = rest[j - 1]
    BY <1>2, <1>3, <1>4, <2>1
  <2> QED BY <1>1, <1>5, <2>1, <2>2
<1> QED BY <1>6, <1>7

\* A payment that has reached an asset that is its own only parent never commits,
\* however much gas it has (Royalty.sol:37-42, 56-78).
THEOREM LoopRefusesPayments == Spec => SelfParentTakesNoPayment
<1> DEFINE Step == paying /\ Stuck(pending) =>
                     \/ paying' /\ Stuck(pending')
                     \/ ~ paying' /\ balances' = before.balances /\ held' = before.held
<1>1. IInv /\ [Next]_vars => [Step]_vars
  <2> SUFFICES ASSUME IInv, Next, paying, Stuck(pending)
               PROVE  \/ paying' /\ Stuck(pending')
                      \/ ~ paying' /\ balances' = before.balances /\ held' = before.held
    OBVIOUS
  <2>1. CASE _distribute
    BY <2>1, StuckStays DEF _distribute, IInv
  <2>2. CASE Revert
    BY <2>2 DEF Revert, Ended
  <2>3. ~ Commit
    BY DEF Commit, Stuck
  <2> QED BY <2>1, <2>2, <2>3 DEF Next, registerAsset, distributePayment, withdraw
<1> HIDE DEF Step
<1>2. Spec => [][Step]_vars
  BY <1>1, InitIInv, NextKeeps, PTL DEF Spec
<1> QED BY <1>2 DEF Step, SelfParentTakesNoPayment
-----------------------------------------------------------------------------
(* The off-chain estimate *)

TraverseCall == [to : Id, amount : Nat]
Estimate == [ visited : SUBSET Id, distribution : [1 .. NumCreators -> Nat],
              todo : Seq(TraverseCall) ]

GraphOK == DOMAIN nodes \subseteq Id /\ \A id \in DOMAIN nodes : nodes[id] \in RoyaltyNode

\* The parents of each asset that has not been visited.
LinksLeft(visited) == [id \in Id |-> IF id \in visited THEN 0 ELSE Len(ParentsOf(id))]
Left(visited) == SumTo(LinksLeft(visited), NumIds)

\* After n calls: what was given and what is still to be divided is within the
\* payment, and the calls that can still be made are within NumCalls.
EstimateOK(estimate, n, amount) ==
  /\ estimate \in Estimate
  /\ SumTo(estimate.distribution, NumCreators) + Promised(estimate.todo) <= amount
  /\ estimate.todo = << >> \/ n + Len(estimate.todo) + Left(estimate.visited) <= NumCalls

\* Lists of parents, also of an asset that is not in the array.
LEMMA ParentsTyped ==
  ASSUME GraphOK, NEW id \in Id
  PROVE  /\ ParentsOf(id) \in Seq(RoyaltyEdge)
         /\ Len(ParentsOf(id)) \in Nat
<1>1. ParentsOf(id) \in Seq(RoyaltyEdge)
  <2>1. CASE Known(id)
    <3>1. nodes[id] \in RoyaltyNode BY <2>1 DEF GraphOK, Known
    <3>2. nodes[id].parents \in Lineages BY <3>1 DEF RoyaltyNode
    <3> QED BY <2>1, <3>2, RoyaltyEstimateAssumption DEF ParentsOf
  <2>2. CASE ~ Known(id)
    BY <2>2 DEF ParentsOf
  <2> QED BY <2>1, <2>2
<1> QED BY <1>1

\* A creator's share is a part of the amount.
LEMMA BaseShare ==
  ASSUME NEW amount \in Nat, NEW rate \in Percent
  PROVE  (amount * rate) \div 100 \in 0 .. amount
<1>0. rate \in Nat /\ 100 - rate \in Nat BY DEF Percent
<1>1. amount * rate \in Nat /\ amount * rate <= 100 * amount
  <2>1. amount * rate \in Nat BY <1>0, SMT
  <2>2. amount * (100 - rate) >= 0 BY <1>0, SMT
  <2>3. amount * (100 - rate) = 100 * amount - amount * rate BY <1>0, SMT
  <2> QED BY <2>1, <2>2, <2>3
<1>2. PICK m \in Nat : m = amount * rate
  BY <1>1
<1>3. m \div 100 \in Nat /\ 100 * (m \div 100) <= m
  BY <1>2, DivBounds
<1> QED BY <1>1, <1>2, <1>3

\* The parents of a node divide at most what remains, whatever their shares.
LEMMA ParentCallsOK ==
  ASSUME NEW parents \in Seq(RoyaltyEdge), NEW r \in Nat
  PROVE  /\ ParentCalls(parents, r) \in Seq(TraverseCall)
         /\ Promised(ParentCalls(parents, r)) <= r
         /\ Len(ParentCalls(parents, r)) <= Len(parents)
<1>1. PICK n \in Nat : n = Len(parents) /\ DOMAIN parents = 1 .. n
  OBVIOUS
<1>2. PICK g : g = [i \in DOMAIN parents |-> parents[i].share]
  OBVIOUS
<1>3. \A i \in 1 .. n : g[i] \in Nat /\ parents[i].to \in Id /\ g[i] = parents[i].share
  <2>1. \A i \in 1 .. n : parents[i] \in RoyaltyEdge /\ g[i] = parents[i].share
    BY <1>1, <1>2
  <2>2. \A link \in RoyaltyEdge : link.to \in Id /\ link.share \in Percent
    BY DEF RoyaltyEdge
  <2>3. Percent \subseteq Nat
    BY DEF Percent
  <2> QED BY <2>1, <2>2, <2>3
<1>4. PICK total \in Nat : total = TotalParentShare(parents) /\ total = SumTo(g, n)
  BY <1>1, <1>2, <1>3, SumNat DEF TotalParentShare
<1>5. PICK t \in Nat \ {0} : t = (IF total > 100 THEN total ELSE 100) /\ total <= t
  OBVIOUS
<1> DEFINE p == [i \in 1 .. n |-> (r * g[i]) \div t]
<1>6. (\A i \in 1 .. n : p[i] \in Nat) /\ SumTo(p, n) <= r
  <2>1. \A i \in 1 .. n : p[i] = (r * g[i]) \div t OBVIOUS
  <2>2. \A i \in 1 .. n : g[i] \in Nat BY <1>3
  <2>3. SumTo(g, n) <= t BY <1>4, <1>5
  <2> HIDE DEF p
  <2> QED BY <2>1, <2>2, <2>3, SumOfParts, Zenon
<1> DEFINE list == [i \in 1 .. n |-> [to |-> parents[i].to, amount |-> p[i]]]
<1>7. r # 0 => ParentCalls(parents, r) = list
  <2>1. ASSUME NEW i \in 1 .. n
        PROVE  ParentAmount(r, parents[i].share, TotalParentShare(parents)) = p[i]
    BY <1>3, <1>4, <1>5 DEF ParentAmount
  <2> HIDE DEF p
  <2> QED BY <1>1, <2>1, Zenon DEF ParentCalls
<1>8. /\ list \in [1 .. n -> TraverseCall]
      /\ \A i \in 1 .. n : list[i].amount = p[i]
  <2> HIDE DEF p
  <2> QED BY <1>3, <1>6 DEF TraverseCall
<1> HIDE DEF list, p
<1>9. list \in Seq(TraverseCall) /\ Len(list) = n /\ DOMAIN list = 1 .. n
  BY <1>8
<1>10. Promised(list) = SumTo(p, n)
  <2>1. \A i \in 1 .. n : Amount(list)[i] = p[i]
    BY <1>8, <1>9 DEF Amount
  <2>2. \A i \in 1 .. n : p[i] \in Int
    BY <1>6
  <2>3. SumTo(Amount(list), n) = SumTo(p, n)
    BY <2>1, <2>2, SumSame, Zenon
  <2> QED BY <1>9, <2>3 DEF Promised, Amount
<1>11. CASE r # 0
  <2>1. ParentCalls(parents, r) = list BY <1>7, <1>11
  <2>2. Promised(list) <= r BY <1>6, <1>10
  <2>3. Len(list) <= Len(parents) BY <1>1, <1>9
  <2> QED BY <1>9, <2>1, <2>2, <2>3
<1>12. CASE r = 0
  <2>1. ParentCalls(parents, r) = << >> BY <1>12 DEF ParentCalls
  <2>2. << >> \in Seq(TraverseCall) /\ Len(<< >>) <= Len(parents)
    BY <1>1
  <2>3. Promised(<< >>) <= r
    BY PromisedNone
  <2> QED BY <2>1, <2>2, <2>3, Zenon
<1> QED BY <1>11, <1>12

\* Visiting an asset takes its links from those that are left.
LEMMA VisitTakesLinks ==
  ASSUME GraphOK, NEW visited \in SUBSET Id, NEW id \in Id
  PROVE  /\ Left(visited) \in Nat
         /\ id \notin visited =>
              Left(visited \cup {id}) = Left(visited) - Len(ParentsOf(id))
         /\ id \in visited => visited \cup {id} = visited
<1> DEFINE f == LinksLeft(visited \cup {id})
           g == LinksLeft(visited)
<1>1. /\ NumIds \in Nat /\ id \in 1 .. NumIds
      /\ \A i \in 1 .. NumIds : Len(ParentsOf(i)) \in Nat
  BY RoyaltyEstimateAssumption, ParentsTyped DEF Id
<1>2. \A i \in 1 .. NumIds :
        /\ f[i] \in Nat /\ g[i] \in Nat
        /\ i # id => f[i] = g[i]
  BY <1>1 DEF LinksLeft, Id
<1>3. f[id] = 0 /\ (id \notin visited => g[id] = Len(ParentsOf(id)))
  BY <1>1 DEF LinksLeft
<1> HIDE DEF f, g
<1>4. SumTo(g, NumIds) \in Nat
  BY <1>1, <1>2, SumNat, Zenon
<1>5. SumTo(f, NumIds) = SumTo(g, NumIds) + (f[id] - g[id])
  <2>1. (\A i \in 1 .. NumIds : g[i] \in Int) /\ (\A i \in 1 .. NumIds : f[i] \in Int)
    BY <1>2
  <2>2. \A i \in 1 .. NumIds : i # id => f[i] = g[i]
    BY <1>2
  <2> QED BY <1>1, <2>1, <2>2, SumUpdate, Zenon
<1>6. /\ Left(visited) = SumTo(g, NumIds)
      /\ Left(visited \cup {id}) = SumTo(f, NumIds)
  BY DEF Left, f, g
<1>7. id \notin visited => Left(visited \cup {id}) = Left(visited) - Len(ParentsOf(id))
  BY <1>1, <1>3, <1>4, <1>5, <1>6
<1>8. id \in visited => visited \cup {id} = visited
  OBVIOUS
<1> QED BY <1>4, <1>6, <1>7, <1>8

\* At first nothing has been visited.
LEMMA AllLinks ==
  ASSUME GraphOK
  PROVE  NumCalls \in Nat /\ NumCalls = 1 + Left({})
<1>1. LinksLeft({}) = [id \in Id |-> Len(ParentsOf(id))]
  BY DEF LinksLeft
<1>2. Left({}) \in Nat
  <2>1. NumIds \in Nat /\ \A i \in 1 .. NumIds : LinksLeft({})[i] \in Nat
    BY RoyaltyEstimateAssumption, ParentsTyped DEF LinksLeft, Id
  <2> QED BY <2>1, SumNat DEF Left
<1> QED BY <1>1, <1>2 DEF NumCalls, Left

\* A part of an amount is a natural.
LEMMA PartIsNat ==
  ASSUME NEW m \in Nat, NEW s \in 0 .. m
  PROVE  s \in Nat
OBVIOUS

\* The creator's share and the parents' shares make at most the amount.
LEMMA GivenWithin ==
  ASSUME NEW own \in Nat, NEW m \in Nat, NEW s \in Nat, NEW q \in Nat, NEW r \in Nat,
         r = m - s, q <= r
  PROVE  (own + s) + q <= own + m
OBVIOUS

\* What one call divides leaves the others within the payment.
LEMMA StillWithin ==
  ASSUME NEW own \in Nat, NEW m \in Nat, NEW left \in Nat, NEW total \in Nat,
         NEW a \in Nat, NEW b \in Nat,
         own + (m + left) <= total, a + b <= own + m
  PROVE  a + (b + left) <= total
OBVIOUS

\* One more call keeps all of this.
LEMMA TraverseKeeps ==
  ASSUME GraphOK, NEW amount \in Nat, NEW n \in 0 .. NumCalls - 1, NEW estimate,
         EstimateOK(estimate, n, amount)
  PROVE  EstimateOK(Traverse(estimate), n + 1, amount)
<1>1. CASE estimate.todo = << >>
  BY <1>1 DEF EstimateOK, Traverse
<1>2. CASE estimate.todo # << >>
  <2>1. PICK call \in TraverseCall, rest \in Seq(TraverseCall) :
          /\ call = Head(estimate.todo) /\ rest = Tail(estimate.todo)
          /\ estimate.todo = << call >> \o rest
          /\ Len(estimate.todo) = 1 + Len(rest) /\ Len(rest) \in Nat
    <3>1. PICK todo \in Seq(TraverseCall) : todo = estimate.todo /\ todo # << >>
      BY <1>2 DEF EstimateOK, Estimate
    <3>2. /\ Head(todo) \in TraverseCall /\ Tail(todo) \in Seq(TraverseCall)
          /\ Len(todo) = 1 + Len(Tail(todo)) /\ Len(Tail(todo)) \in Nat
      BY <3>1
    <3>3. todo = << Head(todo) >> \o Tail(todo)
      BY <3>1
    <3> QED BY <3>1, <3>2, <3>3
  <2>2. PICK visited \in SUBSET Id, given \in [1 .. NumCreators -> Nat] :
          visited = estimate.visited /\ given = estimate.distribution
    BY DEF EstimateOK, Estimate
  <2>3. call.to \in Id /\ call.amount \in Nat
    BY DEF TraverseCall
  <2>4. \A c \in TraverseCall : c.amount \in Nat
    BY DEF TraverseCall
  <2>5. PICK own \in Nat, left \in Nat :
          /\ own = SumTo(given, NumCreators) /\ left = Promised(rest)
          /\ own + (call.amount + left) <= amount
    <3>1. SumTo(given, NumCreators) \in Nat
      BY <2>2, RoyaltyEstimateAssumption, SumNat
    <3>2. Promised(rest) \in Nat
      BY <2>4, PromisedNat
    <3>3. Promised(estimate.todo) = call.amount + Promised(rest)
      <4>1. << call >> \in Seq(TraverseCall) OBVIOUS
      <4>2. Promised(<< call >> \o rest) = Promised(<< call >>) + Promised(rest)
        BY <2>4, <4>1, PromisedConcat, Zenon
      <4>3. Promised(<< call >>) = call.amount
        BY <2>3, PromisedOne
      <4> QED BY <2>1, <4>2, <4>3
    <3>4. SumTo(given, NumCreators) + Promised(estimate.todo) <= amount
      BY <2>2 DEF EstimateOK
    <3> QED BY <3>1, <3>2, <3>3, <3>4, <2>3
  <2> DEFINE expands == Known(call.to) /\ call.to \notin visited
             share   == (call.amount * nodes[call.to].baseRoyalty) \div 100
             parts   == IF expands THEN ParentCalls(nodes[call.to].parents, call.amount - share)
                                   ELSE << >>
             more    == IF expands
                          THEN [given EXCEPT ![Creator[call.to]] = given[Creator[call.to]] + share]
                          ELSE given
  <2>6. Traverse(estimate) = [ visited |-> visited \cup {call.to}, distribution |-> more,
                               todo |-> parts \o rest ]
    BY <1>2, <2>1, <2>2 DEF Traverse
  <2>7. /\ more \in [1 .. NumCreators -> Nat] /\ parts \in Seq(TraverseCall)
        /\ Promised(parts) \in Nat /\ SumTo(more, NumCreators) \in Nat
        /\ SumTo(more, NumCreators) + Promised(parts) <= own + call.amount
        /\ Len(parts) \in Nat
        /\ Left(visited \cup {call.to}) \in Nat /\ Left(visited) \in Nat
        /\ Len(parts) + Left(visited \cup {call.to}) <= Left(visited)
    <3>1. Left(visited) \in Nat /\ Left(visited \cup {call.to}) \in Nat
      BY <2>3, VisitTakesLinks
    <3>2. CASE ~ expands
      <4>1. more = given /\ parts = << >>
        BY <3>2
      <4>2. Left(visited \cup {call.to}) <= Left(visited)
        <5>1. CASE call.to \in visited
          <6>1. Left(visited \cup {call.to}) = Left(visited)
            BY <2>3, <5>1, VisitTakesLinks, Zenon
          <6>2. \A k \in Nat : k <= k
            OBVIOUS
          <6> QED BY <3>1, <6>1, <6>2, Zenon
        <5>2. CASE call.to \notin visited
          <6>1. Left(visited \cup {call.to}) = Left(visited) - Len(ParentsOf(call.to))
            BY <2>3, <5>2, VisitTakesLinks
          <6>2. Len(ParentsOf(call.to)) \in Nat BY <2>3, ParentsTyped
          <6> QED BY <3>1, <6>1, <6>2
        <5> QED BY <5>1, <5>2
      <4> HIDE DEF expands, share, parts, more
      <4> QED BY <2>3, <2>5, <3>1, <4>1, <4>2, PromisedNone
    <3>3. CASE expands
      <4>1. PICK node \in RoyaltyNode : node = nodes[call.to] /\ Known(call.to)
        BY <3>3 DEF GraphOK, Known
      <4>2. /\ node.baseRoyalty \in Percent
            /\ node.parents = ParentsOf(call.to) /\ node.parents \in Seq(RoyaltyEdge)
        BY <2>3, <4>1, RoyaltyEstimateAssumption, ParentsTyped DEF RoyaltyNode, ParentsOf
      <4>3. share \in 0 .. call.amount
        BY <2>3, <4>1, <4>2, BaseShare
      <4>4. PICK remains \in Nat : remains = call.amount - share
        BY <2>3, <4>3
      <4>5. parts = ParentCalls(node.parents, remains)
        BY <3>3, <4>1, <4>4
      <4>6. PICK c \in 1 .. NumCreators : c = Creator[call.to]
        BY <2>3, RoyaltyEstimateAssumption
      <4>7. more = [given EXCEPT ![c] = given[c] + share]
        BY <3>3, <4>6
      <4> HIDE DEF expands, share, parts, more
      <4>8. /\ parts \in Seq(TraverseCall) /\ Promised(parts) <= remains
            /\ Len(parts) <= Len(node.parents) /\ Promised(parts) \in Nat
            /\ Len(parts) \in Nat
        <5>1. /\ parts \in Seq(TraverseCall) /\ Promised(parts) <= remains
              /\ Len(parts) <= Len(node.parents)
          BY <4>2, <4>5, ParentCallsOK
        <5> QED BY <5>1, <2>4, PromisedNat
      <4>9. more \in [1 .. NumCreators -> Nat] /\ SumTo(more, NumCreators) = own + share
        <5>1. /\ more \in [1 .. NumCreators -> Nat] /\ more[c] = given[c] + share
              /\ \A i \in 1 .. NumCreators : i # c => more[i] = given[i]
          BY <4>3, <4>6, <4>7
        <5>2. SumTo(more, NumCreators) = SumTo(given, NumCreators) + (more[c] - given[c])
          <6>1. NumCreators \in Nat /\ c \in 1 .. NumCreators
            BY <4>6, RoyaltyEstimateAssumption
          <6>2. \A i \in 1 .. NumCreators : given[i] \in Int
            OBVIOUS
          <6>3. \A i \in 1 .. NumCreators : more[i] \in Int
            BY <5>1
          <6>4. \A i \in 1 .. NumCreators : i # c => more[i] = given[i]
            BY <5>1
          <6> QED BY <6>1, <6>2, <6>3, <6>4, SumUpdate, ZenonT(60)
        <5>3. given[c] \in Nat /\ share \in Nat
          BY <4>3, <4>6
        <5> QED BY <2>5, <5>1, <5>2, <5>3
      <4>10. Left(visited \cup {call.to}) = Left(visited) - Len(node.parents)
             /\ Len(node.parents) \in Nat
        BY <2>3, <3>3, <4>2, VisitTakesLinks, ParentsTyped DEF expands
      <4>11. SumTo(more, NumCreators) + Promised(parts) <= own + call.amount
        <5>1. share \in Nat
          BY <2>3, <4>3, Zenon, PartIsNat
        <5>2. (own + share) + Promised(parts) <= own + call.amount
          BY <2>3, <4>4, <4>8, <5>1, GivenWithin, Zenon
        <5> QED BY <4>9, <5>2, Zenon
      <4>12. Len(parts) + Left(visited \cup {call.to}) <= Left(visited)
        BY <3>1, <4>8, <4>10
      <4>13. SumTo(more, NumCreators) \in Nat
        BY <2>5, <4>3, <4>9
      <4> QED BY <3>1, <4>8, <4>9, <4>11, <4>12, <4>13
    <3> QED BY <3>2, <3>3
  <2> HIDE DEF expands, share, parts, more
  <2>8. Promised(parts \o rest) = Promised(parts) + left
    BY <2>4, <2>5, <2>7, PromisedConcat
  <2>9. parts \o rest \in Seq(TraverseCall) /\ Len(parts \o rest) = Len(parts) + Len(rest)
    BY <2>1, <2>7
  <2>10. n + (1 + Len(rest)) + Left(visited) <= NumCalls
    BY <1>2, <2>1, <2>2 DEF EstimateOK
  <2>11. Traverse(estimate) \in Estimate
    BY <2>3, <2>6, <2>7, <2>9 DEF Estimate
  <2>12. SumTo(more, NumCreators) + Promised(parts \o rest) <= amount
    <3>1. SumTo(more, NumCreators) + (Promised(parts) + left) <= amount
      BY <2>3, <2>5, <2>7, StillWithin, Zenon
    <3> QED BY <2>8, <3>1, Zenon
  <2>13. (n + 1) + Len(parts \o rest) + Left(visited \cup {call.to}) <= NumCalls
    <3>1. PICK a \in Nat, b \in Nat, d \in Nat :
            a = Len(parts) /\ b = Left(visited \cup {call.to}) /\ d = Left(visited) /\ a + b <= d
      BY <2>7
    <3>2. NumCalls \in Nat /\ n \in Nat
      BY AllLinks
    <3>3. PICK m \in Nat, most \in Nat : m = Len(rest) /\ most = NumCalls
      BY <2>1, <3>2
    <3>4. (n + 1) + (a + m) + b <= most
      BY <2>10, <3>1, <3>2, <3>3
    <3> QED BY <2>9, <3>1, <3>3, <3>4
  <2> QED BY <2>6, <2>11, <2>12, <2>13 DEF EstimateOK
<1> QED BY <1>1, <1>2

\* The calls before the estimate is complete.
Table(s, id, amount, n) ==
  s = [i \in 0 .. n |-> IF i = 0 THEN FirstCall(id, amount) ELSE Traverse(s[i - 1])]

\* There is such a table for every number of calls.
LEMMA TablesExist ==
  ASSUME NEW N \in Nat, NEW id, NEW amount
  PROVE  \E s : Table(s, id, amount, N)
<1> DEFINE T == {n \in 0 .. N : \E s : Table(s, id, amount, n)}
<1>1. 0 \in T
  <2>1. Table([i \in 0 .. 0 |-> FirstCall(id, amount)], id, amount, 0) BY DEF Table
  <2> QED BY <2>1
<1>2. ASSUME NEW n \in 0 .. N - 1, n \in T PROVE n + 1 \in T
  <2>1. PICK s : Table(s, id, amount, n) BY <1>2
  <2> DEFINE t == [i \in 0 .. n + 1 |-> IF i = n + 1 THEN Traverse(s[n]) ELSE s[i]]
  <2>2. \A i \in 0 .. n : t[i] = s[i] OBVIOUS
  <2>3. t[n + 1] = Traverse(s[n]) OBVIOUS
  <2>4. \A i \in 0 .. n : s[i] = IF i = 0 THEN FirstCall(id, amount) ELSE Traverse(s[i - 1])
    BY <2>1 DEF Table
  <2>5. t = [i \in 0 .. n + 1 |-> t[i]] OBVIOUS
  <2> HIDE DEF t
  <2>6. ASSUME NEW i \in 0 .. n + 1
        PROVE  t[i] = IF i = 0 THEN FirstCall(id, amount) ELSE Traverse(t[i - 1])
    <3>1. CASE i = n + 1
      <4>1. t[i - 1] = s[n] /\ i # 0 BY <2>2, <3>1
      <4> QED BY <4>1, <2>3, <3>1
    <3>2. CASE i \in 0 .. n
      <4>1. CASE i = 0 BY <4>1, <2>2, <2>4
      <4>2. CASE i # 0
        <5>1. i - 1 \in 0 .. n BY <4>2, <3>2
        <5> QED BY <5>1, <3>2, <4>2, <2>2, <2>4
      <4> QED BY <4>1, <4>2
    <3> QED BY <3>1, <3>2
  <2>7. Table(t, id, amount, n + 1)
    <3>1. [i \in 0 .. n + 1 |-> t[i]] =
          [i \in 0 .. n + 1 |-> IF i = 0 THEN FirstCall(id, amount) ELSE Traverse(t[i - 1])]
      BY <2>6, Zenon
    <3> QED BY <3>1, <2>5, Zenon DEF Table
  <2>8. n + 1 \in 0 .. N OBVIOUS
  <2> QED BY <2>7, <2>8
<1>3. \A n \in 0 .. N : n \in T
  <2> HIDE DEF T
  <2> QED BY <1>1, <1>2, UpTo, Zenon
<1>4. N \in 0 .. N
  OBVIOUS
<1> QED BY <1>3, <1>4

\* The estimate is such a table.
LEMMA EstimatesTable ==
  ASSUME GraphOK, NEW id, NEW amount
  PROVE  /\ Estimates(id, amount)[0] = FirstCall(id, amount)
         /\ \A n \in 0 .. NumCalls - 1 :
              Estimates(id, amount)[n + 1] = Traverse(Estimates(id, amount)[n])
<1>1. NumCalls \in Nat
  BY AllLinks
<1> DEFINE s == CHOOSE s : s = [n \in 0 .. NumCalls |->
                                 IF n = 0 THEN FirstCall(id, amount) ELSE Traverse(s[n - 1])]
<1>2. Table(s, id, amount, NumCalls)
  <2>1. \E t : Table(t, id, amount, NumCalls)
    BY <1>1, TablesExist
  <2> QED BY <2>1 DEF Table
<1>3. Estimates(id, amount) = s
  BY DEF Estimates
<1> HIDE DEF s
<1>4. \A n \in 0 .. NumCalls :
        s[n] = IF n = 0 THEN FirstCall(id, amount) ELSE Traverse(s[n - 1])
  BY <1>2 DEF Table
<1>5. s[0] = FirstCall(id, amount)
  BY <1>1, <1>4
<1>6. ASSUME NEW n \in 0 .. NumCalls - 1
      PROVE  s[n + 1] = Traverse(s[n])
  <2>1. n + 1 \in 0 .. NumCalls /\ n + 1 # 0 /\ (n + 1) - 1 = n
    BY <1>1
  <2> QED BY <1>4, <2>1
<1> QED BY <1>3, <1>5, <1>6

\* The first call is within the payment, and within the number of calls.
LEMMA FirstCallOK ==
  ASSUME GraphOK, NEW id \in Id, NEW amount \in Nat
  PROVE  EstimateOK(FirstCall(id, amount), 0, amount)
<1> DEFINE first == << [to |-> id, amount |-> amount] >>
<1>1. first \in Seq(TraverseCall) /\ Len(first) = 1 /\ Promised(first) = amount
  <2>1. [to |-> id, amount |-> amount] \in TraverseCall
    BY DEF TraverseCall
  <2>2. Promised(first) = amount
    BY PromisedOne
  <2> QED BY <2>1, <2>2
<1>2. NoAmounts \in [1 .. NumCreators -> Nat]
  BY DEF NoAmounts
<1>3. SumTo(NoAmounts, NumCreators) = 0
  BY RoyaltyEstimateAssumption, SumOfZeros DEF NoAmounts
<1>4. NumCalls \in Nat /\ NumCalls = 1 + Left({})
  BY AllLinks
<1>5. FirstCall(id, amount) = [visited |-> {}, distribution |-> NoAmounts, todo |-> first]
  BY DEF FirstCall
<1> HIDE DEF first
<1>6. Left({}) \in Nat
  BY VisitTakesLinks
<1>7. FirstCall(id, amount) \in Estimate
  BY <1>1, <1>2, <1>5 DEF Estimate
<1>8. SumTo(NoAmounts, NumCreators) + Promised(first) <= amount
  BY <1>1, <1>3
<1>9. 0 + Len(first) + Left({}) <= NumCalls
  BY <1>1, <1>4, <1>6
<1> QED BY <1>5, <1>7, <1>8, <1>9 DEF EstimateOK

\* After all the calls, too.
LEMMA EstimatesOK ==
  ASSUME GraphOK, NEW id \in Id, NEW amount \in Nat
  PROVE  \A n \in 0 .. NumCalls : EstimateOK(Estimates(id, amount)[n], n, amount)
<1> DEFINE T == {n \in 0 .. NumCalls : EstimateOK(Estimates(id, amount)[n], n, amount)}
<1>0. NumCalls \in Nat
  BY AllLinks
<1>1. 0 \in T
  BY <1>0, EstimatesTable, FirstCallOK
<1>2. ASSUME NEW n \in 0 .. NumCalls - 1, n \in T PROVE n + 1 \in T
  <2>1. EstimateOK(Traverse(Estimates(id, amount)[n]), n + 1, amount)
    BY <1>2, TraverseKeeps
  <2>2. Estimates(id, amount)[n + 1] = Traverse(Estimates(id, amount)[n])
    BY EstimatesTable
  <2>3. n + 1 \in 0 .. NumCalls BY <1>0
  <2> QED BY <2>1, <2>2, <2>3
<1>3. \A n \in 0 .. NumCalls : n \in T
  <2> HIDE DEF T
  <2> QED BY <1>0, <1>1, <1>2, UpTo, Zenon
<1> QED BY <1>3

\* On every graph, whatever its loops, shares and missing parents, all the
\* calls have been made after NumCalls of them, and the creators' amounts are
\* within the payment.
LEMMA EstimateComplete ==
  ASSUME GraphOK, NEW id \in Id, NEW amount \in Nat
  PROVE  /\ Estimates(id, amount)[NumCalls].todo = << >>
         /\ SumTo(calculateDistribution(id, amount), NumCreators) <= amount
<1>1. NumCalls \in Nat /\ NumCalls \in 0 .. NumCalls
  BY AllLinks
<1>2. PICK last : last = Estimates(id, amount)[NumCalls] /\ EstimateOK(last, NumCalls, amount)
  BY <1>1, EstimatesOK
<1>3. last.visited \in SUBSET Id /\ last.distribution \in [1 .. NumCreators -> Nat]
      /\ last.todo \in Seq(TraverseCall)
  BY <1>2 DEF EstimateOK, Estimate
<1>4. Promised(last.todo) \in Nat
  <2>1. \A c \in TraverseCall : c.amount \in Nat BY DEF TraverseCall
  <2> QED BY <1>3, <2>1, PromisedNat
<1>5. SumTo(last.distribution, NumCreators) \in Nat
  BY <1>3, RoyaltyEstimateAssumption, SumNat
<1>6. Left(last.visited) \in Nat
  <2>1. last.visited \in SUBSET Id /\ id \in Id BY <1>3
  <2> QED BY <2>1, VisitTakesLinks
<1>7. last.todo = << >>
  <2>1. SUFFICES ASSUME last.todo # << >> PROVE FALSE
    OBVIOUS
  <2>2. PICK m \in Nat : m = Len(last.todo) /\ m # 0
    BY <1>3, <2>1
  <2>3. NumCalls + m + Left(last.visited) <= NumCalls
    BY <1>2, <2>1, <2>2 DEF EstimateOK
  <2> QED BY <1>1, <1>6, <2>2, <2>3
<1>8. SumTo(last.distribution, NumCreators) <= amount
  BY <1>2, <1>4, <1>5 DEF EstimateOK
<1> QED BY <1>2, <1>7, <1>8 DEF calculateDistribution

\* An array of nodes holds nodes, each under its own id.
LEMMA GraphInvariant == GraphSpec => []GraphOK
<1>1. GraphInit => GraphOK
  BY DEF GraphInit, GraphOK
<1>2. GraphOK /\ [GraphNext]_nodes => GraphOK'
  <2> SUFFICES ASSUME GraphOK, [GraphNext]_nodes PROVE GraphOK'
    OBVIOUS
  <2>1. CASE GraphNext
    <3>1. PICK id \in Id, node \in RoyaltyNode : AddNode(id, node)
      BY <2>1 DEF GraphNext
    <3>2. nodes' = [i \in DOMAIN nodes \cup {id} |-> IF i = id THEN node ELSE nodes[i]]
      BY <3>1 DEF AddNode
    <3>3. DOMAIN nodes' = DOMAIN nodes \cup {id}
      BY <3>2
    <3>4. \A i \in DOMAIN nodes' : nodes'[i] \in RoyaltyNode
      BY <3>2, <3>3 DEF GraphOK
    <3> QED BY <3>3, <3>4 DEF GraphOK, RoyaltyNode
  <2>2. CASE UNCHANGED nodes
    BY <2>2 DEF GraphOK, RoyaltyNode
  <2> QED BY <2>1, <2>2
<1> QED BY <1>1, <1>2, PTL DEF GraphSpec

\* EstimateWithinPayment is an invariant: calculateDistribution never divides
\* more than the payment among the creators, on any array of nodes.
THEOREM EstimatesStayWithin == GraphSpec => []EstimateWithinPayment
<1>1. GraphOK => EstimateWithinPayment
  <2> SUFFICES ASSUME GraphOK, NEW id \in Id
               PROVE  SumTo(calculateDistribution(id, Payment), NumCreators) <= Payment
    BY DEF EstimateWithinPayment
  <2>1. Payment \in Nat BY RoyaltyEstimateAssumption
  <2> QED BY <2>1, EstimateComplete
<1> QED BY <1>1, GraphInvariant, PTL
=============================================================================
