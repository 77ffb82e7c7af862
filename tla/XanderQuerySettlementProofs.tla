--------------------- MODULE XanderQuerySettlementProofs ---------------------
(***************************************************************************)
(* Theorems about the token economy, for every number of agents, every     *)
(* supply ceiling and all amounts, prices and approvals.                   *)
(***************************************************************************)
EXTENDS XanderQuerySettlement, SumLemmas

\* The contracts approve nobody, so their tokens leave only by their own calls.
ContractsApproveNobody ==
  \A x \in Address \ Agent : \A y \in Address : allowance[x][y] = 0

\* The parts of the invariant that the token and the staking contract keep.
Balances   == balanceOf \in [Address -> Nat]
Allowances == allowance \in [Address -> [Address -> Nat]] /\ ContractsApproveNobody
Supply     == totalSupply \in Nat /\ totalMinted \in Nat /\ SupplyUnderCeiling
Books      == /\ stakes \in [Agent -> Nat] /\ totalStaked \in Nat
              /\ slasher \in Agent /\ maxSlashPercentBps \in 0 .. Whole
Listed     == blocks \in [KB -> [curator : Agent, queryFee : Nat] \cup {NoKB}]

LEMMA AddressFacts ==
  /\ NumAgents \in Nat /\ Settler \in Nat /\ Address = 1 .. Settler
  /\ Agent = 1 .. NumAgents /\ Agent \subseteq Address
  /\ Pool \in Address /\ Settler \in Address /\ Pool \notin Agent /\ Settler \notin Agent
  /\ Owner \in Agent /\ Treasury \in Agent
BY XanderTokenAssumption, XanderQuerySettlementAssumption DEF Settler, Pool, Address, Agent

-----------------------------------------------------------------------------
(* Movements.                                                              *)

\* One entry of a book of balances changes, and their sum with it.
LEMMA OneBalance ==
  ASSUME NEW b \in [Address -> Nat], NEW x \in Address, NEW n \in Nat
  PROVE  /\ [b EXCEPT ![x] = n] \in [Address -> Nat]
         /\ SumTo([b EXCEPT ![x] = n], Settler) = SumTo(b, Settler) + (n - b[x])
<1> DEFINE f == [b EXCEPT ![x] = n]
<1>1. f \in [Address -> Nat] /\ f[x] = n /\ \A i \in Address : i # x => f[i] = b[i]
  OBVIOUS
<1> HIDE DEF f
<1>2. Settler \in Nat /\ x \in 1 .. Settler
  BY AddressFacts
<1>3. /\ \A i \in 1 .. Settler : b[i] \in Int /\ f[i] \in Int
      /\ \A i \in 1 .. Settler : i # x => f[i] = b[i]
  BY <1>1, AddressFacts
<1>4. SumTo(f, Settler) = SumTo(b, Settler) + (f[x] - b[x])
  BY <1>2, <1>3, SumUpdate, ZenonT(40)
<1>5. f = [b EXCEPT ![x] = n]
  BY DEF f
<1> QED BY <1>1, <1>4, <1>5

\* A movement takes from x and gives to y, or leaves all as it is if they are
\* the same; nobody else notices, and the sum stays.
LEMMA Movement ==
  ASSUME NEW b \in [Address -> Nat], NEW x \in Address, NEW y \in Address,
         NEW v \in Nat, v <= b[x]
  PROVE  /\ Moved(b, x, y, v) \in [Address -> Nat]
         /\ SumTo(Moved(b, x, y, v), Settler) = SumTo(b, Settler)
         /\ x # y => Moved(b, x, y, v)[x] = b[x] - v /\ Moved(b, x, y, v)[y] = b[y] + v
         /\ x = y => Moved(b, x, y, v)[x] = b[x]
         /\ \A z \in Address \ {x, y} : Moved(b, x, y, v)[z] = b[z]
<1> DEFINE n == b[x] - v
           g == [b EXCEPT ![x] = n]
           f == [g EXCEPT ![y] = g[y] + v]
<1>1. n \in Nat /\ b[x] \in Nat /\ b[y] \in Nat
  OBVIOUS
<1>2. Moved(b, x, y, v) = f
  BY DEF Moved
<1>3. /\ g[x] = n /\ \A z \in Address : z # x => g[z] = b[z]
  OBVIOUS
<1>4. g \in [Address -> Nat] /\ SumTo(g, Settler) = SumTo(b, Settler) + (n - b[x])
  <2> HIDE DEF n
  <2> QED BY <1>1, OneBalance, Zenon
<1>5. SumTo(b, Settler) \in Int
  <2>1. Settler \in Nat /\ \A i \in 1 .. Settler : b[i] \in Int
    BY AddressFacts
  <2> QED BY <2>1, SumInt, Zenon
<1> HIDE DEF g
<1>6. g[y] \in Nat /\ g[y] + v \in Nat
  BY <1>4
<1>7. f[y] = g[y] + v /\ \A z \in Address : z # y => f[z] = g[z]
  BY <1>4
<1>8. f \in [Address -> Nat] /\ SumTo(f, Settler) = SumTo(g, Settler) + ((g[y] + v) - g[y])
  BY <1>4, <1>6, OneBalance
<1> HIDE DEF f
<1>9. SumTo(f, Settler) = SumTo(b, Settler)
  BY <1>1, <1>4, <1>5, <1>6, <1>8 DEF n
<1>10. /\ x # y => f[x] = b[x] - v /\ f[y] = b[y] + v
       /\ x = y => f[x] = b[x]
       /\ \A z \in Address \ {x, y} : f[z] = b[z]
  BY <1>1, <1>3, <1>7 DEF n
<1> QED BY <1>2, <1>8, <1>9, <1>10

\* Of a movement: only x has less.
LEMMA MovementTakes ==
  ASSUME NEW b \in [Address -> Nat], NEW x \in Address, NEW y \in Address,
         NEW v \in Nat, v <= b[x], NEW f, f = Moved(b, x, y, v)
  PROVE  /\ f \in [Address -> Nat] /\ SumTo(f, Settler) = SumTo(b, Settler)
         /\ \A z \in Address \ {x} : f[z] >= b[z]
<1>1. /\ f \in [Address -> Nat] /\ SumTo(f, Settler) = SumTo(b, Settler)
      /\ x # y => f[y] = b[y] + v
      /\ \A z \in Address \ {x, y} : f[z] = b[z]
  BY Movement
<1> QED BY <1>1

\* Two movements out of x's balance, the second after the first.
LEMMA TwoMovements ==
  ASSUME NEW b \in [Address -> Nat], NEW x \in Address, NEW y \in Address, NEW u \in Address,
         NEW v \in Nat, NEW w \in Nat, v <= b[x], w <= Moved(b, x, y, v)[x]
  PROVE  LET f == Moved(Moved(b, x, y, v), x, u, w)
         IN  /\ f \in [Address -> Nat] /\ SumTo(f, Settler) = SumTo(b, Settler)
             /\ \A z \in Address \ {x} : f[z] >= b[z]
<1> DEFINE g == Moved(b, x, y, v)
           f == Moved(g, x, u, w)
<1>1. /\ g \in [Address -> Nat] /\ SumTo(g, Settler) = SumTo(b, Settler)
      /\ \A z \in Address \ {x} : g[z] >= b[z]
  BY MovementTakes
<1>2. w <= g[x]
  OBVIOUS
<1> HIDE DEF g
<1>3. /\ f \in [Address -> Nat] /\ SumTo(f, Settler) = SumTo(g, Settler)
      /\ \A z \in Address \ {x} : f[z] >= g[z]
  BY <1>1, <1>2, MovementTakes
<1> HIDE DEF f
<1>4. /\ f \in [Address -> Nat] /\ SumTo(f, Settler) = SumTo(b, Settler)
      /\ \A z \in Address \ {x} : f[z] >= b[z]
  BY <1>1, <1>3
<1> QED BY <1>4 DEF f, g

\* Spending lowers one allowance or none.
LEMMA Spending ==
  ASSUME NEW al \in [Address -> [Address -> Nat]], NEW x \in Address, NEW y \in Address,
         NEW v \in Nat, v <= al[x][y]
  PROVE  /\ Spent(al, x, y, v) \in [Address -> [Address -> Nat]]
         /\ \A p \in Address, q \in Address : Spent(al, x, y, v)[p][q] <= al[p][q]
<1>1. al[x][y] \in Nat /\ al[x][y] - v \in Nat /\ al[x] \in [Address -> Nat]
  OBVIOUS
<1>2. CASE al[x][y] = Infinite
  BY <1>2 DEF Spent
<1>3. CASE al[x][y] # Infinite
  <2> DEFINE row == [al[x] EXCEPT ![y] = al[x][y] - v]
             r   == [al EXCEPT ![x] = row]
  <2>1. Spent(al, x, y, v) = r
    BY <1>3 DEF Spent
  <2>2. row \in [Address -> Nat] /\ \A q \in Address : row[q] <= al[x][q]
    BY <1>1
  <2> HIDE DEF row
  <2>3. r \in [Address -> [Address -> Nat]] /\ \A p, q \in Address : r[p][q] <= al[p][q]
    BY <2>2
  <2> QED BY <2>1, <2>3
<1> QED BY <1>2, <1>3

\* Allowances that only fall keep what is said of them.
LEMMA AllowancesFall ==
  ASSUME Allowances, allowance' \in [Address -> [Address -> Nat]],
         \A p \in Address, q \in Address : allowance'[p][q] <= allowance[p][q]
  PROVE  Allowances'
<1>1. ASSUME NEW x \in Address \ Agent, NEW y \in Address PROVE allowance'[x][y] = 0
  <2>1. allowance[x][y] = 0 /\ allowance'[x][y] <= allowance[x][y] /\ allowance'[x][y] \in Nat
    BY DEF Allowances, ContractsApproveNobody
  <2> QED BY <2>1
<1> QED BY <1>1 DEF Allowances, ContractsApproveNobody

-----------------------------------------------------------------------------
(* The token's functions.                                                  *)

\* What every function of the token keeps.
TokenInv == Balances /\ Allowances /\ Supply

\* Supply, spelt out.
LEMMA SupplyParts ==
  ASSUME Supply
  PROVE  /\ totalSupply \in Nat /\ totalMinted \in Nat /\ totalSupply = SumTo(balanceOf, Settler)
         /\ totalSupply <= totalMinted /\ totalMinted <= MaxSupply
BY DEF Supply, SupplyUnderCeiling

\* A transfer, by the holder or by a spender.
LEMMA TransferEffect ==
  ASSUME TokenInv, NEW x \in Address, NEW y \in Address, NEW v \in Nat, v <= balanceOf[x],
         balanceOf' = Moved(balanceOf, x, y, v), UNCHANGED << totalSupply, totalMinted >>
  PROVE  /\ Balances' /\ Supply'
         /\ x # y => balanceOf'[x] = balanceOf[x] - v /\ balanceOf'[y] = balanceOf[y] + v
         /\ x = y => balanceOf'[x] = balanceOf[x]
         /\ \A z \in Address \ {x, y} : balanceOf'[z] = balanceOf[z]
<1>1. balanceOf \in [Address -> Nat]
  BY DEF TokenInv, Balances
<1>2. /\ balanceOf' \in [Address -> Nat]
      /\ SumTo(balanceOf', Settler) = SumTo(balanceOf, Settler)
      /\ x # y => balanceOf'[x] = balanceOf[x] - v /\ balanceOf'[y] = balanceOf[y] + v
      /\ x = y => balanceOf'[x] = balanceOf[x]
      /\ \A z \in Address \ {x, y} : balanceOf'[z] = balanceOf[z]
  BY <1>1, Movement
<1>3. Supply'
  BY <1>2 DEF TokenInv, Supply, SupplyUnderCeiling, Settler
<1> QED BY <1>2, <1>3 DEF Balances

\* Burning x's tokens.
LEMMA BurnEffect ==
  ASSUME TokenInv, NEW x \in Address, NEW v \in Nat, v <= balanceOf[x],
         balanceOf' = [balanceOf EXCEPT ![x] = @ - v],
         totalSupply' = totalSupply - v, UNCHANGED totalMinted
  PROVE  /\ Balances' /\ Supply'
         /\ balanceOf'[x] = balanceOf[x] - v
         /\ \A z \in Address \ {x} : balanceOf'[z] = balanceOf[z]
<1> DEFINE n == balanceOf[x] - v
<1>1. balanceOf \in [Address -> Nat] /\ n \in Nat /\ balanceOf[x] \in Nat
  BY DEF TokenInv, Balances
<1>2. balanceOf' = [balanceOf EXCEPT ![x] = n]
  OBVIOUS
<1>3. balanceOf'[x] = n /\ \A z \in Address \ {x} : balanceOf'[z] = balanceOf[z]
  BY <1>1
<1>4. /\ balanceOf' \in [Address -> Nat]
      /\ SumTo(balanceOf', Settler) = SumTo(balanceOf, Settler) + (n - balanceOf[x])
  <2> HIDE DEF n
  <2>1. /\ [balanceOf EXCEPT ![x] = n] \in [Address -> Nat]
        /\ SumTo([balanceOf EXCEPT ![x] = n], Settler)
             = SumTo(balanceOf, Settler) + (n - balanceOf[x])
    BY <1>1, OneBalance, Zenon
  <2> QED BY <1>2, <2>1
<1>5. SumTo(balanceOf', Settler) \in Nat
  <2>1. Settler \in Nat /\ \A i \in 1 .. Settler : balanceOf'[i] \in Nat
    BY <1>4, AddressFacts
  <2> QED BY <2>1, SumNat, Zenon
<1>6. totalSupply' = SumTo(balanceOf', Settler) /\ totalSupply' <= totalSupply
  BY <1>1, <1>4, SupplyParts DEF TokenInv
<1>7. Supply'
  BY <1>5, <1>6, SupplyParts DEF TokenInv, Supply, SupplyUnderCeiling, Settler
<1> QED BY <1>3, <1>4, <1>7 DEF Balances

LEMMA MintEffect ==
  ASSUME TokenInv, NEW a \in Agent, NEW x \in Address, NEW v \in Nat, mint(a, x, v)
  PROVE  TokenInv' /\ \A z \in Address : balanceOf'[z] >= balanceOf[z]
<1> DEFINE n == balanceOf[x] + v
<1>1. balanceOf \in [Address -> Nat] /\ n \in Nat /\ balanceOf[x] \in Nat
  BY DEF TokenInv, Balances
<1>2. balanceOf' = [balanceOf EXCEPT ![x] = n] /\ totalSupply' = totalSupply + v
  BY DEF mint
<1>3. /\ balanceOf' \in [Address -> Nat]
      /\ SumTo(balanceOf', Settler) = SumTo(balanceOf, Settler) + (n - balanceOf[x])
  <2> HIDE DEF n
  <2>1. /\ [balanceOf EXCEPT ![x] = n] \in [Address -> Nat]
        /\ SumTo([balanceOf EXCEPT ![x] = n], Settler)
             = SumTo(balanceOf, Settler) + (n - balanceOf[x])
    BY <1>1, OneBalance, Zenon
  <2> QED BY <1>2, <2>1
<1>4. /\ totalSupply' \in Nat /\ totalMinted' \in Nat
      /\ totalSupply' <= totalMinted' /\ totalMinted' <= MaxSupply
  BY SupplyParts DEF TokenInv, mint
<1>5. totalSupply' = SumTo(balanceOf', Settler)
  BY <1>1, <1>2, <1>3, SupplyParts DEF TokenInv
<1>6. Supply'
  BY <1>4, <1>5 DEF Supply, SupplyUnderCeiling, Settler
<1>7. Allowances'
  BY DEF TokenInv, Allowances, ContractsApproveNobody, mint
<1> QED BY <1>1, <1>2, <1>3, <1>6, <1>7 DEF TokenInv, Balances

\* Only the caller and those who approved the caller have less afterwards.
OnlyFrom(a) ==
  \A z \in Address : balanceOf'[z] < balanceOf[z] => z = a \/ allowance[z][a] > 0

LEMMA TransferFromEffect ==
  ASSUME TokenInv, NEW a \in Address, NEW x \in Address, NEW y \in Address, NEW v \in Nat,
         transferFrom(a, x, y, v)
  PROVE  TokenInv' /\ OnlyFrom(a)
<1>1. /\ v <= allowance[x][a] /\ v <= balanceOf[x] /\ allowance[x][a] \in Nat
      /\ allowance \in [Address -> [Address -> Nat]]
      /\ balanceOf' = Moved(balanceOf, x, y, v) /\ UNCHANGED << totalSupply, totalMinted >>
      /\ allowance' = Spent(allowance, x, a, v)
  BY DEF TokenInv, Allowances, transferFrom
<1>2. /\ Balances' /\ Supply'
      /\ x # y => balanceOf'[x] = balanceOf[x] - v /\ balanceOf'[y] = balanceOf[y] + v
      /\ x = y => balanceOf'[x] = balanceOf[x]
      /\ \A z \in Address \ {x, y} : balanceOf'[z] = balanceOf[z]
  BY <1>1, TransferEffect
<1>3. Allowances'
  BY <1>1, Spending, AllowancesFall DEF TokenInv
<1>4. OnlyFrom(a)
  BY <1>1, <1>2 DEF OnlyFrom, TokenInv, Balances
<1> QED BY <1>2, <1>3, <1>4 DEF TokenInv

LEMMA BurnFromEffect ==
  ASSUME TokenInv, NEW a \in Address, NEW x \in Address, NEW v \in Nat, burnFrom(a, x, v)
  PROVE  TokenInv' /\ OnlyFrom(a)
<1>1. /\ v <= allowance[x][a] /\ v <= balanceOf[x] /\ allowance[x][a] \in Nat
      /\ allowance \in [Address -> [Address -> Nat]]
  BY DEF TokenInv, Allowances, burnFrom
<1>2. /\ Balances' /\ Supply' /\ balanceOf'[x] = balanceOf[x] - v
      /\ \A z \in Address \ {x} : balanceOf'[z] = balanceOf[z]
  BY <1>1, BurnEffect DEF burnFrom
<1>3. Allowances'
  <2>1. allowance' = [allowance EXCEPT ![x][a] = allowance[x][a] - v]
    BY DEF burnFrom
  <2>2. /\ allowance' \in [Address -> [Address -> Nat]]
        /\ \A p \in Address, q \in Address : allowance'[p][q] <= allowance[p][q]
    BY <1>1, <2>1
  <2> QED BY <2>2, AllowancesFall DEF TokenInv
<1>4. OnlyFrom(a)
  BY <1>1, <1>2 DEF OnlyFrom, TokenInv, Balances
<1> QED BY <1>2, <1>3, <1>4 DEF TokenInv

LEMMA TokenCallEffect ==
  ASSUME TokenInv, NEW a \in Agent, TokenCall(a)
  PROVE  TokenInv' /\ OnlyFrom(a)
<1>0. a \in Address /\ Amounts \subseteq Nat /\ Approvals \subseteq Nat
  BY AddressFacts, XanderQuerySettlementAssumption
<1>1. ASSUME NEW y \in Address, NEW v \in Amounts, mint(a, y, v)
      PROVE  TokenInv' /\ OnlyFrom(a)
  <2>1. TokenInv' /\ \A z \in Address : balanceOf'[z] >= balanceOf[z]
    BY <1>0, <1>1, MintEffect
  <2> QED BY <2>1 DEF OnlyFrom, TokenInv, Balances
<1>2. ASSUME NEW y \in Address, NEW v \in Amounts, transfer(a, y, v)
      PROVE  TokenInv' /\ OnlyFrom(a)
  <2>1. /\ Balances' /\ Supply'
        /\ \A z \in Address \ {a, y} : balanceOf'[z] = balanceOf[z]
        /\ a # y => balanceOf'[y] = balanceOf[y] + v
    BY <1>0, <1>2, TransferEffect DEF transfer
  <2>2. Allowances'
    BY <1>2 DEF transfer, TokenInv, Allowances, ContractsApproveNobody
  <2>3. OnlyFrom(a)
    BY <1>0, <2>1 DEF OnlyFrom, TokenInv, Balances
  <2> QED BY <2>1, <2>2, <2>3 DEF TokenInv
<1>3. ASSUME NEW y \in Address, NEW v \in Approvals, approve(a, y, v)
      PROVE  TokenInv' /\ OnlyFrom(a)
  <2>1. Balances' /\ Supply' /\ OnlyFrom(a)
    BY <1>3 DEF approve, TokenInv, Balances, Supply, SupplyUnderCeiling, OnlyFrom
  <2>2. allowance' = [allowance EXCEPT ![a][y] = v] /\ v \in Nat
    BY <1>0, <1>3 DEF approve
  <2>3. Allowances'
    BY <1>0, <2>2 DEF TokenInv, Allowances, ContractsApproveNobody
  <2> QED BY <2>1, <2>3 DEF TokenInv
<1>4. ASSUME NEW x \in Address, NEW y \in Address, NEW v \in Amounts, transferFrom(a, x, y, v)
      PROVE  TokenInv' /\ OnlyFrom(a)
  BY <1>0, <1>4, TransferFromEffect
<1>5. ASSUME NEW v \in Amounts, burn(a, v) PROVE TokenInv' /\ OnlyFrom(a)
  <2>1. Balances' /\ Supply' /\ \A z \in Address \ {a} : balanceOf'[z] = balanceOf[z]
    BY <1>0, <1>5, BurnEffect DEF burn
  <2>2. Allowances'
    BY <1>5 DEF burn, TokenInv, Allowances, ContractsApproveNobody
  <2>3. OnlyFrom(a)
    BY <2>1 DEF OnlyFrom, TokenInv, Balances
  <2> QED BY <2>1, <2>2, <2>3 DEF TokenInv
<1>6. ASSUME NEW x \in Address, NEW v \in Amounts, burnFrom(a, x, v)
      PROVE  TokenInv' /\ OnlyFrom(a)
  BY <1>0, <1>6, BurnFromEffect
<1> QED BY <1>1, <1>2, <1>3, <1>4, <1>5, <1>6 DEF TokenCall

-----------------------------------------------------------------------------
(* A settlement.                                                           *)

LEMMA ProtocolFeeIsPart ==
  ASSUME NEW fee \in Nat
  PROVE  ProtocolFee(fee) \in 0 .. fee
<1> DEFINE W == Whole
           B == ProtocolFeeBps
<1>1. W \in Nat \ {0} /\ B \in 0 .. W
  BY DEF Whole, ProtocolFeeBps
<1>2. ProtocolFee(fee) = (fee * B) \div W
  BY DEF ProtocolFee
<1> HIDE DEF W, B
<1>3. fee * B <= fee * W /\ fee * B \in Nat /\ fee * W \in Nat
  BY <1>1
<1>4. (fee * B) \div W \in 0 .. fee
  BY <1>1, <1>3
<1> QED BY <1>2, <1>4

\* Both movements take from the caller, who approved Settler for them.
LEMMA PayFeeEffect ==
  ASSUME TokenInv, NEW a \in Agent, NEW c \in Agent, NEW fee \in Nat, PayFee(a, c, fee)
  PROVE  TokenInv' /\ OnlyFrom(a)
<1> DEFINE allowed == Spent(allowance, a, Settler, fee - ProtocolFee(fee))
<1>0. /\ a \in Address /\ c \in Address /\ Treasury \in Address /\ Settler \in Address
      /\ balanceOf \in [Address -> Nat] /\ allowance \in [Address -> [Address -> Nat]]
  BY AddressFacts DEF TokenInv, Balances, Allowances
<1>1. PICK p \in Nat, v \in Nat : p = ProtocolFee(fee) /\ v = fee - ProtocolFee(fee)
  BY ProtocolFeeIsPart
<1>2. /\ v <= allowance[a][Settler] /\ v <= balanceOf[a]
      /\ allowed = Spent(allowance, a, Settler, v)
      /\ p <= allowed[a][Settler] /\ p <= Moved(balanceOf, a, c, v)[a]
      /\ balanceOf' = Moved(Moved(balanceOf, a, c, v), a, Treasury, p)
      /\ allowance' = Spent(allowed, a, Settler, p)
      /\ UNCHANGED << totalSupply, totalMinted >>
  BY <1>1 DEF PayFee
<1> HIDE DEF allowed
<1>3. /\ balanceOf' \in [Address -> Nat]
      /\ SumTo(balanceOf', Settler) = SumTo(balanceOf, Settler)
      /\ \A z \in Address \ {a} : balanceOf'[z] >= balanceOf[z]
  <2>1. v <= balanceOf[a] /\ p <= Moved(balanceOf, a, c, v)[a]
    BY <1>2
  <2> DEFINE f == Moved(Moved(balanceOf, a, c, v), a, Treasury, p)
  <2>2. balanceOf \in [Address -> Nat] /\ a \in Address /\ c \in Address /\ Treasury \in Address
    BY <1>0
  <2>3. /\ f \in [Address -> Nat]
        /\ SumTo(f, Settler) = SumTo(balanceOf, Settler)
        /\ \A z \in Address \ {a} : f[z] >= balanceOf[z]
    BY <2>1, <2>2, TwoMovements
  <2> QED BY <1>2, <2>3
<1>4. /\ allowed \in [Address -> [Address -> Nat]]
      /\ \A x \in Address, y \in Address : allowed[x][y] <= allowance[x][y]
  BY <1>0, <1>2, Spending
<1>6. /\ allowance' \in [Address -> [Address -> Nat]]
      /\ \A x \in Address, y \in Address : allowance'[x][y] <= allowed[x][y]
  BY <1>0, <1>2, <1>4, Spending
<1>7. Allowances'
  <2>1. ASSUME NEW x \in Address, NEW y \in Address PROVE allowance'[x][y] <= allowance[x][y]
    BY <1>0, <1>4, <1>6
  <2> QED BY <1>6, <2>1, AllowancesFall DEF TokenInv
<1>8. Supply'
  BY <1>2, <1>3 DEF TokenInv, Supply, SupplyUnderCeiling, Settler
<1> QED BY <1>0, <1>3, <1>7, <1>8 DEF TokenInv, Balances, OnlyFrom

-----------------------------------------------------------------------------
(* The staking contract.                                                   *)

\* The stakes and their total.
StakesAddUp == totalStaked = SumTo(stakes, NumAgents)

\* One stake changes, and the total with it.
LEMMA OneStake ==
  ASSUME Books, StakesAddUp, NEW a \in Agent, NEW n \in Nat,
         stakes' = [stakes EXCEPT ![a] = n], totalStaked' = totalStaked + (n - stakes[a])
  PROVE  /\ stakes' \in [Agent -> Nat] /\ totalStaked' \in Nat /\ StakesAddUp'
         /\ stakes'[a] = n /\ \A z \in Agent \ {a} : stakes'[z] = stakes[z]
<1>1. /\ stakes' \in [Agent -> Nat] /\ stakes'[a] = n
      /\ \A z \in Agent \ {a} : stakes'[z] = stakes[z]
  BY DEF Books
<1>2. /\ NumAgents \in Nat /\ a \in 1 .. NumAgents
      /\ \A i \in 1 .. NumAgents : stakes[i] \in Int /\ stakes'[i] \in Int
      /\ \A i \in 1 .. NumAgents : stakes'[i] \in Nat
      /\ \A i \in 1 .. NumAgents : i # a => stakes'[i] = stakes[i]
  BY <1>1, AddressFacts DEF Books
<1>3. SumTo(stakes', NumAgents) = SumTo(stakes, NumAgents) + (stakes'[a] - stakes[a])
  <2> DEFINE f == stakes'
             g == stakes
             m == NumAgents
  <2>1. /\ m \in Nat /\ a \in 1 .. m
        /\ \A i \in 1 .. m : g[i] \in Int
        /\ \A i \in 1 .. m : f[i] \in Int
        /\ \A i \in 1 .. m : i # a => f[i] = g[i]
    BY <1>2
  <2> HIDE DEF f, g, m
  <2>2. SumTo(f, m) = SumTo(g, m) + (f[a] - g[a])
    BY <2>1, SumUpdate, ZenonT(40)
  <2> QED BY <2>2 DEF f, g, m
<1>4. SumTo(stakes', NumAgents) \in Nat
  BY <1>2, SumNat, Zenon
<1>5. totalStaked' = SumTo(stakes', NumAgents)
  BY <1>1, <1>3 DEF StakesAddUp
<1> QED BY <1>1, <1>4, <1>5 DEF StakesAddUp

LEMMA UnbookEffect ==
  ASSUME Books, StakesAddUp, NEW x \in Agent, NEW v \in Nat, Unbook(x, v)
  PROVE  /\ Books' /\ StakesAddUp'
         /\ totalStaked' = totalStaked - v /\ stakes'[x] = stakes[x] - v
         /\ \A z \in Agent \ {x} : stakes'[z] = stakes[z]
<1> DEFINE n == stakes[x] - v
<1>1. /\ stakes[x] \in Nat /\ n \in Nat
      /\ stakes' = [stakes EXCEPT ![x] = n] /\ totalStaked' = totalStaked - v
      /\ UNCHANGED << slasher, maxSlashPercentBps >>
  BY DEF Unbook, Books
<1>2. totalStaked' = totalStaked + (n - stakes[x])
  BY <1>1 DEF Books
<1> HIDE DEF n
<1>3. /\ stakes' \in [Agent -> Nat] /\ totalStaked' \in Nat /\ StakesAddUp'
      /\ stakes'[x] = n /\ \A z \in Agent \ {x} : stakes'[z] = stakes[z]
  BY <1>1, <1>2, OneStake
<1>4. slasher' \in Agent /\ maxSlashPercentBps' \in 0 .. Whole
  BY <1>1 DEF Books
<1> QED BY <1>1, <1>3, <1>4 DEF Books, n

\* The pool holds what the books say.
Backed == totalStaked <= balanceOf[Pool]

StakingInv == Books /\ StakesAddUp /\ Backed

\* What OnlyOwnTokens says of a transaction of a.
LossLawful(a) ==
  \A z \in Agent :
    Wealth(z)' < Wealth(z) =>
      \/ z = a
      \/ allowance[z][a] > 0
      \/ /\ a \in {slasher, Owner}
         /\ balanceOf'[z] >= balanceOf[z]
         /\ stakes[z] - stakes'[z] <= SlashCap(z)

LEMMA StakeEffect ==
  ASSUME TokenInv, StakingInv, NEW a \in Agent, NEW v \in Nat, stake(a, v)
  PROVE  TokenInv' /\ StakingInv' /\ LossLawful(a)
<1>0. /\ a \in Address /\ Pool \in Address /\ a # Pool /\ Agent \subseteq Address
      /\ balanceOf \in [Address -> Nat] /\ stakes \in [Agent -> Nat]
      /\ totalStaked \in Nat /\ totalStaked <= balanceOf[Pool]
  BY AddressFacts DEF TokenInv, Balances, StakingInv, Books, Backed
<1>1. transferFrom(Pool, a, Pool, v)
  BY DEF stake
<1>2. TokenInv'
  BY <1>0, <1>1, TransferFromEffect
<1>3. /\ balanceOf'[Pool] = balanceOf[Pool] + v
      /\ \A z \in Address \ {a, Pool} : balanceOf'[z] = balanceOf[z]
  BY <1>0, <1>1, TransferEffect DEF transferFrom
<1> DEFINE n == stakes[a] + v
<1>4. /\ n \in Nat /\ stakes' = [stakes EXCEPT ![a] = n]
      /\ totalStaked' = totalStaked + v /\ totalStaked' = totalStaked + (n - stakes[a])
      /\ slasher' = slasher /\ maxSlashPercentBps' = maxSlashPercentBps
  BY <1>0 DEF stake
<1> HIDE DEF n
<1>5. /\ stakes' \in [Agent -> Nat] /\ totalStaked' \in Nat /\ StakesAddUp'
      /\ \A z \in Agent \ {a} : stakes'[z] = stakes[z]
  BY <1>4, OneStake DEF StakingInv
<1>6. Books'
  BY <1>4, <1>5 DEF StakingInv, Books
<1>7. Backed'
  BY <1>0, <1>3, <1>4 DEF Backed, Pool
<1>8. LossLawful(a)
  <2> SUFFICES ASSUME NEW z \in Agent, z # a PROVE ~ (Wealth(z)' < Wealth(z))
    BY DEF LossLawful
  <2>1. z \in Address /\ z # Pool
    BY <1>0, AddressFacts
  <2>2. /\ balanceOf[z] \in Nat /\ stakes[z] \in Nat
        /\ balanceOf'[z] = balanceOf[z] /\ stakes'[z] = stakes[z]
    BY <1>0, <1>3, <1>5, <2>1
  <2> QED BY <2>2 DEF Wealth
<1> QED BY <1>2, <1>5, <1>6, <1>7, <1>8 DEF StakingInv

\* Stakes that leave the pool to y: by unstaking, or redistributed.
LEMMA LeavePool ==
  ASSUME TokenInv, StakingInv, NEW x \in Agent, NEW y \in Address, NEW v \in Nat,
         Unbook(x, v), transfer(Pool, y, v)
  PROVE  /\ TokenInv' /\ StakingInv'
         /\ \A z \in Agent : balanceOf'[z] >= balanceOf[z]
         /\ balanceOf'[y] = balanceOf[y] + v \/ y = Pool
         /\ stakes'[x] = stakes[x] - v /\ \A z \in Agent \ {x} : stakes'[z] = stakes[z]
<1>0. /\ Pool \in Address /\ Pool \notin Agent /\ Agent \subseteq Address
      /\ balanceOf \in [Address -> Nat]
      /\ totalStaked \in Nat /\ totalStaked <= balanceOf[Pool]
  BY AddressFacts DEF TokenInv, Balances, StakingInv, Books, Backed
<1>1. /\ Balances' /\ Supply'
      /\ Pool # y => balanceOf'[Pool] = balanceOf[Pool] - v /\ balanceOf'[y] = balanceOf[y] + v
      /\ Pool = y => balanceOf'[Pool] = balanceOf[Pool]
      /\ \A z \in Address \ {Pool, y} : balanceOf'[z] = balanceOf[z]
  BY <1>0, TransferEffect DEF transfer
<1>2. Allowances'
  BY DEF transfer, TokenInv, Allowances, ContractsApproveNobody
<1>3. /\ Books' /\ StakesAddUp' /\ totalStaked' = totalStaked - v
      /\ stakes'[x] = stakes[x] - v /\ \A z \in Agent \ {x} : stakes'[z] = stakes[z]
  BY UnbookEffect DEF StakingInv
<1>4. Backed'
  BY <1>0, <1>1, <1>3 DEF Backed, Pool
<1>5. \A z \in Agent : balanceOf'[z] >= balanceOf[z]
  BY <1>0, <1>1
<1> QED BY <1>1, <1>2, <1>3, <1>4, <1>5 DEF TokenInv, StakingInv

LEMMA UnstakeEffect ==
  ASSUME TokenInv, StakingInv, NEW a \in Agent, NEW v \in Nat, unstake(a, v)
  PROVE  TokenInv' /\ StakingInv' /\ LossLawful(a)
<1>1. /\ TokenInv' /\ StakingInv'
      /\ \A z \in Agent : balanceOf'[z] >= balanceOf[z]
      /\ \A z \in Agent \ {a} : stakes'[z] = stakes[z]
  BY AddressFacts, LeavePool DEF unstake
<1>2. LossLawful(a)
  <2> SUFFICES ASSUME NEW z \in Agent, z # a PROVE ~ (Wealth(z)' < Wealth(z))
    BY DEF LossLawful
  <2>1. /\ balanceOf[z] \in Nat /\ balanceOf'[z] \in Nat /\ stakes[z] \in Nat
        /\ balanceOf'[z] >= balanceOf[z] /\ stakes'[z] = stakes[z]
    BY <1>1, AddressFacts DEF TokenInv, Balances, StakingInv, Books
  <2> QED BY <2>1 DEF Wealth
<1> QED BY <1>1, <1>2

\* A slash takes at most the cap from x, and nobody else has less.
LEMMA SlashLawful ==
  ASSUME TokenInv, StakingInv, TokenInv', NEW a \in Agent, NEW x \in Agent, NEW v \in Nat,
         MaySlash(a, x, v),
         \A z \in Agent : balanceOf'[z] >= balanceOf[z],
         stakes'[x] = stakes[x] - v, \A z \in Agent \ {x} : stakes'[z] = stakes[z]
  PROVE  LossLawful(a)
<1>1. a \in {slasher, Owner} /\ v <= SlashCap(x)
  BY DEF MaySlash
<1>2. stakes[x] - stakes'[x] = v
  BY DEF StakingInv, Books
<1>3. ASSUME NEW z \in Agent, z # x PROVE ~ (Wealth(z)' < Wealth(z))
  <2>1. /\ balanceOf[z] \in Nat /\ balanceOf'[z] \in Nat /\ stakes[z] \in Nat
        /\ balanceOf'[z] >= balanceOf[z] /\ stakes'[z] = stakes[z]
    BY <1>3, AddressFacts DEF TokenInv, Balances, StakingInv, Books
  <2> QED BY <2>1 DEF Wealth
<1> QED BY <1>1, <1>2, <1>3 DEF LossLawful

LEMMA SlashEffect ==
  ASSUME TokenInv, StakingInv, NEW a \in Agent, NEW x \in Agent, NEW v \in Nat, slash(a, x, v)
  PROVE  TokenInv' /\ StakingInv' /\ LossLawful(a)
<1>0. /\ Pool \in Address /\ Pool \notin Agent /\ Agent \subseteq Address
      /\ balanceOf \in [Address -> Nat]
      /\ totalStaked \in Nat /\ totalStaked <= balanceOf[Pool]
  BY AddressFacts DEF TokenInv, Balances, StakingInv, Books, Backed
<1>1. /\ Balances' /\ Supply' /\ balanceOf'[Pool] = balanceOf[Pool] - v
      /\ \A z \in Address \ {Pool} : balanceOf'[z] = balanceOf[z]
  BY <1>0, BurnEffect DEF slash, burn
<1>2. Allowances'
  BY DEF slash, burn, TokenInv, Allowances, ContractsApproveNobody
<1>3. /\ Books' /\ StakesAddUp' /\ totalStaked' = totalStaked - v
      /\ stakes'[x] = stakes[x] - v /\ \A z \in Agent \ {x} : stakes'[z] = stakes[z]
  BY UnbookEffect DEF slash, StakingInv
<1>4. Backed'
  BY <1>0, <1>1, <1>3 DEF Backed, Pool
<1>5. \A z \in Agent : balanceOf'[z] >= balanceOf[z]
  BY <1>0, <1>1
<1>6. TokenInv' /\ StakingInv'
  BY <1>1, <1>2, <1>3, <1>4 DEF TokenInv, StakingInv
<1> QED BY <1>3, <1>5, <1>6, SlashLawful DEF slash

LEMMA RedistributeEffect ==
  ASSUME TokenInv, StakingInv, NEW a \in Agent, NEW x \in Agent, NEW v \in Nat,
         NEW y \in Address, slashAndRedistribute(a, x, v, y)
  PROVE  TokenInv' /\ StakingInv' /\ LossLawful(a)
<1>1. /\ TokenInv' /\ StakingInv'
      /\ \A z \in Agent : balanceOf'[z] >= balanceOf[z]
      /\ stakes'[x] = stakes[x] - v /\ \A z \in Agent \ {x} : stakes'[z] = stakes[z]
  BY LeavePool DEF slashAndRedistribute
<1> QED BY <1>1, SlashLawful DEF slashAndRedistribute

LEMMA SettingsEffect ==
  ASSUME TokenInv, StakingInv, NEW a \in Agent, UNCHANGED << tokenVars, stakes, totalStaked >>,
         slasher' \in Agent, maxSlashPercentBps' \in 0 .. Whole
  PROVE  TokenInv' /\ StakingInv' /\ LossLawful(a)
<1>1. TokenInv'
  BY DEF tokenVars, TokenInv, Balances, Allowances, ContractsApproveNobody, Supply, SupplyUnderCeiling
<1>2. StakingInv'
  BY DEF tokenVars, StakingInv, Books, StakesAddUp, Backed, Pool
<1>3. LossLawful(a)
  <2>1. \A z \in Agent : /\ balanceOf[z] \in Nat /\ stakes[z] \in Nat
                         /\ balanceOf'[z] = balanceOf[z] /\ stakes'[z] = stakes[z]
    BY AddressFacts DEF tokenVars, TokenInv, Balances, StakingInv, Books
  <2> QED BY <2>1 DEF LossLawful, Wealth
<1> QED BY <1>1, <1>2, <1>3

LEMMA StakingCallEffect ==
  ASSUME TokenInv, StakingInv, NEW a \in Agent, StakingCall(a)
  PROVE  TokenInv' /\ StakingInv' /\ LossLawful(a)
<1>0. Amounts \subseteq Nat /\ SlashCaps \subseteq Nat
  BY XanderQuerySettlementAssumption
<1>1. ASSUME NEW v \in Amounts, stake(a, v) PROVE TokenInv' /\ StakingInv' /\ LossLawful(a)
  BY <1>0, <1>1, StakeEffect
<1>2. ASSUME NEW v \in Amounts, unstake(a, v) PROVE TokenInv' /\ StakingInv' /\ LossLawful(a)
  BY <1>0, <1>2, UnstakeEffect
<1>3. ASSUME NEW x \in Agent, NEW v \in Amounts, slash(a, x, v)
      PROVE  TokenInv' /\ StakingInv' /\ LossLawful(a)
  BY <1>0, <1>3, SlashEffect
<1>4. ASSUME NEW x \in Agent, NEW v \in Amounts, NEW y \in Address,
             slashAndRedistribute(a, x, v, y)
      PROVE  TokenInv' /\ StakingInv' /\ LossLawful(a)
  BY <1>0, <1>4, RedistributeEffect
<1>5. ASSUME NEW bps \in SlashCaps, setMaxSlashPercentBps(a, bps)
      PROVE  TokenInv' /\ StakingInv' /\ LossLawful(a)
  <2>1. /\ UNCHANGED << tokenVars, stakes, totalStaked >> /\ slasher' \in Agent
        /\ maxSlashPercentBps' \in 0 .. Whole
    BY <1>0, <1>5 DEF setMaxSlashPercentBps, StakingInv, Books
  <2> QED BY <2>1, SettingsEffect
<1>6. ASSUME NEW x \in Agent, setSlasher(a, x) PROVE TokenInv' /\ StakingInv' /\ LossLawful(a)
  <2>1. /\ UNCHANGED << tokenVars, stakes, totalStaked >> /\ slasher' \in Agent
        /\ maxSlashPercentBps' \in 0 .. Whole
    BY <1>6 DEF setSlasher, StakingInv, Books
  <2> QED BY <2>1, SettingsEffect
<1> QED BY <1>1, <1>2, <1>3, <1>4, <1>5, <1>6 DEF StakingCall

-----------------------------------------------------------------------------
(* The whole economy.                                                      *)

Inv == TokenInv /\ StakingInv /\ Listed /\ sender \in Agent

LEMMA InitInv == Init => Inv
<1> SUFFICES ASSUME Init PROVE Inv
  OBVIOUS
<1>1. /\ \A i \in 1 .. Settler : balanceOf[i] = 0
      /\ \A i \in 1 .. NumAgents : stakes[i] = 0
      /\ Settler \in Nat /\ NumAgents \in Nat
  BY AddressFacts DEF Init, InitToken, InitStaking
<1>2. SumTo(balanceOf, Settler) = 0 /\ SumTo(stakes, NumAgents) = 0
  BY <1>1, SumOfZeros
<1>3. Balances /\ Allowances
  BY DEF Init, InitToken, Balances, Allowances, ContractsApproveNobody
<1>4. Supply
  BY <1>2, XanderTokenAssumption DEF Init, InitToken, Supply, SupplyUnderCeiling
<1>5. Books
  BY AddressFacts DEF Init, InitStaking, Books, InitialSlashCap, Whole
<1>6. StakesAddUp /\ Backed
  BY <1>2, AddressFacts DEF Init, InitToken, InitStaking, StakesAddUp, Backed
<1>7. Listed /\ sender \in Agent
  BY AddressFacts DEF Init, Listed
<1> QED BY <1>3, <1>4, <1>5, <1>6, <1>7 DEF Inv, TokenInv, StakingInv

\* Calls of the token and settlements leave the stakes alone.
LEMMA StakesUntouched ==
  ASSUME TokenInv, StakingInv, NEW a \in Agent, TokenInv', OnlyFrom(a), UNCHANGED stakingVars
  PROVE  StakingInv' /\ LossLawful(a)
<1>0. Pool \in Address /\ Pool # a /\ Agent \subseteq Address /\ Pool \notin Agent /\ a \in Address
  BY AddressFacts
<1>1. \A z \in Address : balanceOf[z] \in Nat /\ balanceOf'[z] \in Nat
  BY DEF TokenInv, Balances
<1>2. balanceOf'[Pool] >= balanceOf[Pool]
  <2>1. allowance[Pool][a] = 0
    BY <1>0 DEF TokenInv, Allowances, ContractsApproveNobody
  <2> QED BY <1>0, <1>1, <2>1 DEF OnlyFrom
<1>3. StakingInv'
  <2>1. Books' /\ StakesAddUp'
    BY DEF stakingVars, StakingInv, Books, StakesAddUp
  <2>2. totalStaked \in Nat /\ totalStaked <= balanceOf[Pool] /\ totalStaked' = totalStaked
    BY DEF stakingVars, StakingInv, Books, Backed
  <2>3. Backed'
    BY <1>0, <1>1, <1>2, <2>2 DEF Backed, Pool
  <2> QED BY <2>1, <2>3 DEF StakingInv
<1>4. LossLawful(a)
  <2> SUFFICES ASSUME NEW z \in Agent, Wealth(z)' < Wealth(z)
               PROVE  z = a \/ allowance[z][a] > 0
    BY DEF LossLawful
  <2>1. stakes'[z] = stakes[z] /\ stakes[z] \in Nat
    BY DEF stakingVars, StakingInv, Books
  <2>2. balanceOf'[z] < balanceOf[z]
    BY <1>0, <1>1, <2>1 DEF Wealth
  <2> QED BY <1>0, <2>2 DEF OnlyFrom
<1> QED BY <1>3, <1>4

LEMMA SettleEffect ==
  ASSUME Inv, NEW a \in Agent, NEW h \in KB, NEW q \in Agent, settleQuery(a, h, q)
  PROVE  TokenInv' /\ StakingInv' /\ Listed' /\ LossLawful(a)
<1>1. /\ blocks[h] \in [curator : Agent, queryFee : Nat]
      /\ PayFee(a, blocks[h].curator, blocks[h].queryFee)
  BY DEF settleQuery, Inv, Listed
<1>2. blocks[h].curator \in Agent /\ blocks[h].queryFee \in Nat
  BY <1>1
<1>3. TokenInv' /\ OnlyFrom(a)
  BY <1>1, <1>2, PayFeeEffect DEF Inv
<1>4. UNCHANGED stakingVars /\ blocks' = blocks
  BY <1>1 DEF PayFee
<1> QED BY <1>3, <1>4, StakesUntouched DEF Inv, Listed

LEMMA PublishEffect ==
  ASSUME Inv, NEW a \in Agent, NEW h \in KB, NEW c \in Agent, NEW fee \in QueryFees,
         publishKB(h, c, fee)
  PROVE  TokenInv' /\ StakingInv' /\ Listed' /\ LossLawful(a)
<1>1. /\ UNCHANGED << tokenVars, stakes, totalStaked >>
      /\ slasher' \in Agent /\ maxSlashPercentBps' \in 0 .. Whole
  BY DEF publishKB, stakingVars, Inv, StakingInv, Books
<1>2. Listed'
  BY XanderQuerySettlementAssumption DEF publishKB, Inv, Listed
<1> QED BY <1>1, <1>2, SettingsEffect DEF Inv

LEMMA StepInv == Inv /\ [Next]_vars => Inv' /\ (vars' = vars \/ LossLawful(sender'))
<1> SUFFICES ASSUME Inv, [Next]_vars PROVE Inv' /\ (vars' = vars \/ LossLawful(sender'))
  OBVIOUS
<1>1. CASE Next
  <2>1. PICK a \in Agent :
          /\ sender' = a
          /\ \/ TokenCall(a) /\ UNCHANGED << stakingVars, blocks >>
             \/ StakingCall(a) /\ UNCHANGED blocks
             \/ \E h \in KB, c \in Agent, fee \in QueryFees : publishKB(h, c, fee)
             \/ \E h \in KB, q \in Agent : settleQuery(a, h, q)
    BY <1>1 DEF Next
  <2>2. TokenInv' /\ StakingInv' /\ Listed' /\ LossLawful(a)
    <3>1. CASE TokenCall(a) /\ UNCHANGED << stakingVars, blocks >>
      <4>1. TokenInv' /\ OnlyFrom(a)
        BY <3>1, TokenCallEffect DEF Inv
      <4>2. StakingInv' /\ LossLawful(a)
        BY <3>1, <4>1, StakesUntouched DEF Inv
      <4> QED BY <3>1, <4>1, <4>2 DEF Inv, Listed
    <3>2. CASE StakingCall(a) /\ UNCHANGED blocks
      BY <3>2, StakingCallEffect DEF Inv, Listed
    <3>3. CASE \E h \in KB, c \in Agent, fee \in QueryFees : publishKB(h, c, fee)
      BY <3>3, PublishEffect
    <3>4. CASE \E h \in KB, q \in Agent : settleQuery(a, h, q)
      BY <3>4, SettleEffect
    <3> QED BY <2>1, <3>1, <3>2, <3>3, <3>4
  <2> QED BY <2>1, <2>2 DEF Inv
<1>2. CASE UNCHANGED vars
  BY <1>2, AddressFacts
     DEF vars, tokenVars, stakingVars, Inv, TokenInv, Balances, Allowances,
         ContractsApproveNobody, Supply, SupplyUnderCeiling, StakingInv, Books, StakesAddUp,
         Backed, Listed
<1> QED BY <1>1, <1>2

LEMMA InvAlways == Spec => []Inv
<1> QED BY InitInv, StepInv, PTL DEF Spec

-----------------------------------------------------------------------------
(* The theorems.                                                           *)

\* Every variable has its Solidity type: no subtraction of the three contracts
\* is ever below zero.
THEOREM EconomyTypeCorrect == Spec => []TypeOK
<1>1. Inv => TypeOK
  BY DEF Inv, TokenInv, Balances, Allowances, Supply, StakingInv, Books, Listed, TypeOK
<1> QED BY <1>1, InvAlways, PTL

\* However agents deposit, withdraw, are slashed and pay each other, KYAStaking
\* holds the tokens of all stakes together.
THEOREM StakesAreBacked == Spec => []StakesBacked
<1>1. Inv => StakesBacked
  BY DEF Inv, StakingInv, StakesAddUp, Backed, StakesBacked
<1> QED BY <1>1, InvAlways, PTL

\* XANDER is only made by mint, whose total never exceeds MAX_SUPPLY, and only
\* lost by burning.
THEOREM SupplyStaysUnderCeiling == Spec => []SupplyUnderCeiling
<1>1. Inv => SupplyUnderCeiling
  BY DEF Inv, TokenInv, Supply
<1> QED BY <1>1, InvAlways, PTL

\* Nobody loses XANDER by a transaction of somebody else, except to a spender
\* approved in person and to the slasher, within the cap.
THEOREM OwnersKeepTheirTokens == Spec => OnlyOwnTokens
<1> DEFINE A == \A a \in Agent :
                  Wealth(a)' < Wealth(a) =>
                    \/ sender' = a
                    \/ allowance[a][sender'] > 0
                    \/ /\ sender' \in {slasher, Owner}
                       /\ balanceOf'[a] >= balanceOf[a]
                       /\ stakes[a] - stakes'[a] <= SlashCap(a)
<1>1. Inv /\ [Next]_vars => [A]_vars
  <2> SUFFICES ASSUME Inv, [Next]_vars, ~ UNCHANGED vars PROVE A
    OBVIOUS
  <2>1. LossLawful(sender')
    BY StepInv
  <2> QED BY <2>1 DEF LossLawful
<1> QED BY <1>1, InvAlways, PTL DEF Spec, OnlyOwnTokens
=============================================================================
