----------------------- MODULE RoyaltySettlementProofs -----------------------
(***************************************************************************)
(* Theorems about RoyaltySettlement, for any accounts, hashes, contracts,  *)
(* fees and ratios.                                                        *)
(*                                                                         *)
(*   RoyaltyTypeCorrect      TypeOK                                        *)
(*   SettlementsSpendOwnFee  SpendsOwnFee                                  *)
(*   EstimatesAreHonoured    EstimateHonoured                              *)
(*                                                                         *)
(* The inductive invariant is RoyaltyInv: types; what was registered when  *)
(* the settlement started is what it was (LineageKept); and, unless a      *)
(* parent appeared meanwhile, the ether that left and what each account    *)
(* got are the partial sums, up to the link in turn, of the split of the   *)
(* fee under the ratios at the start (SplitInv).  Ratios that are set      *)
(* during the payments do not disturb it, for the curator's part was taken *)
(* before the first payment.                                               *)
(***************************************************************************)
EXTENDS RoyaltySettlement, SumLemmas

-----------------------------------------------------------------------------
(* Types.                                                                  *)

Saved == [blocks : [Hash -> Block], defaultCuratorBps : 0 .. Bps,
          curatorBps : [Hash -> 0 .. Bps], balance : Nat]
Frame ==
  [op : {"idle", "curator", "parents"}, hash : Hash \cup {0}, fee : Nat, perParent : Nat,
   i : Nat, callee : Account \cup {Zero}, paid : [Account -> Nat], unpaid : SUBSET Nat,
   estimate : [Account -> Nat], saved : Saved \cup {<< >>}]

RatiosOK == defaultCuratorBps \in 0 .. Bps /\ curatorBps \in [Hash -> 0 .. Bps]

CallOK ==
  /\ call \in Frame
  /\ call.op # "idle" =>
       /\ call.saved \in Saved /\ call.hash \in Hash /\ isVerified(call.hash)
       /\ call.i \in 1 .. Len(Parents(call.hash)) + 1
  /\ call.op = "parents" /\ ~ InControl => call.i <= Len(Parents(call.hash))

TypeOK == BlocksOK /\ RatiosOK /\ balance \in Nat /\ CallOK

-----------------------------------------------------------------------------
(* What a settlement has paid so far.                                      *)

\* What was registered when the settlement started is what it was.
LineageKept ==
  call.op # "idle" =>
    /\ call.saved.blocks[call.hash].curator # Zero
    /\ \A p \in Hash : call.saved.blocks[p].curator # Zero => blocks[p] = call.saved.blocks[p]

\* The split of the fee under the ratios at the start of the settlement.
RatioAtStart == IF call.saved.curatorBps[call.hash] = 0 THEN call.saved.defaultCuratorBps
                ELSE call.saved.curatorBps[call.hash]
ShareAtStart == (call.fee * RatioAtStart) \div Bps
Rest         == call.fee - ShareAtStart

\* What a gets as the curator, and as the curator of each parent.
Own(a)   == IF getCurator(call.hash) = a THEN ShareAtStart ELSE 0
Parts(a) ==
  [j \in DOMAIN Parents(call.hash) |->
     IF isVerified(Parents(call.hash)[j]) /\ getCurator(Parents(call.hash)[j]) = a
     THEN PerParent(call.hash, Rest) ELSE 0]

\* What a got of it, and what left the contract, if the links in u are unpaid.
PaidParts(a, u) == [j \in DOMAIN Parents(call.hash) |-> IF j \in u THEN 0 ELSE Parts(a)[j]]
SentParts(u) ==
  [j \in DOMAIN Parents(call.hash) |->
     IF isVerified(Parents(call.hash)[j]) /\ j \notin u
     THEN PerParent(call.hash, Rest) ELSE 0]

\* How many entries of the parents' list are dealt with.
Done == IF InControl THEN call.i - 1 ELSE call.i

CuratorFirst ==
  /\ call.paid = [Nothing EXCEPT ![getCurator(call.hash)] = ShareAtStart]
  /\ call.unpaid = {}
  /\ balance = call.saved.balance + Rest

PaidSoFar ==
  /\ call.perParent = PerParent(call.hash, Rest)
  /\ call.unpaid \subseteq 1 .. Done
  /\ balance = call.saved.balance + (Rest - SumTo(SentParts(call.unpaid), Done))
  /\ \A a \in Account : call.paid[a] = Own(a) + SumTo(PaidParts(a, call.unpaid), Done)

EstimateOfSplit ==
  \A a \in Account :
    call.estimate[a] = Own(a) + SumTo(Parts(a), Len(Parents(call.hash)))

SplitInv ==
  /\ call.op = "curator" => CuratorFirst
  /\ call.op # "idle" /\ NoParentAppeared => EstimateOfSplit
  /\ call.op = "parents" /\ NoParentAppeared => PaidSoFar
-----------------------------------------------------------------------------
(* Arithmetic of the split, and what the registry holds.                   *)

LEMMA PartOfFee ==
  ASSUME NEW fee \in Nat, NEW b \in 0 .. Bps
  PROVE  (fee * b) \div Bps \in 0 .. fee
<1> DEFINE w == fee * b
<1>1. w \in Nat /\ w <= fee * 10000
  BY DEF Bps
<1> HIDE DEF w
<1>2. w \div 10000 \in 0 .. fee
  BY <1>1
<1> QED BY <1>2 DEF w, Bps

LEMMA BlockFacts ==
  ASSUME BlocksOK, NEW h \in Hash
  PROVE  /\ Parents(h) \in Seq(Hash) /\ Len(Parents(h)) \in Nat
         /\ DOMAIN Parents(h) = 1 .. Len(Parents(h))
         /\ \A j \in 1 .. Len(Parents(h)) : Parents(h)[j] \in Hash
         /\ getCurator(h) \in Account \cup {Zero}
         /\ isVerified(h) => getCurator(h) \in Account
<1>1. blocks[h] \in Block
  BY DEF BlocksOK
<1>2. Parents(h) \in Seq(Hash) /\ getCurator(h) \in Account \cup {Zero}
  BY <1>1 DEF Block, Parents, getCurator
<1> QED BY <1>2 DEF isVerified, getCurator

\* The registered entries of the list of parents, as ones and zeros.
Verifieds(h) == [i \in DOMAIN Parents(h) |-> IF isVerified(Parents(h)[i]) THEN 1 ELSE 0]

\* The remainder is divided, never multiplied.
LEMMA PerParentFacts ==
  ASSUME BlocksOK, NEW h \in Hash, NEW r \in Nat
  PROVE  /\ VerifiedCount(h) \in Nat /\ VerifiedCount(h) = SumTo(Verifieds(h), Len(Parents(h)))
         /\ PerParent(h, r) \in Nat
         /\ PerParent(h, r) * VerifiedCount(h) <= r
<1>1. VerifiedCount(h) = SumTo(Verifieds(h), Len(Parents(h)))
  BY DEF VerifiedCount, Verifieds
<1>2. VerifiedCount(h) \in Nat
  <2>1. \A j \in 1 .. Len(Parents(h)) : Verifieds(h)[j] \in Nat
    BY BlockFacts DEF Verifieds
  <2>2. Len(Parents(h)) \in Nat
    BY BlockFacts
  <2> QED BY <1>1, <2>1, <2>2, SumNat
<1>3. CASE Divides(h, r)
  <2>1. PICK v \in Nat \ {0} : v = VerifiedCount(h)
    BY <1>2, <1>3 DEF Divides
  <2>2. r \div v \in Nat /\ v * (r \div v) <= r
    BY DivBounds
  <2>3. PerParent(h, r) = r \div v
    BY <1>3, <2>1 DEF PerParent
  <2>4. PICK q \in Nat : q = r \div v
    BY <2>2
  <2>5. q * v = v * q
    BY SMT
  <2> QED BY <1>1, <1>2, <2>1, <2>2, <2>3, <2>4, <2>5
<1>4. CASE ~ Divides(h, r)
  <2>1. PerParent(h, r) = 0
    BY <1>4 DEF PerParent
  <2>2. 0 * VerifiedCount(h) = 0
    BY <1>2
  <2> QED BY <1>1, <1>2, <2>1, <2>2
<1> QED BY <1>3, <1>4

\* A block that is registered keeps its curator and its parents.
LEMMA RegisteredStays ==
  ASSUME BlocksOK, NEW a \in Account, NEW h \in Hash, NEW parents \in ParentLists,
         registerKB(a, h, parents)
  PROVE  /\ BlocksOK'
         /\ \A k \in Hash : isVerified(k) => blocks'[k] = blocks[k]
         /\ \A k \in Hash : blocks'[k] # blocks[k] => isVerified(k)'
<1> DEFINE b == [curator |-> a, parents |-> parents]
<1>1. b \in Block /\ b.curator # Zero
  BY KnowledgeRegistryAssumption DEF Block
<1>2. ~ isVerified(h) /\ blocks' = [blocks EXCEPT ![h] = b]
  BY DEF registerKB
<1> HIDE DEF b
<1> QED BY <1>1, <1>2 DEF BlocksOK, isVerified

\* The blocks only ever gain registrations while a settlement is in progress.
BlocksGrow ==
  /\ BlocksOK'
  /\ \A k \in Hash : isVerified(k) => blocks'[k] = blocks[k]
  /\ \A k \in Hash : blocks'[k] # blocks[k] => isVerified(k)'

LEMMA RegisterGrows ==
  ASSUME BlocksOK, Register \/ UNCHANGED blocks
  PROVE  BlocksGrow
<1>1. CASE UNCHANGED blocks
  BY <1>1 DEF BlocksOK, BlocksGrow
<1>2. CASE Register
  BY <1>2, RegisteredStays, Zenon DEF Register, BlocksGrow
<1> QED BY <1>1, <1>2

-----------------------------------------------------------------------------
(* Type correctness.                                                       *)

LEMMA RatioFacts ==
  ASSUME TypeOK, NEW h \in Hash, NEW fee \in Nat
  PROVE  CuratorBps(h) \in 0 .. Bps /\ CuratorShare(h, fee) \in 0 .. fee
<1>1. CuratorBps(h) \in 0 .. Bps
  BY DEF TypeOK, RatiosOK, CuratorBps
<1> QED BY <1>1, PartOfFee DEF CuratorShare

LEMMA EstimateFacts ==
  ASSUME TypeOK, NEW h \in Hash, NEW fee \in Nat
  PROVE  calculateDistribution(h, fee) =
           [a \in Account |->
              (IF getCurator(h) = a THEN CuratorShare(h, fee) ELSE 0) +
              SumTo([i \in DOMAIN Parents(h) |->
                       IF isVerified(Parents(h)[i]) /\ getCurator(Parents(h)[i]) = a
                       THEN PerParent(h, fee - CuratorShare(h, fee)) ELSE 0],
                    Len(Parents(h)))]
<1> DEFINE remainder == fee - CuratorShare(h, fee)
<1>1. (IF VerifiedCount(h) > 0 /\ remainder > 0 THEN remainder \div VerifiedCount(h) ELSE 0)
      = PerParent(h, remainder)
  BY DEF PerParent, Divides
<1> QED BY <1>1 DEF calculateDistribution, CuratorShare

LEMMA EstimateType ==
  ASSUME TypeOK, NEW h \in Hash, NEW fee \in Nat
  PROVE  calculateDistribution(h, fee) \in [Account -> Nat]
<1> DEFINE c == PerParent(h, fee - CuratorShare(h, fee))
           F(a) == [i \in DOMAIN Parents(h) |->
                      IF isVerified(Parents(h)[i]) /\ getCurator(Parents(h)[i]) = a
                      THEN c ELSE 0]
<1>1. CuratorShare(h, fee) \in 0 .. fee
  BY RatioFacts
<1>2. c \in Nat
  <2>1. fee - CuratorShare(h, fee) \in Nat BY <1>1
  <2> QED BY <2>1, PerParentFacts DEF TypeOK
<1> HIDE DEF c
<1>3. ASSUME NEW a \in Account
      PROVE  (IF getCurator(h) = a THEN CuratorShare(h, fee) ELSE 0) +
             SumTo(F(a), Len(Parents(h))) \in Nat
  <2>1. Len(Parents(h)) \in Nat /\ \A j \in 1 .. Len(Parents(h)) : F(a)[j] \in Nat
    BY <1>2, BlockFacts DEF TypeOK
  <2> HIDE DEF F
  <2>2. SumTo(F(a), Len(Parents(h))) \in Nat
    BY <2>1, SumNat, Zenon
  <2> QED BY <1>1, <2>2
<1>4. calculateDistribution(h, fee) =
        [a \in Account |-> (IF getCurator(h) = a THEN CuratorShare(h, fee) ELSE 0) +
                           SumTo(F(a), Len(Parents(h)))]
  BY EstimateFacts DEF c
<1> HIDE DEF F
<1> QED BY <1>3, <1>4
LEMMA NothingIsPayment == Nothing \in [Account -> Nat]
BY DEF Nothing

\* What the types say of a settlement in progress.
LEMMA SettlementFacts ==
  ASSUME TypeOK, call.op # "idle"
  PROVE  /\ call \in Frame /\ call.hash \in Hash /\ isVerified(call.hash)
         /\ getCurator(call.hash) \in Account
         /\ call.fee \in Nat /\ call.perParent \in Nat /\ call.unpaid \subseteq Nat
         /\ call.paid \in [Account -> Nat] /\ call.estimate \in [Account -> Nat]
         /\ call.saved \in Saved /\ call.saved.balance \in Nat
         /\ call.i \in 1 .. Len(Parents(call.hash)) + 1
         /\ Len(Parents(call.hash)) \in Nat
         /\ DOMAIN Parents(call.hash) = 1 .. Len(Parents(call.hash))
         /\ \A j \in 1 .. Len(Parents(call.hash)) : Parents(call.hash)[j] \in Hash
         /\ call.op = "parents" /\ ~ InControl => call.i <= Len(Parents(call.hash))
<1>1. /\ call \in Frame /\ call.hash \in Hash /\ isVerified(call.hash) /\ call.saved \in Saved
      /\ call.i \in 1 .. Len(Parents(call.hash)) + 1
      /\ call.op = "parents" /\ ~ InControl => call.i <= Len(Parents(call.hash))
  BY DEF TypeOK, CallOK
<1>2. /\ call.fee \in Nat /\ call.perParent \in Nat /\ call.unpaid \subseteq Nat
      /\ call.paid \in [Account -> Nat] /\ call.estimate \in [Account -> Nat]
      /\ call.saved.balance \in Nat
  BY <1>1 DEF Frame, Saved
<1> QED BY <1>1, <1>2, BlockFacts DEF TypeOK

LEMMA TypeInit == Init => TypeOK
<1> SUFFICES ASSUME Init PROVE TypeOK
  OBVIOUS
<1>1. BlocksOK
  BY KnowledgeRegistryAssumption DEF Init, InitBlocks, BlocksOK, Block, NoBlock
<1>2. RatiosOK
  BY DEF Init, RatiosOK, Bps, InitialCuratorBps
<1>3. Idle \in Frame
  BY NothingIsPayment DEF Idle, Frame
<1>4. CallOK /\ balance \in Nat
  BY <1>3 DEF Init, CallOK, Idle
<1> QED BY <1>1, <1>2, <1>4 DEF TypeOK

\* A frame that is kept stays well-formed while blocks are registered.
LEMMA SameCall ==
  ASSUME TypeOK, BlocksGrow, call' = call
  PROVE  CallOK'
<1>1. CASE call.op = "idle"
  BY <1>1 DEF TypeOK, CallOK
<1>2. CASE call.op # "idle"
  <2>1. blocks'[call.hash] = blocks[call.hash]
    BY <1>2 DEF TypeOK, CallOK, BlocksGrow
  <2>2. Parents(call.hash)' = Parents(call.hash) /\ isVerified(call.hash)' = isVerified(call.hash)
    BY <2>1 DEF Parents, isVerified
  <2> QED BY <2>2 DEF TypeOK, CallOK, InControl
<1> QED BY <1>1, <1>2

LEMMA TypeRegister ==
  ASSUME TypeOK, Register
  PROVE  TypeOK'
<1>1. BlocksGrow
  BY RegisterGrows DEF TypeOK
<1>2. UNCHANGED << defaultCuratorBps, curatorBps, balance, call >>
  BY DEF Register
<1> QED BY <1>1, <1>2, SameCall DEF TypeOK, RatiosOK, BlocksGrow

LEMMA TypeSetRatio ==
  ASSUME TypeOK, NEW a \in Account, NEW h \in Hash \cup {0}, NEW b \in Ratios,
         setRoyaltyRatio(a, h, b)
  PROVE  TypeOK'
<1>1. b \in 0 .. Bps
  <2>1. b \in Nat
    BY RoyaltySettlementAssumption
  <2>2. b <= Bps
    BY DEF setRoyaltyRatio
  <2>3. Bps \in Nat
    BY DEF Bps
  <2> QED BY <2>1, <2>2, <2>3
<1>2. 0 \notin Hash
  BY DEF Hash
<1>3. RatiosOK'
  BY <1>1, <1>2 DEF setRoyaltyRatio, TypeOK, RatiosOK
<1>4. UNCHANGED << blocks, balance, call >>
  BY DEF setRoyaltyRatio
<1>5. BlocksOK' /\ CallOK'
  BY <1>4, SameCall, RegisterGrows DEF TypeOK, BlocksGrow
<1> QED BY <1>3, <1>4, <1>5 DEF TypeOK

\* Actions that change the frame and perhaps the balance.
LEMMA FrameChange ==
  ASSUME TypeOK, UNCHANGED << blocks, defaultCuratorBps, curatorBps >>, balance' \in Nat,
         call' \in Frame,
         call'.op # "idle" =>
           /\ call'.saved \in Saved /\ call'.hash \in Hash /\ isVerified(call'.hash)
           /\ call'.i \in 1 .. Len(Parents(call'.hash)) + 1,
         call'.op = "parents" /\ call'.callee # Zero => call'.i <= Len(Parents(call'.hash))
  PROVE  TypeOK'
<1>1. BlocksOK' /\ RatiosOK'
  BY DEF TypeOK, BlocksOK, RatiosOK
<1>2. CallOK'
  BY DEF CallOK, InControl, isVerified, Parents
<1> QED BY <1>1, <1>2 DEF TypeOK

LEMMA SnapshotIsSaved == ASSUME TypeOK PROVE Snapshot \in Saved
BY DEF TypeOK, BlocksOK, RatiosOK, Snapshot, Saved

LEMMA TypeSettleQuery ==
  ASSUME TypeOK, NEW h \in Hash, NEW fee \in Fees, settleQuery(h, fee)
  PROVE  TypeOK'
<1> DEFINE share == CuratorShare(h, fee)
           c     == getCurator(h)
           p     == [Nothing EXCEPT ![c] = share]
           est   == calculateDistribution(h, fee)
<1>1. /\ isVerified(h) /\ balance' = balance + fee - share
      /\ call' = [op |-> "curator", hash |-> h, fee |-> fee, perParent |-> 0, i |-> 1,
                  callee |-> c, paid |-> p, unpaid |-> {}, estimate |-> est,
                  saved |-> Snapshot]
      /\ UNCHANGED << blocks, defaultCuratorBps, curatorBps >>
  BY DEF settleQuery
<1>2. /\ fee \in Nat /\ share \in 0 .. fee /\ c \in Account /\ est \in [Account -> Nat]
      /\ Len(Parents(h)) \in Nat
  BY <1>1, RoyaltySettlementAssumption, RatioFacts, BlockFacts, EstimateType DEF TypeOK
<1>3. p \in [Account -> Nat]
  BY <1>2, NothingIsPayment
<1> HIDE DEF share, c, p, est
<1>4. call' \in Frame
  BY <1>1, <1>2, <1>3, SnapshotIsSaved DEF Frame
<1>5. balance' \in Nat
  <2>1. balance \in Nat BY DEF TypeOK
  <2> QED BY <1>1, <1>2, <2>1
<1>6. /\ call'.op = "curator" /\ call'.hash = h /\ call'.i = 1 /\ call'.saved = Snapshot
  BY <1>1
<1> QED BY <1>1, <1>2, <1>4, <1>5, <1>6, SnapshotIsSaved, FrameChange

LEMMA TypeCuratorPaid ==
  ASSUME TypeOK, SplitInv, CuratorPaid
  PROVE  TypeOK'
<1> DEFINE h == call.hash
           r == call.fee - call.paid[getCurator(h)]
           n == PerParent(h, r)
           i == IF Divides(h, r) THEN 1 ELSE Len(Parents(h)) + 1
<1>1. /\ call.op = "curator" /\ UNCHANGED << blocks, defaultCuratorBps, curatorBps, balance >>
      /\ call' = [call EXCEPT !.op = "parents", !.callee = Zero, !.perParent = n, !.i = i]
  BY DEF CuratorPaid
<1>2. /\ call \in Frame /\ h \in Hash /\ isVerified(h) /\ getCurator(h) \in Account
      /\ call.fee \in Nat /\ Len(Parents(h)) \in Nat /\ call.saved \in Saved
  BY <1>1, SettlementFacts
<1>3. r \in Nat
  <2>1. call.paid[getCurator(h)] = ShareAtStart
    BY <1>1, <1>2, NothingIsPayment DEF SplitInv, CuratorFirst
  <2>2. ShareAtStart \in 0 .. call.fee
    <3>1. RatioAtStart \in 0 .. Bps BY <1>2 DEF RatioAtStart, Saved
    <3> QED BY <1>2, <3>1, PartOfFee DEF ShareAtStart
  <2> QED BY <1>2, <2>1, <2>2
<1>4. n \in Nat /\ i \in 1 .. Len(Parents(h)) + 1
  <2>1. BlocksOK BY DEF TypeOK
  <2>2. n \in Nat BY <1>2, <1>3, <2>1, PerParentFacts
  <2>3. i = 1 \/ i = Len(Parents(h)) + 1 OBVIOUS
  <2> QED BY <1>2, <2>2, <2>3
<1> HIDE DEF h, r, n, i
<1>5. call' \in Frame
  <2>1. i \in Nat BY <1>4
  <2> QED BY <1>1, <1>2, <1>4, <2>1 DEF Frame
<1>6. /\ call'.hash = h /\ call'.saved = call.saved /\ call'.i = i /\ call'.callee = Zero
  BY <1>1, <1>2 DEF Frame, h
<1>7. balance' \in Nat
  BY <1>1 DEF TypeOK
<1> QED BY <1>1, <1>2, <1>4, <1>5, <1>6, <1>7, FrameChange

LEMMA TypeSkips ==
  ASSUME TypeOK, SkipParent \/ PaymentFails
  PROVE  TypeOK'
<1>1. /\ call.op = "parents" /\ InControl /\ call.i <= Len(Parents(call.hash))
      /\ UNCHANGED << blocks, defaultCuratorBps, curatorBps, balance >>
      /\ \/ call' = [call EXCEPT !.i = @ + 1]
         \/ call' = [call EXCEPT !.i = @ + 1, !.unpaid = @ \cup {call.i}]
  BY DEF SkipParent, PaymentFails, InLoop
<1>2. /\ call \in Frame /\ call.hash \in Hash /\ isVerified(call.hash) /\ call.saved \in Saved
      /\ call.i \in Nat /\ call.i + 1 \in 1 .. Len(Parents(call.hash)) + 1
      /\ call.unpaid \cup {call.i} \in SUBSET Nat
  BY <1>1, SettlementFacts
<1>3. call' \in Frame
  <2>1. PICK n \in Nat : n = call.i + 1 BY <1>2
  <2>2. PICK u \in SUBSET Nat : u = call.unpaid \cup {call.i} BY <1>2
  <2>3. call' = [call EXCEPT !.i = n] \/ call' = [call EXCEPT !.i = n, !.unpaid = u]
    BY <1>1, <2>1, <2>2
  <2> QED BY <1>2, <2>3 DEF Frame
<1>4. /\ call'.op = "parents" /\ call'.callee = Zero
      /\ call'.hash = call.hash /\ call'.saved = call.saved /\ call'.i = call.i + 1
  BY <1>1, <1>2 DEF Frame, InControl
<1>5. balance' \in Nat
  BY <1>1 DEF TypeOK
<1> QED BY <1>1, <1>2, <1>3, <1>4, <1>5, FrameChange

LEMMA TypePayParent ==
  ASSUME TypeOK, PayParent
  PROVE  TypeOK'
<1> DEFINE to == getCurator(Parent)
           p  == [call.paid EXCEPT ![to] = @ + call.perParent]
<1>1. /\ call.op = "parents" /\ call.i <= Len(Parents(call.hash)) /\ isVerified(Parent)
      /\ call.perParent <= balance /\ balance' = balance - call.perParent
      /\ UNCHANGED << blocks, defaultCuratorBps, curatorBps >>
      /\ call' = [call EXCEPT !.callee = to, !.paid = p]
  BY DEF PayParent, InLoop
<1>2. /\ call \in Frame /\ call.hash \in Hash /\ isVerified(call.hash) /\ call.saved \in Saved
      /\ call.i \in 1 .. Len(Parents(call.hash)) + 1 /\ call.i \in 1 .. Len(Parents(call.hash))
      /\ call.perParent \in Nat /\ call.paid \in [Account -> Nat] /\ balance \in Nat
      /\ Parent \in Hash
  BY <1>1, SettlementFacts DEF TypeOK, Parent
<1>3. to \in Account
  BY <1>1, <1>2, BlockFacts DEF TypeOK
<1>4. p \in [Account -> Nat]
  <2>1. call.paid[to] + call.perParent \in Nat BY <1>2, <1>3
  <2> HIDE DEF to
  <2> QED BY <1>2, <1>3, <2>1
<1> HIDE DEF to, p
<1>5. call' \in Frame
  BY <1>1, <1>2, <1>3, <1>4 DEF Frame
<1>6. call'.hash = call.hash /\ call'.saved = call.saved /\ call'.i = call.i /\ call'.op = "parents"
  BY <1>1, <1>2 DEF Frame
<1>7. balance' \in Nat
  BY <1>1, <1>2
<1> QED BY <1>1, <1>2, <1>5, <1>6, <1>7, FrameChange

LEMMA TypeParentPaid ==
  ASSUME TypeOK, ParentPaid
  PROVE  TypeOK'
<1>1. /\ call.op = "parents" /\ ~ InControl
      /\ UNCHANGED << blocks, defaultCuratorBps, curatorBps, balance >>
      /\ call' = [call EXCEPT !.callee = Zero, !.i = @ + 1]
  BY DEF ParentPaid
<1>2. /\ call \in Frame /\ call.hash \in Hash /\ isVerified(call.hash) /\ call.saved \in Saved
      /\ call.i \in Nat /\ call.i + 1 \in 1 .. Len(Parents(call.hash)) + 1
  BY <1>1, SettlementFacts
<1>3. call' \in Frame
  <2>1. PICK n \in Nat : n = call.i + 1 BY <1>2
  <2>2. call' = [call EXCEPT !.callee = Zero, !.i = n] BY <1>1, <2>1
  <2> QED BY <1>2, <2>2 DEF Frame
<1>4. /\ call'.op = "parents" /\ call'.callee = Zero
      /\ call'.hash = call.hash /\ call'.saved = call.saved /\ call'.i = call.i + 1
  BY <1>1, <1>2 DEF Frame
<1>5. balance' \in Nat
  BY <1>1 DEF TypeOK
<1> QED BY <1>1, <1>2, <1>3, <1>4, <1>5, FrameChange

LEMMA TypeEnds ==
  ASSUME TypeOK, Finish \/ Revert
  PROVE  TypeOK' /\ call'.op = "idle"
<1>1. call' = Idle /\ Idle \in Frame /\ Idle.op = "idle"
  BY NothingIsPayment DEF Finish, Revert, Idle, Frame
<1>2. CallOK'
  BY <1>1 DEF CallOK
<1>3. CASE Finish
  BY <1>1, <1>2, <1>3 DEF Finish, TypeOK, BlocksOK, RatiosOK
<1>4. CASE Revert
  <2>1. call.saved \in Saved
    BY <1>4 DEF Revert, TypeOK, CallOK
  <2>2. BlocksOK' /\ RatiosOK' /\ balance' \in Nat
    BY <1>4, <2>1 DEF Revert, Saved, BlocksOK, RatiosOK
  <2> QED BY <1>1, <1>2, <2>2 DEF TypeOK
<1> QED BY <1>3, <1>4

LEMMA TypeStep ==
  ASSUME TypeOK, SplitInv, [Next]_vars
  PROVE  TypeOK'
<1>1. CASE UNCHANGED vars
  BY <1>1 DEF vars, TypeOK, BlocksOK, RatiosOK, CallOK, InControl, isVerified, Parents
<1> QED BY <1>1, TypeRegister, TypeSetRatio, TypeSettleQuery, TypeCuratorPaid, TypeSkips,
           TypePayParent, TypeParentPaid, TypeEnds DEF Next, Settle
-----------------------------------------------------------------------------
(* Lineage and split during a settlement.                                  *)

\* Inside a settlement the frame keeps what was settled at its start.
LEMMA WithinSettlement ==
  ASSUME TypeOK, Next, ~ \E h \in Hash, fee \in Fees : settleQuery(h, fee), call'.op # "idle"
  PROVE  /\ call.op # "idle" /\ BlocksGrow
         /\ call'.saved = call.saved /\ call'.hash = call.hash /\ call'.fee = call.fee
         /\ call'.estimate = call.estimate
<1>1. CASE Register
  BY <1>1, RegisterGrows DEF Register, TypeOK
<1>2. CASE \E a \in Account, h \in Hash \cup {0}, b \in Ratios : setRoyaltyRatio(a, h, b)
  BY <1>2, RegisterGrows DEF setRoyaltyRatio, TypeOK
<1>3. CASE CuratorPaid \/ SkipParent \/ PayParent \/ PaymentFails \/ ParentPaid
  <2>1. UNCHANGED blocks /\ call \in Frame /\ call.op # "idle"
    BY <1>3 DEF CuratorPaid, SkipParent, PayParent, PaymentFails, ParentPaid, InLoop,
                TypeOK, CallOK
  <2>2. /\ call'.saved = call.saved /\ call'.hash = call.hash /\ call'.fee = call.fee
        /\ call'.estimate = call.estimate
    BY <1>3, <2>1 DEF CuratorPaid, SkipParent, PayParent, PaymentFails, ParentPaid, Frame
  <2> QED BY <2>1, <2>2, RegisterGrows DEF TypeOK
<1>4. CASE Finish \/ Revert
  BY <1>4, TypeEnds
<1> QED BY <1>1, <1>2, <1>3, <1>4 DEF Next, Settle

LEMMA LineageInit == Init => LineageKept
BY DEF Init, Idle, LineageKept

LEMMA LineageStep ==
  ASSUME TypeOK, LineageKept, [Next]_vars
  PROVE  LineageKept'
<1>1. CASE call'.op = "idle"
  BY <1>1 DEF LineageKept
<1>2. ASSUME NEW h \in Hash, NEW fee \in Fees, settleQuery(h, fee) PROVE LineageKept'
  <2>1. /\ call'.hash = h /\ call'.saved.blocks = blocks /\ blocks' = blocks
        /\ isVerified(h)
    BY <1>2 DEF settleQuery, Snapshot
  <2> QED BY <2>1 DEF LineageKept, isVerified
<1>3. ASSUME call.op # "idle", BlocksGrow, call'.saved = call.saved, call'.hash = call.hash
      PROVE  LineageKept'
  BY <1>3 DEF LineageKept, BlocksGrow, isVerified
<1>4. CASE UNCHANGED vars
  BY <1>4 DEF vars, LineageKept
<1> QED BY <1>1, <1>2, <1>3, <1>4, WithinSettlement

LEMMA ShareFacts ==
  ASSUME TypeOK, call.op # "idle"
  PROVE  /\ ShareAtStart \in 0 .. call.fee /\ ShareAtStart \in Nat /\ Rest \in Nat
         /\ PerParent(call.hash, Rest) \in Nat
<1>1. call.hash \in Hash /\ call.fee \in Nat /\ call.saved \in Saved
  BY SettlementFacts
<1>2. RatioAtStart \in 0 .. Bps
  BY <1>1 DEF RatioAtStart, Saved
<1>3. ShareAtStart \in 0 .. call.fee
  BY <1>1, <1>2, PartOfFee DEF ShareAtStart
<1>4. Rest \in Nat /\ ShareAtStart \in Nat
  BY <1>1, <1>3 DEF Rest
<1>5. PerParent(call.hash, Rest) \in Nat
  BY <1>1, <1>4, PerParentFacts DEF TypeOK
<1> QED BY <1>3, <1>4, <1>5

\* If no parent appeared in a step, the split of the fee is what it was.
LEMMA SameSplit ==
  ASSUME TypeOK, LineageKept, call.op # "idle", BlocksGrow,
         call'.saved = call.saved, call'.hash = call.hash, call'.fee = call.fee
  PROVE  /\ Parents(call.hash)' = Parents(call.hash)
         /\ getCurator(call.hash)' = getCurator(call.hash)
         /\ ShareAtStart' = ShareAtStart /\ Rest' = Rest
         /\ \A a : Own(a)' = Own(a)
         /\ NoParentAppeared' =>
              /\ NoParentAppeared
              /\ PerParent(call.hash, Rest)' = PerParent(call.hash, Rest)
              /\ \A j \in DOMAIN Parents(call.hash) :
                   /\ isVerified(Parents(call.hash)[j])' = isVerified(Parents(call.hash)[j])
                   /\ getCurator(Parents(call.hash)[j])' = getCurator(Parents(call.hash)[j])
              /\ \A a : Parts(a)' = Parts(a)
<1>1. call.hash \in Hash /\ isVerified(call.hash)
  BY SettlementFacts
<1>2. blocks'[call.hash] = blocks[call.hash]
  BY <1>1 DEF BlocksGrow
<1>3. /\ Parents(call.hash)' = Parents(call.hash)
      /\ getCurator(call.hash)' = getCurator(call.hash)
  BY <1>2 DEF Parents, getCurator
<1>4. ShareAtStart' = ShareAtStart /\ Rest' = Rest
  BY DEF ShareAtStart, RatioAtStart, Rest
<1>5. \A a : Own(a)' = Own(a)
  BY <1>3, <1>4 DEF Own
<1>6. ASSUME NoParentAppeared'
      PROVE  /\ NoParentAppeared
             /\ PerParent(call.hash, Rest)' = PerParent(call.hash, Rest)
             /\ \A j \in DOMAIN Parents(call.hash) :
                  /\ isVerified(Parents(call.hash)[j])' = isVerified(Parents(call.hash)[j])
                  /\ getCurator(Parents(call.hash)[j])' = getCurator(Parents(call.hash)[j])
             /\ \A a : Parts(a)' = Parts(a)
  <2>1. ASSUME NEW j \in DOMAIN Parents(call.hash)
        PROVE  /\ blocks'[Parents(call.hash)[j]] = blocks[Parents(call.hash)[j]]
               /\ blocks[Parents(call.hash)[j]] = call.saved.blocks[Parents(call.hash)[j]]
    <3> DEFINE p == Parents(call.hash)[j]
    <3>1. p \in Hash
      BY SettlementFacts
    <3>2. blocks'[p] = call.saved.blocks[p]
      BY <1>3, <1>6 DEF NoParentAppeared
    <3> HIDE DEF p
    <3>3. CASE call.saved.blocks[p].curator # Zero
      <4>1. blocks[p] = call.saved.blocks[p]
        BY <3>1, <3>3 DEF LineageKept
      <4> QED BY <3>2, <4>1 DEF p
    <3>4. CASE call.saved.blocks[p].curator = Zero
      <4>1. blocks'[p] = blocks[p]
        BY <3>1, <3>2, <3>4 DEF BlocksGrow, isVerified
      <4> QED BY <3>2, <4>1 DEF p
    <3> QED BY <3>3, <3>4
  <2>2. NoParentAppeared
    BY <2>1 DEF NoParentAppeared
  <2>3. \A j \in DOMAIN Parents(call.hash) :
          /\ isVerified(Parents(call.hash)[j])' = isVerified(Parents(call.hash)[j])
          /\ getCurator(Parents(call.hash)[j])' = getCurator(Parents(call.hash)[j])
    BY <1>3, <2>1 DEF isVerified, getCurator
  <2>4. Verifieds(call.hash)' = Verifieds(call.hash)
    BY <1>3, <2>3 DEF Verifieds
  <2>5. VerifiedCount(call.hash)' = VerifiedCount(call.hash)
    BY <1>3, <2>4 DEF VerifiedCount, Verifieds
  <2>6. PerParent(call.hash, Rest)' = PerParent(call.hash, Rest)
    BY <1>4, <2>5 DEF PerParent, Divides
  <2>7. \A a : Parts(a)' = Parts(a)
    BY <1>3, <2>3, <2>6 DEF Parts
  <2> QED BY <2>2, <2>3, <2>6, <2>7
<1> QED BY <1>3, <1>4, <1>5, <1>6

\* The same, for what is left of the split when the links in u are unpaid.
LEMMA SameParts ==
  ASSUME TypeOK, LineageKept, call.op # "idle", BlocksGrow,
         call'.saved = call.saved, call'.hash = call.hash, call'.fee = call.fee,
         NoParentAppeared', NEW u, call'.unpaid = u
  PROVE  /\ SentParts(call.unpaid)' = SentParts(u)
         /\ \A a : PaidParts(a, call.unpaid)' = PaidParts(a, u)
<1>1. /\ Parents(call.hash)' = Parents(call.hash)
      /\ PerParent(call.hash, Rest)' = PerParent(call.hash, Rest)
      /\ \A j \in DOMAIN Parents(call.hash) :
           isVerified(Parents(call.hash)[j])' = isVerified(Parents(call.hash)[j])
      /\ \A a : Parts(a)' = Parts(a)
  BY SameSplit
<1>2. SentParts(call.unpaid)' = SentParts(u)
  BY <1>1 DEF SentParts
<1>3. \A a : PaidParts(a, call.unpaid)' = PaidParts(a, u)
  BY <1>1 DEF PaidParts
<1> QED BY <1>2, <1>3
-----------------------------------------------------------------------------
(* The parts are paid one after the other.                                 *)

LEMMA PartFacts ==
  ASSUME TypeOK, call.op # "idle", NEW u, NEW a
  PROVE  \A j \in 1 .. Len(Parents(call.hash)) :
           /\ Parts(a)[j] \in Nat
           /\ PaidParts(a, u)[j] = IF j \in u THEN 0 ELSE Parts(a)[j]
           /\ PaidParts(a, u)[j] \in Nat
           /\ SentParts(u)[j] = IF isVerified(Parents(call.hash)[j]) /\ j \notin u
                                THEN PerParent(call.hash, Rest) ELSE 0
           /\ SentParts(u)[j] \in Nat
<1>1. DOMAIN Parents(call.hash) = 1 .. Len(Parents(call.hash))
  BY SettlementFacts
<1>2. PerParent(call.hash, Rest) \in Nat
  BY ShareFacts
<1> QED BY <1>1, <1>2 DEF Parts, PaidParts, SentParts

\* What leaves the contract is at most the rest of the fee.
LEMMA SentWithinRest ==
  ASSUME TypeOK, call.op # "idle", NEW u, NEW n \in 0 .. Len(Parents(call.hash))
  PROVE  /\ SumTo(SentParts(u), n) \in Nat /\ SumTo(SentParts(u), n) <= Rest
         /\ \A a : SumTo(PaidParts(a, u), n) \in Nat
<1> DEFINE N == Len(Parents(call.hash))
           c == PerParent(call.hash, Rest)
           v == Verifieds(call.hash)
           f == [j \in 1 .. N |-> c * v[j]]
<1>1. /\ N \in Nat /\ n \in Nat /\ c \in Nat /\ Rest \in Nat /\ call.hash \in Hash
      /\ DOMAIN Parents(call.hash) = 1 .. N
  BY SettlementFacts, ShareFacts
<1>2. /\ c * SumTo(v, N) <= Rest /\ SumTo(v, N) \in Nat
  BY <1>1, PerParentFacts DEF TypeOK
<1>3. \A j \in 1 .. N :
        v[j] \in Nat /\ v[j] = IF isVerified(Parents(call.hash)[j]) THEN 1 ELSE 0
  BY <1>1 DEF Verifieds
<1>4. \A j \in 1 .. N : /\ SentParts(u)[j] \in Nat
                        /\ \A a : PaidParts(a, u)[j] \in Nat
                        /\ SentParts(u)[j] = IF isVerified(Parents(call.hash)[j]) /\ j \notin u
                                             THEN c ELSE 0
  BY PartFacts
<1> HIDE DEF c, v, N
<1>5. \A j \in 1 .. N : SentParts(u)[j] <= f[j] /\ f[j] \in Nat /\ f[j] = c * v[j]
  <2> TAKE j \in 1 .. N
  <2>1. c * 1 = c /\ c * 0 = 0 BY <1>1
  <2>2. f[j] = IF isVerified(Parents(call.hash)[j]) THEN c ELSE 0 BY <1>3, <2>1
  <2> QED BY <1>1, <1>4, <2>2
<1> HIDE DEF f
<1>6. SumTo(SentParts(u), N) <= SumTo(f, N)
  <2>1. \A j \in 1 .. N : SentParts(u)[j] \in Int /\ f[j] \in Int BY <1>4, <1>5
  <2> QED BY <1>1, <1>5, <2>1, SumAtMost
<1>7. SumTo(f, N) = c * SumTo(v, N)
  <2> PICK M \in Nat, k \in Nat : M = N /\ k = c
    BY <1>1
  <2> PICK g, w : g = f /\ w = v
    OBVIOUS
  <2>1. \A j \in 1 .. M : w[j] \in Nat BY <1>3
  <2>2. \A j \in 1 .. M : g[j] = k * w[j] BY <1>5
  <2>3. SumTo(g, M) = k * SumTo(w, M) BY <2>1, <2>2, SumScaled
  <2> QED BY <2>3
<1>8. SumTo(SentParts(u), n) <= SumTo(SentParts(u), N)
  BY <1>1, <1>4, SumMonotonic DEF N
<1>9. /\ SumTo(SentParts(u), n) \in Nat /\ SumTo(SentParts(u), N) \in Nat
      /\ \A a : SumTo(PaidParts(a, u), n) \in Nat
  <2>1. \A j \in 1 .. n : SentParts(u)[j] \in Nat /\ \A a : PaidParts(a, u)[j] \in Nat
    BY <1>1, <1>4 DEF N
  <2>2. SumTo(SentParts(u), n) \in Nat
    BY <1>1, <2>1, SumNat
  <2>3. SumTo(SentParts(u), N) \in Nat
    BY <1>1, <1>4, SumNat
  <2>4. ASSUME NEW a PROVE SumTo(PaidParts(a, u), n) \in Nat
    BY <1>1, <2>1, SumNat
  <2> QED BY <2>2, <2>3, <2>4
<1>10. c * SumTo(v, N) \in Nat
  BY <1>1, <1>2
<1> QED BY <1>1, <1>2, <1>6, <1>7, <1>8, <1>9, <1>10

\* One link more, when u differs from the unpaid links at most at that link.
LEMMA NextPart ==
  ASSUME TypeOK, call.op # "idle", call.i \in 1 .. Len(Parents(call.hash)), NEW u,
         \A j \in 1 .. call.i - 1 : j \in u <=> j \in call.unpaid
  PROVE  /\ SumTo(SentParts(u), call.i) =
              SumTo(SentParts(call.unpaid), call.i - 1) + SentParts(u)[call.i]
         /\ \A a : SumTo(PaidParts(a, u), call.i) =
                     SumTo(PaidParts(a, call.unpaid), call.i - 1) + PaidParts(a, u)[call.i]
<1> DEFINE N == Len(Parents(call.hash))
<1>1. /\ N \in Nat /\ call.i \in Nat /\ call.i - 1 \in Nat /\ call.i - 1 \in 0 .. N - 1
      /\ (call.i - 1) + 1 = call.i
  BY SettlementFacts
<1>2. ASSUME NEW f, NEW g, \A j \in 1 .. N : f[j] \in Nat /\ g[j] \in Nat,
             \A j \in 1 .. call.i - 1 : f[j] = g[j]
      PROVE  SumTo(f, call.i) = SumTo(g, call.i - 1) + f[call.i]
  <2>1. \A j \in 1 .. N : f[j] \in Int
    BY <1>2
  <2>2. SumTo(f, (call.i - 1) + 1) = SumTo(f, call.i - 1) + f[(call.i - 1) + 1]
    BY <1>1, <2>1, SumStep, Zenon
  <2>3. \A j \in 1 .. call.i - 1 : g[j] \in Int
    BY <1>1, <1>2
  <2>4. SumTo(f, call.i - 1) = SumTo(g, call.i - 1)
    BY <1>1, <1>2, <2>3, SumSame, Zenon
  <2> QED BY <1>1, <2>2, <2>4
<1>3. \A j \in 1 .. N : SentParts(u)[j] \in Nat /\ SentParts(call.unpaid)[j] \in Nat
  BY PartFacts
<1>4. \A j \in 1 .. call.i - 1 : SentParts(u)[j] = SentParts(call.unpaid)[j]
  <2>1. \A j \in 1 .. call.i - 1 : j \in DOMAIN Parents(call.hash)
    BY <1>1, SettlementFacts
  <2> QED BY <2>1 DEF SentParts
<1>5. SumTo(SentParts(u), call.i) =
        SumTo(SentParts(call.unpaid), call.i - 1) + SentParts(u)[call.i]
  BY <1>2, <1>3, <1>4, Zenon
<1>6. ASSUME NEW a
      PROVE  SumTo(PaidParts(a, u), call.i) =
               SumTo(PaidParts(a, call.unpaid), call.i - 1) + PaidParts(a, u)[call.i]
  <2>1. \A j \in 1 .. N : PaidParts(a, u)[j] \in Nat /\ PaidParts(a, call.unpaid)[j] \in Nat
    BY PartFacts
  <2>2. \A j \in 1 .. call.i - 1 : PaidParts(a, u)[j] = PaidParts(a, call.unpaid)[j]
    <3>1. \A j \in 1 .. call.i - 1 : j \in DOMAIN Parents(call.hash)
      BY <1>1, SettlementFacts
    <3> QED BY <3>1 DEF PaidParts
  <2> QED BY <1>2, <2>1, <2>2, Zenon
<1> QED BY <1>5, <1>6

LEMMA SplitInit == Init => SplitInv
BY DEF Init, Idle, SplitInv

\* Calls that register blocks or set ratios leave a split alone.
LEMMA SplitSame ==
  ASSUME TypeOK, LineageKept, SplitInv, BlocksGrow, call' = call, balance' = balance
  PROVE  SplitInv'
<1> SUFFICES ASSUME call.op # "idle" PROVE SplitInv'
  BY DEF SplitInv
<1>1. /\ Parents(call.hash)' = Parents(call.hash)
      /\ getCurator(call.hash)' = getCurator(call.hash)
      /\ ShareAtStart' = ShareAtStart /\ Rest' = Rest
      /\ \A a : Own(a)' = Own(a)
      /\ NoParentAppeared' =>
           /\ NoParentAppeared
           /\ PerParent(call.hash, Rest)' = PerParent(call.hash, Rest)
           /\ \A a : Parts(a)' = Parts(a)
  BY SameSplit
<1>2. ASSUME CuratorFirst PROVE CuratorFirst'
  BY <1>1, <1>2 DEF CuratorFirst
<1>3. ASSUME NoParentAppeared', EstimateOfSplit PROVE EstimateOfSplit'
  BY <1>1, <1>3 DEF EstimateOfSplit
<1>4. ASSUME NoParentAppeared', PaidSoFar PROVE PaidSoFar'
  <2>1. /\ SentParts(call.unpaid)' = SentParts(call.unpaid)
        /\ \A a : PaidParts(a, call.unpaid)' = PaidParts(a, call.unpaid)
    BY <1>4, SameParts
  <2>2. Done' = Done
    BY DEF Done, InControl
  <2> QED BY <1>1, <1>4, <2>1, <2>2 DEF PaidSoFar
<1> QED BY <1>1, <1>2, <1>3, <1>4 DEF SplitInv

LEMMA SplitSettleQuery ==
  ASSUME TypeOK, NEW h \in Hash, NEW fee \in Fees, settleQuery(h, fee)
  PROVE  SplitInv'
<1> DEFINE share == CuratorShare(h, fee)
           c     == getCurator(h)
<1>1. /\ balance' = balance + fee - share
      /\ call' = [op |-> "curator", hash |-> h, fee |-> fee, perParent |-> 0, i |-> 1,
                  callee |-> c, paid |-> [Nothing EXCEPT ![c] = share], unpaid |-> {},
                  estimate |-> calculateDistribution(h, fee), saved |-> Snapshot]
      /\ UNCHANGED << blocks, defaultCuratorBps, curatorBps >>
  BY DEF settleQuery
<1>2. /\ call'.op = "curator" /\ call'.hash = h /\ call'.fee = fee /\ call'.unpaid = {}
      /\ call'.paid = [Nothing EXCEPT ![c] = share] /\ call'.saved = Snapshot
      /\ call'.estimate = calculateDistribution(h, fee)
  BY <1>1
<1>3. /\ Snapshot.balance = balance /\ Snapshot.curatorBps = curatorBps
      /\ Snapshot.defaultCuratorBps = defaultCuratorBps
  BY DEF Snapshot
<1>4. fee \in Nat /\ share \in 0 .. fee /\ balance \in Nat
  BY RoyaltySettlementAssumption, RatioFacts DEF TypeOK
<1>5. ShareAtStart' = share /\ Rest' = fee - share
  <2>1. RatioAtStart' = CuratorBps(h)
    BY <1>2, <1>3 DEF RatioAtStart, CuratorBps
  <2> QED BY <1>2, <2>1 DEF ShareAtStart, Rest, CuratorShare
<1>6. /\ Parents(call.hash)' = Parents(h) /\ getCurator(call.hash)' = c
      /\ PerParent(call.hash, Rest)' = PerParent(h, fee - share)
      /\ \A j : isVerified(Parents(h)[j])' = isVerified(Parents(h)[j])
      /\ \A j : getCurator(Parents(h)[j])' = getCurator(Parents(h)[j])
  <2>1. blocks' = blocks /\ call'.hash = h BY <1>1, <1>2
  <2> QED BY <1>5, <2>1 DEF Parents, getCurator, isVerified, PerParent, Divides, VerifiedCount
<1> HIDE DEF share, c
<1>7. CuratorFirst'
  BY <1>1, <1>2, <1>3, <1>4, <1>5, <1>6 DEF CuratorFirst
<1>8. EstimateOfSplit'
  <2>1. ASSUME NEW a \in Account
        PROVE  call'.estimate[a] = Own(a)' + SumTo(Parts(a), Len(Parents(call.hash)))'
    <3>1. Parts(a)' =
            [i \in DOMAIN Parents(h) |->
               IF isVerified(Parents(h)[i]) /\ getCurator(Parents(h)[i]) = a
               THEN PerParent(h, fee - share) ELSE 0]
      BY <1>1, <1>2, <1>6 DEF Parts, Parents, isVerified, getCurator
    <3>2. Own(a)' = IF getCurator(h) = a THEN share ELSE 0
      BY <1>5, <1>6 DEF Own, c
    <3>3. calculateDistribution(h, fee) =
            [b \in Account |->
               (IF getCurator(h) = b THEN share ELSE 0) +
               SumTo([i \in DOMAIN Parents(h) |->
                        IF isVerified(Parents(h)[i]) /\ getCurator(Parents(h)[i]) = b
                        THEN PerParent(h, fee - share) ELSE 0], Len(Parents(h)))]
      BY <1>4, EstimateFacts DEF share
    <3> QED BY <1>2, <1>6, <3>1, <3>2, <3>3
  <2> QED BY <2>1 DEF EstimateOfSplit
<1> QED BY <1>2, <1>7, <1>8 DEF SplitInv
LEMMA SplitCuratorPaid ==
  ASSUME TypeOK, LineageKept, SplitInv, CuratorPaid
  PROVE  SplitInv'
<1> DEFINE h == call.hash
           r == call.fee - call.paid[getCurator(h)]
           N == Len(Parents(h))
<1>1. /\ call.op = "curator" /\ UNCHANGED << blocks, balance >>
      /\ call' = [call EXCEPT !.op = "parents", !.callee = Zero,
                    !.perParent = PerParent(h, r), !.i = IF Divides(h, r) THEN 1 ELSE N + 1]
  BY DEF CuratorPaid
<1>2. /\ call \in Frame /\ N \in Nat /\ getCurator(h) \in Account /\ call.saved.balance \in Nat
      /\ DOMAIN Parents(h) = 1 .. N
  BY <1>1, SettlementFacts
<1>3. /\ call.paid = [Nothing EXCEPT ![getCurator(h)] = ShareAtStart] /\ call.unpaid = {}
      /\ balance = call.saved.balance + Rest
  BY <1>1 DEF SplitInv, CuratorFirst
<1>4. r = Rest
  <2>1. call.paid[getCurator(h)] = ShareAtStart
    BY <1>2, <1>3, NothingIsPayment
  <2> QED BY <2>1 DEF Rest
<1>5. /\ call'.op = "parents" /\ call'.callee = Zero /\ call'.perParent = PerParent(h, Rest)
      /\ call'.i = (IF Divides(h, Rest) THEN 1 ELSE N + 1)
      /\ call'.saved = call.saved /\ call'.hash = h /\ call'.fee = call.fee
      /\ call'.estimate = call.estimate /\ call'.unpaid = {} /\ call'.paid = call.paid
  BY <1>1, <1>2, <1>3, <1>4 DEF Frame
<1> HIDE DEF r
<1>6. BlocksGrow
  BY <1>1, RegisterGrows DEF TypeOK
<1>7. /\ Parents(call.hash)' = Parents(h) /\ Rest' = Rest
      /\ \A a : Own(a)' = Own(a)
      /\ NoParentAppeared' =>
           /\ NoParentAppeared
           /\ PerParent(call.hash, Rest)' = PerParent(h, Rest)
           /\ \A a : Parts(a)' = Parts(a)
  BY <1>1, <1>5, <1>6, SameSplit
<1>8. ASSUME NoParentAppeared' PROVE EstimateOfSplit'
  BY <1>1, <1>5, <1>7, <1>8 DEF EstimateOfSplit, SplitInv
<1>9. ASSUME NoParentAppeared' PROVE PaidSoFar'
  <2>1. /\ SentParts(call.unpaid)' = SentParts({})
        /\ \A a : PaidParts(a, call.unpaid)' = PaidParts(a, {})
    BY <1>1, <1>5, <1>6, <1>9, SameParts
  <2>2. Done' \in 0 .. N
    BY <1>2, <1>5 DEF Done, InControl
  <2>3. /\ SumTo(SentParts({}), Done') = 0
        /\ \A a : SumTo(PaidParts(a, {}), Done') = 0
    <3>1. CASE Divides(h, Rest)
      <4>1. Done' = 0 BY <1>5, <3>1 DEF Done, InControl
      <4> QED BY <4>1, SumZero
    <3>2. CASE ~ Divides(h, Rest)
      <4>1. PerParent(h, Rest) = 0 BY <3>2 DEF PerParent
      <4>2. \A a : \A j \in 1 .. N : SentParts({})[j] = 0 /\ PaidParts(a, {})[j] = 0
        BY <1>2, <4>1 DEF SentParts, PaidParts, Parts
      <4>3. Done' \in Nat /\ \A j \in 1 .. Done' : j \in 1 .. N
        BY <1>2, <2>2
      <4>4. SumTo(SentParts({}), Done') = 0
        BY <4>2, <4>3, SumOfZeros
      <4>5. ASSUME NEW a PROVE SumTo(PaidParts(a, {}), Done') = 0
        BY <4>2, <4>3, SumOfZeros
      <4> QED BY <4>4, <4>5
    <3> QED BY <3>1, <3>2
  <2>4. balance' = call'.saved.balance + (Rest - 0)
    BY <1>1, <1>2, <1>3, <1>5, ShareFacts
  <2>5. ASSUME NEW a \in Account PROVE call'.paid[a] = Own(a) + 0
    BY <1>1, <1>2, <1>3, <1>5, NothingIsPayment, ShareFacts DEF Own, Nothing
  <2> QED BY <1>5, <1>7, <1>9, <2>1, <2>3, <2>4, <2>5 DEF PaidSoFar
<1> QED BY <1>5, <1>8, <1>9 DEF SplitInv

\* An action of the loop after which call.i links are dealt with: what it paid
\* is the part of that link, unless it left the link unpaid.
LEMMA SplitLoop ==
  ASSUME TypeOK, LineageKept, SplitInv, InLoop, BlocksGrow,
         call'.op = "parents", call'.saved = call.saved, call'.hash = call.hash,
         call'.fee = call.fee, call'.estimate = call.estimate,
         call'.perParent = call.perParent, Done' = call.i, NEW u, call'.unpaid = u,
         u = call.unpaid \/ u = call.unpaid \cup {call.i},
         NoParentAppeared /\ PaidSoFar =>
           /\ balance' = balance - SentParts(u)[call.i]
           /\ \A a \in Account : call'.paid[a] = call.paid[a] + PaidParts(a, u)[call.i]
  PROVE  SplitInv'
<1>1. /\ call.op = "parents" /\ call.i \in 1 .. Len(Parents(call.hash))
      /\ Done = call.i - 1 /\ call.i \in Nat
  BY SettlementFacts DEF InLoop, Done
<1>2. /\ Parents(call.hash)' = Parents(call.hash) /\ Rest' = Rest
      /\ \A a : Own(a)' = Own(a)
      /\ NoParentAppeared' =>
           /\ NoParentAppeared
           /\ PerParent(call.hash, Rest)' = PerParent(call.hash, Rest)
           /\ \A a : Parts(a)' = Parts(a)
  BY <1>1, SameSplit
<1>3. ASSUME NoParentAppeared' PROVE EstimateOfSplit'
  BY <1>1, <1>2, <1>3 DEF EstimateOfSplit, SplitInv
<1>4. ASSUME NoParentAppeared' PROVE PaidSoFar'
  <2>1. NoParentAppeared /\ PaidSoFar
    BY <1>1, <1>2, <1>4 DEF SplitInv
  <2>2. /\ SentParts(call.unpaid)' = SentParts(u)
        /\ \A a : PaidParts(a, call.unpaid)' = PaidParts(a, u)
    BY <1>1, <1>4, SameParts
  <2>3. call.unpaid \subseteq 1 .. call.i - 1
    BY <1>1, <2>1 DEF PaidSoFar
  <2>4. u \subseteq 1 .. call.i /\ \A j \in 1 .. call.i - 1 : j \in u <=> j \in call.unpaid
    BY <1>1, <2>3
  <2>5. /\ SumTo(SentParts(u), call.i) =
             SumTo(SentParts(call.unpaid), call.i - 1) + SentParts(u)[call.i]
        /\ \A a : SumTo(PaidParts(a, u), call.i) =
                    SumTo(PaidParts(a, call.unpaid), call.i - 1) + PaidParts(a, u)[call.i]
    BY <1>1, <2>4, NextPart
  <2>6. /\ SentParts(u)[call.i] \in Nat /\ \A a : PaidParts(a, u)[call.i] \in Nat
    BY <1>1, PartFacts
  <2>7. /\ SumTo(SentParts(call.unpaid), call.i - 1) \in Nat
        /\ \A a : SumTo(PaidParts(a, call.unpaid), call.i - 1) \in Nat
    <3>1. call.i - 1 \in 0 .. Len(Parents(call.hash))
      BY <1>1, SettlementFacts
    <3> QED BY <1>1, <3>1, SentWithinRest
  <2>8. Rest \in Nat /\ call.saved.balance \in Nat /\ \A a : Own(a) \in Nat
    BY <1>1, ShareFacts, SettlementFacts DEF Own
  <2>9. balance' = call.saved.balance + (Rest - SumTo(SentParts(u), call.i))
    <3>1. balance = call.saved.balance + (Rest - SumTo(SentParts(call.unpaid), call.i - 1))
      BY <1>1, <2>1 DEF PaidSoFar
    <3>2. balance' = balance - SentParts(u)[call.i] BY <2>1
    <3> QED BY <2>5, <2>6, <2>7, <2>8, <3>1, <3>2
  <2>10. ASSUME NEW a \in Account
         PROVE  call'.paid[a] = Own(a) + SumTo(PaidParts(a, u), call.i)
    <3>1. call.paid[a] = Own(a) + SumTo(PaidParts(a, call.unpaid), call.i - 1)
      BY <1>1, <2>1 DEF PaidSoFar
    <3>2. call'.paid[a] = call.paid[a] + PaidParts(a, u)[call.i] BY <2>1
    <3> QED BY <2>5, <2>6, <2>7, <2>8, <3>1, <3>2
  <2>11. call'.perParent = PerParent(call.hash, Rest)
    BY <2>1 DEF PaidSoFar
  <2> QED BY <1>2, <1>4, <2>2, <2>4, <2>9, <2>10, <2>11 DEF PaidSoFar
<1> QED BY <1>1, <1>3, <1>4 DEF SplitInv

LEMMA SplitSkipParent ==
  ASSUME TypeOK, LineageKept, SplitInv, SkipParent
  PROVE  SplitInv'
<1>1. /\ InLoop /\ ~ isVerified(Parent) /\ UNCHANGED << blocks, balance >>
      /\ call' = [call EXCEPT !.i = @ + 1]
  BY DEF SkipParent
<1>2. /\ call \in Frame /\ call.i \in 1 .. Len(Parents(call.hash)) /\ call.i \in Nat
      /\ call.op = "parents" /\ call.callee = Zero /\ call.paid \in [Account -> Nat]
      /\ balance \in Nat
  BY <1>1, SettlementFacts DEF InLoop, InControl, TypeOK
<1>3. /\ call'.op = "parents" /\ call'.saved = call.saved /\ call'.hash = call.hash
      /\ call'.fee = call.fee /\ call'.estimate = call.estimate /\ call'.paid = call.paid
      /\ call'.perParent = call.perParent /\ call'.unpaid = call.unpaid
      /\ call'.callee = Zero /\ call'.i = call.i + 1
  BY <1>1, <1>2 DEF Frame
<1>4. Done' = call.i
  BY <1>2, <1>3 DEF Done, InControl
<1>5. SentParts(call.unpaid)[call.i] = 0 /\ \A a : PaidParts(a, call.unpaid)[call.i] = 0
  <2>1. call.i \in DOMAIN Parents(call.hash) BY <1>2, SettlementFacts
  <2> QED BY <1>1, <2>1 DEF SentParts, PaidParts, Parts, Parent
<1>6. BlocksGrow
  BY <1>1, RegisterGrows DEF TypeOK
<1>7. /\ balance' = balance - SentParts(call.unpaid)[call.i]
      /\ \A a \in Account : call'.paid[a] = call.paid[a] + PaidParts(a, call.unpaid)[call.i]
  BY <1>1, <1>2, <1>3, <1>5
<1> QED BY <1>1, <1>3, <1>4, <1>6, <1>7, SplitLoop

LEMMA SplitPaymentFails ==
  ASSUME TypeOK, LineageKept, SplitInv, PaymentFails
  PROVE  SplitInv'
<1> DEFINE u == call.unpaid \cup {call.i}
<1>1. /\ InLoop /\ UNCHANGED << blocks, balance >>
      /\ call' = [call EXCEPT !.i = @ + 1, !.unpaid = u]
  BY DEF PaymentFails
<1>2. /\ call \in Frame /\ call.i \in 1 .. Len(Parents(call.hash)) /\ call.i \in Nat
      /\ call.op = "parents" /\ call.callee = Zero /\ call.paid \in [Account -> Nat]
      /\ balance \in Nat
  BY <1>1, SettlementFacts DEF InLoop, InControl, TypeOK
<1>3. call.i \in u
  OBVIOUS
<1>4. u = call.unpaid \/ u = call.unpaid \cup {call.i}
  OBVIOUS
<1> HIDE DEF u
<1>5. /\ call'.op = "parents" /\ call'.saved = call.saved /\ call'.hash = call.hash
      /\ call'.fee = call.fee /\ call'.estimate = call.estimate /\ call'.paid = call.paid
      /\ call'.perParent = call.perParent /\ call'.unpaid = u
      /\ call'.callee = Zero /\ call'.i = call.i + 1
  BY <1>1, <1>2 DEF Frame
<1>6. Done' = call.i
  BY <1>2, <1>5 DEF Done, InControl
<1>7. SentParts(u)[call.i] = 0 /\ \A a : PaidParts(a, u)[call.i] = 0
  <2>1. call.i \in DOMAIN Parents(call.hash) BY <1>2, SettlementFacts
  <2> QED BY <1>3, <2>1 DEF SentParts, PaidParts
<1>8. BlocksGrow
  BY <1>1, RegisterGrows DEF TypeOK
<1>9. /\ balance' = balance - SentParts(u)[call.i]
      /\ \A a \in Account : call'.paid[a] = call.paid[a] + PaidParts(a, u)[call.i]
  BY <1>1, <1>2, <1>5, <1>7
<1> QED BY <1>1, <1>4, <1>5, <1>6, <1>8, <1>9, SplitLoop

LEMMA SplitPayParent ==
  ASSUME TypeOK, LineageKept, SplitInv, PayParent
  PROVE  SplitInv'
<1> DEFINE to == getCurator(Parent)
           p  == [call.paid EXCEPT ![to] = @ + call.perParent]
<1>1. /\ InLoop /\ isVerified(Parent) /\ blocks' = blocks
      /\ balance' = balance - call.perParent
      /\ call' = [call EXCEPT !.callee = to, !.paid = p]
  BY DEF PayParent
<1>2. /\ call \in Frame /\ call.i \in 1 .. Len(Parents(call.hash)) /\ call.i \in Nat
      /\ call.op = "parents" /\ call.callee = Zero /\ call.paid \in [Account -> Nat]
      /\ call.perParent \in Nat /\ Parent \in Hash /\ balance \in Nat
  BY <1>1, SettlementFacts DEF InLoop, InControl, Parent, TypeOK
<1>3. to \in Account
  BY <1>1, <1>2, BlockFacts DEF TypeOK
<1>4. \A a \in Account : p[a] = call.paid[a] + (IF a = to THEN call.perParent ELSE 0)
  BY <1>2, <1>3
<1> HIDE DEF p
<1>5. /\ call'.op = "parents" /\ call'.saved = call.saved /\ call'.hash = call.hash
      /\ call'.fee = call.fee /\ call'.estimate = call.estimate /\ call'.paid = p
      /\ call'.perParent = call.perParent /\ call'.unpaid = call.unpaid
      /\ call'.callee = to /\ call'.i = call.i
  BY <1>1, <1>2 DEF Frame
<1>6. Done' = call.i
  <2>1. to # Zero BY <1>3, KnowledgeRegistryAssumption
  <2> QED BY <2>1, <1>5 DEF Done, InControl
<1>7. ASSUME PaidSoFar
      PROVE  /\ SentParts(call.unpaid)[call.i] = call.perParent
             /\ \A a : PaidParts(a, call.unpaid)[call.i] = IF a = to THEN call.perParent ELSE 0
  <2>1. call.i \in DOMAIN Parents(call.hash) BY <1>2, SettlementFacts
  <2>2. call.i \notin call.unpaid /\ call.perParent = PerParent(call.hash, Rest)
    <3>1. call.unpaid \subseteq 1 .. call.i - 1
      BY <1>1, <1>7 DEF PaidSoFar, Done, InLoop
    <3> QED BY <1>2, <1>7, <3>1 DEF PaidSoFar
  <2> QED BY <1>1, <2>1, <2>2 DEF SentParts, PaidParts, Parts, Parent
<1>8. BlocksGrow
  BY <1>1, RegisterGrows DEF TypeOK
<1>9. PaidSoFar =>
        /\ balance' = balance - SentParts(call.unpaid)[call.i]
        /\ \A a \in Account : call'.paid[a] = call.paid[a] + PaidParts(a, call.unpaid)[call.i]
  BY <1>1, <1>4, <1>5, <1>7
<1> QED BY <1>1, <1>5, <1>6, <1>8, <1>9, SplitLoop

LEMMA SplitParentPaid ==
  ASSUME TypeOK, LineageKept, SplitInv, ParentPaid
  PROVE  SplitInv'
<1>1. /\ call.op = "parents" /\ ~ InControl /\ UNCHANGED << blocks, balance >>
      /\ call' = [call EXCEPT !.callee = Zero, !.i = @ + 1]
  BY DEF ParentPaid
<1>2. call \in Frame /\ call.i \in Nat
  BY <1>1, SettlementFacts
<1>3. /\ call'.op = "parents" /\ call'.saved = call.saved /\ call'.hash = call.hash
      /\ call'.fee = call.fee /\ call'.estimate = call.estimate /\ call'.paid = call.paid
      /\ call'.perParent = call.perParent /\ call'.unpaid = call.unpaid
      /\ call'.callee = Zero /\ call'.i = call.i + 1
  BY <1>1, <1>2 DEF Frame
<1>4. Done' = Done
  BY <1>1, <1>2, <1>3 DEF Done, InControl
<1>5. BlocksGrow
  BY <1>1, RegisterGrows DEF TypeOK
<1>6. /\ Parents(call.hash)' = Parents(call.hash) /\ Rest' = Rest
      /\ \A a : Own(a)' = Own(a)
      /\ NoParentAppeared' =>
           /\ NoParentAppeared
           /\ PerParent(call.hash, Rest)' = PerParent(call.hash, Rest)
           /\ \A a : Parts(a)' = Parts(a)
  BY <1>1, <1>3, <1>5, SameSplit
<1>7. ASSUME NoParentAppeared' PROVE EstimateOfSplit'
  BY <1>1, <1>3, <1>6, <1>7 DEF EstimateOfSplit, SplitInv
<1>8. ASSUME NoParentAppeared' PROVE PaidSoFar'
  <2>1. PaidSoFar
    BY <1>1, <1>6, <1>8 DEF SplitInv
  <2>2. /\ SentParts(call.unpaid)' = SentParts(call.unpaid)
        /\ \A a : PaidParts(a, call.unpaid)' = PaidParts(a, call.unpaid)
    BY <1>1, <1>3, <1>5, <1>8, SameParts
  <2> QED BY <1>1, <1>3, <1>4, <1>6, <1>8, <2>1, <2>2 DEF PaidSoFar
<1> QED BY <1>3, <1>7, <1>8 DEF SplitInv

-----------------------------------------------------------------------------
(* The theorems.                                                           *)

LEMMA SplitStep ==
  ASSUME TypeOK, LineageKept, SplitInv, [Next]_vars
  PROVE  SplitInv'
<1>1. CASE UNCHANGED vars \/ Register \/
           \E a \in Account, h \in Hash \cup {0}, b \in Ratios : setRoyaltyRatio(a, h, b)
  <2>1. /\ call' = call /\ balance' = balance
        /\ Register \/ UNCHANGED blocks
    BY <1>1 DEF vars, Register, setRoyaltyRatio
  <2>2. BlocksGrow
    BY <2>1, RegisterGrows DEF TypeOK
  <2> QED BY <2>1, <2>2, SplitSame
<1>2. CASE \E h \in Hash, fee \in Fees : settleQuery(h, fee)
  BY <1>2, SplitSettleQuery
<1>3. CASE Finish \/ Revert
  <2>1. call'.op = "idle"
    BY <1>3, TypeEnds
  <2> QED BY <2>1 DEF SplitInv
<1>4. CASE CuratorPaid \/ SkipParent \/ PayParent \/ PaymentFails \/ ParentPaid
  BY <1>4, SplitCuratorPaid, SplitSkipParent, SplitPayParent, SplitPaymentFails, SplitParentPaid
<1> QED BY <1>1, <1>2, <1>3, <1>4 DEF Next, Settle

RoyaltyInv == TypeOK /\ LineageKept /\ SplitInv

LEMMA RoyaltyInvariant == Spec => []RoyaltyInv
<1>1. Init => RoyaltyInv
  BY TypeInit, LineageInit, SplitInit DEF RoyaltyInv
<1>2. RoyaltyInv /\ [Next]_vars => RoyaltyInv'
  BY TypeStep, LineageStep, SplitStep DEF RoyaltyInv
<1> QED BY <1>1, <1>2, PTL DEF Spec

\* Every variable of RoyaltySettlement keeps its type, and a settlement in progress
\* stays within the parents of a registered block.
THEOREM RoyaltyTypeCorrect == Spec => []TypeOK
<1>1. RoyaltyInv => TypeOK
  BY DEF RoyaltyInv
<1> QED BY <1>1, RoyaltyInvariant, PTL

LEMMA DoneInRange ==
  ASSUME TypeOK, call.op = "parents"
  PROVE  /\ Done \in 0 .. Len(Parents(call.hash))
         /\ LoopEnd => Done = Len(Parents(call.hash))
<1>1. /\ call.i \in 1 .. Len(Parents(call.hash)) + 1 /\ Len(Parents(call.hash)) \in Nat
      /\ ~ InControl => call.i <= Len(Parents(call.hash))
  BY SettlementFacts DEF TypeOK, CallOK
<1> QED BY <1>1 DEF Done, LoopEnd

\* A settlement spends the fee that was sent and nothing that earlier settlements
\* left in the contract, unless a payee registers a parent meanwhile.
THEOREM SettlementsSpendOwnFee == Spec => []SpendsOwnFee
<1>1. ASSUME RoyaltyInv, call.op # "idle", NoParentAppeared
      PROVE  balance >= call.saved.balance
  <2>1. TypeOK /\ SplitInv /\ Rest \in Nat /\ call.saved.balance \in Nat
    BY <1>1, ShareFacts, SettlementFacts DEF RoyaltyInv
  <2>2. CASE call.op = "curator"
    BY <2>1, <2>2 DEF SplitInv, CuratorFirst
  <2>3. CASE call.op = "parents"
    <3>1. balance = call.saved.balance + (Rest - SumTo(SentParts(call.unpaid), Done))
      BY <1>1, <2>1, <2>3 DEF SplitInv, PaidSoFar
    <3>2. /\ SumTo(SentParts(call.unpaid), Done) \in Nat
          /\ SumTo(SentParts(call.unpaid), Done) <= Rest
      BY <2>1, <2>3, DoneInRange, SentWithinRest
    <3> QED BY <2>1, <3>1, <3>2
  <2> QED BY <1>1, <2>1, <2>2, <2>3 DEF TypeOK, CallOK, Frame
<1>2. RoyaltyInv => SpendsOwnFee
  BY <1>1 DEF SpendsOwnFee
<1> QED BY <1>2, RoyaltyInvariant, PTL

\* If every payee accepts and no parent is registered meanwhile, everybody is
\* paid what calculateDistribution announced at the start.
THEOREM EstimatesAreHonoured == Spec => []EstimateHonoured
<1>1. ASSUME RoyaltyInv, LoopEnd, call.unpaid = {}, NoParentAppeared
      PROVE  call.paid = call.estimate
  <2>1. /\ TypeOK /\ SplitInv /\ call.op = "parents"
        /\ call.paid \in [Account -> Nat] /\ call.estimate \in [Account -> Nat]
    BY <1>1 DEF RoyaltyInv, LoopEnd, TypeOK, CallOK, Frame
  <2>2. EstimateOfSplit /\ PaidSoFar
    BY <1>1, <2>1 DEF SplitInv
  <2>3. Done = Len(Parents(call.hash))
    BY <1>1, <2>1, DoneInRange
  <2>4. ASSUME NEW a \in Account PROVE call.paid[a] = call.estimate[a]
    <3>1. PaidParts(a, {}) = Parts(a)
      BY DEF PaidParts, Parts
    <3>2. call.paid[a] = Own(a) + SumTo(PaidParts(a, {}), Len(Parents(call.hash)))
      BY <1>1, <2>2, <2>3 DEF PaidSoFar
    <3> QED BY <2>2, <3>1, <3>2 DEF EstimateOfSplit
  <2> QED BY <2>1, <2>4
<1>2. RoyaltyInv => EstimateHonoured
  BY <1>1 DEF EstimateHonoured
<1> QED BY <1>2, RoyaltyInvariant, PTL
=============================================================================
