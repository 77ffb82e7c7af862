----------------------------- MODULE MCRegistry -----------------------------
(***************************************************************************)
(* Small instances of Registry for TLC.                                    *)
(***************************************************************************)
EXTENDS Registry

CONSTANT MaxOpinions   \* bound on recordPositiveOutcome and endorse together

\* Shares that use the whole distributable part at the default fee of 2%, that
\* name a parent several times and round down (the last one to nothing), and
\* that exceed the whole.
FeeLinkLists ==
  { << >>,
    << [parent |-> 1, bps |-> 9800] >>,
    << [parent |-> 1, bps |-> 5000], [parent |-> 1, bps |-> 4799], [parent |-> 1, bps |-> 1] >>,
    << [parent |-> 1, bps |-> 9800], [parent |-> 1, bps |-> 2000] >> }

GraphLinkLists ==
  { << >> } \cup { << [parent |-> p, bps |-> 4900] >> : p \in Hash }
  \cup { << [parent |-> p, bps |-> 4900], [parent |-> q, bps |-> 4900] >> :
           p \in Hash, q \in Hash }

FewOpinions ==
  SumTo([h \in Hash |-> reputation[h].positiveOutcomes + reputation[h].endorsements],
        NumKB) <= MaxOpinions

Paying ==
  \E h \in Hash :
    Registered(h) /\ (knowledgeBlocks[h].queryFee > 0 \/ attributionDAG[h] # << >>)

\* Two kinds of instances in one.  In the first, what is settled and withdrawn
\* meets callbacks: the blocks are one contract's, deposits come before the first
\* tick and payments after it.
ByCallbacks ==
  /\ timestamp < 2 /\ slashRateBps = 1000 /\ minStakeAmount = 0
  /\ \A h \in Hash : stakes[h].lockedUntil < 2
  /\ call.op = "settle" => timestamp = 1
  /\ \A h \in Hash : Registered(h) => knowledgeBlocks[h].curator \in Contract

\* In the second, nothing is paid for: two deposits, locks, rates, and slashing
\* over two ticks.
ByStakes ==
  /\ balance <= 6 /\ protocolFeesBps = 200
  /\ call.op # "settle" /\ \A h \in Hash : reputation[h].queryVolume = 0
  /\ (\E h \in Hash : Registered(h)) => minStakeAmount # 0

PaymentsOrStakes == FewOpinions /\ (IF Paying THEN ByCallbacks ELSE ByStakes)

\* Queries and opinions on two blocks only; the third comes to complete the graph.
CountedInPairs ==
  /\ FewOpinions
  /\ (\A h \in Hash : Registered(h)) =>
       NonReentrant /\
       \A h \in Hash : reputation[h] = [reputation[h] EXCEPT !.queryVolume = 0,
                         !.positiveOutcomes = 0, !.endorsements = 0]

=============================================================================
