-------------------------- MODULE AtomicSettlement --------------------------
(***************************************************************************)
(* What AlexandrianRegistry promises about query fees, without saying how: *)
(* a fee is settled through the whole attribution DAG in one step, or not  *)
(* at all; nothing else earns a royalty; a published Knowledge Block never *)
(* changes its parents or its price; slashing is for ever, and a slashed   *)
(* Knowledge Block is not settled.                                         *)
(***************************************************************************)
EXTENDS Integers, Sequences, Sums

CONSTANTS NumKB, Bps, MaxFeeBps

Hash == 1 .. NumKB

VARIABLES
  published,   \* the hashes that are registered
  parents,     \* hash -> sequence of [parent, bps]
  price,       \* hash -> query fee
  feeBps,      \* the protocol's part of a fee
  slashed,     \* the hashes whose stake was slashed
  volume,      \* hash -> number of settlements that paid it
  earned       \* hash -> royalties paid to its curator

vars == << published, parents, price, feeBps, slashed, volume, earned >>

-----------------------------------------------------------------------------
\* What is left of the price of h when the protocol has taken its part.
Distributable(h) == price[h] - ((price[h] * feeBps) \div Bps)

\* The share of each link of h; the rest goes to the curator of h.
Share(h, i)  == (Distributable(h) * parents[h][i].bps) \div Bps
Remainder(h) ==
  Distributable(h) - SumTo([i \in DOMAIN parents[h] |-> Share(h, i)], Len(parents[h]))

\* What one settlement of h brings to p, and in how many payments it counts.
Gain(h, p) ==
  SumTo([i \in DOMAIN parents[h] |-> IF parents[h][i].parent = p THEN Share(h, i) ELSE 0],
        Len(parents[h]))
  + (IF p = h THEN Remainder(h) ELSE 0)
Count(h, p) ==
  SumTo([i \in DOMAIN parents[h] |->
           IF parents[h][i].parent = p /\ Share(h, i) > 0 THEN 1 ELSE 0], Len(parents[h]))
  + (IF p = h THEN 1 ELSE 0)

-----------------------------------------------------------------------------
Init ==
  /\ published = {} /\ slashed = {} /\ feeBps \in 0 .. MaxFeeBps
  /\ volume = [h \in Hash |-> 0] /\ earned = [h \in Hash |-> 0]

\* The governed state moves under its own rules, also while a fee is settled.
Governed == slashed \subseteq slashed' /\ feeBps' \in 0 .. MaxFeeBps

Publish(h) ==
  /\ h \notin published
  /\ published' = published \cup {h}
  /\ \A k \in published : parents'[k] = parents[k] /\ price'[k] = price[k]
  /\ \A i \in DOMAIN parents'[h] : parents'[h][i].parent \in published
  /\ UNCHANGED << feeBps, slashed, volume, earned >>

Settle(h) ==
  /\ h \in published \ slashed
  /\ Remainder(h) >= 0
  /\ volume' = [p \in Hash |-> volume[p] + Count(h, p)]
  /\ earned' = [p \in Hash |-> earned[p] + Gain(h, p)]
  /\ Governed
  /\ UNCHANGED << published, parents, price >>

Govern ==
  /\ Governed
  /\ UNCHANGED << published, parents, price, volume, earned >>

Next == (\E h \in Hash : Publish(h) \/ Settle(h)) \/ Govern

Spec == Init /\ [][Next]_vars
=============================================================================
