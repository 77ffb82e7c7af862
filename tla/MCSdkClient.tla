---------------------------- MODULE MCSdkClient ----------------------------
(***************************************************************************)
(* A small instance of SdkClient for TLC.                                  *)
(***************************************************************************)
EXTENDS SdkClient

PayloadOf(type) == [type |-> type, fields |-> PayloadFields[type]]

File(type, payload, names) ==
  [ type |-> type, body |-> "text", payload |-> PayloadOf(payload), sources |-> names,
    derivation |-> NoDerivation, parents |-> "absent" ]

Full(h) == [kb |-> h, prefixed |-> TRUE]

\* Two roots, and a file whose block has parents and a payload of another type.
Files == { File("rubric", "rubric", << >>), File("synthesis", "synthesis", << >>),
           File("feature", "practice", << Full(1), Full(2) >>) }

\* The forms get the hashes 1, 2, 3 in the order in which they are hashed, and the
\* first is a root.
InOrder ==
  /\ \A h \in Hash \ {1} : digest[h] # NotHashed => digest[h - 1] # NotHashed
  /\ digest[1] # NotHashed => digest[1].sources = << >>

\* Of the fee, the minimum stake and the payees' minds, one at a time is not as it
\* was at first.
OneChange ==
  /\ feeBps # 200 => minStake = FirstMinStake /\ refusing = {}
  /\ minStake # FirstMinStake => refusing = {}

\* Weights whose shares are 612.5 and 9187.5, rounded up to 9801 together; equal
\* weights, from sources that are not sorted; a weight for one source only; and a
\* call without a domain, which also stakes more than the others.
Derived(body, names, weighted, weights, stake) ==
  [ payload |-> PayloadOf("pattern"), body |-> body, names |-> names,
    weighted |-> weighted, weights |-> weights, stake |-> stake, cid |-> TRUE ]
DerivedInputs ==
  { Derived("text", << Full(1), Full(2) >>, TRUE, << 1, 15 >>, 1),
    Derived("text", << Full(2), Full(1) >>, FALSE, << >>, 1),
    Derived("text", << Full(1), Full(2) >>, TRUE, << 1 >>, 1),
    Derived("bare", << Full(1), Full(2) >>, FALSE, << >>, 2) }

TwoParents == { << Full(1), Full(2) >> }

SomeIntents ==
  { [byType |-> TRUE, kbType |-> 0, byDomain |-> TRUE, minScore |-> 1,
     minTrustTier |-> 0, llm |-> TRUE] }
=============================================================================
