------------------------- MODULE MCVirtualRegistry -------------------------
(***************************************************************************)
(* A small instance of VirtualRegistry for TLC.                            *)
(***************************************************************************)
EXTENDS VirtualRegistry, TLC

Practice   == [type |-> "practice", fields |-> PayloadFields["practice"]]
Incomplete == [type |-> "practice", fields |-> {"rationale"}]

Written(payload, body, names, parents) ==
  [ type |-> "practice", body |-> body, payload |-> payload, sources |-> names,
    derivation |-> NoDerivation, parents |-> parents ]

\* Roots, with and without leftovers of the first schema.
Roots == {Written(Practice, b, << >>, p) : b \in Body, p \in Parents}

\* Envelopes written by hand: any spelling, any order, one name twice.
Bare(h) == [kb |-> h, prefixed |-> FALSE]
Full(h) == Prefixed(Bare(h))
HandWritten ==
  {Written(Practice, b, names, "absent") : b \in Body, names \in
     {<< Full(h) >> : h \in Hash}
       \cup {<< Bare(h) >> : h \in Hash}
       \cup {<< Full(h), Full(k) >> : h, k \in Hash}
       \cup {<< Bare(h), Full(k) >> : h, k \in Hash}
       \cup {<< Full(h), Bare(k) >> : h, k \in Hash}}
  \cup {Written(Incomplete, b, << Full(1) >>, "absent") : b \in Body}

\* Envelopes that the library built, one of them from an input it does not cite.
Built ==
  {buildDerivedEnvelope(Practice, b, << Bare(h) >>, << Bare(k) >>)
     : b \in Body, h \in {1, 2}, k \in {1, 2}}

Callers == Roots \cup HandWritten \cup Built

Symmetry == Permutations(Call) \cup Permutations(Curator)
=============================================================================
