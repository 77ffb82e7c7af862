------------------------------ MODULE Licenses ------------------------------
(***************************************************************************)
(* License terms (core/license): the presets, what makes a license valid,  *)
(* when a work under one license may be used in a work under another, and  *)
(* the license of a work that combines several.                            *)
(*                                                                         *)
(* Attribution texts, warnings and the wording of errors are left out; a   *)
(* payout is what the validator asks of it: whether there is an address or *)
(* a price.                                                                *)
(***************************************************************************)
EXTENDS Integers

LicenseTerms ==
  [commercialUse : BOOLEAN, attribution : BOOLEAN, shareAlike : BOOLEAN, derivatives : BOOLEAN]

Terms(commercialUse, attribution, shareAlike, derivatives) ==
  [commercialUse |-> commercialUse, attribution |-> attribution, shareAlike |-> shareAlike,
   derivatives |-> derivatives]

LicenseType ==
  {"CC-BY-4.0", "CC-BY-SA-4.0", "CC-BY-NC-4.0", "CC0-1.0", "MIT", "GPL-3.0", "PROPRIETARY"}

\* payout: whether the license's metadata names an address or a price.
License == [type : LicenseType, terms : LicenseTerms, payout : BOOLEAN]

LICENSE_PRESETS ==
  [type \in LicenseType |->
     CASE type \in {"CC-BY-4.0", "MIT"}        -> Terms(TRUE, TRUE, FALSE, TRUE)
       [] type \in {"CC-BY-SA-4.0", "GPL-3.0"} -> Terms(TRUE, TRUE, TRUE, TRUE)
       [] type = "CC-BY-NC-4.0"                -> Terms(FALSE, TRUE, FALSE, TRUE)
       [] type = "CC0-1.0"                     -> Terms(TRUE, FALSE, FALSE, TRUE)
       [] type = "PROPRIETARY"                 -> Terms(FALSE, FALSE, FALSE, FALSE)]

\* Pairs of the table (constants.ts:48-53).
LICENSE_COMPATIBILITY_MATRIX ==
  ({"CC-BY-4.0"} \X {"CC-BY-4.0", "CC-BY-SA-4.0", "CC-BY-NC-4.0", "MIT"})
  \cup {<< "CC-BY-SA-4.0", "CC-BY-SA-4.0" >>, << "MIT", "MIT" >>, << "MIT", "GPL-3.0" >>,
        << "GPL-3.0", "GPL-3.0" >>}

validateTerms(terms) == terms.shareAlike => terms.derivatives

validateLicense(license) ==
  /\ license.type # "PROPRIETARY" => license.terms = LICENSE_PRESETS[license.type]
  /\ validateTerms(license.terms)
  /\ license.terms.commercialUse => license.payout

areCompatible(source, target) ==
  /\ target.derivatives => source.derivatives
  /\ target.commercialUse => source.commercialUse
  /\ source.shareAlike => target.shareAlike
  /\ source.attribution => target.attribution

CombinedTerms(sources) ==
  Terms(\A terms \in sources : terms.commercialUse, \E terms \in sources : terms.attribution,
        \E terms \in sources : terms.shareAlike, \A terms \in sources : terms.derivatives)

\* The combined license names no payout.
getStrictestLicense(sources) ==
  [type |-> "PROPRIETARY", terms |-> CombinedTerms(sources), payout |-> FALSE]
=============================================================================
