------------------------------ MODULE MCFields ------------------------------
(* An instance of the fields for TLC.                                      *)
EXTENDS Fields, TLC

CONSTANTS racks, blades, sn1, sn2, label, kSn, kLabel,
          mine, theirs, old, new, branch, office, gateway, maker, w1, w2

(* Two fields for one key, and a computed one.                             *)
TwoKeys == (sn1 :> kSn) @@ (sn2 :> kSn) @@ (label :> kLabel)

(* The other key, or its own.                                              *)
SmallTemplates == {{kSn}, {kLabel}}

(* A model and its vendor.                                                 *)
ModelAndVendor == {<<gateway, maker>>}

Symmetry ==
    UNION { Permutations({mine, theirs}), Permutations({old, new}),
            Permutations({branch, office}), Permutations({w1, w2}) }

(* What is not looked at does not multiply the states.                     *)
Started ==
    /\ FieldsInit
    /\ view = "schema" => rule = old /\ hung = {}

MCSpec == Started /\ [][FieldsNext]_fieldsVars
=============================================================================
