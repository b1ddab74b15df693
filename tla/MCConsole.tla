------------------------------ MODULE MCConsole ------------------------------
(* The console's instance for TLC.                                         *)
EXTENDS Console, TLC

CONSTANTS d1, d2, d3, c1, m1, k1, k2, x, u1, u2, u3, h1, h2, l1, l2

ThreeDevices == <<d3, d2, d1>>

OneCategory == [ d \in {d1, d2, d3} |-> c1 ]

TwoOfTheModel == (d1 :> None) @@ (d2 :> m1) @@ (d3 :> m1)

OneOrTwo == <<1, 2>>

(* The model gives k1 a value.                                             *)
OneDefault == m1 :> ((k1 :> x) @@ (k2 :> Nothing))

(* No label, either, or both.                                              *)
UpToTwoLabels == { <<>>, <<l1>>, <<l2>>, <<l1, l2>>, <<l2, l1>> }

TwoCategories == <<"router", "switch">>

(* A device of the model, as it is when it has just been recorded, and two *)
(* categories, one with a choice of labels.                                *)
Started ==
    /\ ConsoleInit
    /\ row = [ version |-> 1, attrs |-> Defaults[m1], model |-> m1, place |-> "stock" ]
    /\ labels = ("router" :> <<l1, l2>>) @@ ("switch" :> <<l1>>)

Symmetry == Permutations({u1, u2, u3}) \cup Permutations({h1, h2})

MCSpec == Started /\ [][ConsoleNext]_consoleVars
=============================================================================
