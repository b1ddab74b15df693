---------------------------- MODULE MCHolderTree ----------------------------
(* Instances of the holder tree for TLC.                                   *)
EXTENDS HolderTree, TLC

CONSTANTS acme, ops, depot, annex

(* A company, a department older than the rule that it needs one, and a    *)
(* location that is the default stock point.                               *)
OldTree ==
    [ e \in Entities |->
        CASE e = acme  -> [type |-> "company", parent |-> NoParent, isDefault |-> FALSE]
          [] e = ops   -> [type |-> "department", parent |-> NoParent, isDefault |-> FALSE]
          [] e = depot -> [type |-> "location", parent |-> acme, isDefault |-> TRUE]
          [] OTHER     -> Unborn ]

Symmetry == Permutations(Handlers)
=============================================================================
