-------------------------- MODULE MCAttributeStore --------------------------
(* Instances of the attribute store for TLC, over schemas set up before.   *)
EXTENDS AttributeStore, TLC

CONSTANTS racks, blades, sn, label, m1, kSn, kLabel, lower, upper, other

(* lower is a spelling of upper.                                              *)
OneSpelling == (lower :> upper) @@ (other :> other)

(* A template shows what it reads.                                         *)
Show(reads, attrs) == IF reads = {} THEN other ELSE attrs[CHOOSE k \in reads : TRUE]

SnAndLabel == (sn :> kSn) @@ (label :> kLabel)

SnOrNothing == {{kSn}, {}}

(* Nothing under way, but a field that is about to be deleted perhaps.     *)
Quiet ==
    /\ vendors = {}
    /\ searched = Computed
    /\ saves = [s \in Session |-> Idle]
    /\ renumbering = Idle
    /\ edits = 0

(* No asset yet, or one with a serial number, saved before the label was    *)
(* bound.                                                                  *)
Stocked(stock, device, scope) ==
    LET attrs == (kSn :> upper) @@ (kLabel :> Nothing)
        row == [ cat |-> racks, model |-> device, attrs |-> attrs, version |-> 1 ]
        slot == [ key |-> kSn, value |-> upper, scope |-> scope ]
    IN  /\ rows = [ a \in Asset |-> IF a \in stock THEN row ELSE Absent ]
        /\ slots = [ a \in Asset |-> IF a \in stock THEN {slot} ELSE {} ]
        /\ found = [ a \in Asset |-> IF a \in stock THEN {<<kSn, upper>>} ELSE {} ]

(* blades under racks; the unique serial number is asked of every rack, or *)
(* of one model; the label shows it, or is the same for all.               *)
Configured ==
    /\ categories = (racks :> [parent |-> NoParent, path |-> <<racks>>, display |-> NoKey])
                 @@ (blades :> [parent |-> racks, path |-> <<racks, blades>>, display |-> NoKey])
    /\ \E stock \in {{}} \cup { {a} : a \in Asset } :
          \/ /\ models = (m1 :> Absent)
             /\ bound = {<<racks, sn>>, <<racks, label>>}
             /\ fields = (sn :> [required |-> TRUE, reads |-> {}])
                      @@ (label :> [required |-> FALSE, reads |-> {kSn}])
             /\ deleting = Idle /\ stock = {}
             /\ Stocked({}, NoModel, racks)
          \/ /\ models = (m1 :> NoVendor)
             /\ bound = {<<m1, sn>>, <<racks, label>>}
             /\ fields = (sn :> [required |-> FALSE, reads |-> {}])
                      @@ (label :> [required |-> FALSE, reads |-> {}])
             /\ deleting = (IF stock = {} THEN Idle ELSE sn)
             /\ Stocked(stock, m1, sn)
    /\ Quiet

Symmetry == Permutations(Asset)

MCSpec == Configured /\ [][StoreNext]_storeVars
=============================================================================
