--------------------------- MODULE StatusMachine ---------------------------
(***************************************************************************)
(* The status rules of internal/model: which status may follow which, and  *)
(* how a change of an asset's state is labelled in its timeline.           *)
(*                                                                         *)
(* Statuses are rows of a table, so every rule takes the configured set as *)
(* an argument.  A set of statuses is a function: its domain is the set of *)
(* configured keys, and it maps a key to the row's "terminal" switch.      *)
(* Labels, colours, the display order and counts_as_available are left     *)
(* out: no rule here reads them.                                           *)
(***************************************************************************)

CONSTANTS
    CustomKeys,     \* keys an administrator may add at run time
    Holders,        \* whoever can hold an asset: accounts and entities
    Users,          \* accounts, which can own an asset
    NoState         \* the from_* columns of a create event: all NULL

Builtin == {"in_stock", "in_use", "in_repair", "lost", "retired"}

StatusKeys == Builtin \cup CustomKeys

ASSUME CustomKeysAssumption == CustomKeys \cap Builtin = {}

(* model.AssetState: the triple a transfer moves.                          *)
State == [status : StatusKeys, holder : Holders, owner : Users]

ASSUME NoStateAssumption == NoState \notin State

(* The rows the migration inserts: five built-ins, one of them an end.     *)
SeededStatuses == [k \in Builtin |-> k = "retired"]

LegalTransitions ==
    [ in_stock  |-> {"in_use", "in_repair", "lost", "retired"},
      in_use    |-> {"in_stock", "in_use", "in_repair", "lost", "retired"},
      in_repair |-> {"in_stock", "in_use", "lost", "retired"},
      lost      |-> {"in_stock", "retired"},
      retired   |-> {} ]

(* Variants that leave a rule out, for comparison with the rules below.    *)
IsTerminalNever(set, k) == FALSE
CanTransitionUnlessTerminal(set, from, to) == from = to \/ ~ (from \in DOMAIN set /\ set[from])
EmitsEventAlways(from, to) == TRUE

IsTerminal(set, k) == k \in DOMAIN set /\ set[k]

CanTransition(set, from, to) ==
    \/ from = to
    \/ /\ ~ IsTerminal(set, from)
       /\ (from \in Builtin /\ to \in Builtin) => to \in LegalTransitions[from]

ValidTransition(set, from, to) ==
    /\ to \in DOMAIN set
    /\ CanTransition(set, from, to)

Kinds == {"create", "checkout", "checkin", "status_change", "transfer", "reassign"}

(* The first rule that matches names the event.                            *)
DeriveTransferKind(from, to) ==
    CASE from = NoState -> "create"
      [] from # NoState /\ from.status = "in_stock" /\ to.status = "in_use" -> "checkout"
      [] from # NoState /\ from.status = "in_use" /\ to.status = "in_stock" -> "checkin"
      [] OTHER -> IF from.status # to.status THEN "status_change"
                  ELSE IF from.holder # to.holder THEN "transfer"
                  ELSE "reassign"

(* Whether a change is recorded at all: an edit that moves nothing in the  *)
(* triple does not belong in the timeline.                                 *)
EmitsEvent(from, to) == from # to
=============================================================================
