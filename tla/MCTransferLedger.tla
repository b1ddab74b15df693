-------------------------- MODULE MCTransferLedger --------------------------
(* Instances of the transfer ledger for TLC.                               *)
EXTENDS TransferLedger, TLC

CONSTANTS a1, a2, shelf, desk, ann

St(status, holder, owner) == [status |-> status, holder |-> holder, owner |-> owner]

Ask(ids, many, status, holder, owner, checkIn) ==
    [ ids |-> ids, many |-> many, status |-> status, holder |-> holder,
      owner |-> owner, checkIn |-> checkIn ]

Fix(status, holder) == [status |-> status, holder |-> holder, owner |-> Keep]

Symmetry == Permutations(Workers)

(* One asset under two overlapping transfers, an edit form, corrections,   *)
(* and a custom status that comes and goes.                                *)
RaceRequests ==
    { Ask({a1}, FALSE, "in_use", Keep, Keep, FALSE),
      Ask({a1}, FALSE, "on_loan", Keep, Keep, FALSE),
      Ask({a1}, FALSE, "retired", Keep, Keep, FALSE) }

RaceCorrections == { Fix("in_use", Keep) }

RaceEntries == { St("in_stock", shelf, ann), St("lost", shelf, ann) }

NoHomes == { Keep }

(* Two assets that are imported, sent out, returned and corrected as       *)
(* batches; a form may unset the home of either.                           *)
BatchRequests ==
    { Ask({a1, a2}, TRUE, "in_use", desk, Keep, FALSE),
      Ask({a1, a2}, TRUE, "in_stock", Keep, Keep, TRUE),
      Ask({a1}, FALSE, "lost", Keep, Keep, FALSE) }

BatchCorrections == { Fix("in_repair", Keep) }

BatchEntries == { St("in_use", shelf, ann) }

BatchHomes == { Clear }
=============================================================================
