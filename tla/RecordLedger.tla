---------------------------- MODULE RecordLedger ----------------------------
(***************************************************************************)
(* What reconciliation owes an external record, whatever runs, failures    *)
(* and crashes there are: once delivered it waits in the queue, has been   *)
(* attached to a place, or both, and it leaves the queue only after it has *)
(* been attached.                                                          *)
(***************************************************************************)
EXTENDS FiniteSets

CONSTANT Records

VARIABLES
    delivered,  \* records an external run has resolved
    waiting,    \* records with a row in the queue
    attached    \* records that have been attached to a place

ledger == <<delivered, waiting, attached>>

Init == delivered = {} /\ waiting = {} /\ attached = {}

\* An external run finds no place for the record.
Wait(rec) ==
    /\ delivered' = delivered \cup {rec}
    /\ waiting' = waiting \cup {rec}
    /\ UNCHANGED attached

\* An external run finds a place for it.
Place(rec) ==
    /\ delivered' = delivered \cup {rec}
    /\ attached' = attached \cup {rec}
    /\ UNCHANGED waiting

\* A sweep finds a place for a record that was delivered earlier.
PlaceLater(rec) ==
    /\ rec \in delivered
    /\ attached' = attached \cup {rec}
    /\ UNCHANGED <<delivered, waiting>>

Leave(rec) ==
    /\ rec \in waiting \cap attached
    /\ waiting' = waiting \ {rec}
    /\ UNCHANGED <<delivered, attached>>

Next == \E rec \in Records : Wait(rec) \/ Place(rec) \/ PlaceLater(rec) \/ Leave(rec)

Spec == Init /\ [][Next]_ledger
=============================================================================
