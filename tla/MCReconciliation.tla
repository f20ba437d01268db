------------------------- MODULE MCReconciliation -------------------------
(* Instances of Reconciliation for TLC. A place says one of two things: the  *)
(* first is near every record and matches u well and v barely, the second    *)
(* matches u with low confidence, is near v without matching it.             *)
EXTENDS Reconciliation

CONSTANTS p1, p2, a1, a2, u, v, w1, w2, wheelmap

MCSourceOf == [r \in Records |-> wheelmap]

MCScore ==
    [pair \in RecordVersions \X PlaceVersions |->
        CASE pair[1] = u /\ pair[2] = w1 -> 90
          [] pair[1] = u /\ pair[2] = w2 -> 60
          [] pair[1] = v /\ pair[2] = w1 -> 55
          [] OTHER -> 30]

MCNear == RecordVersions \X PlaceVersions

FullImport == {Places}
=============================================================================
