---------------------------- MODULE MCAlertWorker ----------------------------
(***************************************************************************)
(* Small instances of AlertWorker with three events, two cameras and two   *)
(* watchlist rows for the same plate.  Event 1 matches both rows; event 2  *)
(* has a camera_id that is no UUID; event 3 comes from the other camera    *)
(* and, depending on the run, matches too, bears a plate nobody looks for, *)
(* or bears none.                                                          *)
(***************************************************************************)
EXTENDS AlertWorker

CONSTANTS c1, c2, p1, p2, w1, w2

MCCameras == {c1, c2}
MCPlates == {p1, p2}
MCEntries == {w1, w2}
MCEntryPlate == [w \in MCEntries |-> p1]

MCCameraOf == [e \in 1..MaxEvents |-> CASE e = 1 -> c1 [] e = 2 -> NoCamera [] OTHER -> c2]

MCPlateOf == [e \in 1..MaxEvents |-> p1]
MCPlateOfClean == [e \in 1..MaxEvents |-> IF e = 3 THEN p2 ELSE p1]
MCPlateOfUnread == [e \in 1..MaxEvents |-> IF e = 3 THEN NoPlate ELSE p1]

=============================================================================
