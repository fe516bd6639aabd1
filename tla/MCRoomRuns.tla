---------------------------- MODULE MCRoomRuns ----------------------------
(* Small instances of RoomRuns for TLC.                                       *)
EXTENDS RoomRuns, TLC
CONSTANTS q1, q2
OneRequest  == {q1}
\* Request ids are only compared.
Swap        == Permutations({q1, q2})
Backwards   == {<<1>>, <<2, 1>>}
Everyone    == {<<1, 2, 3>>}
TwoRequests == {q1, q2}
============================================================================
