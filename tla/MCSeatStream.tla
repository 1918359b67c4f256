---------------------------- MODULE MCSeatStream ----------------------------
(* Instance of SeatStream for TLC: two contents of the board, and ticks with *)
(* and without an event.  No action names a content of the board.            *)
EXTENDS SeatStream, TLC

CONSTANTS quiet, busy

EventCount == [l \in Logs |-> IF l = quiet THEN 0 ELSE 1]

CellSymmetry == Permutations(Cells)

=============================================================================
