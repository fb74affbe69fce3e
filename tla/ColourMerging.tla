---------------------------- MODULE ColourMerging ----------------------------
(***************************************************************************)
(* How three frames become one colour picture: the layout of the matrices  *)
(* CAL that End Calibration inverts, and the order in which the run-mode   *)
(* listener puts the three products on the screen.  Which light a frame was*)
(* taken in is all that is said of it.                                     *)
(***************************************************************************)
EXTENDS Naturals

Colours == {"red", "green", "blue"}

(* The calibration frames in CAL, by the code each was filed under: rows as*)
(* the frames A, B and C, columns as the matrices Red, Green and Blue.     *)
CAL == <<<<1, 6, 8>>, <<2, 4, 9>>, <<3, 5, 7>>>>

(* The pictures r, g and b, and the matrix each comes from.                *)
Matrix == [r |-> "Red", g |-> "Green", b |-> "Blue"]
Column == [r |-> 1, g |-> 2, b |-> 3]

(* Mutant: the second order is a reflection and not a rotation.            *)
OrdersReflected == [order \in 1..3 |->
    CASE order = 1 -> [red |-> "b", green |-> "r", blue |-> "g"]
      [] order = 2 -> [red |-> "g", green |-> "r", blue |-> "b"]
      [] order = 3 -> [red |-> "r", green |-> "g", blue |-> "b"]]

(* The picture that each channel of the screen gets, by frameOrder.        *)
Orders == [order \in 1..3 |->
    CASE order = 1 -> [red |-> "b", green |-> "r", blue |-> "g"]
      [] order = 2 -> [red |-> "g", green |-> "b", blue |-> "r"]
      [] order = 3 -> [red |-> "r", green |-> "g", blue |-> "b"]]

(* The lights a channel of the screen shows: the inverse of CAL takes, for *)
(* each column, the frames of the rows in which that column is lit.        *)
Shown(order, c, cal, frames) ==
    LET column == Column[Orders[order][c]]
    IN  {frames[9 + row] : row \in {i \in 1..3 : cal[CAL[i][column]] # {}}}

(* An order of the three that shows every colour in its place.             *)
Fits(order, cal, frames) ==
    \A c \in Colours : Shown(order, c, cal, frames) = {{c}}
=============================================================================
