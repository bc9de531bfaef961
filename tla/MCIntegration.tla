--------------------------- MODULE MCIntegration ---------------------------
(* An instance of Integration for TLC. *)
EXTENDS Integration

(* A behaviour has so many pushes of others, stops and upsets left. *)
Left(moves, stops, upsets) ==
    [moves |-> MaxMoves - moves, stops |-> MaxStops - stops, upsets |-> MaxUpsets - upsets]

Troubles == {Left(1, 1, 0), Left(0, 1, 1), Left(1, 0, 2), Left(2, 0, 1)}
=============================================================================
