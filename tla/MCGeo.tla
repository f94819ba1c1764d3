------------------------------- MODULE MCGeo -------------------------------
(***************************************************************************)
(* GeoQuery for TLC, in eighths of a degree. Precision 1 has the cells of  *)
(* a geohash of one character; precision 2 has cells of an eighth of their *)
(* height and a quarter of their width. Positions a and b, just east of    *)
(* the 180th meridian, share all cells; c shares the cell of precision 1   *)
(* with them and no other.                                                 *)
(***************************************************************************)
EXTENDS GeoQuery

Places == {"a", "b", "c"}
Map == [a |-> [lat |-> 480, lng |-> -1436],
        b |-> [lat |-> 484, lng |-> -1430],
        c |-> [lat |-> 480, lng |-> -1300]]

CellHeight == <<360, 45>>
CellWidth  == <<360, 90>>
Hash == [p \in 1..2 |-> [x \in Places |-> CellAt(p, Map[x].lat, Map[x].lng)]]
Geohashes == {Hash[p][x] : p \in 1..2, x \in Places}

(* At a; between a and c, over the meridian; beyond the meridian; at the   *)
(* pole; in the cell next to that of a and b; reaching over the pole to    *)
(* all three, of which the box holds c only.                               *)
AtA     == [lat |-> 480, lng |-> -1436, radius |-> 4]
Between == [lat |-> 480, lng |-> -1400, radius |-> 60]
Beyond  == [lat |-> 480, lng |-> 1436, radius |-> 10]
Pole    == [lat |-> 720, lng |-> 0, radius |-> 300]
NextTo  == [lat |-> 480, lng |-> -1345, radius |-> 50]
Over    == [lat |-> 600, lng |-> 4, radius |-> 368]

Asked == {AtA, Between, Beyond, Pole, NextTo, Over}

Cosine == [lat \in {480, 600, 720} |-> CASE lat = 480 -> 50 [] lat = 600 -> 26 [] lat = 720 -> 0]

(* Great-circle distances, rounded.                                        *)
Distances ==
    [q \in Asked |->
        CASE q = AtA     -> [a |-> 0,   b |-> 5,   c |-> 68]
          [] q = Between -> [a |-> 18,  b |-> 15,  c |-> 50]
          [] q = Beyond  -> [a |-> 4,   b |-> 8,   c |-> 72]
          [] q = Pole    -> [a |-> 240, b |-> 236, c |-> 240]
          [] q = NextTo  -> [a |-> 45,  b |-> 42,  c |-> 22]
          [] q = Over    -> [a |-> 360, b |-> 356, c |-> 356]]

(* Node 2 is a replica of the key of one of the users only.                *)
Held == [u \in Users |-> IF u = CHOOSE v \in Users : TRUE THEN {1} ELSE {1, 2}]
=============================================================================
