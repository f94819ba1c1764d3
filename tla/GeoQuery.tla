------------------------------ MODULE GeoQuery ------------------------------
(***************************************************************************)
(* Radius queries over the geo cache of Geo: the box around a circle, the  *)
(* flood fill that covers a box with cells, and the filter by distance     *)
(* (src/internal/mycel/geo_local.go).                                      *)
(*                                                                         *)
(* Coordinates are whole numbers of one unit of an arc. Cells are those of *)
(* a grid per precision, named by precision, row and column. The geohash   *)
(* library (CellAt, Bounds, Neighbors) is external; cosines and distances  *)
(* are tables.                                                             *)
(***************************************************************************)
EXTENDS Geo

CONSTANTS
    Place,          \* [Positions -> [lat : Int, lng : Int]]
    HalfTurn,       \* 180 degrees: longitudes are in -HalfTurn..HalfTurn
    Height, Width,  \* [Precisions -> Nat]: the size of a cell
    Queries,        \* [lat, lng, radius]: the queries asked (a bound)
    CosPercent,     \* [latitudes of Queries -> 0..100]
    Distance        \* [Queries -> [Positions -> Nat]]: haversineKm

QuarterTurn == HalfTurn \div 2

-----------------------------------------------------------------------------
(* The geohash library.                                                    *)
Rows(p) == (2 * QuarterTurn) \div Height[p]
Columns(p) == (2 * HalfTurn) \div Width[p]

CellAt(p, lat, lng) ==
    LET row == (lat + QuarterTurn) \div Height[p]
        col == (lng + HalfTurn) \div Width[p]
    IN  <<p, IF row < Rows(p) THEN row ELSE Rows(p) - 1, IF col < Columns(p) THEN col ELSE Columns(p) - 1>>

(* East or west of a query, as the difference of the longitudes.           *)
Apart(q, x) == LET d == q.lng - Place[x].lng IN IF d < 0 THEN -d ELSE d

(* The cells of a precision tile the globe, a location is indexed in the   *)
(* cell it lies in, and a distance is at least that of the parallels.      *)
ASSUME GeoQueryAssumption ==
    /\ HalfTurn \in Nat /\ QuarterTurn > 0
    /\ \A p \in Precisions :
         /\ Height[p] \in Nat \ {0} /\ (2 * QuarterTurn) % Height[p] = 0
         /\ Width[p] \in Nat \ {0} /\ (2 * HalfTurn) % Width[p] = 0
    /\ \A x \in Positions :
         /\ Place[x].lat \in -QuarterTurn..QuarterTurn /\ Place[x].lng \in -HalfTurn..HalfTurn
         /\ \A p \in Precisions : Cell[p][x] = CellAt(p, Place[x].lat, Place[x].lng)
    /\ \A q \in Queries :
         /\ q.lat \in -QuarterTurn..QuarterTurn /\ q.lng \in -HalfTurn..HalfTurn
         /\ q.radius \in Nat /\ CosPercent[q.lat] \in 0..100
         /\ \A x \in Positions :
              /\ Distance[q][x] \in Nat
              /\ Place[x].lat \in (q.lat - Distance[q][x])..(q.lat + Distance[q][x])

Bounds(cell) ==
    LET p == cell[1]
    IN  [minLat |-> cell[2] * Height[p] - QuarterTurn, maxLat |-> (cell[2] + 1) * Height[p] - QuarterTurn,
         minLng |-> cell[3] * Width[p] - HalfTurn,     maxLng |-> (cell[3] + 1) * Width[p] - HalfTurn]

Neighbors(cell) ==
    LET p == cell[1]
    IN  {<<p, row, (cell[3] + east) % Columns(p)>> :
            row \in (cell[2] - 1)..(cell[2] + 1) \cap 0..(Rows(p) - 1), east \in {-1, 0, 1}}

-----------------------------------------------------------------------------
Meets(cell, box) ==
    LET b == Bounds(cell)
    IN  /\ b.maxLat >= box.minLat /\ b.minLat <= box.maxLat
        /\ b.maxLng >= box.minLng /\ b.minLng <= box.maxLng

(* The flood fill from the cell in the middle: what has been enqueued in   *)
(* so many rounds, going on from the cells that meet the box.              *)
Middle(box, p) == CellAt(p, (box.minLat + box.maxLat) \div 2, (box.minLng + box.maxLng) \div 2)

Spread(cells, box) == cells \cup UNION {Neighbors(c) : c \in {d \in cells : Meets(d, box)}}

Enqueued(box, p) ==
    LET enqueued[round \in Nat] ==
            IF round = 0 THEN {Middle(box, p)} ELSE Spread(enqueued[round - 1], box)
    IN  enqueued

CoveringCells(box, p) == {c \in Enqueued(box, p)[Rows(p) + Columns(p)] : Meets(c, box)}

(* Mutant of BoxAround: a degree of longitude is as long as one of latitude. *)
BoxAroundFlat(q) ==
    [minLat |-> q.lat - q.radius, maxLat |-> q.lat + q.radius,
     minLng |-> q.lng - q.radius, maxLng |-> q.lng + q.radius]

(* boundingBoxFromRadius: near a pole the cosine counts as next to nothing; *)
(* half a turn to either side is the most.                                 *)
BoxAround(q) ==
    LET cos == CosPercent[q.lat]
        wide == IF cos = 0 THEN HalfTurn ELSE (100 * q.radius) \div cos
        delta == IF wide > HalfTurn THEN HalfTurn ELSE wide
    IN  [minLat |-> q.lat - q.radius, maxLat |-> q.lat + q.radius,
         minLng |-> q.lng - delta,    maxLng |-> q.lng + delta]

InBox(x, box) ==
    /\ box.minLat <= Place[x].lat /\ Place[x].lat <= box.maxLat
    /\ box.minLng <= Place[x].lng /\ Place[x].lng <= box.maxLng

(* The cells of the index that a query looks at, and the positions that    *)
(* pass its two filters.                                                   *)
Looked == [q \in Queries |-> [p \in Precisions |-> CoveringCells(BoxAround(q), p) \cap Cells]]
Passing ==
    [q \in Queries |-> {x \in Positions : InBox(x, BoxAround(q)) /\ Distance[q][x] <= q.radius}]

RadiusQuery(n, q, p) ==
    {u \in Users : /\ Live(n, u) /\ points[n][u].pos \in Passing[q]
                   /\ \E c \in Looked[q][p] : u \in index[n][p][c]}

-----------------------------------------------------------------------------
(* The users whose location is live at a node and within the radius.       *)
Within(n, q) == {u \in Users : Live(n, u) /\ Distance[q][points[n][u].pos] <= q.radius}

(* On the other side of the 180th meridian: the box ends there.            *)
FarSide(q, x) == Apart(q, x) > HalfTurn

(* Farther east or west than the circle reaches on its centre's parallel,  *)
(* which is how wide the box is; nearer to the pole the circle is wider.   *)
PastWidth(q, x) == CosPercent[q.lat] * Apart(q, x) > 100 * q.radius

(* At every precision, RadiusQuery finds only users whose location is live *)
(* and within the radius, and it finds all of those that are neither on    *)
(* the other side of the 180th meridian nor past the box's width: box,     *)
(* flood fill and index leave nobody else out.                             *)
RadiusExact ==
    \A n \in Nodes, p \in Precisions, q \in Queries :
        /\ RadiusQuery(n, q, p) \subseteq Within(n, q)
        /\ {u \in Within(n, q) : ~FarSide(q, points[n][u].pos) /\ ~PastWidth(q, points[n][u].pos)}
             \subseteq RadiusQuery(n, q, p)

(* "RadiusQuery returns all user locations within radiusKm of the given    *)
(* point." (src/internal/mycel/geo.go:44)                                  *)
RadiusFindsAll ==
    \A n \in Nodes, p \in Precisions, q \in Queries : Within(n, q) \subseteq RadiusQuery(n, q, p)
=============================================================================
