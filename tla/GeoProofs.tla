----------------------------- MODULE GeoProofs -----------------------------
(***************************************************************************)
(* Proofs about Geo for any number of nodes, users, positions, precisions  *)
(* and calls.                                                              *)
(***************************************************************************)
EXTENDS GeoQuery, WellFoundedInduction, TLAPS

(* A call that was made has a node and a user, and a SetLocation a place.  *)
OpOK ==
    \A i \in Ops : op[i].kind # "none" =>
        /\ op[i].at \in Nodes /\ op[i].user \in Users
        /\ op[i].kind = "set" => op[i].pos \in Positions

Typed == TypeOK /\ OpOK

(* What writing one place of a nested table leaves behind.                 *)
LEMMA TableWrite ==
    ASSUME NEW A, NEW B, NEW C, NEW f \in [A -> [B -> C]], NEW a \in A, NEW b \in B, NEW c \in C
    PROVE  /\ [f EXCEPT ![a][b] = c] \in [A -> [B -> C]]
           /\ \A x \in A, y \in B : [f EXCEPT ![a][b] = c][x][y]
                                      = IF x = a /\ y = b THEN c ELSE f[x][y]
  OBVIOUS

(* A call that is somewhere was made.                                      *)
LEMMA JobHasCall ==
    ASSUME TypeOK, NEW i \in Ops, NEW n \in Nodes, job[i][n] # "none"
    PROVE  op[i].kind # "none"
<1>1. \A j \in Ops, m \in Nodes : /\ job[j][m] # "none" => op[j].kind # "none"
                                  /\ job[j][m] = "sent" => op[j].at # m
  BY Zenon DEF TypeOK
<1>2. \A j \in Ops, m \in Nodes : job[j][m] # "none" => op[j].kind # "none"
  BY <1>1
<1> QED BY <1>2

(* The step a call takes next, on the node where it is active.             *)
LEMMA JobWrite ==
    ASSUME Typed, NEW i \in Ops, NEW n \in Nodes,
           NEW s \in {"geo", "lru", "undo", "send", "done"},
           op[i].kind # "none", op' = op, Goto(i, n, s)
    PROVE  /\ job' \in [Ops -> [Nodes -> {"none", "sent", "geo", "lru", "undo", "send", "done"}]]
           /\ \A j \in Ops, m \in Nodes : /\ job'[j][m] # "none" => op'[j].kind # "none"
                                          /\ job'[j][m] = "sent" => op'[j].at # m
  BY TableWrite DEF Typed, TypeOK, Goto

(* Taking a user out of the cells of a position and putting it in touches  *)
(* these cells only.                                                       *)
Index == [Precisions -> [Cells -> SUBSET Users]]

(* Cells of the index without a user.                                      *)
LEMMA WithoutCells ==
    ASSUME NEW ix \in Index, NEW u \in Users, NEW x \in Positions
    PROVE  /\ Without(ix, u, x) \in Index
           /\ \A p \in Precisions, c \in Cells :
                Without(ix, u, x)[p][c] = IF c = Cell[p][x] THEN ix[p][c] \ {u} ELSE ix[p][c]
<1> DEFINE new(p) == [ix[p] EXCEPT ![Cell[p][x]] = ix[p][Cell[p][x]] \ {u}]
<1>1. ASSUME NEW p \in Precisions
      PROVE  /\ new(p) \in [Cells -> SUBSET Users]
             /\ \A c \in Cells : new(p)[c] = IF c = Cell[p][x] THEN ix[p][c] \ {u} ELSE ix[p][c]
  <2>1. Cell[p][x] \in Cells /\ ix[p] \in [Cells -> SUBSET Users]
    BY <1>1, GeoAssumption DEF Index
  <2> QED BY <2>1
<1>2. Without(ix, u, x) = [p \in Precisions |-> new(p)]
  BY DEF Without
<1> HIDE DEF new
<1>3. Without(ix, u, x) \in Index
  <2>1. \A p \in Precisions : new(p) \in [Cells -> SUBSET Users]
    BY <1>1
  <2> QED BY <1>2, <2>1 DEF Index
<1>4. ASSUME NEW p \in Precisions, NEW c \in Cells
      PROVE  Without(ix, u, x)[p][c] = IF c = Cell[p][x] THEN ix[p][c] \ {u} ELSE ix[p][c]
  <2>1. Without(ix, u, x)[p] = new(p)
    BY <1>2
  <2> QED BY <1>1, <2>1
<1> QED BY <1>3, <1>4

(* Cells of the index with a user put in at its position.                  *)
LEMMA WithCells ==
    ASSUME NEW ix \in Index, NEW u \in Users, NEW x \in Positions
    PROVE  /\ With(ix, u, x) \in Index
           /\ \A p \in Precisions, c \in Cells, v \in Users :
                v \in With(ix, u, x)[p][c] <=> v \in ix[p][c] \/ (v = u /\ c = Cell[p][x])
<1> DEFINE new(p) == [ix[p] EXCEPT ![Cell[p][x]] = ix[p][Cell[p][x]] \cup {u}]
<1>1. ASSUME NEW p \in Precisions
      PROVE  /\ new(p) \in [Cells -> SUBSET Users]
             /\ \A c \in Cells : new(p)[c] = IF c = Cell[p][x] THEN ix[p][c] \cup {u} ELSE ix[p][c]
  <2>1. Cell[p][x] \in Cells /\ ix[p] \in [Cells -> SUBSET Users]
    BY <1>1, GeoAssumption DEF Index
  <2> QED BY <2>1
<1>2. With(ix, u, x) = [p \in Precisions |-> new(p)]
  BY DEF With
<1> HIDE DEF new
<1>3. With(ix, u, x) \in Index
  <2>1. \A p \in Precisions : new(p) \in [Cells -> SUBSET Users]
    BY <1>1
  <2> QED BY <1>2, <2>1 DEF Index
<1>4. ASSUME NEW p \in Precisions, NEW c \in Cells
      PROVE  With(ix, u, x)[p][c] = IF c = Cell[p][x] THEN ix[p][c] \cup {u} ELSE ix[p][c]
  <2>1. With(ix, u, x)[p] = new(p)
    BY <1>2
  <2> QED BY <1>1, <2>1
<1>5. ASSUME NEW p \in Precisions, NEW c \in Cells, NEW v \in Users
      PROVE  v \in With(ix, u, x)[p][c] <=> v \in ix[p][c] \/ (v = u /\ c = Cell[p][x])
  BY <1>4
<1> QED BY <1>3, <1>5

(* deleteLocationLocal keeps the types of the store.                       *)
LEMMA GeoRemoveType ==
    ASSUME TypeOK, NEW n \in Nodes, NEW u \in Users, GeoRemove(n, u)
    PROVE  /\ points' \in [Nodes -> [Users -> Entry \cup {Nil}]]
           /\ index' \in [Nodes -> Index]
<1>1. points' = [points EXCEPT ![n][u] = Nil]
  BY DEF GeoRemove
<1>2. index \in [Nodes -> Index]
  BY DEF TypeOK, Index
<1>3. CASE points[n][u] = Nil
  <2>1. index' = index
    BY <1>3 DEF GeoRemove
  <2> QED BY <1>1, <1>2, <2>1, TableWrite DEF TypeOK
<1>4. CASE points[n][u] # Nil
  <2>1. points[n][u].pos \in Positions
    BY <1>4 DEF TypeOK, Entry
  <2>2. Without(index[n], u, points[n][u].pos) \in Index
    BY <1>2, <2>1, WithoutCells
  <2>3. index' = [index EXCEPT ![n] = Without(index[n], u, points[n][u].pos)]
    BY <1>4 DEF GeoRemove
  <2> QED BY <1>1, <1>2, <2>2, <2>3, TableWrite DEF TypeOK
<1> QED BY <1>3, <1>4

(* The entry a call writes, and what it leaves in the LRU bucket.          *)
LEMMA EntryType ==
    ASSUME Typed, NEW i \in Ops, op[i].kind = "set"
    PROVE  [pos |-> op[i].pos, exp |-> op[i].exp] \in Entry
  BY DEF Typed, TypeOK, OpOK, Op, Entry

(* The LRU bucket keeps its type in setLocal.                              *)
LEMMA SetLocalType ==
    ASSUME TypeOK, NEW n \in Nodes, NEW u \in Users, NEW e \in Entry, SetLocal(n, u, e)
    PROVE  lru' \in [Nodes -> [Users -> Entry \cup {Nil}]] /\ clean' \in BOOLEAN
<1>1. [lru[n] EXCEPT ![u] = e] \in [Users -> Entry \cup {Nil}]
  BY DEF TypeOK
<1>2. \A v \in Users : [[lru[n] EXCEPT ![u] = e] EXCEPT ![v] = Nil] \in [Users -> Entry \cup {Nil}]
  BY <1>1
<1>3. clean' \in BOOLEAN
  BY DEF SetLocal, TypeOK
<1>4. \E f \in [Users -> Entry \cup {Nil}] : lru' = [lru EXCEPT ![n] = f]
  BY <1>1, <1>2 DEF SetLocal, LruUsers
<1> QED BY <1>3, <1>4 DEF TypeOK

(* A broadcast changes nothing of a call but the deadline it carries.      *)
LEMMA BroadcastCall ==
    ASSUME Typed, NEW i \in Ops, Broadcast(i)
    PROVE  /\ op' \in [Ops -> Op]
           /\ \A j \in Ops : /\ op'[j].kind = op[j].kind /\ op'[j].at = op[j].at
                             /\ op'[j].user = op[j].user /\ op'[j].pos = op[j].pos
<1> DEFINE n == op[i].at
           entry == points[n][op[i].user]
<1>1. n \in Nodes /\ op[i].user \in Users /\ op[i] \in Op /\ op \in [Ops -> Op]
  BY DEF Typed, TypeOK, OpOK, Broadcast
<1>2. entry # Nil => entry.exp \in Ops \cup {Nil}
  BY <1>1 DEF Typed, TypeOK, Entry
<1>3. op' = op \/ \E e \in Ops \cup {Nil} : op' = [op EXCEPT ![i].exp = e]
  BY <1>2 DEF Broadcast
<1>4. CASE op' = op
  BY <1>1, <1>4
<1>5. ASSUME NEW e \in Ops \cup {Nil}, op' = [op EXCEPT ![i].exp = e]
      PROVE  /\ op' \in [Ops -> Op]
             /\ \A j \in Ops : /\ op'[j].kind = op[j].kind /\ op'[j].at = op[j].at
                               /\ op'[j].user = op[j].user /\ op'[j].pos = op[j].pos
  <2> DEFINE call == [op[i] EXCEPT !.exp = e]
  <2>1. /\ call \in Op /\ call.kind = op[i].kind /\ call.at = op[i].at
        /\ call.user = op[i].user /\ call.pos = op[i].pos
    BY <1>1 DEF Op
  <2>2. op' = [op EXCEPT ![i] = call]
    BY <1>5
  <2> HIDE DEF call
  <2> QED BY <1>1, <2>1, <2>2
<1> QED BY <1>3, <1>4, <1>5

(* Every step keeps the types.                                             *)
LEMMA TypeStep == Typed /\ [Next]_vars => Typed'
<1> SUFFICES ASSUME Typed, [Next]_vars PROVE Typed'
  OBVIOUS
<1> USE GeoAssumption
<1>0. TypeOK /\ OpOK
  BY DEF Typed
<1>a. \A i \in Ops, n \in Nodes : NextStep(i, n) \in {"send", "done"}
  BY DEF NextStep
<1>1. ASSUME NEW i \in Ops, NEW n \in Nodes, NEW u \in Users, NEW x \in Positions, CallSet(i, n, u, x)
      PROVE  Typed'
  <2> DEFINE call == [kind |-> "set", at |-> n, user |-> u, pos |-> x, exp |-> i]
  <2>1. call \in Op
    BY DEF Op
  <2>2. op' = [op EXCEPT ![i] = call] /\ op[i].kind = "none"
    BY <1>1 DEF CallSet
  <2>3. op' \in [Ops -> Op] /\ OpOK'
    BY <1>0, <2>1, <2>2 DEF TypeOK, OpOK
  <2>4. PICK s \in {"geo", "done"} : Goto(i, n, s)
    BY <1>1 DEF CallSet
  <2>5. \A j \in Ops : j # i => op'[j] = op[j]
    BY <1>0, <2>2 DEF TypeOK
  <2>6. op'[i].kind = "set" /\ \A m \in Nodes : job[i][m] = "none"
    BY <1>0, <2>2, JobHasCall DEF TypeOK
  <2>7. job' \in [Ops -> [Nodes -> {"none", "sent", "geo", "lru", "undo", "send", "done"}]]
    BY <1>0, <2>4, TableWrite DEF TypeOK, Goto
  <2>8. \A j \in Ops, m \in Nodes : job'[j][m] = IF j = i /\ m = n THEN s ELSE job[j][m]
    BY <1>0, <2>4, TableWrite DEF TypeOK, Goto
  <2>9. ASSUME NEW j \in Ops, NEW m \in Nodes
        PROVE  /\ job'[j][m] # "none" => op'[j].kind # "none"
               /\ job'[j][m] = "sent" => op'[j].at # m
    <3>1. CASE j = i
      BY <2>4, <2>6, <2>8, <3>1
    <3>2. CASE j # i
      <4>1. job'[j][m] = job[j][m] /\ op'[j] = op[j]
        BY <2>5, <2>8, <3>2
      <4> QED BY <1>0, <4>1 DEF TypeOK
    <3> QED BY <3>1, <3>2
  <2>10. /\ UNCHANGED <<store, points, index, lru, dead>>
         /\ clean' \in BOOLEAN
    BY <1>0, <1>1 DEF CallSet, TypeOK
  <2> QED BY <1>0, <2>3, <2>7, <2>9, <2>10 DEF Typed, TypeOK
<1>2. ASSUME NEW i \in Ops, NEW n \in Nodes, NEW u \in Users, CallDelete(i, n, u)
      PROVE  Typed'
  BY <1>0, <1>2 DEF Typed, TypeOK, OpOK, CallDelete, Goto, Op
<1>3. ASSUME NEW i \in Ops, NEW n \in Nodes, Receive(i, n) PROVE Typed'
  <2>1. op[i].kind # "none" /\ op' = op
    BY <1>0, <1>3, JobHasCall DEF Receive
  <2>2. Goto(i, n, "done") \/ Goto(i, n, "geo")
    BY <1>3 DEF Receive
  <2> QED BY <1>0, <1>3, <2>1, <2>2, JobWrite DEF Typed, TypeOK, OpOK, Receive
<1>4. ASSUME NEW i \in Ops, NEW n \in Nodes, GeoSet(i, n) PROVE Typed'
  <2> DEFINE u == op[i].user
             old == points[n][u]
             ix == IF old # Nil /\ Cell[MaxPrecision][old.pos] # Cell[MaxPrecision][op[i].pos]
                   THEN Without(index[n], u, old.pos) ELSE index[n]
  <2>1. u \in Users /\ op[i].pos \in Positions /\ op' = op /\ op[i].kind # "none"
    BY <1>0, <1>4 DEF OpOK, GeoSet
  <2>2. ix \in Index
    <3>1. index[n] \in Index
      BY <1>0 DEF TypeOK, Index
    <3>2. old # Nil => old.pos \in Positions
      BY <1>0, <2>1 DEF TypeOK, Entry
    <3> QED BY <2>1, <3>1, <3>2, WithoutCells
  <2>3. index' = [index EXCEPT ![n] = With(ix, u, op[i].pos)]
    BY <1>4 DEF GeoSet
  <2> HIDE DEF ix
  <2>4. With(ix, u, op[i].pos) \in Index
    BY <2>1, <2>2, WithCells
  <2>5. index' \in [Nodes -> [Precisions -> [Cells -> SUBSET Users]]]
    BY <1>0, <2>3, <2>4 DEF TypeOK, Index
  <2>6. points' \in [Nodes -> [Users -> Entry \cup {Nil}]]
    BY <1>0, <1>4, <2>1, EntryType, TableWrite DEF Typed, TypeOK, GeoSet
  <2> QED BY <1>0, <1>4, <2>1, <2>5, <2>6, JobWrite DEF Typed, TypeOK, OpOK, GeoSet
<1>5. ASSUME NEW i \in Ops, NEW n \in Nodes, LruSet(i, n) PROVE Typed'
  <2>1. op[i].kind # "none" /\ op[i].user \in Users /\ op' = op
    BY <1>0, <1>5 DEF OpOK, LruSet
  <2>2. lru' \in [Nodes -> [Users -> Entry \cup {Nil}]] /\ clean' \in BOOLEAN
    BY <1>0, <1>5, <2>1, EntryType, SetLocalType DEF LruSet, TypeOK
  <2>3. \E s \in {"undo", "send", "done"} : Goto(i, n, s)
    BY <1>5, <1>a DEF LruSet
  <2> QED BY <1>0, <1>5, <2>1, <2>2, <2>3, JobWrite DEF Typed, TypeOK, OpOK, LruSet
<1>6. ASSUME NEW i \in Ops, NEW n \in Nodes, Undo(i, n) PROVE Typed'
  <2>1. op[i].kind # "none" /\ op[i].user \in Users /\ op' = op
    BY <1>0, <1>6, JobHasCall DEF OpOK, Undo
  <2> QED BY <1>0, <1>6, <2>1, GeoRemoveType, JobWrite DEF Typed, TypeOK, OpOK, Undo, Index
<1>7. ASSUME NEW i \in Ops, NEW n \in Nodes, GeoDelete(i, n) PROVE Typed'
  <2>1. op[i].kind # "none" /\ op[i].user \in Users /\ op' = op
    BY <1>0, <1>7 DEF OpOK, GeoDelete
  <2> QED BY <1>0, <1>7, <2>1, GeoRemoveType, JobWrite DEF Typed, TypeOK, OpOK, GeoDelete, Index
<1>8. ASSUME NEW i \in Ops, NEW n \in Nodes, LruDelete(i, n) PROVE Typed'
  <2>1. op[i].kind # "none" /\ op[i].user \in Users /\ op' = op
    BY <1>0, <1>8 DEF OpOK, LruDelete
  <2>2. lru' \in [Nodes -> [Users -> Entry \cup {Nil}]]
    BY <1>0, <1>8, <2>1, TableWrite DEF TypeOK, LruDelete
  <2>3. \E s \in {"send", "done"} : Goto(i, n, s)
    BY <1>8, <1>a DEF LruDelete
  <2> QED BY <1>0, <1>8, <2>1, <2>2, <2>3, JobWrite DEF Typed, TypeOK, OpOK, LruDelete
<1>9. ASSUME NEW i \in Ops, NEW n \in Nodes, Lose(i, n) PROVE Typed'
  <2>1. op[i].kind # "none" /\ op' = op
    BY <1>0, <1>9, JobHasCall DEF Lose
  <2> QED BY <1>0, <1>9, <2>1, JobWrite DEF Typed, TypeOK, OpOK, Lose
<1>10. ASSUME NEW i \in Ops, Broadcast(i) PROVE Typed'
  <2>4. /\ op' \in [Ops -> Op]
        /\ \A j \in Ops : /\ op'[j].kind = op[j].kind /\ op'[j].at = op[j].at
                          /\ op'[j].user = op[j].user /\ op'[j].pos = op[j].pos
    BY <1>10, BroadcastCall
  <2>5. OpOK'
    BY <1>0, <2>4 DEF OpOK
  <2>6. job' = [job EXCEPT ![i] = [m \in Nodes |-> IF m = op[i].at THEN "done" ELSE "sent"]]
    BY <1>10 DEF Broadcast
  <2>7. job' \in [Ops -> [Nodes -> {"none", "sent", "geo", "lru", "undo", "send", "done"}]]
    BY <1>0, <2>6 DEF TypeOK
  <2>8. \A j \in Ops, m \in Nodes : /\ job'[j][m] # "none" => op'[j].kind # "none"
                                    /\ job'[j][m] = "sent" => op'[j].at # m
    BY <1>0, <1>10, <2>4, <2>6 DEF TypeOK, Broadcast
  <2> QED BY <1>0, <1>10, <2>4, <2>5, <2>7, <2>8 DEF Typed, TypeOK, Broadcast
<1>11. ASSUME NEW i \in Ops, Expire(i) PROVE Typed'
  BY <1>0, <1>11 DEF Typed, TypeOK, OpOK, Expire
<1>12. ASSUME NEW n \in Nodes, NEW m \in Nodes, NEW u \in Users, TtlDelete(n, u, m) PROVE Typed'
  <2>1. lru' \in [Nodes -> [Users -> Entry \cup {Nil}]]
    BY <1>0, <1>12, TableWrite DEF TypeOK, TtlDelete
  <2> QED BY <1>0, <1>12, <2>1 DEF Typed, TypeOK, OpOK, TtlDelete
<1>13. ASSUME NEW n \in Nodes, NEW u \in Users, RebDrop(n, u) PROVE Typed'
  <2>1. lru' \in [Nodes -> [Users -> Entry \cup {Nil}]]
    BY <1>0, <1>13, TableWrite DEF TypeOK, RebDrop
  <2> QED BY <1>0, <1>13, <2>1 DEF Typed, TypeOK, OpOK, RebDrop
<1>14. ASSUME NEW n \in Nodes, NEW m \in Nodes, NEW u \in Users, RebCopy(n, u, m) PROVE Typed'
  <2>1. lru[n][u] \in Entry
    BY <1>0, <1>14 DEF TypeOK, RebCopy
  <2>2. lru' \in [Nodes -> [Users -> Entry \cup {Nil}]] /\ clean' \in BOOLEAN
    BY <1>0, <1>14, <2>1, SetLocalType DEF RebCopy
  <2> QED BY <1>0, <1>14, <2>2 DEF Typed, TypeOK, OpOK, RebCopy
<1>15. CASE UNCHANGED vars
  BY <1>0, <1>15 DEF Typed, TypeOK, OpOK, vars
<1> QED
  BY <1>1, <1>2, <1>3, <1>4, <1>5, <1>6, <1>7, <1>8, <1>9, <1>10, <1>11, <1>12, <1>13, <1>14, <1>15
  DEF Next, Client, Background, JobStep

(* Type correctness: calls, messages and stores keep their types, and      *)
(* nobody is sent a message of its own.                                    *)
THEOREM GeoTypeCorrect == Spec => []TypeOK
<1>1. Init => Typed
  BY GeoAssumption DEF Init, Typed, TypeOK, OpOK, Op
<1>2. Typed => TypeOK
  BY DEF Typed
<1> QED BY <1>1, <1>2, TypeStep, PTL DEF Spec

-----------------------------------------------------------------------------
(* One node's index against its locations: IndexMatches, node by node.     *)
Matches(ix, pt) ==
    \A p \in Precisions, c \in Cells :
        ix[p][c] = {u \in Users : pt[u] # Nil /\ Cell[p][pt[u].pos] = c}

Points == [Users -> Entry \cup {Nil}]

(* Taking a user out of the cells of its location and dropping the         *)
(* location keeps the two together.                                        *)
LEMMA RemoveMatches ==
    ASSUME NEW ix \in Index, NEW pt \in Points, NEW u \in Users, Matches(ix, pt), pt[u] # Nil
    PROVE  Matches(Without(ix, u, pt[u].pos), [pt EXCEPT ![u] = Nil])
<1> DEFINE x == pt[u].pos
<1>1. x \in Positions
  BY DEF Points, Entry
<1> DEFINE new == [pt EXCEPT ![u] = Nil]
<1> HIDE DEF x
<1>2. ASSUME NEW p \in Precisions, NEW c \in Cells
      PROVE  Without(ix, u, x)[p][c] = {v \in Users : new[v] # Nil /\ Cell[p][new[v].pos] = c}
  <2>1. Without(ix, u, x)[p][c] = IF c = Cell[p][x] THEN ix[p][c] \ {u} ELSE ix[p][c]
    BY <1>1, WithoutCells
  <2>2. ix[p][c] = {v \in Users : pt[v] # Nil /\ Cell[p][pt[v].pos] = c}
    BY DEF Matches
  <2>3. new[u] = Nil /\ \A v \in Users \ {u} : new[v] = pt[v]
    BY DEF Points
  <2> HIDE DEF new
  <2>4. \A v \in Users : v \in Without(ix, u, x)[p][c] <=> new[v] # Nil /\ Cell[p][new[v].pos] = c
    BY <2>1, <2>2, <2>3 DEF x
  <2>5. Without(ix, u, x)[p][c] \subseteq Users
    BY <2>1, <2>2
  <2> QED BY <2>4, <2>5
<1> QED BY <1>2 DEF Matches, x

(* Entering a location keeps the two together when the user was in no cell *)
(* or is in the cells of the new location.                                 *)
LEMMA PutMatches ==
    ASSUME NEW ix \in Index, NEW pt \in Points, NEW u \in Users, NEW e \in Entry,
           Matches(ix, pt),
           pt[u] # Nil => \A p \in Precisions : Cell[p][pt[u].pos] = Cell[p][e.pos]
    PROVE  Matches(With(ix, u, e.pos), [pt EXCEPT ![u] = e])
<1> DEFINE x == e.pos
<1>1. x \in Positions /\ e # Nil
  BY GeoAssumption DEF Entry
<1> DEFINE new == [pt EXCEPT ![u] = e]
<1> HIDE DEF x
<1>2. ASSUME NEW p \in Precisions, NEW c \in Cells
      PROVE  With(ix, u, x)[p][c] = {v \in Users : new[v] # Nil /\ Cell[p][new[v].pos] = c}
  <2>1. \A v \in Users : v \in With(ix, u, x)[p][c] <=> v \in ix[p][c] \/ (v = u /\ c = Cell[p][x])
    BY <1>1, WithCells
  <2>2. ix[p][c] = {v \in Users : pt[v] # Nil /\ Cell[p][pt[v].pos] = c}
    BY DEF Matches
  <2>3. new[u] = e /\ \A v \in Users \ {u} : new[v] = pt[v]
    BY DEF Points
  <2> HIDE DEF new
  <2>4. \A v \in Users : v \in With(ix, u, x)[p][c] <=> new[v] # Nil /\ Cell[p][new[v].pos] = c
    BY <1>1, <2>1, <2>2, <2>3 DEF x
  <2>5. With(ix, u, x)[p][c] \subseteq Users
    BY <1>1, WithCells DEF Index
  <2> QED BY <2>4, <2>5
<1> QED BY <1>2 DEF Matches, x

(* setLocationLocal: it suffices to compare the cells of highest precision,*)
(* because a cell of lower precision is a prefix of it.                    *)
LEMMA GeoSetMatches ==
    ASSUME NEW ix \in Index, NEW pt \in Points, NEW u \in Users, NEW e \in Entry,
           Matches(ix, pt)
    PROVE  Matches(With(IF pt[u] # Nil /\ Cell[MaxPrecision][pt[u].pos] # Cell[MaxPrecision][e.pos]
                        THEN Without(ix, u, pt[u].pos) ELSE ix, u, e.pos),
                   [pt EXCEPT ![u] = e])
<1>1. e.pos \in Positions /\ (pt[u] # Nil => pt[u].pos \in Positions)
  BY DEF Points, Entry
<1>2. CASE pt[u] # Nil /\ Cell[MaxPrecision][pt[u].pos] # Cell[MaxPrecision][e.pos]
  <2> DEFINE gone == [pt EXCEPT ![u] = Nil]
             out == Without(ix, u, pt[u].pos)
  <2>1. gone \in Points /\ gone[u] = Nil /\ [gone EXCEPT ![u] = e] = [pt EXCEPT ![u] = e]
    BY DEF Points
  <2>2. out \in Index
    BY <1>1, <1>2, WithoutCells
  <2>3. Matches(out, gone)
    BY <1>2, RemoveMatches
  <2> HIDE DEF gone, out
  <2>4. Matches(With(out, u, e.pos), [gone EXCEPT ![u] = e])
    BY <2>1, <2>2, <2>3, PutMatches
  <2> QED BY <1>2, <2>1, <2>4 DEF out
<1>3. CASE ~(pt[u] # Nil /\ Cell[MaxPrecision][pt[u].pos] # Cell[MaxPrecision][e.pos])
  <2>1. pt[u] # Nil => \A p \in Precisions : Cell[p][pt[u].pos] = Cell[p][e.pos]
    BY <1>1, <1>3, GeoAssumption
  <2>2. Matches(With(ix, u, e.pos), [pt EXCEPT ![u] = e])
    BY <2>1, PutMatches
  <2> QED BY <1>3, <2>2
<1> QED BY <1>2, <1>3

(* deleteLocationLocal, of a DeleteLocation or to take a location back.    *)
LEMMA GeoRemoveMatches ==
    ASSUME TypeOK, IndexMatches, NEW n \in Nodes, NEW u \in Users, GeoRemove(n, u)
    PROVE  IndexMatches'
<1>1. /\ index[n] \in Index /\ points[n] \in Points
      /\ index \in [Nodes -> Index] /\ points \in [Nodes -> Points]
  BY DEF TypeOK, Index, Points
<1>2. \A m \in Nodes : Matches(index[m], points[m])
  BY DEF IndexMatches, Matches
<1>3. points' = [points EXCEPT ![n] = [points[n] EXCEPT ![u] = Nil]]
  BY <1>1 DEF GeoRemove
<1>4. CASE points[n][u] = Nil
  <2>1. [points[n] EXCEPT ![u] = Nil] = points[n]
    BY <1>1, <1>4 DEF Points
  <2>2. points' = points /\ index' = index
    BY <1>1, <1>3, <1>4, <2>1 DEF GeoRemove
  <2> QED BY <2>2 DEF IndexMatches
<1>5. CASE points[n][u] # Nil
  <2> DEFINE out == Without(index[n], u, points[n][u].pos)
             gone == [points[n] EXCEPT ![u] = Nil]
  <2>1. Matches(out, gone)
    BY <1>1, <1>2, <1>5, RemoveMatches
  <2>2. index' = [index EXCEPT ![n] = out] /\ points' = [points EXCEPT ![n] = gone]
    BY <1>3, <1>5 DEF GeoRemove
  <2> HIDE DEF out, gone
  <2>3. \A m \in Nodes : Matches(index'[m], points'[m])
    BY <1>1, <1>2, <2>1, <2>2
  <2> QED BY <2>3 DEF IndexMatches, Matches
<1> QED BY <1>4, <1>5

(* Every step keeps index and locations together: setLocationLocal and     *)
(* deleteLocationLocal change both under the store's lock.                 *)
LEMMA IndexStep == Typed /\ IndexMatches /\ [Next]_vars => IndexMatches'
<1> SUFFICES ASSUME Typed, IndexMatches, [Next]_vars PROVE IndexMatches'
  OBVIOUS
<1>0. TypeOK /\ OpOK
  BY DEF Typed
<1>1. ASSUME NEW i \in Ops, NEW n \in Nodes, GeoSet(i, n) PROVE IndexMatches'
  <2> DEFINE u == op[i].user
             e == [pos |-> op[i].pos, exp |-> op[i].exp]
             pt == points[n]
             put == [pt EXCEPT ![u] = e]
             ix == With(IF pt[u] # Nil /\ Cell[MaxPrecision][pt[u].pos] # Cell[MaxPrecision][e.pos]
                        THEN Without(index[n], u, pt[u].pos) ELSE index[n], u, e.pos)
  <2>1. u \in Users /\ e \in Entry
    BY <1>0, <1>1, EntryType DEF OpOK, GeoSet, Typed
  <2>2. /\ index[n] \in Index /\ pt \in Points
        /\ index \in [Nodes -> Index] /\ points \in [Nodes -> Points]
    BY <1>0 DEF TypeOK, Index, Points
  <2>3. \A m \in Nodes : Matches(index[m], points[m])
    BY DEF IndexMatches, Matches
  <2>4. index' = [index EXCEPT ![n] = ix]
    BY <1>1 DEF GeoSet
  <2>5. points' = [points EXCEPT ![n] = put]
    BY <1>1, <2>2 DEF GeoSet
  <2> HIDE DEF u, e
  <2>6. Matches(ix, put)
    BY <2>1, <2>2, <2>3, GeoSetMatches
  <2> HIDE DEF ix, put, pt
  <2>7. \A m \in Nodes : Matches(index'[m], points'[m])
    BY <2>2, <2>3, <2>4, <2>5, <2>6
  <2> QED BY <2>7 DEF IndexMatches, Matches
<1>2. ASSUME NEW i \in Ops, NEW n \in Nodes, Undo(i, n) \/ GeoDelete(i, n) PROVE IndexMatches'
  <2>1. op[i].user \in Users /\ GeoRemove(n, op[i].user)
    BY <1>0, <1>2, JobHasCall DEF OpOK, Undo, GeoDelete
  <2> QED BY <1>0, <2>1, GeoRemoveMatches
<1>3. CASE UNCHANGED <<points, index>>
  BY <1>3 DEF IndexMatches
<1>4. ASSUME NEW i \in Ops, NEW n \in Nodes, JobStep(i, n) PROVE IndexMatches'
  BY <1>1, <1>2, <1>3, <1>4 DEF JobStep, Receive, LruSet, LruDelete, Lose
<1>5. CASE Client \/ Background \/ (\E i \in Ops : Broadcast(i)) \/ UNCHANGED vars
  <2>1. UNCHANGED <<points, index>>
    BY <1>5 DEF Client, Background, CallSet, CallDelete, Broadcast, Expire, TtlDelete, RebDrop,
                RebCopy, vars
  <2> QED BY <1>3, <2>1
<1> QED BY <1>4, <1>5 DEF Next

(* The index of every node matches its locations at every precision, after *)
(* any interleaving of calls, messages, undos and background steps.        *)
THEOREM GeoIndexMatches == Spec => []IndexMatches
<1>1. Init => Typed /\ IndexMatches
  BY GeoAssumption DEF Init, Typed, TypeOK, OpOK, Op, IndexMatches
<1>2. Typed /\ IndexMatches /\ [Next]_vars => (Typed /\ IndexMatches)'
  BY TypeStep, IndexStep
<1> QED BY <1>1, <1>2, PTL DEF Spec

-----------------------------------------------------------------------------
(* A BoundingBox finds exactly the users in the box whose location has not *)
(* expired, in every reachable state and at every precision it is asked    *)
(* at: the cells of the box's positions are those of the users in it.      *)
THEOREM GeoQueryExact == Spec => []QueryExact
<1>1. ASSUME TypeOK, IndexMatches PROVE QueryExact
  <2> SUFFICES ASSUME NEW n \in Nodes, NEW box \in SUBSET Positions, NEW p \in Precisions
               PROVE  BoundingBox(n, box, p) = {u \in Users : Live(n, u) /\ points[n][u].pos \in box}
    BY DEF QueryExact
  <2>1. \A x \in box : Cell[p][x] \in Cells
    BY GeoAssumption
  <2>2. ASSUME NEW u \in Users, Live(n, u), points[n][u].pos \in box
        PROVE  \E x \in box : u \in index[n][p][Cell[p][x]]
    BY <1>1, <2>1, <2>2 DEF IndexMatches, Live
  <2> QED BY <2>2 DEF BoundingBox
<1> QED BY <1>1, GeoTypeCorrect, GeoIndexMatches, PTL

-----------------------------------------------------------------------------
(* Nobody else is sent a call before the node it was made on is done with  *)
(* it, and a node is done with a call for good.                            *)
SentWhenDone ==
    \A i \in Ops, n \in Nodes :
        job[i][n] # "none" /\ n # op[i].at => job[i][op[i].at] = "done"

(* A location on a node without the LRU bucket is that of a SetLocation    *)
(* which is still going to take it back.                                   *)
TakenBack ==
    \A n \in Nodes \ HasBucket, u \in Users : points[n][u] # Nil =>
        \E i \in Ops : op[i].user = u /\ op[i].kind = "set" /\ job[i][n] \in {"lru", "undo"}

Undone == SentWhenDone /\ TakenBack

(* A step of a call on a node it has reached and is not done on.           *)
LEMMA JobStepUndone ==
    ASSUME Typed, Undone, NEW i \in Ops, NEW n \in Nodes,
           NEW s \in {"geo", "lru", "undo", "send", "done"},
           job[i][n] \notin {"none", "done"}, op' = op, Goto(i, n, s),
           \A m \in Nodes, u \in Users : points'[m][u] # Nil =>
               \/ points[m][u] # Nil
               \/ m = n /\ u = op[i].user /\ op[i].kind = "set" /\ s = "lru",
           n \notin HasBucket /\ op[i].kind = "set" /\ job[i][n] \in {"lru", "undo"} =>
               s = "undo" \/ points'[n][op[i].user] = Nil
    PROVE  Undone'
<1>1. \A j \in Ops, m \in Nodes : job'[j][m] = IF j = i /\ m = n THEN s ELSE job[j][m]
  BY TableWrite DEF Typed, TypeOK, Goto
<1>2. SentWhenDone'
  <2>1. ASSUME NEW j \in Ops, NEW m \in Nodes, job'[j][m] # "none", m # op[j].at
        PROVE  job'[j][op[j].at] = "done"
    <3>1. op[j].kind # "none"
      BY <1>1, <2>1, JobHasCall DEF Typed
    <3>2. op[j].at \in Nodes
      BY <3>1 DEF Typed, OpOK
    <3>3. job[j][m] # "none"
      BY <1>1, <2>1
    <3>4. job[j][op[j].at] = "done"
      BY <2>1, <3>3 DEF Undone, SentWhenDone
    <3> QED BY <1>1, <3>2, <3>4
  <2> QED BY <2>1 DEF SentWhenDone
<1>3. TakenBack'
  <2>1. ASSUME NEW m \in Nodes \ HasBucket, NEW u \in Users, points'[m][u] # Nil
        PROVE  \E j \in Ops : op[j].user = u /\ op[j].kind = "set" /\ job'[j][m] \in {"lru", "undo"}
    <3>1. CASE points[m][u] # Nil
      <4>1. PICK j \in Ops : op[j].user = u /\ op[j].kind = "set" /\ job[j][m] \in {"lru", "undo"}
        BY <3>1 DEF Undone, TakenBack
      <4>2. job'[j][m] \in {"lru", "undo"}
        BY <1>1, <2>1, <4>1
      <4> QED BY <4>1, <4>2
    <3>2. CASE m = n /\ u = op[i].user /\ op[i].kind = "set" /\ s = "lru"
      BY <1>1, <3>2
    <3> QED BY <2>1, <3>1, <3>2
  <2> QED BY <2>1 DEF TakenBack
<1> QED BY <1>2, <1>3 DEF Undone

(* Every step keeps both: only Undo can end a SetLocation whose LRU bucket *)
(* is missing, and a broadcast finds its call on no other node yet.        *)
LEMMA UndoneStep == Typed /\ Undone /\ [Next]_vars => Undone'
<1> SUFFICES ASSUME Typed, Undone, [Next]_vars PROVE Undone'
  OBVIOUS
<1>0. TypeOK /\ OpOK
  BY DEF Typed
<1>1. ASSUME NEW i \in Ops, NEW n \in Nodes, NEW s \in {"geo", "send", "done"},
             op[i].kind = "none", Goto(i, n, s), points' = points,
             op'[i].at = n, \A j \in Ops \ {i} : op'[j] = op[j]
      PROVE  Undone'
  <2>1. \A m \in Nodes : job[i][m] = "none"
    BY <1>0, <1>1, JobHasCall
  <2>2. \A j \in Ops, m \in Nodes : job'[j][m] = IF j = i /\ m = n THEN s ELSE job[j][m]
    BY <1>0, <1>1, TableWrite DEF TypeOK, Goto
  <2>3. SentWhenDone'
    <3>1. ASSUME NEW j \in Ops, NEW m \in Nodes, job'[j][m] # "none", m # op'[j].at
          PROVE  job'[j][op'[j].at] = "done"
      <4>1. j # i
        BY <1>1, <2>1, <2>2, <3>1
      <4>2. op'[j] = op[j] /\ job[j][m] # "none"
        BY <1>1, <2>2, <3>1, <4>1
      <4>3. op[j].at \in Nodes /\ job[j][op[j].at] = "done"
        BY <1>0, <3>1, <4>2, JobHasCall DEF OpOK, Undone, SentWhenDone
      <4> QED BY <2>2, <4>1, <4>2, <4>3
    <3> QED BY <3>1 DEF SentWhenDone
  <2>4. ASSUME NEW m \in Nodes \ HasBucket, NEW u \in Users, points[m][u] # Nil
        PROVE  \E j \in Ops : op'[j].user = u /\ op'[j].kind = "set" /\ job'[j][m] \in {"lru", "undo"}
    <3>1. PICK j \in Ops : op[j].user = u /\ op[j].kind = "set" /\ job[j][m] \in {"lru", "undo"}
      BY <2>4 DEF Undone, TakenBack
    <3>2. j # i
      BY <2>1, <3>1
    <3>3. op'[j] = op[j] /\ job'[j][m] = job[j][m]
      BY <1>1, <2>2, <3>2
    <3> QED BY <3>1, <3>3
  <2> QED BY <1>1, <2>3, <2>4 DEF Undone, TakenBack
<1>2. ASSUME NEW i \in Ops, NEW n \in Nodes, NEW u \in Users, NEW x \in Positions, CallSet(i, n, u, x)
      PROVE  Undone'
  <2>1. PICK s \in {"geo", "done"} : Goto(i, n, s)
    BY <1>2 DEF CallSet
  <2>2. op[i].kind = "none" /\ points' = points /\ op'[i].at = n /\ \A j \in Ops \ {i} : op'[j] = op[j]
    BY <1>0, <1>2 DEF TypeOK, CallSet
  <2> QED BY <1>1, <2>1, <2>2
<1>3. ASSUME NEW i \in Ops, NEW n \in Nodes, NEW u \in Users, CallDelete(i, n, u) PROVE Undone'
  <2>1. PICK s \in {"geo", "send"} : Goto(i, n, s)
    BY <1>3 DEF CallDelete
  <2>2. op[i].kind = "none" /\ points' = points /\ op'[i].at = n /\ \A j \in Ops \ {i} : op'[j] = op[j]
    BY <1>0, <1>3 DEF TypeOK, CallDelete
  <2> QED BY <1>1, <2>1, <2>2
<1>4. ASSUME NEW i \in Ops, NEW n \in Nodes, Receive(i, n) \/ Lose(i, n) PROVE Undone'
  <2>1. /\ job[i][n] = "sent" /\ op' = op /\ points' = points
        /\ \E s \in {"geo", "done"} : Goto(i, n, s)
    BY <1>4 DEF Receive, Lose
  <2> QED BY <2>1, JobStepUndone
<1>5. ASSUME NEW i \in Ops, NEW n \in Nodes, GeoSet(i, n) PROVE Undone'
  <2>1. job[i][n] = "geo" /\ op' = op /\ Goto(i, n, "lru") /\ op[i].kind = "set" /\ op[i].user \in Users
    BY <1>0, <1>5 DEF OpOK, GeoSet
  <2>2. \A m \in Nodes, u \in Users :
          points'[m][u] # Nil => points[m][u] # Nil \/ (m = n /\ u = op[i].user)
    BY <1>0, <1>5, <2>1, TableWrite, EntryType DEF TypeOK, GeoSet, Typed
  <2> QED BY <2>1, <2>2, JobStepUndone
<1>6. ASSUME NEW i \in Ops, NEW n \in Nodes, LruSet(i, n) PROVE Undone'
  <2>1. /\ job[i][n] = "lru" /\ op' = op /\ points' = points
        /\ \E s \in {"undo", "send", "done"} : Goto(i, n, s) /\ (n \notin HasBucket => s = "undo")
    BY <1>6 DEF LruSet, NextStep
  <2> QED BY <2>1, JobStepUndone
<1>7. ASSUME NEW i \in Ops, NEW n \in Nodes, Undo(i, n) \/ GeoDelete(i, n) PROVE Undone'
  <2>1. op[i].user \in Users /\ op' = op /\ job[i][n] \notin {"none", "done"}
    BY <1>0, <1>7, JobHasCall DEF OpOK, Undo, GeoDelete
  <2>2. \A m \in Nodes, u \in Users :
          points'[m][u] = IF m = n /\ u = op[i].user THEN Nil ELSE points[m][u]
    BY <1>0, <1>7, <2>1, TableWrite DEF TypeOK, Undo, GeoDelete, GeoRemove
  <2>3. Goto(i, n, "done") \/ (op[i].kind = "delete" /\ Goto(i, n, "lru"))
    BY <1>7 DEF Undo, GeoDelete
  <2> QED BY <2>1, <2>2, <2>3, JobStepUndone
<1>8. ASSUME NEW i \in Ops, NEW n \in Nodes, LruDelete(i, n) PROVE Undone'
  <2>1. /\ job[i][n] = "lru" /\ op' = op /\ points' = points /\ op[i].kind = "delete"
        /\ \E s \in {"send", "done"} : Goto(i, n, s)
    BY <1>8 DEF LruDelete, NextStep
  <2> QED BY <2>1, JobStepUndone
<1>9. ASSUME NEW i \in Ops, Broadcast(i) PROVE Undone'
  <2>1. \A j \in Ops : op'[j].kind = op[j].kind /\ op'[j].at = op[j].at /\ op'[j].user = op[j].user
    BY <1>9, BroadcastCall
  <2>2. /\ op[i].at \in Nodes /\ job[i][op[i].at] = "send" /\ points' = points
        /\ job' = [job EXCEPT ![i] = [m \in Nodes |-> IF m = op[i].at THEN "done" ELSE "sent"]]
    BY <1>0, <1>9 DEF OpOK, Broadcast
  <2>3. \A m \in Nodes : m # op[i].at => job[i][m] = "none"
    BY <2>2 DEF Undone, SentWhenDone
  <2>4. /\ job'[i][op[i].at] = "done"
        /\ \A j \in Ops \ {i} : job'[j] = job[j]
    BY <1>0, <2>2 DEF TypeOK
  <2>5. SentWhenDone'
    BY <2>1, <2>4 DEF Undone, SentWhenDone
  <2>6. ASSUME NEW m \in Nodes \ HasBucket, NEW u \in Users, points[m][u] # Nil
        PROVE  \E j \in Ops : op'[j].user = u /\ op'[j].kind = "set" /\ job'[j][m] \in {"lru", "undo"}
    <3>1. PICK j \in Ops : op[j].user = u /\ op[j].kind = "set" /\ job[j][m] \in {"lru", "undo"}
      BY <2>6 DEF Undone, TakenBack
    <3>2. j # i
      BY <2>2, <2>3, <3>1
    <3> QED BY <2>1, <2>4, <3>1, <3>2
  <2> QED BY <2>2, <2>5, <2>6 DEF Undone, TakenBack
<1>10. CASE Background \/ UNCHANGED vars
  <2>1. UNCHANGED <<op, job, points>>
    BY <1>10 DEF Background, Expire, TtlDelete, RebDrop, RebCopy, vars
  <2> QED BY <2>1 DEF Undone, SentWhenDone, TakenBack
<1> QED
  BY <1>2, <1>3, <1>4, <1>5, <1>6, <1>7, <1>8, <1>9, <1>10 DEF Next, Client, JobStep

(* A node whose LRU bucket is missing keeps no location once its calls are *)
(* done: setLocationLocal takes back what setLocal has refused, whatever   *)
(* else happens to the user's location meanwhile.                          *)
THEOREM GeoNothingLeft == Spec => []NothingLeft
<1>1. Init => Typed /\ Undone
  BY GeoAssumption DEF Init, Typed, TypeOK, OpOK, Op, Undone, SentWhenDone, TakenBack
<1>2. Typed /\ Undone /\ [Next]_vars => (Typed /\ Undone)'
  BY TypeStep, UndoneStep
<1>3. Typed /\ Undone => NothingLeft
  BY DEF Undone, TakenBack, NothingLeft, Active
<1> QED BY <1>1, <1>2, <1>3, PTL DEF Spec
-----------------------------------------------------------------------------
(* The inductive invariant behind Agree.  Its first part holds always: a   *)
(* call is broadcast by the node it was made on, to all the others at once *)
(* and, when it sets a location, only from a node with the LRU bucket;     *)
(* what is taken back is a location a node without it was given; a node    *)
(* with the bucket has a store.                                            *)
Steps ==
    \A i \in Ops, n \in Nodes :
        /\ job[i][n] = "send" => op[i].at = n /\ (op[i].kind = "set" => n \in HasBucket)
        /\ job[i][n] = "undo" => n \notin HasBucket

SentToAll ==
    \A i \in Ops : \A m, n \in Nodes \ {op[i].at} : job[i][m] = "none" => job[i][n] = "none"

Course == SentWhenDone /\ Steps /\ SentToAll /\ HasBucket \subseteq store

(* The second part holds as long as calls have not overlapped and nothing  *)
(* got lost.  One call runs at a time.  Two nodes differ about a user only *)
(* while a call about the user has passed one of them and not the other,   *)
(* and a node it has passed has what the call wants.  A location has its   *)
(* entry in the LRU bucket, or will have it at once: therefore a deletion  *)
(* that finds no entry, and ends without a broadcast, was one of a user    *)
(* whom no node knows.                                                     *)
Running(i) == \E n \in Nodes : job[i][n] \notin {"none", "done"}
Passed(i, n) == job[i][n] \in {"lru", "send", "done"}
Target(i) == IF op[i].kind = "set" THEN [pos |-> op[i].pos, exp |-> op[i].exp] ELSE Nil

OneRuns == \A i, j \in Ops : Running(i) /\ Running(j) => i = j

Alike ==
    \A m, n \in HasBucket, u \in Users :
        \/ points[m][u] = points[n][u]
        \/ \E i \in Ops : Running(i) /\ op[i].user = u /\ ~(Passed(i, m) <=> Passed(i, n))

OnTarget ==
    \A i \in Ops, m \in HasBucket :
        Running(i) /\ Passed(i, m) => points[m][op[i].user] = Target(i)

HasEntry ==
    \A n \in HasBucket, u \in Users : points[n][u] # Nil =>
        \/ lru[n][u] # Nil
        \/ \E i \in Ops : job[i][n] = "lru" /\ op[i].kind = "set" /\ op[i].user = u

WillSend ==
    \A i \in Ops : op[i].kind = "delete" /\ op[i].at \in HasBucket /\ job[i][op[i].at] = "lru" =>
        \A m \in HasBucket : points[m][op[i].user] # Nil => lru[op[i].at][op[i].user] # Nil

Together == OneRuns /\ Alike /\ OnTarget /\ HasEntry /\ WillSend

(* Where the calls are after one of them has taken a step.                 *)
LEMMA JobAfter ==
    ASSUME Typed, NEW i \in Ops, NEW n \in Nodes,
           NEW s \in {"geo", "lru", "undo", "send", "done"}, Goto(i, n, s)
    PROVE  \A j \in Ops, m \in Nodes : job'[j][m] = IF j = i /\ m = n THEN s ELSE job[j][m]
  BY TableWrite DEF Typed, TypeOK, Goto

(* A call that takes a step on a node keeps its course.                    *)
LEMMA CourseKept ==
    ASSUME Typed, Course, NEW i \in Ops, NEW n \in Nodes,
           NEW s \in {"geo", "lru", "undo", "send", "done"},
           job[i][n] \notin {"none", "done"}, op' = op, Goto(i, n, s), store \subseteq store',
           s = "send" => op[i].at = n /\ (op[i].kind = "set" => n \in HasBucket),
           s = "undo" => n \notin HasBucket
    PROVE  Course'
<1>1. \A j \in Ops, m \in Nodes : job'[j][m] = IF j = i /\ m = n THEN s ELSE job[j][m]
  BY JobAfter
<1>2. SentWhenDone'
  <2>1. ASSUME NEW j \in Ops, NEW m \in Nodes, job'[j][m] # "none", m # op[j].at
        PROVE  job'[j][op[j].at] = "done"
    <3>1. job[j][m] # "none"
      BY <1>1, <2>1
    <3>2. op[j].at \in Nodes /\ job[j][op[j].at] = "done"
      BY <2>1, <3>1, JobHasCall DEF Typed, OpOK, Course, SentWhenDone
    <3> QED BY <1>1, <3>2
  <2> QED BY <2>1 DEF SentWhenDone
<1>3. Steps'
  BY <1>1 DEF Course, Steps
<1>4. SentToAll'
  BY <1>1 DEF Course, SentToAll
<1> QED BY <1>2, <1>3, <1>4 DEF Course

(* A call that is made starts on its node.                                 *)
LEMMA CourseStarts ==
    ASSUME Typed, Course, NEW i \in Ops, NEW n \in Nodes, NEW s \in {"geo", "send", "done"},
           op[i].kind = "none", Goto(i, n, s), store' = store,
           op'[i].at = n, \A j \in Ops \ {i} : op'[j] = op[j],
           s = "send" => op'[i].kind = "delete"
    PROVE  Course'
<1>1. \A m \in Nodes : job[i][m] = "none"
  BY JobHasCall DEF Typed
<1>2. \A j \in Ops, m \in Nodes : job'[j][m] = IF j = i /\ m = n THEN s ELSE job[j][m]
  BY JobAfter
<1>3. SentWhenDone'
  <2>1. ASSUME NEW j \in Ops, NEW m \in Nodes, job'[j][m] # "none", m # op'[j].at
        PROVE  job'[j][op'[j].at] = "done"
    <3>1. j # i
      BY <1>1, <1>2, <2>1
    <3>2. op'[j] = op[j] /\ job[j][m] # "none"
      BY <1>2, <2>1, <3>1
    <3>3. op[j].at \in Nodes /\ job[j][op[j].at] = "done"
      BY <2>1, <3>2, JobHasCall DEF Typed, OpOK, Course, SentWhenDone
    <3> QED BY <1>2, <3>1, <3>2, <3>3
  <2> QED BY <2>1 DEF SentWhenDone
<1>4. Steps'
  <2>1. ASSUME NEW j \in Ops, NEW m \in Nodes
        PROVE  /\ job'[j][m] = "send" => op'[j].at = m /\ (op'[j].kind = "set" => m \in HasBucket)
               /\ job'[j][m] = "undo" => m \notin HasBucket
    <3>1. CASE j = i
      BY <1>1, <1>2, <3>1
    <3>2. CASE j # i
      BY <1>2, <3>2 DEF Course, Steps
    <3> QED BY <3>1, <3>2
  <2> QED BY <2>1 DEF Steps
<1>5. SentToAll'
  <2>1. ASSUME NEW j \in Ops, NEW m \in Nodes \ {op'[j].at}, NEW k \in Nodes \ {op'[j].at},
               job'[j][m] = "none"
        PROVE  job'[j][k] = "none"
    <3>1. CASE j = i
      BY <1>1, <1>2, <3>1
    <3>2. CASE j # i
      BY <1>2, <2>1, <3>2 DEF Course, SentToAll
    <3> QED BY <3>1, <3>2
  <2> QED BY <2>1 DEF SentToAll
<1> QED BY <1>3, <1>4, <1>5 DEF Course

(* Every step keeps the calls on their course.                             *)
LEMMA CourseStep == Typed /\ Course /\ [Next]_vars => Course'
<1> SUFFICES ASSUME Typed, Course, [Next]_vars PROVE Course'
  OBVIOUS
<1>0. TypeOK /\ OpOK
  BY DEF Typed
<1>1. ASSUME NEW i \in Ops, NEW n \in Nodes, NEW u \in Users, NEW x \in Positions, CallSet(i, n, u, x)
      PROVE  Course'
  <2>1. PICK s \in {"geo", "done"} : Goto(i, n, s)
    BY <1>1 DEF CallSet
  <2>2. op[i].kind = "none" /\ store' = store /\ op'[i].at = n /\ \A j \in Ops \ {i} : op'[j] = op[j]
    BY <1>0, <1>1 DEF TypeOK, CallSet
  <2> QED BY <2>1, <2>2, CourseStarts
<1>2. ASSUME NEW i \in Ops, NEW n \in Nodes, NEW u \in Users, CallDelete(i, n, u) PROVE Course'
  <2>1. PICK s \in {"geo", "send"} : Goto(i, n, s)
    BY <1>2 DEF CallDelete
  <2>2. /\ op[i].kind = "none" /\ store' = store /\ op'[i].at = n /\ op'[i].kind = "delete"
        /\ \A j \in Ops \ {i} : op'[j] = op[j]
    BY <1>0, <1>2 DEF TypeOK, CallDelete
  <2> QED BY <2>1, <2>2, CourseStarts
<1>3. ASSUME NEW i \in Ops, NEW n \in Nodes, JobStep(i, n) PROVE Course'
  <2>1. CASE Receive(i, n) \/ Lose(i, n)
    <3>1. PICK s \in {"geo", "done"} : Goto(i, n, s)
      BY <2>1 DEF Receive, Lose
    <3>2. job[i][n] = "sent" /\ op' = op /\ store \subseteq store'
      BY <2>1 DEF Receive, Lose
    <3> QED BY <3>1, <3>2, CourseKept
  <2>2. CASE GeoSet(i, n) \/ GeoDelete(i, n)
    BY <2>2, CourseKept DEF GeoSet, GeoDelete
  <2>3. CASE LruSet(i, n)
    <3>1. PICK s \in {"undo", "send", "done"} :
            /\ Goto(i, n, s) /\ (s = "send" => op[i].at = n /\ n \in HasBucket)
            /\ s = "undo" => n \notin HasBucket
      BY <2>3 DEF LruSet, NextStep
    <3> QED BY <2>3, <3>1, CourseKept DEF LruSet
  <2>4. CASE Undo(i, n)
    BY <2>4, CourseKept DEF Undo
  <2>5. CASE LruDelete(i, n)
    <3>1. PICK s \in {"send", "done"} : Goto(i, n, s) /\ (s = "send" => op[i].at = n)
      BY <2>5 DEF LruDelete, NextStep
    <3> QED BY <2>5, <3>1, CourseKept DEF LruDelete
  <2> QED BY <1>3, <2>1, <2>2, <2>3, <2>4, <2>5 DEF JobStep
<1>4. ASSUME NEW i \in Ops, Broadcast(i) PROVE Course'
  <2>1. \A j \in Ops : op'[j].kind = op[j].kind /\ op'[j].at = op[j].at
    BY <1>4, BroadcastCall
  <2>2. /\ job' = [job EXCEPT ![i] = [m \in Nodes |-> IF m = op[i].at THEN "done" ELSE "sent"]]
        /\ op[i].at \in Nodes /\ store' = store
    BY <1>0, <1>4 DEF OpOK, Broadcast
  <2>3. /\ \A m \in Nodes : job'[i][m] = IF m = op[i].at THEN "done" ELSE "sent"
        /\ \A j \in Ops \ {i} : job'[j] = job[j]
    BY <1>0, <2>2 DEF TypeOK
  <2>4. SentWhenDone'
    BY <2>1, <2>2, <2>3 DEF Course, SentWhenDone
  <2>5. Steps'
    BY <2>1, <2>3 DEF Course, Steps
  <2>6. SentToAll'
    BY <2>1, <2>3 DEF Course, SentToAll
  <2> QED BY <2>2, <2>4, <2>5, <2>6 DEF Course
<1>5. CASE Background \/ UNCHANGED vars
  <2>1. UNCHANGED <<op, job, store>>
    BY <1>5 DEF Background, Expire, TtlDelete, RebDrop, RebCopy, vars
  <2> QED BY <2>1 DEF Course, SentWhenDone, Steps, SentToAll
<1> QED BY <1>1, <1>2, <1>3, <1>4, <1>5 DEF Next, Client


(* A step of a running call keeps what holds while calls do not overlap,   *)
(* when it gives the store of its node what the call wants, leaves every   *)
(* other location alone, and leaves no location without its entry.         *)
LEMMA JobStepTogether ==
    ASSUME Typed, Course, Together, NEW i \in Ops, NEW n \in Nodes,
           NEW s \in {"geo", "lru", "undo", "send", "done"},
           job[i][n] \notin {"none", "done"}, op' = op, Goto(i, n, s),
           \A m \in HasBucket, v \in Users :
               m # n \/ v # op[i].user => points'[m][v] = points[m][v],
           n \in HasBucket =>
               \/ s = "geo" /\ ~Passed(i, n) /\ points'[n][op[i].user] = points[n][op[i].user]
               \/ s \in {"lru", "send", "done"} /\ points'[n][op[i].user] = Target(i),
           n \in HasBucket /\ n = op[i].at /\ s = "done" =>
               \A m \in HasBucket : points'[m][op[i].user] = Nil,
           \A m \in HasBucket, v \in Users : lru[m][v] # Nil =>
               lru'[m][v] # Nil \/ (m = n /\ v = op[i].user /\ points'[m][v] = Nil),
           n \in HasBucket /\ op[i].kind = "set" /\ s \in {"send", "done"} => lru'[n][op[i].user] # Nil,
           n \in HasBucket /\ n = op[i].at /\ op[i].kind = "delete" /\ s = "lru" =>
               \A m \in HasBucket : points'[m][op[i].user] # Nil => lru'[n][op[i].user] # Nil
    PROVE  Together'
<1> DEFINE u == op[i].user
<1>0. /\ HasBucket \subseteq Nodes /\ Running(i)
      /\ u \in Users /\ op[i].at \in Nodes
  BY GeoAssumption, JobHasCall DEF Running, Typed, OpOK
<1>1. \A j \in Ops, m \in Nodes : job'[j][m] = IF j = i /\ m = n THEN s ELSE job[j][m]
  BY JobAfter
<1>2. \A j \in Ops : Running(j) => j = i
  BY <1>0 DEF Together, OneRuns
<1>3. \A j \in Ops : Running(j)' => j = i
  <2> SUFFICES ASSUME NEW j \in Ops, Running(j)' PROVE Running(j)
    BY <1>2
  <2>1. PICK m \in Nodes : job'[j][m] \notin {"none", "done"}
    BY DEF Running
  <2> QED BY <1>0, <1>1, <2>1 DEF Running
<1>4. \A m \in Nodes : Passed(i, m)' <=> IF m = n THEN s \in {"lru", "send", "done"} ELSE Passed(i, m)
  BY <1>1 DEF Passed
<1>5. Target(i)' = Target(i)
  BY DEF Target
<1>6. OneRuns'
  BY <1>3 DEF OneRuns
<1>7. \A m \in HasBucket : Passed(i, m)' => points'[m][u] = Target(i)
  BY <1>0, <1>4 DEF Together, OnTarget
<1>8. OnTarget'
  BY <1>3, <1>5, <1>7 DEF OnTarget
<1>9. \A m \in HasBucket, v \in Users : ~Passed(i, m)' \/ v # u => points'[m][v] = points[m][v]
  BY <1>0, <1>4
<1>10. \A j \in Ops, m \in Nodes : job[j][m] = "lru" => j = i
  BY <1>2 DEF Running
<1>11. Alike'
  <2>1. ASSUME NEW a \in HasBucket, NEW b \in HasBucket, Passed(i, a)', ~Passed(i, b)', ~Running(i)'
        PROVE  points'[a][u] = points'[b][u]
    <3>1. a \in Nodes /\ b \in Nodes
      BY <1>0
    <3>2. job'[i][a] = "done" /\ job'[i][b] = "none"
      BY <2>1, <3>1 DEF Passed, Running
    <3>3. b # n /\ job[i][b] = "none"
      BY <1>1, <3>1, <3>2
    <3>4. n = op[i].at
      <4> SUFFICES ASSUME n # op[i].at PROVE FALSE
        OBVIOUS
      <4>1. job[i][op[i].at] = "done"
        BY <1>0 DEF Course, SentWhenDone
      <4>2. b # op[i].at
        BY <3>3, <4>1
      <4> QED BY <3>1, <3>3, <4>2 DEF Course, SentToAll
    <3>5. a = n
      <4> SUFFICES ASSUME a # n PROVE FALSE
        OBVIOUS
      <4>1. job[i][a] = "done"
        BY <1>1, <3>1, <3>2
      <4> QED BY <3>1, <3>4, <4>1 DEF Course, SentWhenDone
    <3>6. s = "done"
      BY <1>1, <3>2, <3>5
    <3> QED BY <3>4, <3>5, <3>6
  <2>2. ASSUME NEW a \in HasBucket, NEW b \in HasBucket, NEW v \in Users,
               points'[a][v] # points'[b][v]
        PROVE  Running(i)' /\ u = v /\ ~(Passed(i, a)' <=> Passed(i, b)')
    <3>1. CASE v # u
      <4>1. points[a][v] # points[b][v]
        BY <1>9, <2>2, <3>1
      <4> QED BY <1>2, <3>1, <4>1 DEF Together, Alike
    <3>2. CASE v = u
      <4>1. ~(Passed(i, a)' /\ Passed(i, b)')
        BY <1>7, <2>2, <3>2
      <4>2. Passed(i, a)' \/ Passed(i, b)'
        <5> SUFFICES ASSUME ~Passed(i, a)', ~Passed(i, b)' PROVE FALSE
          OBVIOUS
        <5>1. points[a][u] # points[b][u]
          BY <1>9, <2>2, <3>2
        <5>2. ~(Passed(i, a) <=> Passed(i, b))
          BY <1>0, <1>2, <5>1 DEF Together, Alike
        <5>3. \A m \in {a, b} : ~Passed(i, m)
          BY <1>0, <1>4
        <5> QED BY <5>2, <5>3
      <4>3. Running(i)'
        BY <2>1, <2>2, <3>2, <4>1, <4>2
      <4> QED BY <3>2, <4>1, <4>2, <4>3
    <3> QED BY <3>1, <3>2
  <2> HIDE DEF u
  <2>3. u = op'[i].user
    BY DEF u
  <2> QED BY <2>2, <2>3 DEF Alike
<1>12. HasEntry'
  <2> SUFFICES ASSUME NEW m \in HasBucket, NEW v \in Users, points'[m][v] # Nil
               PROVE  \/ lru'[m][v] # Nil
                      \/ \E j \in Ops : job'[j][m] = "lru" /\ op[j].kind = "set" /\ op[j].user = v
    BY DEF HasEntry
  <2>1. CASE m = n /\ v = u /\ Passed(i, n)'
    <3>1. s \in {"lru", "send", "done"} /\ points'[n][u] = Target(i)
      BY <1>0, <1>4, <1>7, <2>1
    <3>2. op[i].kind = "set"
      BY <2>1, <3>1 DEF Target
    <3>3. s = "lru" => job'[i][n] = "lru"
      BY <1>1
    <3> QED BY <2>1, <3>1, <3>2, <3>3
  <2>2. CASE ~(m = n /\ v = u /\ Passed(i, n)')
    <3>1. points[m][v] = points'[m][v]
      BY <1>9, <2>2
    <3>2. CASE lru[m][v] # Nil
      BY <3>2
    <3>3. ASSUME NEW j \in Ops, job[j][m] = "lru", op[j].kind = "set", op[j].user = v
          PROVE  job'[j][m] = "lru"
      <4>1. j = i /\ v = u /\ Passed(i, m)
        BY <1>0, <1>10, <3>3 DEF Passed
      <4>2. m # n
        BY <1>4, <2>2, <4>1
      <4> QED BY <1>0, <1>1, <3>3, <4>2
    <3> QED BY <3>1, <3>2, <3>3 DEF Together, HasEntry
  <2> QED BY <2>1, <2>2
<1>13. WillSend'
  <2> SUFFICES ASSUME NEW j \in Ops, op[j].kind = "delete", op[j].at \in HasBucket,
                      job'[j][op[j].at] = "lru"
               PROVE  \A m \in HasBucket : points'[m][op[j].user] # Nil => lru'[op[j].at][op[j].user] # Nil
    BY DEF WillSend
  <2>1. j = i
    BY <1>0, <1>3 DEF Running
  <2>2. n = op[i].at
    <3> SUFFICES ASSUME n # op[i].at PROVE FALSE
      OBVIOUS
    <3>1. job[i][op[i].at] = "done"
      BY <1>0 DEF Course, SentWhenDone
    <3> QED BY <1>0, <1>1, <2>1, <3>1
  <2>3. s = "lru"
    BY <1>1, <2>1, <2>2
  <2> QED BY <2>1, <2>2, <2>3
<1> QED BY <1>6, <1>8, <1>11, <1>12, <1>13 DEF Together


(* A call starts only when the others have ended, if nothing overlaps.     *)
LEMMA CallTogether ==
    ASSUME Typed, Course, Together, Quiet, NEW i \in Ops, NEW n \in Nodes,
           NEW s \in {"geo", "send", "done"}, s = "send" => n \notin HasBucket,
           op[i].kind = "none", Goto(i, n, s), UNCHANGED <<points, lru>>,
           op'[i].at = n
    PROVE  Together'
<1>0. HasBucket \subseteq Nodes
  BY GeoAssumption
<1>1. \A j \in Ops, m \in Nodes : job'[j][m] = IF j = i /\ m = n THEN s ELSE job[j][m]
  BY JobAfter
<1>2. \A j \in Ops : ~Running(j)
  BY DEF Quiet, Running
<1>3. \A m \in Nodes : job[i][m] = "none"
  BY JobHasCall DEF Typed
<1>4. ASSUME NEW j \in Ops, NEW m \in Nodes, job'[j][m] \notin {"none", "done"}
      PROVE  j = i /\ m = n /\ s # "done" /\ job'[j][m] # "lru"
  BY <1>1, <1>2, <1>4 DEF Running
<1>5. ASSUME NEW j \in Ops, Running(j)', NEW m \in HasBucket PROVE ~Passed(j, m)'
  <2>1. j = i /\ s # "done"
    BY <1>4, <1>5 DEF Running
  <2> QED BY <1>0, <1>1, <1>3, <2>1 DEF Passed
<1>6. OneRuns'
  BY <1>4 DEF OneRuns, Running
<1>7. OnTarget'
  BY <1>5 DEF OnTarget
<1>8. \A a, b \in HasBucket, u \in Users : points[a][u] = points[b][u]
  BY <1>2 DEF Together, Alike
<1>9. Alike'
  BY <1>8 DEF Alike
<1>10. HasEntry'
  <2>1. \A j \in Ops, m \in HasBucket : job[j][m] # "lru"
    BY <1>0, <1>2 DEF Running
  <2> QED BY <2>1 DEF Together, HasEntry
<1>11. WillSend'
  BY <1>0, <1>4 DEF WillSend
<1> QED BY <1>6, <1>7, <1>9, <1>10, <1>11 DEF Together

(* A broadcast sends what the node of the call has stored for it.          *)
LEMMA BroadcastTogether ==
    ASSUME Typed, Course, Together, NEW i \in Ops, Broadcast(i)
    PROVE  Together'
<1> DEFINE n == op[i].at
<1>0. /\ HasBucket \subseteq Nodes /\ n \in Nodes /\ op[i].user \in Users
      /\ job[i][n] = "send" /\ op[i].kind # "none" /\ UNCHANGED <<points, lru>>
      /\ op[i].kind \in {"set", "delete"}
  BY GeoAssumption DEF Broadcast, Typed, OpOK, TypeOK, Op
<1>1. Running(i) /\ \A j \in Ops : Running(j) => j = i
  BY <1>0 DEF Running, Together, OneRuns
<1>2. job' = [job EXCEPT ![i] = [m \in Nodes |-> IF m = n THEN "done" ELSE "sent"]]
  BY DEF Broadcast
<1>3. /\ \A m \in Nodes : job'[i][m] = IF m = n THEN "done" ELSE "sent"
      /\ \A j \in Ops \ {i} : job'[j] = job[j]
  BY <1>2 DEF Typed, TypeOK
<1>4. \A m \in Nodes : m # n => job[i][m] = "none"
  BY <1>0 DEF Course, SentWhenDone
<1>5. \A m \in Nodes : Passed(i, m)' <=> Passed(i, m)
  BY <1>0, <1>3, <1>4 DEF Passed
<1>6. \A j \in Ops : op'[j].kind = op[j].kind /\ op'[j].at = op[j].at /\ op'[j].user = op[j].user
  BY BroadcastCall
<1>7. Target(i)' = Target(i)
  <2>1. CASE op[i].kind = "delete"
    BY <1>6, <2>1 DEF Target
  <2>2. CASE op[i].kind = "set"
    <3>1. n \in HasBucket
      BY <1>0, <2>2 DEF Course, Steps
    <3>2. points[n][op[i].user] = [pos |-> op[i].pos, exp |-> op[i].exp]
      BY <1>0, <1>1, <2>2, <3>1 DEF Together, OnTarget, Passed, Target
    <3>3. points[n][op[i].user] # Nil
      BY <2>2, <3>2, EntryType, GeoAssumption DEF Entry
    <3>4. points[n][op[i].user].exp = op[i].exp
      BY <3>2
    <3>5. op' = [op EXCEPT ![i].exp = points[n][op[i].user].exp]
      BY <2>2, <3>3, Zenon DEF Broadcast
    <3>6. op'[i] = op[i]
      BY <3>4, <3>5 DEF Typed, TypeOK, Op
    <3> QED BY <3>6 DEF Target
  <2> QED BY <1>0, <2>1, <2>2
<1>8. ASSUME NEW j \in Ops, Running(j)' PROVE j = i
  <2>1. CASE j = i
    BY <2>1
  <2>2. CASE j # i
    BY <1>1, <1>3, <1>8, <2>2 DEF Running
  <2> QED BY <2>1, <2>2
<1>9. OneRuns'
  BY <1>8 DEF OneRuns
<1>10. OnTarget'
  <2> SUFFICES ASSUME NEW j \in Ops, NEW m \in HasBucket, Running(j)', Passed(j, m)'
               PROVE  points'[m][op'[j].user] = Target(j)'
    BY DEF OnTarget
  <2>1. j = i /\ Passed(i, m)
    BY <1>0, <1>5, <1>8
  <2> QED BY <1>0, <1>1, <1>6, <1>7, <2>1 DEF Together, OnTarget
<1>11. Alike'
  <2> SUFFICES ASSUME NEW a \in HasBucket, NEW b \in HasBucket, NEW u \in Users,
                      points[a][u] # points[b][u]
               PROVE  \E j \in Ops : Running(j)' /\ op'[j].user = u /\ ~(Passed(j, a)' <=> Passed(j, b)')
    BY <1>0 DEF Alike
  <2>1. op[i].user = u /\ ~(Passed(i, a) <=> Passed(i, b))
    BY <1>1 DEF Together, Alike
  <2>2. a # b
    BY <2>1
  <2>3. Running(i)'
    BY <1>0, <1>3, <2>2 DEF Running
  <2>4. ~(Passed(i, a)' <=> Passed(i, b)')
    BY <1>0, <1>5, <2>1
  <2> QED BY <1>6, <2>1, <2>3, <2>4
<1>12. HasEntry'
  <2> SUFFICES ASSUME NEW m \in HasBucket, NEW u \in Users, points[m][u] # Nil, lru[m][u] = Nil
               PROVE  \E j \in Ops : job'[j][m] = "lru" /\ op'[j].kind = "set" /\ op'[j].user = u
    BY <1>0 DEF HasEntry
  <2>1. PICK j \in Ops : job[j][m] = "lru" /\ op[j].kind = "set" /\ op[j].user = u
    BY DEF Together, HasEntry
  <2>2. j # i
    BY <1>0, <1>4, <2>1
  <2> QED BY <1>3, <1>6, <2>1, <2>2
<1>13. WillSend'
  <2> SUFFICES ASSUME NEW j \in Ops, op'[j].kind = "delete", op'[j].at \in HasBucket,
                      job'[j][op'[j].at] = "lru"
               PROVE  FALSE
    BY DEF WillSend
  <2>1. op'[j].at \in Nodes
    BY <1>0
  <2>2. j = i
    BY <1>8, <2>1 DEF Running
  <2> QED BY <1>3, <2>1, <2>2
<1> QED BY <1>9, <1>10, <1>11, <1>12, <1>13 DEF Together


(* While nothing is evicted, setLocal adds an entry and removes none.      *)
LEMMA SetLocalKeeps ==
    ASSUME TypeOK, NEW n \in Nodes, NEW u \in Users, NEW e \in Entry, SetLocal(n, u, e), clean'
    PROVE  /\ clean /\ lru'[n][u] # Nil
           /\ \A m \in Nodes, v \in Users : lru[m][v] # Nil => lru'[m][v] # Nil
<1>1. lru' = [lru EXCEPT ![n] = [lru[n] EXCEPT ![u] = e]] /\ clean' = clean
  BY DEF SetLocal
<1>2. e # Nil
  BY GeoAssumption DEF Entry
<1>3. lru \in [Nodes -> [Users -> Entry \cup {Nil}]]
  BY DEF TypeOK
<1> QED BY <1>1, <1>2, <1>3

(* A call that removes the user's location from the store of a node.       *)
LEMMA RemoveAfter ==
    ASSUME TypeOK, NEW n \in Nodes, NEW u \in Users, GeoRemove(n, u)
    PROVE  \A m \in Nodes, v \in Users :
             points'[m][v] = IF m = n /\ v = u THEN Nil ELSE points[m][v]
  BY TableWrite DEF TypeOK, GeoRemove

(* The steps of a running call.                                            *)
LEMMA JobTogether ==
    ASSUME Typed, Course, Together, clean', NEW i \in Ops, NEW n \in Nodes, JobStep(i, n)
    PROVE  Together'
<1>0. /\ TypeOK /\ HasBucket \subseteq Nodes /\ HasBucket \subseteq store
      /\ op[i].kind \in {"none", "set", "delete"}
  BY GeoAssumption DEF Typed, TypeOK, Op, Course
<1>a. job[i][n] # "none" => op[i].kind # "none" /\ op[i].user \in Users
  BY JobHasCall DEF Typed, OpOK
<1>b. job[i][n] \notin {"none", "done"} => Running(i) /\ \A j \in Ops : Running(j) => j = i
  BY DEF Running, Together, OneRuns
<1>1. CASE Receive(i, n)
  <2>1. /\ job[i][n] = "sent" /\ op' = op /\ UNCHANGED <<points, lru>>
        /\ ~Passed(i, n)
    BY <1>1 DEF Receive, Passed
  <2>2. CASE Goto(i, n, "geo")
    BY <2>1, <2>2, JobStepTogether
  <2>3. CASE Goto(i, n, "done") /\ n \notin store
    BY <1>0, <2>1, <2>3, JobStepTogether
  <2> QED BY <1>1, <2>2, <2>3 DEF Receive
<1>2. CASE GeoSet(i, n)
  <2> DEFINE e == [pos |-> op[i].pos, exp |-> op[i].exp]
  <2>1. /\ job[i][n] = "geo" /\ op[i].kind = "set" /\ op' = op /\ lru' = lru
        /\ Goto(i, n, "lru") /\ op[i].user \in Users /\ e = Target(i) /\ e \in Entry
    BY <1>2, <1>a, EntryType DEF GeoSet, Target, Typed
  <2>2. points' = [points EXCEPT ![n][op[i].user] = e]
    BY <1>2 DEF GeoSet
  <2> HIDE DEF e
  <2>3. \A m \in Nodes, v \in Users :
          points'[m][v] = IF m = n /\ v = op[i].user THEN e ELSE points[m][v]
    BY <1>0, <2>1, <2>2, TableWrite DEF TypeOK
  <2> QED BY <1>0, <2>1, <2>3, JobStepTogether
<1>3. CASE LruSet(i, n)
  <2>1. /\ job[i][n] = "lru" /\ op[i].kind = "set" /\ op' = op /\ points' = points
        /\ op[i].user \in Users /\ Passed(i, n)
    BY <1>3, <1>a DEF LruSet, Passed
  <2>2. CASE n \notin HasBucket
    BY <1>3, <2>1, <2>2, JobStepTogether DEF LruSet
  <2>3. CASE n \in HasBucket
    <3>1. /\ SetLocal(n, op[i].user, [pos |-> op[i].pos, exp |-> op[i].exp])
          /\ Goto(i, n, NextStep(i, n))
      BY <1>3, <2>3 DEF LruSet
    <3>2. [pos |-> op[i].pos, exp |-> op[i].exp] \in Entry
      BY <2>1, EntryType
    <3>3. /\ lru'[n][op[i].user] # Nil
          /\ \A m \in Nodes, v \in Users : lru[m][v] # Nil => lru'[m][v] # Nil
      BY <1>0, <2>1, <3>1, <3>2, SetLocalKeeps
    <3>4. points'[n][op[i].user] = Target(i)
      BY <1>b, <2>1, <2>3 DEF Together, OnTarget
    <3>5. PICK s \in {"send", "done"} : Goto(i, n, s) /\ (s = "done" => n # op[i].at)
      BY <3>1 DEF NextStep
    <3> QED BY <1>0, <2>1, <2>3, <3>3, <3>4, <3>5, JobStepTogether
  <2> QED BY <2>2, <2>3
<1>4. CASE Undo(i, n)
  <2>1. /\ job[i][n] = "undo" /\ op' = op /\ lru' = lru /\ Goto(i, n, "done")
        /\ GeoRemove(n, op[i].user) /\ op[i].user \in Users /\ n \notin HasBucket
    BY <1>4, <1>a DEF Undo, Course, Steps
  <2>2. \A m \in Nodes, v \in Users :
          points'[m][v] = IF m = n /\ v = op[i].user THEN Nil ELSE points[m][v]
    BY <1>0, <2>1, RemoveAfter
  <2> QED BY <1>0, <2>1, <2>2, JobStepTogether
<1>5. CASE GeoDelete(i, n)
  <2>1. /\ job[i][n] = "geo" /\ op[i].kind = "delete" /\ op' = op /\ lru' = lru
        /\ Goto(i, n, "lru") /\ GeoRemove(n, op[i].user) /\ op[i].user \in Users
        /\ Target(i) = Nil
    BY <1>5, <1>a DEF GeoDelete, Target
  <2>2. \A m \in Nodes, v \in Users :
          points'[m][v] = IF m = n /\ v = op[i].user THEN Nil ELSE points[m][v]
    BY <1>0, <2>1, RemoveAfter
  <2>3. ASSUME n \in HasBucket, n = op[i].at, NEW m \in HasBucket, points'[m][op[i].user] # Nil
        PROVE  lru'[n][op[i].user] # Nil
    <3>1. m # n /\ points[m][op[i].user] # Nil
      BY <1>0, <2>1, <2>2, <2>3
    <3>2. ~Passed(i, n) /\ ~Passed(i, m)
      BY <1>0, <2>1, <2>3, <3>1 DEF Passed, Course, SentWhenDone
    <3>3. points[m][op[i].user] = points[n][op[i].user]
      BY <1>b, <2>1, <2>3, <3>2 DEF Together, Alike
    <3>4. \A j \in Ops : ~(job[j][n] = "lru" /\ op[j].kind = "set")
      BY <1>b, <2>1 DEF Running
    <3> QED BY <2>1, <2>3, <3>1, <3>3, <3>4 DEF Together, HasEntry
  <2> QED BY <1>0, <2>1, <2>2, <2>3, JobStepTogether
<1>6. CASE LruDelete(i, n)
  <2>1. /\ job[i][n] = "lru" /\ op[i].kind = "delete" /\ op' = op /\ points' = points
        /\ op[i].user \in Users /\ Passed(i, n) /\ Target(i) = Nil
        /\ lru' = [lru EXCEPT ![n][op[i].user] = Nil]
    BY <1>6, <1>a DEF LruDelete, Passed, Target
  <2>2. \A m \in Nodes, v \in Users :
          lru'[m][v] = IF m = n /\ v = op[i].user THEN Nil ELSE lru[m][v]
    BY <1>0, <2>1, TableWrite DEF TypeOK
  <2>3. n \in HasBucket => points'[n][op[i].user] = Nil
    BY <1>b, <2>1 DEF Together, OnTarget
  <2>4. PICK s \in {"send", "done"} :
          Goto(i, n, s) /\ (s = "done" /\ n = op[i].at => lru[n][op[i].user] = Nil)
    BY <1>6 DEF LruDelete, NextStep
  <2>5. n \in HasBucket /\ n = op[i].at /\ s = "done" =>
          \A m \in HasBucket : points'[m][op[i].user] = Nil
    BY <2>1, <2>4 DEF Together, WillSend
  <2> QED BY <1>0, <2>1, <2>2, <2>3, <2>4, <2>5, JobStepTogether
<1>7. ~Lose(i, n)
  BY DEF Lose
<1> QED BY <1>1, <1>2, <1>3, <1>4, <1>5, <1>6, <1>7 DEF JobStep

(* Every step keeps what holds while calls do not overlap.                 *)
LEMMA TogetherStep ==
    Typed /\ Course /\ (clean => Together) /\ [Next]_vars => (clean' => Together')
<1> SUFFICES ASSUME Typed, Course, clean => Together, [Next]_vars, clean' PROVE Together'
  OBVIOUS
<1>0. TypeOK /\ HasBucket \subseteq store /\ clean \in BOOLEAN
  BY DEF Typed, TypeOK, Course
<1>1. ASSUME NEW i \in Ops, NEW n \in Nodes, NEW u \in Users, NEW x \in Positions, CallSet(i, n, u, x)
      PROVE  Together'
  <2>1. PICK s \in {"geo", "done"} : Goto(i, n, s)
    BY <1>1 DEF CallSet
  <2>2. clean /\ Quiet
    BY <1>1, Zenon DEF CallSet
  <2>3. op[i].kind = "none" /\ UNCHANGED <<points, lru>> /\ op'[i].at = n
    BY <1>0, <1>1 DEF TypeOK, CallSet
  <2> QED BY <2>1, <2>2, <2>3, CallTogether
<1>2. ASSUME NEW i \in Ops, NEW n \in Nodes, NEW u \in Users, CallDelete(i, n, u) PROVE Together'
  <2>1. PICK s \in {"geo", "send"} : Goto(i, n, s) /\ (s = "send" => n \notin HasBucket)
    BY <1>0, <1>2 DEF CallDelete
  <2>2. clean /\ Quiet
    BY <1>2, Zenon DEF CallDelete
  <2>3. op[i].kind = "none" /\ UNCHANGED <<points, lru>> /\ op'[i].at = n
    BY <1>0, <1>2 DEF TypeOK, CallDelete
  <2> QED BY <2>1, <2>2, <2>3, CallTogether
<1>3. ASSUME NEW i \in Ops, NEW n \in Nodes, JobStep(i, n) PROVE Together'
  <2>1. clean
    BY <1>3 DEF JobStep, Receive, GeoSet, LruSet, SetLocal, Undo, GeoDelete, LruDelete, Lose
  <2> QED BY <1>3, <2>1, JobTogether
<1>4. ASSUME NEW i \in Ops, Broadcast(i) PROVE Together'
  <2>1. clean
    BY <1>4 DEF Broadcast
  <2> QED BY <1>4, <2>1, BroadcastTogether
<1>5. ASSUME UNCHANGED <<op, job, points>>, clean,
             \A m \in HasBucket, v \in Users : lru[m][v] # Nil => lru'[m][v] # Nil
      PROVE  Together'
  <2>1. UNCHANGED op /\ UNCHANGED job /\ UNCHANGED points
    BY <1>5
  <2>2. \A i \in Ops : (Running(i)' <=> Running(i)) /\ Target(i)' = Target(i)
    BY <2>1 DEF Running, Target
  <2>3. \A i \in Ops, n \in Nodes : Passed(i, n)' <=> Passed(i, n)
    BY <2>1 DEF Passed
  <2>4. HasBucket \subseteq Nodes
    BY GeoAssumption
  <2>5. OneRuns' /\ OnTarget'
    BY <1>5, <2>1, <2>2, <2>3, <2>4 DEF Together, OneRuns, OnTarget
  <2>6. Alike'
    BY <1>5, <2>1, <2>2, <2>3, <2>4 DEF Together, Alike
  <2>7. HasEntry'
    BY <1>5, <2>1 DEF Together, HasEntry
  <2>8. WillSend'
    <3> SUFFICES ASSUME NEW i \in Ops, op[i].kind = "delete", op[i].at \in HasBucket,
                        job[i][op[i].at] = "lru", NEW m \in HasBucket, points[m][op[i].user] # Nil
                 PROVE  lru'[op[i].at][op[i].user] # Nil
      BY <2>1 DEF WillSend
    <3>1. op[i].user \in Users
      BY DEF Typed, OpOK
    <3> QED BY <1>5, <3>1 DEF Together, WillSend
  <2> QED BY <2>5, <2>6, <2>7, <2>8 DEF Together
<1>6. ASSUME NEW n \in Nodes, NEW m \in Nodes, NEW u \in Users, RebCopy(n, u, m) PROVE Together'
  <2>1. SetLocal(m, u, lru[n][u]) /\ lru[n][u] \in Entry /\ UNCHANGED <<op, job, points>>
    BY <1>0, <1>6 DEF RebCopy, TypeOK
  <2>2. clean /\ \A k \in Nodes, v \in Users : lru[k][v] # Nil => lru'[k][v] # Nil
    BY <1>0, <2>1, SetLocalKeeps
  <2> QED BY <1>5, <2>1, <2>2, GeoAssumption
<1>7. CASE Background
  <2>1. ASSUME NEW i \in Ops, Expire(i) PROVE Together'
    BY <1>5, <2>1 DEF Expire
  <2>2. \A n, m \in Nodes, u \in Users : ~TtlDelete(n, u, m) /\ ~RebDrop(n, u)
    BY DEF TtlDelete, RebDrop
  <2> QED BY <1>6, <1>7, <2>1, <2>2 DEF Background
<1>8. CASE UNCHANGED vars
  BY <1>5, <1>8 DEF vars
<1> QED BY <1>1, <1>2, <1>3, <1>4, <1>7, <1>8 DEF Next, Client

(* When all calls are done, and none has overlapped another or lost        *)
(* anything on the way, all nodes with the bucket have the same locations: *)
(* a SetLocation or a DeleteLocation reaches all of them or none.          *)
THEOREM GeoAgree == Spec => []Agree
<1>1. Init => Typed /\ Course /\ (clean => Together)
  <2> SUFFICES ASSUME Init PROVE Typed /\ Course /\ Together
    OBVIOUS
  <2>1. Typed
    BY GeoAssumption DEF Init, Typed, TypeOK, OpOK, Op
  <2>2. \A i \in Ops, n \in Nodes : job[i][n] = "none"
    BY DEF Init
  <2>3. \A n \in HasBucket, u \in Users : points[n][u] = Nil
    BY GeoAssumption DEF Init
  <2>4. Course
    BY <2>2, GeoAssumption DEF Init, Course, SentWhenDone, Steps, SentToAll
  <2>5. Together
    BY <2>2, <2>3, GeoAssumption
       DEF Together, OneRuns, Alike, OnTarget, HasEntry, WillSend, Running
  <2> QED BY <2>1, <2>4, <2>5
<1>2. Typed /\ Course /\ (clean => Together) /\ [Next]_vars => (Typed /\ Course /\ (clean => Together))'
  BY TypeStep, CourseStep, TogetherStep
<1>3. Typed /\ Course /\ (clean => Together) => Agree
  <2> SUFFICES ASSUME Typed, Together, Quiet, NEW n \in HasBucket, NEW m \in HasBucket
               PROVE  points[n] = points[m]
    BY DEF Agree
  <2>1. \A i \in Ops : ~Running(i)
    BY DEF Quiet, Running
  <2>2. \A u \in Users : points[n][u] = points[m][u]
    BY <2>1 DEF Together, Alike
  <2>3. points[n] \in [Users -> Entry \cup {Nil}] /\ points[m] \in [Users -> Entry \cup {Nil}]
    BY GeoAssumption DEF Typed, TypeOK
  <2> QED BY <2>2, <2>3
<1> QED BY <1>1, <1>2, <1>3, PTL DEF Spec

-----------------------------------------------------------------------------
(* Radius queries: the flood fill covers the box.                          *)

(* A set of natural numbers with 0 that every step stays in has them all.  *)
LEMMA Stepwise ==
    ASSUME NEW S, 0 \in S, \A n \in Nat : n \in S => n + 1 \in S
    PROVE  \A n \in Nat : n \in S
<1> SUFFICES ASSUME Nat \ S # {} PROVE FALSE
  OBVIOUS
<1> DEFINE less == OpToRel(<, Nat)
<1>1. IsWellFoundedOn(less, Nat)
  BY NatLessThanWellFounded, Zenon
<1>2. \A x, y \in Nat : y < x => <<y, x>> \in less
  BY DEF OpToRel
<1> HIDE DEF less
<1>3. PICK x \in Nat \ S : \A y \in Nat \ S : ~(<<y, x>> \in less)
  BY <1>1, WFMin
<1>4. x - 1 \in Nat /\ x - 1 < x /\ x - 1 + 1 = x
  BY <1>3
<1>5. x - 1 \in S
  BY <1>2, <1>3, <1>4
<1> QED BY <1>3, <1>4, <1>5

(* The first n rounds of the flood fill.                                   *)
Rounds(g, n, box, p) ==
    /\ g[0] = {Middle(box, p)}
    /\ \A i \in 1..n : g[i] = Spread(g[i - 1], box)

(* There is one way to go through them ...                                 *)
LEMMA RoundsUnique ==
    ASSUME NEW box, NEW p, NEW g, NEW h, NEW m \in Nat, NEW n \in Nat, m <= n,
           Rounds(g, m, box, p), Rounds(h, n, box, p)
    PROVE  \A i \in 0..m : g[i] = h[i]
<1> DEFINE Same == {i \in Nat : i <= m => g[i] = h[i]}
<1>1. 0 \in Same
  BY DEF Rounds
<1>2. ASSUME NEW i \in Nat, i \in Same PROVE i + 1 \in Same
  <2>1. SUFFICES ASSUME i + 1 <= m PROVE g[i + 1] = h[i + 1]
    OBVIOUS
  <2>2. i + 1 \in 1..m /\ i + 1 \in 1..n /\ i + 1 - 1 = i /\ i <= m
    BY <2>1
  <2>3. g[i + 1] = Spread(g[i], box) /\ h[i + 1] = Spread(h[i], box)
    BY <2>2 DEF Rounds
  <2>4. g[i] = h[i]
    BY <1>2, <2>2
  <2> QED BY <2>3, <2>4
<1> HIDE DEF Same
<1>3. \A i \in Nat : i \in Same
  BY <1>1, <1>2, Stepwise
<1> QED BY <1>3 DEF Same

(* ... and, round by round, all of them can be gone through.               *)
LEMMA RoundsExist ==
    ASSUME NEW box, NEW p
    PROVE  \A n \in Nat : \E g : Rounds(g, n, box, p)
<1> DEFINE Done == {n \in Nat : \E g : Rounds(g, n, box, p)}
<1>1. 0 \in Done
  <2> DEFINE g == [i \in {0} |-> {Middle(box, p)}]
  <2>1. Rounds(g, 0, box, p)
    BY DEF Rounds
  <2> QED BY <2>1
<1>2. ASSUME NEW n \in Nat, n \in Done PROVE n + 1 \in Done
  <2>1. PICK g : Rounds(g, n, box, p)
    BY <1>2
  <2> DEFINE h == [i \in 0..(n + 1) |-> IF i = n + 1 THEN Spread(g[n], box) ELSE g[i]]
  <2>2. h[0] = {Middle(box, p)}
    BY <2>1 DEF Rounds
  <2>3. ASSUME NEW i \in 1..(n + 1) PROVE h[i] = Spread(h[i - 1], box)
    <3>1. i \in 0..(n + 1) /\ i - 1 \in 0..(n + 1) /\ i - 1 # n + 1
      OBVIOUS
    <3>2. h[i - 1] = g[i - 1]
      BY <3>1
    <3>3. CASE i = n + 1
      <4>1. i - 1 = n /\ h[i] = Spread(g[n], box)
        BY <3>1, <3>3
      <4> QED BY <3>2, <4>1
    <3>4. CASE i # n + 1
      <4>1. i \in 1..n /\ h[i] = g[i]
        BY <3>1, <3>4
      <4>2. g[i] = Spread(g[i - 1], box)
        BY <2>1, <4>1 DEF Rounds
      <4> QED BY <3>2, <4>1, <4>2
    <3> QED BY <3>3, <3>4
  <2> HIDE DEF h
  <2>4. Rounds(h, n + 1, box, p)
    BY <2>2, <2>3 DEF Rounds
  <2> QED BY <2>4
<1> HIDE DEF Done
<1>3. \A n \in Nat : n \in Done
  BY <1>1, <1>2, Stepwise
<1> QED BY <1>3 DEF Done

(* So the recursive definition has a solution, and Enqueued is one.        *)
LEMMA EnqueuedRounds ==
    ASSUME NEW box, NEW p
    PROVE  /\ Enqueued(box, p)[0] = {Middle(box, p)}
           /\ \A n \in Nat : Enqueued(box, p)[n + 1] = Spread(Enqueued(box, p)[n], box)
<1> DEFINE run == [n \in Nat |-> CHOOSE g : Rounds(g, n, box, p)]
           e == [n \in Nat |-> run[n][n]]
           Recursive(f) == f = [round \in Nat |-> IF round = 0 THEN {Middle(box, p)}
                                                  ELSE Spread(f[round - 1], box)]
<1>1. \A n \in Nat : Rounds(run[n], n, box, p)
  BY RoundsExist
<1> HIDE DEF run
<1>2. e[0] = {Middle(box, p)}
  BY <1>1 DEF Rounds
<1>3. ASSUME NEW n \in Nat, n # 0 PROVE e[n] = Spread(e[n - 1], box)
  <2>1. n - 1 \in Nat /\ n - 1 <= n /\ n - 1 \in 0..(n - 1) /\ n \in 1..n
    BY <1>3
  <2>2. run[n - 1][n - 1] = run[n][n - 1]
    BY <1>1, <2>1, RoundsUnique
  <2>3. run[n][n] = Spread(run[n][n - 1], box)
    BY <1>1, <2>1 DEF Rounds
  <2> QED BY <2>1, <2>2, <2>3
<1>4. Recursive(e)
  <2> DEFINE d == [round \in Nat |-> IF round = 0 THEN {Middle(box, p)}
                                     ELSE Spread(e[round - 1], box)]
  <2>1. \A n \in Nat : d[n] = e[n]
    BY <1>2, <1>3
  <2>2. e = [n \in Nat |-> e[n]]
    OBVIOUS
  <2>3. d = [n \in Nat |-> d[n]]
    OBVIOUS
  <2> HIDE DEF d, e
  <2>4. d = e
    BY <2>1, <2>2, <2>3
  <2> QED BY <2>4 DEF d
<1> HIDE DEF e
<1>5. Enqueued(box, p) = CHOOSE f : Recursive(f)
  BY DEF Enqueued
<1>6. Recursive(Enqueued(box, p))
  <2> HIDE DEF Recursive
  <2> QED BY <1>4, <1>5
<1> DEFINE q == Enqueued(box, p)
<1>7. q = [round \in Nat |-> IF round = 0 THEN {Middle(box, p)} ELSE Spread(q[round - 1], box)]
  BY <1>6
<1> HIDE DEF q
<1>8. q[0] = {Middle(box, p)}
  BY <1>7
<1>9. ASSUME NEW n \in Nat PROVE q[n + 1] = Spread(q[n], box)
  <2>1. n + 1 \in Nat /\ n + 1 # 0 /\ n + 1 - 1 = n
    OBVIOUS
  <2>2. \A m \in Nat : q[m] = IF m = 0 THEN {Middle(box, p)} ELSE Spread(q[m - 1], box)
    BY <1>7
  <2> QED BY <2>1, <2>2
<1> QED BY <1>8, <1>9 DEF q

(* Whole division, and products as sums.                                   *)
LEMMA Division ==
    ASSUME NEW a \in Nat, NEW b \in Nat \ {0}
    PROVE  LET n == a \div b IN
           n \in Nat /\ n * b \in Nat /\ n * b <= a /\ a < n * b + b /\ (a % b = 0 => a = n * b)
<1> DEFINE n == a \div b
<1>1. b * n <= a /\ a < b * n + b
  BY Z3
<1>2. a - n * b = a % b
  BY Z3
<1>3. n \in Nat
  OBVIOUS
<1> HIDE DEF n
<1>4. n * b = b * n /\ n * b \in Nat
  BY <1>3
<1>5. a % b = 0 => a = n * b
  BY <1>2, <1>4
<1> QED BY <1>1, <1>3, <1>4, <1>5 DEF n

(* One factor more or less.                                                *)
LEMMA Products ==
    ASSUME NEW x \in Int, NEW y \in Int, NEW h \in Nat
    PROVE  /\ x <= y => x * h <= y * h
           /\ (x + 1) * h = x * h + h /\ (x - 1) * h = x * h - h
           /\ x * h \in Int
  OBVIOUS

(* A quotient bounds what a product is bounded by.                         *)
LEMMA Bound ==
    ASSUME NEW a \in Nat, NEW b \in Nat \ {0}, NEW d \in Nat
    PROVE  d <= a \div b <=> b * d <= a
<1> DEFINE n == a \div b
<1>1. n \in Nat /\ n * b \in Nat /\ n * b <= a /\ a < n * b + b
  BY Division
<1> HIDE DEF n
<1>2. b * d = d * b /\ d * b \in Nat
  OBVIOUS
<1>3. ASSUME d <= n PROVE d * b <= a
  <2>1. d * b <= n * b
    BY <1>1, <1>3, Products
  <2> QED BY <1>1, <1>2, <2>1
<1>4. ASSUME ~(d <= n) PROVE ~(d * b <= a)
  <2>1. n + 1 <= d /\ n + 1 \in Int
    BY <1>1, <1>4
  <2>2. (n + 1) * b <= d * b /\ (n + 1) * b = n * b + b
    BY <1>1, <2>1, Products
  <2> QED BY <1>1, <1>2, <2>2
<1> QED BY <1>2, <1>3, <1>4 DEF n

(* A row (or column) of cells of size h over 0..t, and the one a lies in.  *)
LEMMA InItsCell ==
    ASSUME NEW h \in Nat \ {0}, NEW t \in Nat \ {0}, t % h = 0, NEW a \in 0..t
    PROVE  LET n == t \div h
               r == IF a \div h < n THEN a \div h ELSE n - 1
           IN  n \in Nat /\ r \in 0..(n - 1) /\ r * h <= a /\ a <= (r + 1) * h
<1> DEFINE n == t \div h
           k == a \div h
<1>1. n \in Nat /\ t = n * h /\ n * h \in Nat
  BY Division
<1>2. k \in Nat /\ k * h \in Nat /\ k * h <= a /\ a < k * h + h
  BY Division
<1> HIDE DEF n, k
<1>3. n >= 1
  <2>1. n # 0
    BY <1>1
  <2> QED BY <1>1, <2>1
<1>4. CASE k < n
  <2>1. (k + 1) * h = k * h + h
    BY <1>2, Products
  <2>2. k * h <= a /\ a <= (k + 1) * h
    BY <1>2, <2>1
  <2> QED BY <1>1, <1>2, <1>4, <2>2 DEF n, k
<1>5. CASE ~(k < n)
  <2>1. n * h <= k * h
    BY <1>1, <1>2, <1>5, Products
  <2>2. a = t
    BY <1>1, <1>2, <2>1
  <2>3. (n - 1) * h = n * h - h /\ n - 1 + 1 = n
    BY <1>1, Products
  <2>4. (n - 1) * h <= a /\ a <= (n - 1 + 1) * h /\ n - 1 \in 0..(n - 1)
    BY <1>1, <1>3, <2>2, <2>3
  <2> QED BY <1>1, <1>5, <2>4 DEF n, k
<1> QED BY <1>4, <1>5

(* The grid of a precision, and the cell a place lies in.                  *)
LEMMA CellHolds ==
    ASSUME NEW p \in Precisions, NEW lat \in -QuarterTurn..QuarterTurn, NEW lng \in -HalfTurn..HalfTurn
    PROVE  \E r \in 0..(Rows(p) - 1), k \in 0..(Columns(p) - 1) :
             /\ CellAt(p, lat, lng) = <<p, r, k>>
             /\ r * Height[p] - QuarterTurn <= lat /\ lat <= (r + 1) * Height[p] - QuarterTurn
             /\ k * Width[p] - HalfTurn <= lng /\ lng <= (k + 1) * Width[p] - HalfTurn
<1> DEFINE a == lat + QuarterTurn
           b == lng + HalfTurn
           r == IF a \div Height[p] < Rows(p) THEN a \div Height[p] ELSE Rows(p) - 1
           k == IF b \div Width[p] < Columns(p) THEN b \div Width[p] ELSE Columns(p) - 1
<1>1. /\ QuarterTurn \in Nat \ {0} /\ HalfTurn \in Nat \ {0}
      /\ Height[p] \in Nat \ {0} /\ (2 * QuarterTurn) % Height[p] = 0
      /\ Width[p] \in Nat \ {0} /\ (2 * HalfTurn) % Width[p] = 0
  BY GeoQueryAssumption DEF QuarterTurn
<1>2. a \in 0..(2 * QuarterTurn) /\ 2 * QuarterTurn \in Nat \ {0}
  BY <1>1
<1>3. b \in 0..(2 * HalfTurn) /\ 2 * HalfTurn \in Nat \ {0}
  BY <1>1
<1>4. CellAt(p, lat, lng) = <<p, r, k>>
  BY DEF CellAt
<1> HIDE DEF a, b
<1>5. r \in 0..(Rows(p) - 1) /\ r * Height[p] <= a /\ a <= (r + 1) * Height[p]
  BY <1>1, <1>2, InItsCell DEF Rows
<1>6. k \in 0..(Columns(p) - 1) /\ k * Width[p] <= b /\ b <= (k + 1) * Width[p]
  BY <1>1, <1>3, InItsCell DEF Columns
<1> HIDE DEF r, k
<1>7. Rows(p) \in Int /\ Columns(p) \in Int
  BY <1>1 DEF Rows, Columns
<1>8. r * Height[p] - QuarterTurn <= lat /\ lat <= (r + 1) * Height[p] - QuarterTurn
  BY <1>1, <1>5, <1>7 DEF a
<1>9. k * Width[p] - HalfTurn <= lng /\ lng <= (k + 1) * Width[p] - HalfTurn
  BY <1>1, <1>6, <1>7 DEF b
<1> QED BY <1>4, <1>5, <1>6, <1>8, <1>9

(* The i-th row on the way from row a to row b; columns likewise.          *)
Toward(a, b, i) ==
    IF a <= b THEN IF a + i <= b THEN a + i ELSE b
              ELSE IF a - i >= b THEN a - i ELSE b

(* It starts in a, moves by one at most, stays between a and b and is in b *)
(* after as many steps as they are apart.                                  *)
LEMMA TowardMoves ==
    ASSUME NEW a \in Int, NEW b \in Int
    PROVE  /\ Toward(a, b, 0) = a
           /\ \A i \in Nat :
                /\ Toward(a, b, i) \in Int
                /\ Toward(a, b, i + 1) - Toward(a, b, i) \in {-1, 0, 1}
                /\ \/ a <= Toward(a, b, i) /\ Toward(a, b, i) <= b
                   \/ b <= Toward(a, b, i) /\ Toward(a, b, i) <= a
           /\ \A i \in Nat : b - a <= i /\ a - b <= i => Toward(a, b, i) = b
  BY DEF Toward

(* A box is bounded by whole numbers.                                      *)
Box == [minLat : Int, maxLat : Int, minLng : Int, maxLng : Int]

(* The same in one dimension: what lies between two intervals of a row of  *)
(* them, all of which are of size h, meets what both of these meet.        *)
LEMMA Overlap ==
    ASSUME NEW h \in Nat, NEW q \in Int, NEW lo \in Int, NEW hi \in Int,
           NEW r \in Int, NEW r0 \in Int, NEW r1 \in Int, r0 <= r, r <= r1,
           (r0 + 1) * h - q >= lo, r1 * h - q <= hi
    PROVE  (r + 1) * h - q >= lo /\ r * h - q <= hi
<1> DEFINE a == (r + 1) * h
           b == (r0 + 1) * h
           c == r * h
           d == r1 * h
<1>1. a \in Int /\ b \in Int /\ c \in Int /\ d \in Int
  BY Products
<1>2. b <= a
  <2>1. r0 + 1 <= r + 1 /\ r0 + 1 \in Int /\ r + 1 \in Int
    OBVIOUS
  <2> QED BY <2>1, Products
<1>3. c <= d
  BY Products
<1>4. b - q >= lo /\ d - q <= hi
  OBVIOUS
<1> HIDE DEF a, b, c, d
<1>5. a - q >= lo /\ c - q <= hi
  BY <1>1, <1>2, <1>3, <1>4
<1> QED BY <1>5 DEF a, c

(* If two cells of a precision meet a box, so do those between them: there *)
(* is no way around.                                                       *)
LEMMA BetweenMeets ==
    ASSUME NEW p \in Precisions, NEW box \in Box,
           NEW r \in Int, NEW r0 \in Int, NEW r1 \in Int, (r0 <= r /\ r <= r1) \/ (r1 <= r /\ r <= r0),
           NEW k \in Int, NEW k0 \in Int, NEW k1 \in Int, (k0 <= k /\ k <= k1) \/ (k1 <= k /\ k <= k0),
           Meets(<<p, r0, k0>>, box), Meets(<<p, r1, k1>>, box)
    PROVE  Meets(<<p, r, k>>, box)
<1> DEFINE h == Height[p]
           w == Width[p]
<1>1. h \in Nat /\ w \in Nat /\ QuarterTurn \in Int /\ HalfTurn \in Int
  BY GeoQueryAssumption DEF QuarterTurn
<1>2. /\ box.minLat \in Int /\ box.maxLat \in Int /\ box.minLng \in Int /\ box.maxLng \in Int
  BY DEF Box
<1>3. \A x, y \in Int : Meets(<<p, x, y>>, box) <=>
        /\ (x + 1) * h - QuarterTurn >= box.minLat /\ x * h - QuarterTurn <= box.maxLat
        /\ (y + 1) * w - HalfTurn >= box.minLng /\ y * w - HalfTurn <= box.maxLng
  BY DEF Meets, Bounds
<1> HIDE DEF h, w
<1>4. (r0 + 1) * h - QuarterTurn >= box.minLat /\ r0 * h - QuarterTurn <= box.maxLat
  BY <1>3
<1>5. (r1 + 1) * h - QuarterTurn >= box.minLat /\ r1 * h - QuarterTurn <= box.maxLat
  BY <1>3
<1>6. (r + 1) * h - QuarterTurn >= box.minLat /\ r * h - QuarterTurn <= box.maxLat
  <2>1. CASE r0 <= r /\ r <= r1
    BY <1>1, <1>2, <1>4, <1>5, <2>1, Overlap
  <2>2. CASE r1 <= r /\ r <= r0
    BY <1>1, <1>2, <1>4, <1>5, <2>2, Overlap
  <2> QED BY <2>1, <2>2
<1>7. (k0 + 1) * w - HalfTurn >= box.minLng /\ k0 * w - HalfTurn <= box.maxLng
  BY <1>3
<1>8. (k1 + 1) * w - HalfTurn >= box.minLng /\ k1 * w - HalfTurn <= box.maxLng
  BY <1>3
<1>9. (k + 1) * w - HalfTurn >= box.minLng /\ k * w - HalfTurn <= box.maxLng
  <2>1. CASE k0 <= k /\ k <= k1
    BY <1>1, <1>2, <1>7, <1>8, <2>1, Overlap
  <2>2. CASE k1 <= k /\ k <= k0
    BY <1>1, <1>2, <1>7, <1>8, <2>2, Overlap
  <2> QED BY <2>1, <2>2
<1> QED BY <1>3, <1>6, <1>9

(* A cell next to another, or over its corner, is one of its neighbours.   *)
LEMMA NextIsNeighbor ==
    ASSUME NEW p \in Precisions,
           NEW r \in 0..(Rows(p) - 1), NEW s \in 0..(Rows(p) - 1), s - r \in {-1, 0, 1},
           NEW k \in 0..(Columns(p) - 1), NEW m \in 0..(Columns(p) - 1), m - k \in {-1, 0, 1}
    PROVE  <<p, s, m>> \in Neighbors(<<p, r, k>>)
<1>1. Rows(p) \in Int /\ Columns(p) \in Int
  BY GeoQueryAssumption DEF Rows, Columns, QuarterTurn
<1>2. s \in (r - 1)..(r + 1) \cap 0..(Rows(p) - 1)
  BY <1>1
<1>3. PICK east \in {-1, 0, 1} : k + east = m
  BY <1>1
<1>4. (k + east) % Columns(p) = m
  BY <1>1, <1>3
<1> QED BY <1>2, <1>4 DEF Neighbors

(* The flood fill that starts in a cell which meets the box covers every   *)
(* cell that meets it: going for that cell straight and over corners, all  *)
(* cells on the way meet the box, and there are fewer of them than rounds. *)
THEOREM FillReaches ==
    ASSUME NEW p \in Precisions, NEW box \in Box,
           NEW r0 \in 0..(Rows(p) - 1), NEW k0 \in 0..(Columns(p) - 1),
           NEW r1 \in 0..(Rows(p) - 1), NEW k1 \in 0..(Columns(p) - 1),
           Middle(box, p) = <<p, r0, k0>>,
           Meets(<<p, r0, k0>>, box), Meets(<<p, r1, k1>>, box)
    PROVE  <<p, r1, k1>> \in CoveringCells(box, p)
<1>1. Rows(p) \in Int /\ Columns(p) \in Int
  BY GeoQueryAssumption DEF Rows, Columns, QuarterTurn
<1> DEFINE R(i) == Toward(r0, r1, i)
           K(i) == Toward(k0, k1, i)
           e == Enqueued(box, p)
           Reached == {i \in Nat : <<p, R(i), K(i)>> \in e[i]}
<1>2. r0 \in Int /\ r1 \in Int /\ k0 \in Int /\ k1 \in Int
  BY <1>1
<1>3. /\ R(0) = r0
      /\ \A i \in Nat : /\ R(i) \in Int /\ R(i + 1) - R(i) \in {-1, 0, 1}
                        /\ \/ r0 <= R(i) /\ R(i) <= r1
                           \/ r1 <= R(i) /\ R(i) <= r0
      /\ \A i \in Nat : r1 - r0 <= i /\ r0 - r1 <= i => R(i) = r1
  BY <1>2, TowardMoves
<1>4. /\ K(0) = k0
      /\ \A i \in Nat : /\ K(i) \in Int /\ K(i + 1) - K(i) \in {-1, 0, 1}
                        /\ \/ k0 <= K(i) /\ K(i) <= k1
                           \/ k1 <= K(i) /\ K(i) <= k0
      /\ \A i \in Nat : k1 - k0 <= i /\ k0 - k1 <= i => K(i) = k1
  BY <1>2, TowardMoves
<1>5. e[0] = {<<p, r0, k0>>} /\ \A n \in Nat : e[n + 1] = Spread(e[n], box)
  BY EnqueuedRounds
<1> HIDE DEF R, K, e
<1>6. 0 \in Reached
  BY <1>3, <1>4, <1>5
<1>7. ASSUME NEW i \in Nat PROVE R(i) \in 0..(Rows(p) - 1) /\ K(i) \in 0..(Columns(p) - 1)
  <2>1. R(i) \in 0..(Rows(p) - 1)
    BY <1>1, <1>3
  <2>2. K(i) \in 0..(Columns(p) - 1)
    BY <1>1, <1>4
  <2> QED BY <2>1, <2>2
<1>8. ASSUME NEW i \in Nat, i \in Reached PROVE i + 1 \in Reached
  <2>1. i + 1 \in Nat /\ <<p, R(i), K(i)>> \in e[i]
    BY <1>8
  <2>2. Meets(<<p, R(i), K(i)>>, box)
    BY <1>2, <1>3, <1>4, BetweenMeets
  <2>3. <<p, R(i + 1), K(i + 1)>> \in Neighbors(<<p, R(i), K(i)>>)
    BY <1>3, <1>4, <1>7, <2>1, NextIsNeighbor
  <2>4. <<p, R(i + 1), K(i + 1)>> \in Spread(e[i], box)
    BY <2>1, <2>2, <2>3 DEF Spread
  <2> QED BY <1>5, <2>1, <2>4
<1> HIDE DEF Reached
<1>9. \A i \in Nat : i \in Reached
  BY <1>6, <1>8, Stepwise
<1> DEFINE n == Rows(p) + Columns(p)
<1>10. n \in Nat /\ r1 - r0 <= n /\ r0 - r1 <= n /\ k1 - k0 <= n /\ k0 - k1 <= n
  BY <1>1
<1> HIDE DEF n
<1>11. <<p, r1, k1>> \in e[n]
  BY <1>3, <1>4, <1>9, <1>10 DEF Reached
<1> QED BY <1>11 DEF CoveringCells, e, n

(* The box of a query, and what is in it: the places on the same side of   *)
(* the 180th meridian that are not too far north, south, east or west.     *)
LEMMA BoxOfQuery ==
    ASSUME NEW q \in Queries
    PROVE  LET box == BoxAround(q) IN
           /\ box \in Box
           /\ box.minLat <= q.lat /\ q.lat <= box.maxLat
           /\ box.minLng <= q.lng /\ q.lng <= box.maxLng
           /\ \A p \in Precisions : Middle(box, p) = CellAt(p, q.lat, q.lng)
           /\ \A x \in Positions :
                InBox(x, box) <=> /\ Place[x].lat \in (q.lat - q.radius)..(q.lat + q.radius)
                                  /\ ~FarSide(q, x) /\ ~PastWidth(q, x)
<1> DEFINE box == BoxAround(q)
           cos == CosPercent[q.lat]
           wide == IF cos = 0 THEN HalfTurn ELSE (100 * q.radius) \div cos
           delta == IF wide > HalfTurn THEN HalfTurn ELSE wide
<1>1. /\ q.lat \in Int /\ q.lng \in Int /\ q.radius \in Nat /\ cos \in Nat
      /\ HalfTurn \in Nat /\ 100 * q.radius \in Nat
  BY GeoQueryAssumption DEF QuarterTurn
<1>2. box = [minLat |-> q.lat - q.radius, maxLat |-> q.lat + q.radius,
             minLng |-> q.lng - delta,    maxLng |-> q.lng + delta]
  BY DEF BoxAround
<1>3. ASSUME NEW d \in Nat PROVE d <= wide /\ d <= HalfTurn <=> cos * d <= 100 * q.radius /\ d <= HalfTurn
  <2>1. CASE cos = 0
    BY <1>1, <2>1
  <2>2. CASE cos # 0
    <3>1. d <= (100 * q.radius) \div cos <=> cos * d <= 100 * q.radius
      <4> HIDE DEF cos
      <4> QED BY <1>1, <2>2, Bound
    <3> QED BY <2>2, <3>1
  <2> QED BY <2>1, <2>2
<1>4. wide \in Nat
  <2>1. CASE cos = 0
    BY <1>1, <2>1
  <2>2. CASE cos # 0
    <3>1. (100 * q.radius) \div cos \in Nat
      <4> HIDE DEF cos
      <4> QED BY <1>1, <2>2, Division
    <3> QED BY <2>2, <3>1
  <2> QED BY <2>1, <2>2
<1> HIDE DEF box, wide, cos
<1>5. delta \in Nat /\ \A d \in Nat : d <= delta <=> d <= wide /\ d <= HalfTurn
  BY <1>1, <1>4
<1> HIDE DEF delta
<1>6. /\ box \in Box
      /\ box.minLat = q.lat - q.radius /\ box.maxLat = q.lat + q.radius
      /\ box.minLng = q.lng - delta /\ box.maxLng = q.lng + delta
  BY <1>1, <1>2, <1>5 DEF Box
<1>7. (box.minLat + box.maxLat) \div 2 = q.lat /\ (box.minLng + box.maxLng) \div 2 = q.lng
  BY <1>1, <1>5, <1>6
<1>8. \A p \in Precisions : Middle(box, p) = CellAt(p, q.lat, q.lng)
  BY <1>7 DEF Middle
<1>9. ASSUME NEW x \in Positions
      PROVE  InBox(x, box) <=> /\ Place[x].lat \in (q.lat - q.radius)..(q.lat + q.radius)
                               /\ ~FarSide(q, x) /\ ~PastWidth(q, x)
  <2> DEFINE d == Apart(q, x)
  <2>1. Place[x].lat \in Int /\ Place[x].lng \in Int
    BY GeoQueryAssumption DEF QuarterTurn
  <2>2. d \in Nat /\ (q.lng - delta <= Place[x].lng /\ Place[x].lng <= q.lng + delta <=> d <= delta)
    BY <1>1, <1>5, <2>1 DEF Apart
  <2> HIDE DEF d
  <2>3. cos * d \in Nat
    BY <1>1, <2>2
  <2>4. d <= delta <=> ~(cos * d > 100 * q.radius) /\ ~(d > HalfTurn)
    <3> DEFINE m == cos * d
               r == 100 * q.radius
    <3>1. m \in Nat /\ r \in Nat /\ HalfTurn \in Nat /\ d \in Nat
      BY <1>1, <2>2, <2>3
    <3>2. d <= delta <=> m <= r /\ d <= HalfTurn
      BY <1>3, <1>5, <2>2
    <3> HIDE DEF m, r
    <3>3. d <= delta <=> ~(m > r) /\ ~(d > HalfTurn)
      BY <3>1, <3>2
    <3> QED BY <3>3 DEF m, r
  <2>5. d <= delta <=> ~FarSide(q, x) /\ ~PastWidth(q, x)
    BY <2>4 DEF FarSide, PastWidth, d, cos
  <2>6. InBox(x, box) <=> /\ Place[x].lat \in (q.lat - q.radius)..(q.lat + q.radius)
                          /\ q.lng - delta <= Place[x].lng /\ Place[x].lng <= q.lng + delta
    BY <1>1, <1>6, <2>1 DEF InBox
  <2> QED BY <2>2, <2>5, <2>6
<1>10. /\ box.minLat <= q.lat /\ q.lat <= box.maxLat
       /\ box.minLng <= q.lng /\ q.lng <= box.maxLng
  BY <1>1, <1>5, <1>6
<1> QED BY <1>6, <1>8, <1>9, <1>10 DEF box

(* A query looks into the cells of all places in its box.                  *)
LEMMA QueryCovers ==
    ASSUME NEW q \in Queries, NEW p \in Precisions, NEW x \in Positions, InBox(x, BoxAround(q))
    PROVE  Cell[p][x] \in CoveringCells(BoxAround(q), p)
<1> DEFINE box == BoxAround(q)
<1>1. /\ box \in Box
      /\ box.minLat <= q.lat /\ q.lat <= box.maxLat
      /\ box.minLng <= q.lng /\ q.lng <= box.maxLng
      /\ Middle(box, p) = CellAt(p, q.lat, q.lng)
  BY BoxOfQuery
<1>2. /\ q.lat \in -QuarterTurn..QuarterTurn /\ q.lng \in -HalfTurn..HalfTurn
      /\ Place[x].lat \in -QuarterTurn..QuarterTurn /\ Place[x].lng \in -HalfTurn..HalfTurn
      /\ Cell[p][x] = CellAt(p, Place[x].lat, Place[x].lng)
      /\ QuarterTurn \in Int /\ HalfTurn \in Int /\ Height[p] \in Nat /\ Width[p] \in Nat
  BY GeoQueryAssumption DEF QuarterTurn
<1>3. Rows(p) \in Int /\ Columns(p) \in Int
  BY GeoQueryAssumption DEF Rows, Columns, QuarterTurn
<1>4. /\ box.minLat <= Place[x].lat /\ Place[x].lat <= box.maxLat
      /\ box.minLng <= Place[x].lng /\ Place[x].lng <= box.maxLng
  BY DEF InBox
<1> HIDE DEF box
<1>5. ASSUME NEW lat \in -QuarterTurn..QuarterTurn, NEW lng \in -HalfTurn..HalfTurn,
             box.minLat <= lat, lat <= box.maxLat, box.minLng <= lng, lng <= box.maxLng
      PROVE  \E r \in 0..(Rows(p) - 1), k \in 0..(Columns(p) - 1) :
                CellAt(p, lat, lng) = <<p, r, k>> /\ Meets(<<p, r, k>>, box)
  <2>1. PICK r \in 0..(Rows(p) - 1), k \in 0..(Columns(p) - 1) :
             /\ CellAt(p, lat, lng) = <<p, r, k>>
             /\ r * Height[p] - QuarterTurn <= lat /\ lat <= (r + 1) * Height[p] - QuarterTurn
             /\ k * Width[p] - HalfTurn <= lng /\ lng <= (k + 1) * Width[p] - HalfTurn
    BY CellHolds
  <2> DEFINE s == r * Height[p] - QuarterTurn
             n == (r + 1) * Height[p] - QuarterTurn
             w == k * Width[p] - HalfTurn
             e == (k + 1) * Width[p] - HalfTurn
  <2>2. s \in Int /\ n \in Int /\ w \in Int /\ e \in Int
    BY <1>2, <1>3, Products
  <2>3. Meets(<<p, r, k>>, box) <=> /\ n >= box.minLat /\ s <= box.maxLat
                                    /\ e >= box.minLng /\ w <= box.maxLng
    BY DEF Meets, Bounds
  <2>4. s <= lat /\ lat <= n /\ w <= lng /\ lng <= e
    BY <2>1
  <2>5. /\ box.minLat \in Int /\ box.maxLat \in Int /\ box.minLng \in Int /\ box.maxLng \in Int
        /\ lat \in Int /\ lng \in Int
    BY <1>1, <1>2 DEF Box
  <2> HIDE DEF s, n, w, e
  <2>6. n >= box.minLat /\ s <= box.maxLat /\ e >= box.minLng /\ w <= box.maxLng
    BY <1>5, <2>2, <2>4, <2>5
  <2> QED BY <2>1, <2>3, <2>6
<1>6. PICK r0 \in 0..(Rows(p) - 1), k0 \in 0..(Columns(p) - 1) :
           CellAt(p, q.lat, q.lng) = <<p, r0, k0>> /\ Meets(<<p, r0, k0>>, box)
  BY <1>1, <1>2, <1>5
<1>7. PICK r1 \in 0..(Rows(p) - 1), k1 \in 0..(Columns(p) - 1) :
           CellAt(p, Place[x].lat, Place[x].lng) = <<p, r1, k1>> /\ Meets(<<p, r1, k1>>, box)
  BY <1>2, <1>4, <1>5
<1>8. Middle(box, p) = <<p, r0, k0>>
  BY <1>1, <1>6
<1>9. <<p, r1, k1>> \in CoveringCells(box, p)
  BY <1>1, <1>6, <1>7, <1>8, FillReaches
<1> QED BY <1>2, <1>7, <1>9 DEF box

(* In every reachable state, on every node and at every precision, a       *)
(* radius query finds only users whose location is live and within the     *)
(* radius, and all of them but for those beyond the 180th meridian and     *)
(* those the circle reaches only nearer to the pole: for every grid that   *)
(* tiles the globe, all places and all queries.                            *)
THEOREM GeoRadiusExact == Spec => []RadiusExact
<1>1. ASSUME TypeOK, IndexMatches PROVE RadiusExact
  <2> SUFFICES ASSUME NEW n \in Nodes, NEW p \in Precisions, NEW q \in Queries, NEW u \in Users
      PROVE  /\ u \in RadiusQuery(n, q, p) => u \in Within(n, q)
             /\ /\ u \in Within(n, q)
                /\ ~FarSide(q, points[n][u].pos) /\ ~PastWidth(q, points[n][u].pos)
                => u \in RadiusQuery(n, q, p)
    BY DEF RadiusExact, RadiusQuery, Within
  <2> DEFINE x == points[n][u].pos
             box == BoxAround(q)
  <2>1. ASSUME Live(n, u) PROVE x \in Positions /\ points[n][u] # Nil
    BY <1>1, <2>1 DEF TypeOK, Live, Entry
  <2>2. u \in RadiusQuery(n, q, p) <=>
           /\ Live(n, u)
           /\ x \in {y \in Positions : InBox(y, box) /\ Distance[q][y] <= q.radius}
           /\ \E c \in CoveringCells(box, p) \cap Cells : u \in index[n][p][c]
    BY DEF RadiusQuery, Passing, Looked
  <2> HIDE DEF x, box
  <2>3. ASSUME Live(n, u), InBox(x, box)
        PROVE  \E c \in CoveringCells(box, p) \cap Cells : u \in index[n][p][c]
    <3>1. Cell[p][x] \in CoveringCells(box, p)
      BY <2>1, <2>3, QueryCovers DEF box
    <3>2. Cell[p][x] \in Cells
      BY <2>1, <2>3, GeoAssumption
    <3>3. u \in index[n][p][Cell[p][x]]
      BY <1>1, <2>1, <2>3, <3>2 DEF IndexMatches, x
    <3> QED BY <3>1, <3>2, <3>3
  <2>4. ASSUME Live(n, u), Distance[q][x] <= q.radius
        PROVE  Place[x].lat \in (q.lat - q.radius)..(q.lat + q.radius)
    <3>1. /\ q.lat \in Int /\ q.radius \in Nat /\ Distance[q][x] \in Nat
          /\ Place[x].lat \in (q.lat - Distance[q][x])..(q.lat + Distance[q][x])
      BY <2>1, <2>4, GeoQueryAssumption DEF QuarterTurn
    <3> QED BY <2>4, <3>1
  <2>5. ASSUME Live(n, u)
        PROVE  InBox(x, box) <=> /\ Place[x].lat \in (q.lat - q.radius)..(q.lat + q.radius)
                                 /\ ~FarSide(q, x) /\ ~PastWidth(q, x)
    BY <2>1, <2>5, BoxOfQuery DEF box
  <2>6. u \in Within(n, q) <=> Live(n, u) /\ Distance[q][x] <= q.radius
    BY DEF Within, x
  <2>7. u \in RadiusQuery(n, q, p) => u \in Within(n, q)
    BY <2>2, <2>6
  <2>8. ASSUME u \in Within(n, q), ~FarSide(q, x), ~PastWidth(q, x)
        PROVE  u \in RadiusQuery(n, q, p)
    <3>1. Live(n, u) /\ Distance[q][x] <= q.radius
      BY <2>6, <2>8
    <3>2. InBox(x, box)
      BY <2>4, <2>5, <2>8, <3>1
    <3> QED BY <2>1, <2>2, <2>3, <3>1, <3>2
  <2> QED BY <2>7, <2>8 DEF x
<1> QED BY <1>1, GeoTypeCorrect, GeoIndexMatches, PTL
=============================================================================
