------------------------------ MODULE QuadTree ------------------------------
(***************************************************************************)
(* class QuadTree of engine/include/QuadTree.h and engine/src/QuadTree.cpp *)
(* with the comparison of rectangles of libs/Math/include/Shape.h: a root  *)
(* and, at MAX_DEPTH = 1, the four leaves it may be divided into.          *)
(*                                                                         *)
(* Coordinates are even integers, so that half a size is an integer too.   *)
(***************************************************************************)
EXTENDS Integers, Sequences, SequencesExt

CONSTANT MaxColNbr   \* MAX_COL_NBR

ASSUME MaxColNbrAssumption == MaxColNbr \in Nat \ {0}

(* Math::Rectangle, by the bounds of its two axes. *)
Interval == [min : Int, max : Int]
Rectangle == [x : Interval, y : Interval]

(* Intersect() of two rectangles: those that touch do. *)
Apart(i, j) == i.max < j.min \/ i.min > j.max

Intersect(r, s) == ~ Apart(r.x, s.x) /\ ~ Apart(r.y, s.y)

(* ColliderRefAabb: a collider and its bounding box. *)
ColliderRefAabb == [Aabb : Rectangle, ColRef : Nat]

(* The root holds its colliders itself or, once it has Children, in them. *)
EmptyTree(bounds) ==
    [Bounds |-> bounds, divided |-> FALSE, root |-> << >>,
     Children |-> [i \in 1 .. 4 |-> << >>]]

(* SetUpRoot(). *)
SetUpRoot(bounds) == EmptyTree(bounds)

(* The quarters of SubdivideNode(), by halves of the axes. *)
Low(i)  == [min |-> i.min, max |-> i.min + (i.max - i.min) \div 2]
High(i) == [min |-> i.min + (i.max - i.min) \div 2, max |-> i.max]

Quarter(bounds) ==
    << [x |-> Low(bounds.x),  y |-> Low(bounds.y)],
       [x |-> Low(bounds.x),  y |-> High(bounds.y)],
       [x |-> High(bounds.x), y |-> Low(bounds.y)],
       [x |-> High(bounds.x), y |-> High(bounds.y)] >>

InsertInOneChild(tree, entry) ==   \* variant: the first child that it meets
    LET met == {i \in 1 .. 4 : Intersect(entry.Aabb, Quarter(tree.Bounds)[i])}
    IN  [tree EXCEPT !.Children[Min(met)] = Append(@, entry)]

(* The children a collider meets get it, at the end of their lists; at     *)
(* MAX_DEPTH a list takes any number.                                      *)
InsertInChildren(tree, entry) ==
    [tree EXCEPT !.Children =
        [i \in 1 .. 4 |-> IF Intersect(entry.Aabb, Quarter(tree.Bounds)[i])
                          THEN Append(@[i], entry)
                          ELSE @[i]]]

(* SubdivideNode(): the colliders of the root go to the children, the new  *)
(* one last.                                                               *)
Subdivide(tree, entry) ==
    LET entries == Append(tree.root, entry)
        moved[k \in 0 .. Len(entries)] ==
            IF k = 0 THEN [tree EXCEPT !.divided = TRUE, !.root = << >>]
            ELSE InsertInChildren(moved[k - 1], entries[k])
    IN  moved[Len(entries)]

InsertEarly(tree, entry) ==   \* variant: one collider too early
    IF tree.divided THEN InsertInChildren(tree, entry)
    ELSE IF Len(tree.root) + 1 >= MaxColNbr THEN Subdivide(tree, entry)
    ELSE [tree EXCEPT !.root = Append(@, entry)]

(* Insert() at the root. *)
Insert(tree, entry) ==
    IF tree.divided THEN InsertInChildren(tree, entry)
    ELSE IF Len(tree.root) >= MaxColNbr THEN Subdivide(tree, entry)
    ELSE [tree EXCEPT !.root = Append(@, entry)]

(* The lists of the leaves, in the order they are visited. *)
Leaves(tree) == IF tree.divided THEN tree.Children ELSE <<tree.root>>

(* The pairs of a list in the order of the two loops over it. *)
PairsOf(list) ==
    FlattenSeq([i \in 1 .. Len(list) |->
        [k \in 1 .. Len(list) - i |-> <<list[i].ColRef, list[i + k].ColRef>>]])

(* All the pairs a pass over the tree looks at. *)
PairsOfTree(tree) ==
    FlattenSeq([n \in DOMAIN Leaves(tree) |-> PairsOf(Leaves(tree)[n])])
=============================================================================
