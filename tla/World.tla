-------------------------------- MODULE World --------------------------------
(***************************************************************************)
(* class World of engine/include/World.h and engine/src/World.cpp: bodies  *)
(* and colliders in slots, and the update that moves the bodies, builds    *)
(* the quad tree and looks at pairs of colliders.                          *)
(*                                                                         *)
(* What moves a body is left open: forces before a pass, the resolution of *)
(* a collision or the contact listener (Game::ResetPositions()) in the     *)
(* middle of it.  All shapes are rectangles, so two colliders overlap when *)
(* their bounding boxes at the current positions do.                       *)
(*                                                                         *)
(* No generation index ever changes: a reference is its index, and the     *)
(* "No body found !" and "No collider found !" of the code cannot happen.  *)
(***************************************************************************)
EXTENDS QuadTree, FiniteSets

CONSTANTS
    Position,       \* where a body may be, <<x, y>>
    BodyKind,       \* what the creator of a body may make of it
    ColliderKind,   \* and that of a collider
    InitSize,       \* initSize of SetUp(), 100 by default
    MaxBodies,      \* bound: the bodies enabled at a time
    MaxColliders    \* bound: the colliders attached at a time

ASSUME PositionAssumption == Position \subseteq Int \X Int
ASSUME KindAssumption ==
    /\ BodyKind # {} /\ ColliderKind # {}
    /\ BodyKind \subseteq [dynamic : BOOLEAN, Position : Position]
    /\ ColliderKind \subseteq [IsTrigger : BOOLEAN, Shape : Rectangle]
    /\ \A kind \in ColliderKind : \A axis \in {"x", "y"} :
          kind.Shape[axis].min <= kind.Shape[axis].max

ASSUME SizesAssumption == {InitSize, MaxBodies, MaxColliders} \subseteq Nat \ {0}

VARIABLES
    bodies,         \* _bodies
    colliders,      \* _colliders
    colRefPairs,    \* _colRefPairs, the trigger pairs in contact
    tree,           \* QuadTree.Nodes, as the pass finds them
    todo,           \* the pairs the pass has still to look at
    made,           \* ghost: bodies and colliders created and not destroyed
    settled         \* ghost: no body moved since the last pass began, nor was
                    \* a collider created, and the tree was not crowded

vars == <<bodies, colliders, colRefPairs, tree, todo, made, settled>>

(* A free slot, of the vector as it was resized or of a destroyed object.  *)
(* Its flag outlives the object; who creates the next one sets the rest.   *)
FreeBody(dynamic)     == [enabled |-> FALSE, dynamic |-> dynamic]
FreeCollider(trigger) == [IsAttached |-> FALSE, IsTrigger |-> trigger]

(* An object in the slot: creators make a body static or a collider a      *)
(* trigger, never a body dynamic or a collider solid.                      *)
LiveBody(slot, kind) ==
    [enabled |-> TRUE, dynamic |-> slot.dynamic /\ kind.dynamic,
     Position |-> kind.Position]
LiveColliderOfNext(slot, kind, body) ==   \* variant: the reference is off by one
    [IsAttached |-> TRUE, IsTrigger |-> slot.IsTrigger \/ kind.IsTrigger,
     Shape |-> kind.Shape, BodyRef |-> body + 1]
LiveCollider(slot, kind, body) ==
    [IsAttached |-> TRUE, IsTrigger |-> slot.IsTrigger \/ kind.IsTrigger,
     Shape |-> kind.Shape, BodyRef |-> body]

Body ==
    [enabled : {FALSE}, dynamic : BOOLEAN]
    \cup [enabled : {TRUE}, dynamic : BOOLEAN, Position : Position]
Collider(refs) ==
    [IsAttached : {FALSE}, IsTrigger : BOOLEAN]
    \cup [IsAttached : {TRUE}, IsTrigger : BOOLEAN, BodyRef : refs,
          Shape : {kind.Shape : kind \in ColliderKind}]

EnabledBodies     == {i \in DOMAIN bodies : bodies[i].enabled}
AttachedColliders == {i \in DOMAIN colliders : colliders[i].IsAttached}

(* The root is not divided. *)
Uncrowded == Cardinality(AttachedColliders) <= MaxColNbr

NoTree   == SetUpRoot([x |-> [min |-> 0, max |-> 0], y |-> [min |-> 0, max |-> 0]])
Updating == todo # << >>

TypeOK ==
    /\ bodies      \in Seq(Body)
    /\ colliders   \in Seq(Collider(EnabledBodies))
    /\ colRefPairs \subseteq {{i, j} : i, j \in DOMAIN colliders}
    /\ \A n \in 1 .. 4 : tree.Children[n] \in Seq(ColliderRefAabb)
    /\ tree.root   \in Seq(ColliderRefAabb)
    /\ todo        \in Seq(AttachedColliders \X AttachedColliders)
    /\ made        \in [{"bodies", "colliders"} -> Nat]
    /\ settled     \in BOOLEAN

Init ==
    /\ bodies      = [i \in 1 .. InitSize |-> FreeBody(TRUE)]
    /\ colliders   = [i \in 1 .. InitSize |-> FreeCollider(FALSE)]
    /\ colRefPairs = {}
    /\ tree        = NoTree
    /\ todo        = << >>
    /\ made        = [kind \in {"bodies", "colliders"} |-> 0]
    /\ settled     = FALSE

-----------------------------------------------------------------------------
(* The slots. *)

(* std::find_if and, when no slot is free, the vector doubled: the vector  *)
(* and the slot of the new object.                                         *)
Grown(slots, default) == slots \o [i \in DOMAIN slots |-> default]

SlotOfTheLast(slots, free) == Len(slots)   \* variant: the last slot, free or not
FreeSlot(slots, free) ==
    IF free = {} THEN Len(slots) + 1 ELSE Min(free)

WithRoom(slots, free, default) ==
    IF free = {} THEN Grown(slots, default) ELSE slots

(* CreateBody(), and what its caller makes of the body. *)
CreateBody ==
    /\ ~ Updating
    /\ Cardinality(EnabledBodies) < MaxBodies
    /\ \E kind \in BodyKind :
          LET free == DOMAIN bodies \ EnabledBodies
          IN  bodies' = [WithRoom(bodies, free, FreeBody(TRUE)) EXCEPT
                             ![FreeSlot(bodies, free)] = LiveBody(@, kind)]
    /\ made' = [made EXCEPT !["bodies"] = @ + 1]
    /\ UNCHANGED <<colliders, colRefPairs, tree, todo, settled>>

(* DestroyBody(), by whoever created it and after its colliders. *)
DestroyBody(i) ==
    /\ ~ Updating
    /\ i \in EnabledBodies
    /\ \A c \in AttachedColliders : colliders[c].BodyRef # i
    /\ bodies' = [bodies EXCEPT ![i] = FreeBody(@.dynamic)]
    /\ made' = [made EXCEPT !["bodies"] = @ - 1]
    /\ UNCHANGED <<colliders, colRefPairs, tree, todo, settled>>

(* CreateCollider(), and what its caller makes of the collider. *)
CreateCollider(body) ==
    /\ ~ Updating
    /\ body \in EnabledBodies
    /\ Cardinality(AttachedColliders) < MaxColliders
    /\ \E kind \in ColliderKind :
          LET free == DOMAIN colliders \ AttachedColliders
          IN  colliders' = [WithRoom(colliders, free, FreeCollider(FALSE)) EXCEPT
                  ![FreeSlot(colliders, free)] = LiveCollider(@, kind, body)]
    /\ made' = [made EXCEPT !["colliders"] = @ + 1]
    /\ settled' = FALSE
    /\ UNCHANGED <<bodies, colRefPairs, tree, todo>>

(* DestroyCollider(): its pairs stay in _colRefPairs. *)
DestroyCollider(i) ==
    /\ ~ Updating
    /\ i \in AttachedColliders
    /\ colliders' = [colliders EXCEPT ![i] = FreeCollider(@.IsTrigger)]
    /\ made' = [made EXCEPT !["colliders"] = @ - 1]
    /\ UNCHANGED <<bodies, colRefPairs, tree, todo, settled>>

(* TearDown(), and the SetUp() that comes before anything else. *)
TearDownAndSetUp ==
    /\ ~ Updating
    /\ bodies' = [i \in 1 .. InitSize |-> FreeBody(TRUE)]
    /\ colliders' = [i \in 1 .. InitSize |-> FreeCollider(FALSE)]
    /\ colRefPairs' = {}
    /\ made' = [kind \in {"bodies", "colliders"} |-> 0]
    /\ settled' = FALSE
    /\ UNCHANGED <<tree, todo>>

-----------------------------------------------------------------------------
(* Update(). *)

(* The bodies with some of them anywhere. *)
Movable == {i \in EnabledBodies : bodies[i].dynamic}
Moved(which) ==
    {[i \in DOMAIN bodies |->
        IF i \in DOMAIN to THEN [bodies[i] EXCEPT !.Position = to[i]] ELSE bodies[i]] :
     to \in [which \cap Movable -> Position]}

(* Rectangle + position. *)
Shift(interval, d) == [min |-> interval.min + d, max |-> interval.max + d]
BoundsIn(slots, i) ==
    LET shape    == colliders[i].Shape
        position == slots[colliders[i].BodyRef].Position
    IN  [x |-> Shift(shape.x, position[1]), y |-> Shift(shape.y, position[2])]

(* The bounding box of all, from a smallest positive float (0 here) on. *)
Hull(rectangles) ==
    LET axis(intervals) == [min |-> Min({i.min : i \in intervals}),
                            max |-> Max({i.max : i \in intervals} \cup {0})]
    IN  [x |-> axis({r.x : r \in rectangles}), y |-> axis({r.y : r \in rectangles})]

(* SetUpQuadTree(): the attached colliders, in the order of their slots. *)
SetUpQuadTree(slots) ==
    LET rectangles == {BoundsIn(slots, i) : i \in AttachedColliders}
        entry(i)   == [Aabb |-> BoundsIn(slots, i), ColRef |-> i]
        inserted[i \in 0 .. Len(colliders)] ==
            IF i = 0 THEN SetUpRoot(Hull(rectangles))
            ELSE IF colliders[i].IsAttached THEN Insert(inserted[i - 1], entry(i))
            ELSE inserted[i - 1]
    IN  IF AttachedColliders = {} THEN NoTree ELSE inserted[Len(colliders)]

(* UpdateBodies() and SetUpQuadTree(). *)
Update ==
    /\ ~ Updating
    /\ bodies' \in Moved(EnabledBodies)
    /\ LET new   == SetUpQuadTree(bodies')
           pairs == PairsOfTree(new)
       IN  /\ todo' = pairs
           /\ tree' = IF pairs = << >> THEN NoTree ELSE new
    /\ settled' = Uncrowded
    /\ UNCHANGED <<colliders, colRefPairs, made>>

Overlap(i, j) == Intersect(BoundsIn(bodies, i), BoundsIn(bodies, j))

(* UpdateQuadTreeCollisions(), one pair of a leaf. *)
LookAt(i, j) ==
    /\ todo # << >>
    /\ Head(todo) = <<i, j>>
    /\ todo' = Tail(todo)
    /\ tree' = IF todo' = << >> THEN NoTree ELSE tree   \* not read again
    /\ UNCHANGED <<colliders, made>>

(* Two colliders of a body. *)
SkipPair(i, j) ==
    /\ LookAt(i, j)
    /\ colliders[i].BodyRef = colliders[j].BodyRef
    /\ UNCHANGED <<bodies, colRefPairs, settled>>

(* Two solid ones: Contact::Resolve() moves the bodies of an overlap.  The *)
(* listener of the game does nothing to positions.                         *)
Collide(i, j) ==
    /\ LookAt(i, j)
    /\ colliders[i].BodyRef # colliders[j].BodyRef
    /\ ~ colliders[i].IsTrigger /\ ~ colliders[j].IsTrigger
    /\ IF Overlap(i, j)
       THEN bodies' \in Moved({colliders[i].BodyRef, colliders[j].BodyRef})
       ELSE UNCHANGED bodies
    /\ settled' = (settled /\ bodies' = bodies)
    /\ UNCHANGED colRefPairs

EnterOnly(i, j) ==   \* variant: an exit is reported and the pair is kept
    IF Overlap(i, j) THEN colRefPairs \cup {{i, j}} ELSE colRefPairs
ContactsAfter(i, j) ==
    IF Overlap(i, j) THEN colRefPairs \cup {{i, j}} ELSE colRefPairs \ {{i, j}}

(* At least one trigger: a contact that begins or ends is told to the      *)
(* listener, which may move all the bodies, and remembered.                *)
Trigger(i, j) ==
    /\ LookAt(i, j)
    /\ colliders[i].BodyRef # colliders[j].BodyRef
    /\ colliders[i].IsTrigger \/ colliders[j].IsTrigger
    /\ colRefPairs' = ContactsAfter(i, j)
    /\ IF colRefPairs' # colRefPairs
       THEN bodies' \in Moved(EnabledBodies)
       ELSE UNCHANGED bodies
    /\ settled' = (settled /\ bodies' = bodies)

Next ==
    \/ CreateBody
    \/ TearDownAndSetUp
    \/ Update
    \/ \E i \in DOMAIN bodies : DestroyBody(i) \/ CreateCollider(i)
    \/ \E i \in DOMAIN colliders : DestroyCollider(i)
    \/ \E i, j \in DOMAIN colliders : SkipPair(i, j) \/ Collide(i, j) \/ Trigger(i, j)

Spec == Init /\ [][Next]_vars

-----------------------------------------------------------------------------
(* Nobody gets a slot that is in use, also when the vector had to grow:    *)
(* there are as many slots in use as objects.  (The guard against stale    *)
(* references does not help here: no generation index changes.)            *)
LiveRefsAreDistinct ==
    /\ Cardinality(EnabledBodies) = made["bodies"]
    /\ Cardinality(AttachedColliders) = made["colliders"]

(* Two colliders whose bounding boxes meet share a leaf, however full the  *)
(* tree and wherever the boxes lie on the borders of the quarters: no      *)
(* collision is missed.                                                    *)
OverlapsShareALeaf ==
    Updating =>
        LET leaves    == {ToSet(leaf) : leaf \in ToSet(Leaves(tree))}
            inserted  == UNION leaves
        IN  /\ {e.ColRef : e \in inserted} = AttachedColliders
            /\ \A e, f \in inserted :
                  Intersect(e.Aabb, f.Aabb) => \E leaf \in leaves : {e, f} \subseteq leaf

(* Up to MAX_COL_NBR colliders, a pass looks at every pair exactly once;   *)
(* beyond, at some pairs never and at others up to four times.  A game set *)
(* up once has 13 colliders, and a node has room for 16.                   *)
EveryPairOnce ==
    Updating =>
        LET pairs       == PairsOfTree(tree)
            times(i, j) == Cardinality({k \in DOMAIN pairs : pairs[k] = <<i, j>>})
        IN  \A i, j \in AttachedColliders : i < j =>
                times(i, j) <= 4 /\ (Uncrowded => times(i, j) = 1)

(* After an update two colliders, one of them a trigger, are in contact if *)
(* and only if they overlap, whatever the updates before did, and whatever *)
(* pairs were left by a collider destroyed before: contacts begin and end  *)
(* when overlaps do.  Not when bodies moved in the middle of the pass, nor *)
(* with colliders created since, nor in a crowded tree, where the end of a *)
(* contact may be missed.                                                  *)
ContactsFollowOverlaps ==
    ~ Updating /\ settled =>
        \A i, j \in AttachedColliders :
            /\ colliders[i].BodyRef # colliders[j].BodyRef
            /\ colliders[i].IsTrigger \/ colliders[j].IsTrigger
            => ({i, j} \in colRefPairs <=> Overlap(i, j))
=============================================================================
