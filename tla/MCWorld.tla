------------------------------- MODULE MCWorld -------------------------------
(* Module World on a small plane for TLC. *)
EXTENDS World

(* A square at the second place touches the bar of a body at the first. *)
MCPosition == {<<0, 0>>, <<4, -2>>}

MCBodyKind == {[dynamic |-> TRUE, Position |-> <<0, 0>>],
               [dynamic |-> FALSE, Position |-> <<4, -2>>]}

(* A solid square around the body, and a trigger at its right. *)
Square == [x |-> [min |-> 0, max |-> 2], y |-> [min |-> 0, max |-> 2]]
Bar    == [x |-> [min |-> 2, max |-> 6], y |-> [min |-> 0, max |-> 0]]
MCColliderKind == {[IsTrigger |-> FALSE, Shape |-> Square],
                   [IsTrigger |-> TRUE, Shape |-> Bar]}
=============================================================================
