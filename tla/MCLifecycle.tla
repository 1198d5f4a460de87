---------------------------- MODULE MCLifecycle ----------------------------
(* Three clients: two play, the third takes the seat one of them leaves. *)
EXTENDS Lifecycle, TLC

Sym == Permutations(Client)
=============================================================================
