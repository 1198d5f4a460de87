------------------------------- MODULE MCReplicas -------------------------------
(* Module Replicas with a few inputs and contacts for TLC. *)
EXTENDS Replicas

(* No key, and a run, a jump and a kick at once. *)
MCKeySets == {{}, {"right", "jump", "kick"}}

(* Nothing, everybody on the ground with the ball between them, and the    *)
(* ball in the blue goal at the feet of the red player.                    *)
MCContacts ==
    {[feet |-> {}, goal |-> {}, ground |-> {}],
     [feet |-> Side, goal |-> {}, ground |-> Side],
     [feet |-> {"red"}, goal |-> {"blue"}, ground |-> {"blue"}]}
=============================================================================
