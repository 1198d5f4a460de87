------------------------------ MODULE Lockstep ------------------------------
(***************************************************************************)
(* What a match promises, without prediction, packets or losses: two       *)
(* players sample one input per frame; the master decides frames in order, *)
(* each with the inputs both sampled for it; the follower repeats the      *)
(* master's decisions one by one.                                          *)
(***************************************************************************)
EXTENDS Integers, Sequences

CONSTANT Input

VARIABLES
    sampled,    \* the inputs each player sampled, by frame
    confirmed   \* the frames each player confirmed: both inputs of each

lockstepVars == <<sampled, confirmed>>

LockstepInit ==
    /\ sampled   = [p \in {0, 1} |-> << >>]
    /\ confirmed = [p \in {0, 1} |-> << >>]

Sample(p) ==
    /\ \E input \in Input : sampled' = [sampled EXCEPT ![p] = Append(@, input)]
    /\ UNCHANGED confirmed

(* The first n frames, as both players played them. *)
Played(n) == [i \in 1 .. n |-> <<sampled[0][i], sampled[1][i]>>]

MasterConfirms ==
    /\ \E n \in Len(confirmed[0]) + 1 .. Len(sampled[0]) :
          /\ n <= Len(sampled[1])
          /\ confirmed' = [confirmed EXCEPT ![0] = Played(n)]
    /\ UNCHANGED sampled

FollowerConfirms ==
    /\ Len(confirmed[1]) < Len(confirmed[0])
    /\ confirmed' = [confirmed EXCEPT ![1] = Append(@, confirmed[0][Len(@) + 1])]
    /\ UNCHANGED sampled

LockstepNext ==
    \/ \E p \in {0, 1} : Sample(p)
    \/ MasterConfirms
    \/ FollowerConfirms

LockstepSpec == LockstepInit /\ [][LockstepNext]_lockstepVars
=============================================================================
