------------------------------- MODULE Rematch -------------------------------
(***************************************************************************)
(* A match that is not a player's first.  Between two matches              *)
(* Rollback::Reset() and Application::Run() clear all that Session starts  *)
(* with but one thing: inputs_ and frames_, the list of unconfirmed        *)
(* inputs.  The new match starts with what the last one left there, and    *)
(* each player comes from a match of its own.                              *)
(***************************************************************************)
EXTENDS Session

(* What a match leaves: the inputs of consecutive frames (UnackedInv of    *)
(* InputsProofs) up to the last one.  That one is never confirmed: it is   *)
(* appended after the last HandlePacket().                                 *)
Leftover ==
    UNION {{[i \in 1 .. GameFrameNbr - first |->
                [input |-> inputs[first + i - 1], frame_nbr |-> first + i - 1]]
            : inputs \in [first .. GameFrameNbr - 1 -> Input]}
           : first \in Frame}

RematchInit ==
    /\ rollback     = [p \in Player |-> RollbackInit]
    /\ unacked      \in [Player -> Leftover]
    /\ packet_queue = [p \in Player |-> << >>]
    /\ net          = [p \in Player |-> << >>]
    /\ state        = [p \in Player |-> "kInGame"]
    /\ pc           = [p \in Player |-> "loop"]
    /\ premature    = {}

RematchSpec == RematchInit /\ [][Next]_vars

Erases(p) == unacked'[p] = Tail(unacked[p])

(* application.cpp:219-222 -- the confirmation tells the other player      *)
(* "that we confirmed the frame and that he can erase the input at the     *)
(* confirmed frame in its vector of inputs": what a player erases is the   *)
(* input of a frame that is confirmed in this match.  (Up to the first     *)
(* premature confirmation.)                                                *)
OnlyConfirmedInputsAreErased ==
    [][\A p \in Player :
          premature' = {} /\ unacked[p] # << >> /\ Erases(p)
            => Head(unacked[p]).frame_nbr <= rollback'[p].confirmed_frame]_vars
=============================================================================
