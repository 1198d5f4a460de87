------------------------------ MODULE Rollback ------------------------------
(***************************************************************************)
(* The rollback manager of one player: class Rollback of                   *)
(* common/include/rollback.h and common/src/rollback.cpp.                  *)
(*                                                                         *)
(* A match is a sequence of frames.  In every frame each player holds one  *)
(* input.  The manager keeps the inputs of both players by frame, the      *)
(* game state up to the last confirmed frame (confirmed_) and the one on   *)
(* the screen (current_), which runs ahead of it on predicted inputs and   *)
(* is recomputed when a prediction was wrong.                              *)
(*                                                                         *)
(* The game is abstracted to the history of the inputs it was advanced by: *)
(* FixedUpdate() is deterministic, hence equal histories give equal games, *)
(* and the history tells apart all that an input may have changed.         *)
(***************************************************************************)
EXTENDS Integers, Sequences, SequencesExt


CONSTANTS
    GameFrameNbr,   \* metrics::kGameFrameNbr, the length of a match in frames
    Input,          \* the combinations of keys a player may hold (input::Input)
    NoInput         \* no key held: the value 0

(* 5400 in the code, well within the short that counts frames. *)
ASSUME GameFrameNbrAssumption == GameFrameNbr \in Nat \ {0}
ASSUME NoInputAssumption == NoInput \in Input

(* Players carry their player_nbr: 0, the master client, and 1. *)
Player == {0, 1}
Other(p) == 1 - p

Frame == 0 .. GameFrameNbr - 1

FrameInput == [input : Input, frame_nbr : Frame]

(* A game, as the inputs <<player 0, player 1>> of each update it made. *)
GameHistory == Seq(Input \X Input)

RollbackState ==
    [current_frame           : -1 .. GameFrameNbr,
     last_remote_input_frame : -1 .. GameFrameNbr - 1,
     frame_to_confirm        : 0 .. GameFrameNbr,
     confirmed_frame         : -1 .. GameFrameNbr - 1,
     last_inputs             : [Player -> Input],
     inputs                  : [Player -> [Frame -> Input]],
     confirmed               : GameHistory,
     current                 : GameHistory]

(* The state after Reset() and RegisterGame(): both games just started. *)
RollbackInit ==
    [current_frame           |-> -1,
     last_remote_input_frame |-> -1,
     frame_to_confirm        |-> 0,
     confirmed_frame         |-> -1,
     last_inputs             |-> [p \in Player |-> NoInput],
     inputs                  |-> [p \in Player |-> [f \in Frame |-> NoInput]],
     confirmed               |-> << >>,
     current                 |-> << >>]

-----------------------------------------------------------------------------
(* std::find_if for a frame number: the first position, or the end of the  *)
(* list when no element matches.                                           *)
FindFrame(list, frame) ==
    Min({i \in 1 .. Len(list) : list[i].frame_nbr = frame} \cup {Len(list) + 1})

(* The inputs both players hold at a frame, as far as this manager knows. *)
InputsAt(r, frame) == <<r.inputs[0][frame], r.inputs[1][frame]>>

(* The updates of the frames first, first + 1, ... (n of them). *)
Replay(r, first, n) == [i \in 1 .. n |-> InputsAt(r, first + i - 1)]

IncreaseCurrentFrame(r) == [r EXCEPT !.current_frame = @ + 1]

(* The local input of the current frame. *)
SetPlayerInput(r, p, input) ==
    [r EXCEPT !.inputs[p][r.current_frame] = input, !.last_inputs[p] = input]

(* One update of the shown game with the last known input of each player. *)
UpdateGame(r) ==
    [r EXCEPT !.current = Append(@, <<r.last_inputs[0], r.last_inputs[1]>>)]

(* The confirmed game, then every later frame before the current one. *)
DoRollback(r) ==
    [r EXCEPT !.current =
        r.confirmed \o Replay(r, r.confirmed_frame + 1,
                              r.current_frame - r.confirmed_frame - 1)]

(* Variant: the counter is incremented before the inputs are read. *)
ConfirmNextFrames(r, n) ==
    [r EXCEPT !.confirmed        = @ \o Replay(r, r.frame_to_confirm + 1, n),
              !.confirmed_frame  = @ + n,
              !.frame_to_confirm = @ + n]

(* The confirmed games that n calls of ConfirmFrame() in a row make. *)
ConfirmFrames(r, n) ==
    [r EXCEPT !.confirmed        = @ \o Replay(r, r.frame_to_confirm, n),
              !.confirmed_frame  = @ + n,
              !.frame_to_confirm = @ + n]

ConfirmFrame(r) == ConfirmFrames(r, 1)

(* ConfirmFrame() indexes inputs_ with each frame it confirms. *)
ConfirmFramesDefined(r, n) == r.frame_to_confirm + n <= GameFrameNbr

-----------------------------------------------------------------------------
(* SetOtherPlayerInput(): the inputs of the remote player arrived, as the  *)
(* list of all those it has no acknowledgement for.                        *)

IsNews(r, list) == Last(list).frame_nbr - r.last_remote_input_frame >= 1

(* The last input to take: none beyond the current frame. *)
NewLastInput(r, list) ==
    IF Last(list).frame_nbr > r.current_frame
    THEN list[FindFrame(list, r.current_frame)]
    ELSE Last(list)

MissingFrames(r, last) == r.last_remote_input_frame + 1 .. last.frame_nbr

(* The input the loop over the missing frames reads for a frame: it walks  *)
(* the list from the first missing input on, whatever the frame numbers.   *)
InputFromStart(r, list, frame) ==   \* variant: it walks from the start
    list[1 + frame - (r.last_remote_input_frame + 1)].input
MissingInput(r, list, frame) ==
    list[FindFrame(list, r.last_remote_input_frame + 1)
            + frame - (r.last_remote_input_frame + 1)].input

(* Every iterator the function dereferences points into the list. *)
RemoteInputsDefined(r, list) ==
    /\ list # << >>
    /\ IsNews(r, list) =>
        /\ Last(list).frame_nbr > r.current_frame =>
              FindFrame(list, r.current_frame) <= Len(list)
        /\ FindFrame(list, r.last_remote_input_frame + 1)
              + NewLastInput(r, list).frame_nbr - (r.last_remote_input_frame + 1)
              <= Len(list)

(* The received inputs, then the last of them as a prediction up to the    *)
(* current frame.                                                          *)
FillInputs(r, list, p) ==
    LET last == NewLastInput(r, list)
    IN  [r EXCEPT !.inputs[p] =
            [f \in Frame |->
                IF f \in last.frame_nbr .. r.current_frame THEN last.input
                ELSE IF f \in MissingFrames(r, last) THEN MissingInput(r, list, f)
                ELSE r.inputs[p][f]]]

MustRollbackForLast(r, list, p) ==   \* variant: compares the last one only
    \/ r.last_remote_input_frame = -1
    \/ NewLastInput(r, list).input # r.last_inputs[p]
MustRollback(r, list, p) ==
    \/ r.last_remote_input_frame = -1
    \/ \E f \in MissingFrames(r, NewLastInput(r, list)) :
          MissingInput(r, list, f) # r.last_inputs[p]

SetOtherPlayerInput(r, list, p) ==
    LET last   == NewLastInput(r, list)
        filled == FillInputs(r, list, p)
        shown  == IF MustRollback(r, list, p) THEN DoRollback(filled) ELSE filled
    IN  IF IsNews(r, list)
        THEN [shown EXCEPT !.last_inputs[p]          = last.input,
                           !.last_remote_input_frame = last.frame_nbr]
        ELSE r
=============================================================================
