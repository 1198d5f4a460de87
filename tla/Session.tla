------------------------------- MODULE Session -------------------------------
(***************************************************************************)
(* One match between the two players: the in-game part of Application      *)
(* (common/src/application.cpp), the way Network delivers events to it     *)
(* (common/src/network.cpp) and one Rollback manager per player.           *)
(*                                                                         *)
(* Each player runs the loop of Application::Run().  A frame of it         *)
(* (increment the frame counter, handle the queued packets, sample the     *)
(* keys, raise an input event, update the game) neither blocks nor reads   *)
(* the network, so the frames of the two players do not overlap here; the  *)
(* arrivals of events, their losses and the frames interleave freely.      *)
(*                                                                         *)
(* The transport is Photon, external to src/common: events of one sender   *)
(* arrive in the order they were raised, reliable ones always, unreliable  *)
(* ones possibly never (Client.cpp of the vendored library says so).       *)
(***************************************************************************)
EXTENDS Rollback

VARIABLES
    rollback,      \* rollback_ of each player
    unacked,       \* inputs_ and frames_ of each player: its unconfirmed inputs
    packet_queue,  \* the packets received and not handled
    net,           \* the events on their way to each player
    state,         \* GameState of each player, or "Undefined": it made a step
                   \* that C++ leaves undefined and is gone
    pc,            \* "loop": outside a frame; "packets": in HandlePacket();
                   \* "sample": HandlePacket() returned before its queue was empty
    premature      \* ghost: the frames the master confirmed before it sampled
                   \* its own input for them

vars == <<rollback, unacked, packet_queue, net, state, pc, premature>>

Master   == 0
Follower == 1

(* An input event has no checksum; an acknowledgement has no data at all.  *)
Packet == [type     : {"kInput", "kFrameConfirmation"},
           checksum : GameHistory,
           frames   : Seq(FrameInput)]

(* Variant: only the newest input is sent. *)
NewestInputPacket(list) ==
    [type |-> "kInput", checksum |-> << >>, frames |-> <<Last(list)>>]
InputPacket(list) ==
    [type |-> "kInput", checksum |-> << >>, frames |-> list]
ConfirmationPacket(checksum, list) ==
    [type |-> "kFrameConfirmation", checksum |-> checksum, frames |-> list]
AckPacket == ConfirmationPacket(<< >>, << >>)

(* Game::CheckSum() of the confirmed game.  Two games have one checksum    *)
(* here only when they are equal; the sum in the code may also collide.    *)
CheckSum(r) == r.confirmed

TypeOK ==
    /\ rollback     \in [Player -> RollbackState]
    /\ unacked      \in [Player -> Seq(FrameInput)]
    /\ packet_queue \in [Player -> Seq(Packet)]
    /\ net          \in [Player -> Seq(Packet)]
    /\ state        \in [Player -> {"kInGame", "kGameFinished", "Undefined"}]
    /\ pc           \in [Player -> {"loop", "packets", "sample"}]
    /\ premature    \in SUBSET Frame

Init ==
    /\ rollback     = [p \in Player |-> RollbackInit]
    /\ unacked      = [p \in Player |-> << >>]
    /\ packet_queue = [p \in Player |-> << >>]
    /\ net          = [p \in Player |-> << >>]
    /\ state        = [p \in Player |-> "kInGame"]
    /\ pc           = [p \in Player |-> "loop"]
    /\ premature    = {}

-----------------------------------------------------------------------------
(* No frame is being computed. *)
BetweenFrames == \A p \in Player : pc[p] = "loop"

(* RaiseEvent(): nothing reaches a player that left the room. *)
RaiseEvents(from, packets) ==
    net' = IF state[Other(from)] = "kInGame"
           THEN [net EXCEPT ![Other(from)] = @ \o packets]
           ELSE net

(* packet_queue.push(). *)
PushFront(queue, packet) == <<packet>> \o queue   \* variant: the wrong end
Push(queue, packet) == Append(queue, packet)

(* Network::Service() dispatches the next event to ReceiveEvent(). *)
ReceiveEvent(p) ==
    /\ BetweenFrames
    /\ state[p] = "kInGame"
    /\ net[p] # << >>
    /\ packet_queue' = [packet_queue EXCEPT ![p] = Push(@, Head(net[p]))]
    /\ net' = [net EXCEPT ![p] = Tail(@)]
    /\ UNCHANGED <<rollback, unacked, state, pc, premature>>

(* The network loses an unreliable event. *)
LoseEvent(p) ==
    /\ BetweenFrames
    /\ state[p] = "kInGame"
    /\ net[p] # << >>
    /\ Head(net[p]).type = "kInput"
    /\ net' = [net EXCEPT ![p] = Tail(@)]
    /\ UNCHANGED <<rollback, unacked, packet_queue, state, pc, premature>>

MatchIsOverLate(r) == r.current_frame > GameFrameNbr   \* variant: off by one
MatchIsOver(r) == r.current_frame >= GameFrameNbr

(* The next frame, or the end of the match and LeaveRoom(): the events on   *)
(* their way to the player are no longer delivered.                        *)
BeginFrame(p) ==
    /\ BetweenFrames
    /\ state[p] = "kInGame"
    /\ LET next == IncreaseCurrentFrame(rollback[p])
       IN  /\ rollback' = [rollback EXCEPT ![p] = next]
           /\ IF MatchIsOver(next)
              THEN /\ state' = [state EXCEPT ![p] = "kGameFinished"]
                   /\ net' = [net EXCEPT ![p] = << >>]
                   /\ UNCHANGED pc
              ELSE /\ pc' = [pc EXCEPT ![p] = "packets"]
                   /\ UNCHANGED <<state, net>>
    /\ UNCHANGED <<unacked, packet_queue, premature>>

-----------------------------------------------------------------------------
(* HandlePacket(), one packet of its loop at a time. *)

FrontPacket(p) == Head(packet_queue[p])

Handling(p, type) ==
    /\ pc[p] = "packets"
    /\ packet_queue[p] # << >>
    /\ FrontPacket(p).type = type

PopNothing(p) == UNCHANGED packet_queue   \* variant: the pop is forgotten
PopPacket(p) ==
    packet_queue' = [packet_queue EXCEPT ![p] = Tail(@)]

(* The step reads or erases through an iterator or an index that does not  *)
(* point to an element.                                                    *)
UndefinedStep(p) ==
    /\ state' = [state EXCEPT ![p] = "Undefined"]
    /\ pc' = [pc EXCEPT ![p] = "loop"]
    /\ UNCHANGED <<rollback, unacked, packet_queue, net, premature>>

(* A return from the middle of the loop: the packet stays in front. *)
ReturnFromHandlePacket(p) == pc' = [pc EXCEPT ![p] = "sample"]

(* SendFrameConfirmation(): from the frame to confirm in the remote list   *)
(* on, up to its end, or to the current frame when the list goes beyond.   *)
ConfirmFrom(r, list) == FindFrame(list, r.frame_to_confirm)
ConfirmEnd(r, list) ==
    IF Last(list).frame_nbr > r.current_frame
    THEN FindFrame(list, r.current_frame)
    ELSE Len(list) + 1

(* Where its loop may end: at that iterator, or at a frame greater than    *)
(* the current one.                                                        *)
ConfirmStops(r, list) ==
    {i \in ConfirmFrom(r, list) .. Len(list) + 1 :
        \/ i = ConfirmEnd(r, list)
        \/ i <= Len(list) /\ list[i].frame_nbr > r.current_frame}

ConfirmCount(r, list) == Min(ConfirmStops(r, list)) - ConfirmFrom(r, list)

ConfirmationDefined(r, list) ==
    /\ ConfirmStops(r, list) # {}
    /\ ConfirmFramesDefined(r, ConfirmCount(r, list))

(* Variant: one event for all the frames confirmed. *)
OneConfirmation(r, n) ==
    [i \in 1 .. IF n = 0 THEN 0 ELSE 1 |->
        ConfirmationPacket(CheckSum(ConfirmFrames(r, n)), unacked[Master])]

(* One event per frame confirmed, each with all the master's unconfirmed   *)
(* inputs.                                                                 *)
Confirmations(r, n) ==
    [i \in 1 .. n |->
        ConfirmationPacket(CheckSum(ConfirmFrames(r, i)), unacked[Master])]

(* The frames confirmed include the current one: its local input is only   *)
(* sampled after HandlePacket().                                           *)
PrematureFrames(r, n) ==
    {f \in r.frame_to_confirm .. r.frame_to_confirm + n - 1 : f = r.current_frame}

(* Inputs that end before the last one received. *)
IsOld(r, list) ==
    list # << >> /\ Last(list).frame_nbr < r.last_remote_input_frame

(* Remote inputs: old ones end HandlePacket(); else the player takes them, *)
(* and the master then confirms all the frames it can.                     *)
HandleInput(p) ==
    /\ Handling(p, "kInput")
    /\ LET list  == FrontPacket(p).frames
           r     == SetOtherPlayerInput(rollback[p], list, Other(p))
           count == IF p = Master THEN ConfirmCount(r, list) ELSE 0
       IN  IF IsOld(rollback[p], list) THEN
              /\ ReturnFromHandlePacket(p)
              /\ UNCHANGED <<rollback, unacked, packet_queue, net, state, premature>>
           ELSE IF /\ RemoteInputsDefined(rollback[p], list)
                   /\ p = Master => ConfirmationDefined(r, list) THEN
              /\ rollback' = [rollback EXCEPT ![p] = ConfirmFrames(r, count)]
              /\ RaiseEvents(p, Confirmations(r, count))
              /\ premature' = premature \cup PrematureFrames(r, count)
              /\ PopPacket(p)
              /\ UNCHANGED <<unacked, state, pc>>
           ELSE UndefinedStep(p)

EraseNewest(list) == Front(list)   \* variant: the wrong end
EraseOldest(list) == Tail(list)

(* The master erases its oldest unconfirmed input. *)
HandleAck ==
    /\ Handling(Master, "kFrameConfirmation")
    /\ IF unacked[Master] # << >>
       THEN /\ unacked' = [unacked EXCEPT ![Master] = EraseOldest(@)]
            /\ PopPacket(Master)
            /\ UNCHANGED <<rollback, net, state, pc, premature>>
       ELSE UndefinedStep(Master)

(* The follower takes the master's inputs it lacks, confirms one frame and *)
(* compares the checksums: different ones end HandlePacket() at once.      *)
ConfirmedTooEarly(packet) ==   \* variant: confirms before it takes the inputs
    LET r == ConfirmFrame(rollback[Follower])
    IN  IF r.last_remote_input_frame < Last(packet.frames).frame_nbr
        THEN SetOtherPlayerInput(r, packet.frames, Master)
        ELSE r
ConfirmedByFollower(packet) ==
    LET r    == rollback[Follower]
        list == packet.frames
    IN  ConfirmFrame(IF r.last_remote_input_frame < Last(list).frame_nbr
                     THEN SetOtherPlayerInput(r, list, Master)
                     ELSE r)

ConfirmedByFollowerDefined(packet) ==
    /\ RemoteInputsDefined(rollback[Follower], packet.frames)
    /\ ConfirmFramesDefined(rollback[Follower], 1)

HandleConfirmation ==
    /\ Handling(Follower, "kFrameConfirmation")
    /\ LET packet == FrontPacket(Follower)
           r      == ConfirmedByFollower(packet)
           equal  == CheckSum(r) = packet.checksum
       IN  IF /\ ConfirmedByFollowerDefined(packet)
              /\ equal => unacked[Follower] # << >>
           THEN /\ rollback' = [rollback EXCEPT ![Follower] = r]
                /\ IF equal
                   THEN /\ RaiseEvents(Follower, <<AckPacket>>)
                        /\ unacked' = [unacked EXCEPT ![Follower] = EraseOldest(@)]
                        /\ PopPacket(Follower)
                        /\ UNCHANGED pc
                   ELSE /\ ReturnFromHandlePacket(Follower)
                        /\ UNCHANGED <<unacked, packet_queue, net>>
                /\ UNCHANGED <<state, premature>>
           ELSE UndefinedStep(Follower)

-----------------------------------------------------------------------------
(* The rest of the frame: sample the keys, keep and raise the input with   *)
(* all the unconfirmed ones, update the game with the last inputs.         *)
EndFrame(p) ==
    /\ \/ pc[p] = "sample"
       \/ pc[p] = "packets" /\ packet_queue[p] = << >>
    /\ \E input \in Input :
          LET sampled == SetPlayerInput(rollback[p], p, input)
              list    == Append(unacked[p],
                                [input     |-> input,
                                 frame_nbr |-> rollback[p].current_frame])
          IN  /\ rollback' = [rollback EXCEPT ![p] = UpdateGame(sampled)]
              /\ unacked' = [unacked EXCEPT ![p] = list]
              /\ RaiseEvents(p, <<InputPacket(list)>>)
    /\ pc' = [pc EXCEPT ![p] = "loop"]
    /\ UNCHANGED <<packet_queue, state, premature>>

(* Neither player is in the match any more. *)
MatchOver ==
    /\ \A p \in Player : state[p] # "kInGame"
    /\ UNCHANGED vars

FrameStep(p) ==
    \/ BeginFrame(p)
    \/ HandleInput(p)
    \/ p = Master /\ HandleAck
    \/ p = Follower /\ HandleConfirmation
    \/ EndFrame(p)

Next ==
    \/ \E p \in Player : ReceiveEvent(p) \/ LoseEvent(p) \/ FrameStep(p)
    \/ MatchOver

(* The loop keeps running frames as real time passes, whatever the network *)
(* does.                                                                   *)
Spec == Init /\ [][Next]_vars /\ \A p \in Player : WF_vars(FrameStep(p))
-----------------------------------------------------------------------------
(* What the protocol promises. *)

(* How many frames a player has sampled its input for, from frame 0 on;    *)
(* SetPlayerInput() is the only one to write them.                         *)
SampledCount(p) ==
    IF pc[p] = "loop" /\ state[p] = "kInGame"
    THEN rollback[p].current_frame + 1
    ELSE rollback[p].current_frame

SampledFrames(p) == 0 .. SampledCount(p) - 1

(* No frame up to this one was confirmed by the master prematurely. *)
Untainted(frame) == \A f \in premature : frame < f

TrueInputs(frame) == <<rollback[0].inputs[0][frame], rollback[1].inputs[1][frame]>>

(* The inputs a player holds for the frames it says it received from the   *)
(* other one (last_remote_input_frame_) are those the other sampled: no    *)
(* loss, repetition or capping makes the list walked in                    *)
(* SetOtherPlayerInput() slip by a frame.                                  *)
ReceivedInputsAreTrue ==
    \A p \in Player : \A f \in 0 .. rollback[p].last_remote_input_frame :
        /\ f \in SampledFrames(Other(p))
        /\ rollback[p].inputs[Other(p)][f] = rollback[Other(p)].inputs[Other(p)][f]

(* A frame is confirmed, by either player, with the inputs both players    *)
(* sampled for it and only after both sampled them; hence both players     *)
(* confirm the same game.  (Up to the first premature confirmation.)       *)
ConfirmedInputsAreTrue ==
    \A p \in Player : \A f \in 0 .. rollback[p].confirmed_frame :
        Untainted(f) =>
            /\ \A q \in Player : f \in SampledFrames(q)
            /\ rollback[p].confirmed[f + 1] = TrueInputs(f)

(* The game on the screen is what a run from the start on the inputs known *)
(* now, and on the last remote input beyond them, would show: whenever     *)
(* SetOtherPlayerInput() skips the rollback, none was needed.              *)
SpeculationExact ==
    premature = {} => \A p \in Player :
        LET r == rollback[p]
            known(q, f) == IF q # p /\ f > r.last_remote_input_frame
                           THEN r.last_inputs[q] ELSE r.inputs[q][f]
        IN  r.current = [i \in 1 .. SampledCount(p) |->
                            <<known(0, i - 1), known(1, i - 1)>>]

(* Remote inputs reach HandlePacket() in order: its return for old ones,   *)
(* which leaves the packet in front of the queue for good, is never taken. *)
NoPacketBlocksTheQueue ==
    \A p \in Player :
        Handling(p, "kInput") =>
            /\ FrontPacket(p).frames # << >>
            /\ ~ IsOld(rollback[p], FrontPacket(p).frames)

(* How many of the packets on their way to a player are of a type. *)
InFlight(p, type) ==
    Cardinality({i \in DOMAIN packet_queue[p] : packet_queue[p][i].type = type})
    + Cardinality({i \in DOMAIN net[p] : net[p][i].type = type})

(* A player keeps the inputs of an interval of frames that ends with the   *)
(* last sampled one.  The follower's starts after the last frame it        *)
(* confirmed; the master's after the last one it knows the follower        *)
(* confirmed, the acknowledgements on their way being the difference.      *)
UnackedAreTheUnconfirmed ==
    \A p \in Player :
        /\ \A i \in DOMAIN unacked[p] :
              unacked[p][i].input = rollback[p].inputs[p][unacked[p][i].frame_nbr]
        /\ premature = {} /\ state[Master] = "kInGame" =>
              LET acknowledged ==
                    IF p = Follower THEN rollback[Follower].confirmed_frame
                    ELSE rollback[Follower].confirmed_frame
                            - InFlight(Master, "kFrameConfirmation")
              IN  {unacked[p][i].frame_nbr : i \in DOMAIN unacked[p]}
                    = {f \in SampledFrames(p) : f > acknowledged}

(* Every frame the master confirmed is confirmed by the follower or has    *)
(* its confirmation on the way to it.                                      *)
ConfirmationsAreDelivered ==
    premature = {} /\ state[Follower] = "kInGame" =>
        rollback[Master].confirmed_frame =
            rollback[Follower].confirmed_frame
                + InFlight(Follower, "kFrameConfirmation")

(* No step is undefined in C++ before a premature confirmation. *)
NoUndefinedStep ==
    premature = {} => \A p \in Player : state[p] # "Undefined"

(* application.cpp:213 -- "Not same checksum for frame" is what the        *)
(* follower prints when the two players diverged; this says it never does. *)
ChecksumsAgree ==
    Handling(Follower, "kFrameConfirmation")
      /\ ConfirmedByFollowerDefined(FrontPacket(Follower))
    => CheckSum(ConfirmedByFollower(FrontPacket(Follower)))
         = FrontPacket(Follower).checksum

(* Each player leaves the match, whatever was lost, unless a premature     *)
(* confirmation broke it.                                                  *)
MatchEnds ==
    <>(premature # {} \/ \A p \in Player : state[p] = "kGameFinished")

(* The match as Lockstep sees it. *)
Abstract ==
    INSTANCE Lockstep WITH
        sampled   <- [p \in Player |->
                        [i \in 1 .. SampledCount(p) |-> rollback[p].inputs[p][i - 1]]],
        confirmed <- [p \in Player |-> rollback[p].confirmed]

(* Every step of the protocol, up to a premature confirmation, samples an  *)
(* input, confirms frames in the order and with the inputs Lockstep says,  *)
(* or changes neither the sampled inputs nor the confirmed games.          *)
ImplementsLockstep ==
    /\ Abstract!LockstepInit
    /\ [][premature' = {} => Abstract!LockstepNext]_(Abstract!lockstepVars)
=============================================================================
