------------------------------ MODULE Lifecycle ------------------------------
(***************************************************************************)
(* From the menu to a match and back: the part of Application::Run() and   *)
(* of the callbacks of Network that joins and leaves rooms, starts and     *)
(* ends matches (common/src/application.cpp, network.cpp), with the two    *)
(* buttons of the renderer (Renderer.cpp).  What happens within a match is *)
(* the subject of Session; a frame here only advances the counter, drains  *)
(* the packet queue and raises an event.                                   *)
(*                                                                         *)
(* One iteration of Run() dispatches the events that arrived, acts on the  *)
(* state of the game, and draws.  Drawing is part of it because a button   *)
(* acts while it is drawn: the iteration that ends a match already shows   *)
(* the button that leads back to the menu.                                 *)
(*                                                                         *)
(* The rooms are Photon's, external to src/common: at most two players, a  *)
(* number for each, counted up and never used again in that room; the      *)
(* events of a room reach a member in order, the answer to its departure   *)
(* last.                                                                   *)
(***************************************************************************)
EXTENDS Integers, Sequences, SequencesExt, FiniteSets

CONSTANTS
    Client,         \* the running programs
    GameFrameNbr,   \* metrics::kGameFrameNbr
    MaxRooms,       \* bound: the rooms ever created
    MaxJoins,       \* bound: the requests to join ever granted
    MaxLosses       \* bound: the clients without a connection at a time

ASSUME GameFrameNbrAssumption == GameFrameNbr \in Nat \ {0}
ASSUME RoomsAssumption == MaxRooms \in Nat \ {0} /\ MaxJoins \in Nat \ {0}
ASSUME LossesAssumption == MaxLosses \in Nat

VARIABLES
    state,          \* GameState, "Undefined" after an index out of bounds,
                    \* "closed" once the window is
    player_nbr,     \* Game::player_nbr of the shown game
    isWaitingOtherPlayer,
    is_connected,   \* is_connected_
    current_frame,  \* current_frame_ of rollback_
    packet_queue,   \* the rooms of the packets in the queue
    shown_world,    \* how many times the world of the shown game was set up
    confirmed_world,\* and that of confirmed_ of rollback_, since they were cleared
    link,           \* external: what the client library is doing
    room, number,   \* external: the room a client is in, its number there
    next_number,    \* external: of each room
    events,         \* external: on their way to each client
    hasty,          \* ghost: left a match for the menu before its departure
                    \* from the room was answered
    stranded        \* ghost: waits for nothing, since its request to join was
                    \* refused or its connection was lost

game_vars    == <<player_nbr, isWaitingOtherPlayer, is_connected, current_frame,
                  packet_queue, shown_world, confirmed_world>>
network_vars == <<link, room, number, next_number, events>>
vars == <<state, game_vars, network_vars, hasty, stranded>>

Room     == 1 .. MaxRooms
NoRoom   == 0
NoNumber == 0
NoPlayer == -1

JoinEvent(nr)  == [type |-> "join", of |-> nr]
CustomEvent(r) == [type |-> "custom", of |-> r]
LeftEvent      == [type |-> "left", of |-> 0]

Event == {JoinEvent(nr) : nr \in 1 .. MaxJoins}
            \cup {CustomEvent(r) : r \in Room} \cup {LeftEvent}

TypeOK ==
    /\ state \in [Client -> {"kMenu", "kInGame", "kGameFinished", "Undefined", "closed"}]
    /\ player_nbr           \in [Client -> NoPlayer .. MaxJoins - 1]
    /\ isWaitingOtherPlayer \in [Client -> BOOLEAN]
    /\ is_connected         \in [Client -> BOOLEAN]
    /\ current_frame        \in [Client -> -1 .. GameFrameNbr + MaxRooms]
    /\ packet_queue         \in [Client -> SUBSET Room]
    /\ shown_world          \in [Client -> 0 .. MaxRooms]
    /\ confirmed_world      \in [Client -> 0 .. MaxRooms]
    /\ link        \in [Client -> {"offline", "lobby", "joining", "room", "leaving"}]
    /\ room        \in [Client -> Room \cup {NoRoom}]
    /\ number      \in [Client -> NoNumber .. MaxJoins]
    /\ next_number \in [Room -> 1 .. MaxJoins + 1]
    /\ events      \in [Client -> Seq(Event)]
    /\ hasty       \in SUBSET Client
    /\ stranded    \in SUBSET Client

Init ==
    /\ state                = [c \in Client |-> "kMenu"]
    /\ player_nbr           = [c \in Client |-> NoPlayer]
    /\ isWaitingOtherPlayer = [c \in Client |-> FALSE]
    /\ is_connected         = [c \in Client |-> FALSE]
    /\ current_frame        = [c \in Client |-> -1]
    /\ packet_queue         = [c \in Client |-> {}]
    /\ shown_world          = [c \in Client |-> 0]
    /\ confirmed_world      = [c \in Client |-> 0]
    /\ link        = [c \in Client |-> "offline"]
    /\ room        = [c \in Client |-> NoRoom]
    /\ number      = [c \in Client |-> NoNumber]
    /\ next_number = [r \in Room |-> 1]
    /\ events      = [c \in Client |-> << >>]
    /\ hasty       = {}
    /\ stranded    = {}

Running(c) == state[c] \notin {"Undefined", "closed"}
Members(r) == {c \in Client : room[c] = r}

(* The connection is gone, and nobody will make another. *)
CutOff(c) == is_connected[c] /\ link[c] = "offline"

-----------------------------------------------------------------------------
(* The server and the client library. *)

(* An event for some members of a room; who is not connected gets none. *)
SendTo(clients, event) ==
    events' = [c \in Client |-> IF c \in clients /\ link[c] # "offline"
                                THEN Append(events[c], event)
                                ELSE events[c]]

(* The requests granted, by room and number. *)
Joins == {join \in Room \X (1 .. MaxJoins) : join[2] < next_number[join[1]]}

(* A room with somebody in it and a free seat, or a new one. *)
HasSeat(r) ==
    /\ Cardinality(Joins) < MaxJoins
    /\ \/ Cardinality(Members(r)) = 1
       \/ next_number[r] = 1 /\ \A q \in 1 .. r - 1 : next_number[q] > 1

ServeJoin(c) ==
    /\ link[c] = "joining"
    /\ \E r \in Room :
        /\ HasSeat(r)
        /\ link' = [link EXCEPT ![c] = "room"]
        /\ room' = [room EXCEPT ![c] = r]
        /\ number' = [number EXCEPT ![c] = next_number[r]]
        /\ next_number' = [next_number EXCEPT ![r] = @ + 1]
        /\ SendTo(Members(r) \cup {c}, JoinEvent(next_number[r]))
    /\ UNCHANGED <<state, game_vars, hasty, stranded>>

(* joinRandomOrCreateRoomReturn() does not look at the error code. *)
RefuseJoin(c) ==
    /\ link[c] = "joining"
    /\ link' = [link EXCEPT ![c] = "lobby"]
    /\ stranded' = stranded \cup {c}
    /\ UNCHANGED <<state, game_vars, room, number, next_number, events, hasty>>

(* A departure takes effect; the answer follows all other events.  The     *)
(* server also notices, some time, that a member has no connection.        *)
ServeLeave(c) ==
    /\ link[c] \in {"leaving", "offline"}
    /\ room[c] # NoRoom
    /\ room' = [room EXCEPT ![c] = NoRoom]
    /\ number' = [number EXCEPT ![c] = NoNumber]
    /\ SendTo({c}, LeftEvent)
    /\ UNCHANGED <<state, game_vars, link, next_number, hasty, stranded>>

-----------------------------------------------------------------------------
(* The callbacks of Network. *)

(* connectReturn(): connected, whatever the error code. *)
ConnectReturn(c) ==
    /\ Running(c)
    /\ ~ is_connected[c]
    /\ is_connected' = [is_connected EXCEPT ![c] = TRUE]
    /\ \E error \in BOOLEAN :
          link' = [link EXCEPT ![c] = IF error THEN "offline" ELSE "lobby"]
    /\ UNCHANGED <<state, player_nbr, isWaitingOtherPlayer, current_frame,
                   packet_queue, shown_world, confirmed_world, room, number,
                   next_number, events, hasty, stranded>>

(* disconnectReturn(), and connectionErrorReturn() before it: the server   *)
(* or a timeout ended the connection.  Both only print: is_connected_ and  *)
(* the text of the menu stay, and nobody connects again.                   *)
DisconnectReturn(c) ==
    /\ Running(c)
    /\ link[c] # "offline"
    /\ Cardinality({d \in Client : CutOff(d)}) < MaxLosses
    /\ link' = [link EXCEPT ![c] = "offline"]
    /\ events' = [events EXCEPT ![c] = << >>]
    /\ stranded' = IF state[c] = "kMenu" /\ isWaitingOtherPlayer[c]
                   THEN stranded \cup {c}
                   ELSE stranded
    /\ UNCHANGED <<state, game_vars, room, number, next_number, hasty>>

(* Variant: the match starts whenever two players are in the room. *)
StartsTheMatchOnTwo(c, nr) == Cardinality(Members(room[c])) = 2
StartsTheMatch(c, nr) == nr = 2

SeatFromOne(nr) == nr   \* variant: the number is not made an index
Seat(nr) == nr - 1

(* joinRoomEventAction(), of the client itself or of the other player:     *)
(* Game::StartGame() and Rollback::RegisterGame() set the worlds of both   *)
(* games up.                                                               *)
JoinRoomEventAction(c) ==
    LET nr == Head(events[c]).of
    IN  /\ player_nbr' = [player_nbr EXCEPT
              ![c] = IF @ = NoPlayer THEN Seat(nr) ELSE @]
        /\ IF StartsTheMatch(c, nr)
           THEN /\ state' = [state EXCEPT ![c] = "kInGame"]
                /\ shown_world' = [shown_world EXCEPT ![c] = @ + 1]
                /\ confirmed_world' = [confirmed_world EXCEPT ![c] = @ + 1]
           ELSE UNCHANGED <<state, shown_world, confirmed_world>>
        /\ UNCHANGED <<packet_queue, link>>

(* customEventAction(): the packet is queued in every state of the game. *)
CustomEventAction(c) ==
    /\ packet_queue' = [packet_queue EXCEPT ![c] = @ \cup {Head(events[c]).of}]
    /\ UNCHANGED <<state, player_nbr, shown_world, confirmed_world, link>>

(* The client is out of the room and may join another one. *)
LeaveRoomReturn(c) ==
    /\ link' = [link EXCEPT ![c] = "lobby"]
    /\ UNCHANGED <<state, player_nbr, packet_queue, shown_world, confirmed_world>>

(* Network::Service(), one event of those it dispatches. *)
Service(c) ==
    /\ Running(c)
    /\ events[c] # << >>
    /\ CASE Head(events[c]).type = "join"   -> JoinRoomEventAction(c)
         [] Head(events[c]).type = "custom" -> CustomEventAction(c)
         [] Head(events[c]).type = "left"   -> LeaveRoomReturn(c)
    /\ events' = [events EXCEPT ![c] = Tail(@)]
    /\ UNCHANGED <<isWaitingOtherPlayer, is_connected, current_frame, room,
                   number, next_number, hasty, stranded>>

-----------------------------------------------------------------------------
(* An iteration of Run() in each state of the game. *)

(* kMenu: the start button.  The request fails at once unless the client   *)
(* library is idle on the master server.                                   *)
DrawMenu(c) ==
    /\ state[c] = "kMenu"
    /\ is_connected[c]
    /\ ~ isWaitingOtherPlayer[c]
    /\ isWaitingOtherPlayer' = [isWaitingOtherPlayer EXCEPT ![c] = TRUE]
    /\ IF link[c] = "lobby"
       THEN link' = [link EXCEPT ![c] = "joining"] /\ UNCHANGED stranded
       ELSE stranded' = stranded \cup {c} /\ UNCHANGED link
    /\ UNCHANGED <<state, player_nbr, is_connected, current_frame, packet_queue,
                   shown_world, confirmed_world, room, number, next_number,
                   events, hasty>>

MatchIsOver(c) == current_frame[c] + 1 >= GameFrameNbr

(* kInGame: a frame.  HandlePacket() may return with packets left; the     *)
(* player number indexes the inputs; the event raised may be lost.         *)
RunFrame(c) ==
    /\ state[c] = "kInGame"
    /\ ~ MatchIsOver(c)
    /\ current_frame' = [current_frame EXCEPT ![c] = @ + 1]
    /\ \E left \in SUBSET packet_queue[c] :
          packet_queue' = [packet_queue EXCEPT ![c] = left]
    /\ IF player_nbr[c] \in {0, 1}
       THEN /\ \/ /\ link[c] = "room"
                  /\ SendTo(Members(room[c]) \ {c}, CustomEvent(room[c]))
               \/ UNCHANGED events
            /\ UNCHANGED state
       ELSE state' = [state EXCEPT ![c] = "Undefined"] /\ UNCHANGED events
    /\ UNCHANGED <<player_nbr, isWaitingOtherPlayer, is_connected, shown_world,
                   confirmed_world, link, room, number, next_number, hasty, stranded>>

(* Game::Restart() under the main-menu button of DrawEndGame(). *)
KeepWaiting(c) == UNCHANGED isWaitingOtherPlayer   \* variant: stays set
StopWaiting(c) ==
    isWaitingOtherPlayer' = [isWaitingOtherPlayer EXCEPT ![c] = FALSE]

KeepNumber(c) == UNCHANGED player_nbr   \* variant: the number is kept
ForgetNumber(c) == player_nbr' = [player_nbr EXCEPT ![c] = NoPlayer]

Restart(c) ==
    /\ state' = [state EXCEPT ![c] = "kMenu"]
    /\ ForgetNumber(c)
    /\ shown_world' = [shown_world EXCEPT ![c] = 0]
    /\ StopWaiting(c)

(* Game::EndGame() and Network::LeaveRoom(), when the last frame is over;  *)
(* the same iteration then draws the main-menu button.                     *)
EndOfMatch(c) ==
    /\ state[c] = "kInGame"
    /\ MatchIsOver(c)
    /\ current_frame' = [current_frame EXCEPT ![c] = @ + 1]
    /\ link' = [link EXCEPT ![c] = IF @ = "room" THEN "leaving" ELSE @]
    /\ \/ /\ state' = [state EXCEPT ![c] = "kGameFinished"]
          /\ UNCHANGED <<player_nbr, shown_world, isWaitingOtherPlayer, hasty>>
       \/ /\ Restart(c)
          /\ hasty' = hasty \cup {c}
    /\ UNCHANGED <<is_connected, packet_queue, confirmed_world, room, number,
                   next_number, events, stranded>>

(* kGameFinished: Rollback::Reset(), the queue is emptied, and the button. *)
KeepPackets(c) == UNCHANGED packet_queue   \* variant: the queue is not emptied
DropPackets(c) == packet_queue' = [packet_queue EXCEPT ![c] = {}]

KeepConfirmed(c) == UNCHANGED confirmed_world   \* variant: confirmed_ is kept
ClearConfirmed(c) == confirmed_world' = [confirmed_world EXCEPT ![c] = 0]

KeepFrame(c) == UNCHANGED current_frame   \* variant: current_frame_ is kept
ResetFrame(c) == current_frame' = [current_frame EXCEPT ![c] = -1]

GameFinished(c) ==
    /\ state[c] = "kGameFinished"
    /\ ResetFrame(c)
    /\ ClearConfirmed(c)
    /\ DropPackets(c)
    /\ \/ UNCHANGED <<state, player_nbr, shown_world, isWaitingOtherPlayer, hasty>>
       \/ /\ Restart(c)
          /\ hasty' = IF link[c] = "leaving" THEN hasty \cup {c} ELSE hasty \ {c}
    /\ UNCHANGED <<is_connected, network_vars, stranded>>

(* The window is closed: Application::TearDown() disconnects, and the      *)
(* program and all it knew are gone.                                       *)
TearDown(c) ==
    /\ Running(c)
    /\ state' = [state EXCEPT ![c] = "closed"]
    /\ player_nbr' = [player_nbr EXCEPT ![c] = NoPlayer]
    /\ isWaitingOtherPlayer' = [isWaitingOtherPlayer EXCEPT ![c] = FALSE]
    /\ is_connected' = [is_connected EXCEPT ![c] = FALSE]
    /\ current_frame' = [current_frame EXCEPT ![c] = -1]
    /\ packet_queue' = [packet_queue EXCEPT ![c] = {}]
    /\ shown_world' = [shown_world EXCEPT ![c] = 0]
    /\ confirmed_world' = [confirmed_world EXCEPT ![c] = 0]
    /\ link' = [link EXCEPT ![c] = "offline"]
    /\ events' = [events EXCEPT ![c] = << >>]
    /\ hasty' = hasty \ {c}
    /\ stranded' = stranded \ {c}
    /\ UNCHANGED <<room, number, next_number>>

Run(c) ==
    \/ Service(c)
    \/ ConnectReturn(c)
    \/ DisconnectReturn(c)
    \/ DrawMenu(c)
    \/ RunFrame(c)
    \/ EndOfMatch(c)
    \/ GameFinished(c)
    \/ TearDown(c)

Next == \E c \in Client : Run(c) \/ ServeJoin(c) \/ RefuseJoin(c) \/ ServeLeave(c)

(* Nothing is assumed of the user, the server or the network. *)
Spec == Init /\ [][Next]_vars

-----------------------------------------------------------------------------
(* A player in a match has number 0 or 1, the two indices of the inputs,   *)
(* and the one of its seat as long as the server keeps that for it: so the *)
(* two players of a room never both play blue, and no frame indexes out of *)
(* bounds, also when the connection is lost in the match.  Players that    *)
(* went back to the menu too early are excepted: the next one to join the  *)
(* room they are leaving may give them its number.                         *)
PlayersAreNumbered ==
    \A c \in Client \ hasty :
        /\ state[c] = "kInGame" =>
              /\ player_nbr[c] \in {0, 1}
              /\ number[c] # NoNumber => player_nbr[c] = number[c] - 1
        /\ state[c] # "Undefined"

(* A match starts with the frame counter reset and no packet of an earlier *)
(* one in the queue, unless the player was too early back in the menu:     *)
(* then the iteration that cleans up may not have run, and the next match  *)
(* ends in its first frame, or events of the old room still arrived.       *)
MatchesStartFresh ==
    [][\A c \in Client :
          state[c] = "kMenu" /\ state'[c] = "kInGame" /\ c \notin hasty
            => current_frame[c] = -1 /\ packet_queue[c] = {}]_vars

(* The text "Waiting for other player" is true: who waits in the menu is   *)
(* in a room or on its way to one, unless the request was refused or the   *)
(* connection was lost meanwhile; then nothing ever takes the text away.   *)
WaitingMeansJoining ==
    \A c \in Client : state[c] = "kMenu" =>
        (isWaitingOtherPlayer[c] <=>
            link[c] \in {"joining", "room"} \/ c \in stranded)

(* A game sets its world up once between two cleanings, whoever joins a    *)
(* room and when: 13 colliders, so that the root of the quad tree, with    *)
(* room for 16, is not subdivided.  Who was too early back in the menu may *)
(* set the confirmed one up twice, but no frame steps that: its match is   *)
(* over as it begins.                                                      *)
WorldsAreSetUpOnce ==
    \A c \in Client :
        /\ shown_world[c] <= 1
        /\ state[c] = "kInGame" => confirmed_world[c] = 1 \/ MatchIsOver(c)
        /\ state[c] \in {"kInGame", "kGameFinished"} => shown_world[c] = 1

(* Once the second player joined a room, each of the first two is in the   *)
(* match, is through with it, or has the event that starts it on its way.  *)
(* (A third one, after a departure, is not: it waits for a number 2.)      *)
NobodyIsLeftBehind ==
    \A c \in Client :
        state[c] = "kMenu" /\ link[c] = "room" /\ number[c] \in {1, 2}
            /\ next_number[room[c]] > 2
          => Contains(events[c], JoinEvent(2))

(* The packets a match consumes come from its own room: none of those that *)
(* arrived after the end of the last match, or in the menu, survives into  *)
(* the next.  (Without a connection none arrive, and the room is soon      *)
(* gone.)  Players that were too early back in the menu are excepted.      *)
PacketsAreOfTheRoom ==
    \A c \in Client \ hasty :
        state[c] = "kInGame" /\ room[c] # NoRoom => packet_queue[c] \subseteq {room[c]}
=============================================================================
