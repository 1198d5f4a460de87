--------------------------- MODULE LifecycleProofs ---------------------------
(***************************************************************************)
(* Theorems about Lifecycle, for any number of clients and rooms, any      *)
(* number of requests to join and every length of a match.                 *)
(*                                                                         *)
(* A client that leaves a match keeps pieces of it: events on their way,   *)
(* packets, a frame counter, a world.  The invariant says of each piece    *)
(* where it may be found, so that none is there when a match starts.       *)
(***************************************************************************)
EXTENDS Lifecycle, FiniteSetTheorems, SequenceTheorems, TLAPS

(* Where a client is, by the state of its game: a room is left only at the *)
(* end of a match or with the connection, and a match is played in the     *)
(* room whose second player started it, or without any connection.         *)
PlaceInv ==
    \A c \in Client :
        /\ link[c] \in {"lobby", "joining"} => room[c] = NoRoom
        /\ link[c] = "room" => room[c] # NoRoom
        /\ link[c] = "joining" => state[c] = "kMenu"
        /\ state[c] \in {"kInGame", "Undefined"} =>
              /\ link[c] \in {"room", "offline"}
              /\ link[c] = "room" =>
                    number[c] \in {1, 2} /\ next_number[room[c]] > 2
        /\ state[c] = "kGameFinished" => link[c] \in {"leaving", "lobby", "offline"}
        /\ state[c] = "closed" => link[c] = "offline"
        /\ link[c] = "leaving" /\ room[c] # NoRoom => next_number[room[c]] > 2
        /\ Running(c) /\ ~ is_connected[c] =>
              state[c] = "kMenu" /\ link[c] = "offline" /\ room[c] = NoRoom

(* The seats of a room: each taken once, under the next number.            *)
SeatsInv ==
    \A c \in Client :
        /\ room[c] = NoRoom <=> number[c] = NoNumber
        /\ room[c] # NoRoom => number[c] < next_number[room[c]]
        /\ \A d \in Client :
              c # d /\ room[c] = room[d] /\ room[c] # NoRoom => number[c] # number[d]

(* The event that starts a match: once for the two players it is for, and  *)
(* only in the menu.                                                       *)
StartsOnce(c) ==
    \A i \in 1 .. Len(events[c]) : events[c][i] = JoinEvent(2) =>
        /\ state[c] = "kMenu"
        /\ link[c] = "room"
        /\ number[c] \in {1, 2}
        /\ \A j \in 1 .. Len(events[c]) : events[c][j] = JoinEvent(2) => j = i

(* The events on their way to a client: of the room it is in, and none     *)
(* after the answer to its departure.                                      *)
EventsOf(c) ==
    /\ link[c] \in {"offline", "lobby", "joining"} => events[c] = << >>
    /\ \A i \in 1 .. Len(events[c]) :
          /\ events[c][i].type = "left" =>
                i = Len(events[c]) /\ link[c] = "leaving" /\ room[c] = NoRoom
          /\ events[c][i].type = "join" /\ room[c] # NoRoom =>
                events[c][i].of < next_number[room[c]]
    /\ StartsOnce(c)

EventsInv == \A c \in Client : EventsOf(c)

(* Who is stranded waits in the menu, for nothing.                         *)
StrandedInv ==
    \A c \in stranded : /\ state[c] = "kMenu"
                       /\ isWaitingOtherPlayer[c]
                       /\ link[c] \notin {"joining", "room"}

(* The rooms whose second player has joined.                               *)
StartedRooms == {r \in Room : next_number[r] > 2}

(* The worlds of the two games.  The confirmed one is cleaned in the same  *)
(* step as the frame counter, and set up once for each room in which a     *)
(* match started: as long as it is not cleaned, the counter says that the  *)
(* match is over.                                                          *)
WorldsInv ==
    \A c \in Client :
        /\ state[c] \in {"kMenu", "closed"} => shown_world[c] = 0
        /\ state[c] \in {"kInGame", "kGameFinished", "Undefined"} => shown_world[c] = 1
        /\ state[c] \in {"kMenu", "kGameFinished"} =>
              confirmed_world[c] = 0 \/ MatchIsOver(c)
        /\ state[c] = "kInGame" => confirmed_world[c] = 1 \/ MatchIsOver(c)
        /\ state[c] = "kInGame" => confirmed_world[c] > 0
        /\ confirmed_world[c] <= Cardinality(StartedRooms)
        /\ Contains(events[c], JoinEvent(2)) =>
              confirmed_world[c] < Cardinality(StartedRooms)
        /\ current_frame[c] < GameFrameNbr + confirmed_world[c]
        /\ state[c] = "kInGame" => current_frame[c] + 1 < GameFrameNbr + confirmed_world[c]

(* What a client in the menu, not cut off, remembers of the matches        *)
(* before: nothing, until the events of its room arrive.                   *)
FreshMenu(c) ==
    /\ current_frame[c] = -1
    /\ confirmed_world[c] = 0
    /\ link[c] # "leaving"
    /\ link[c] # "room" => player_nbr[c] = NoPlayer
    /\ link[c] # "room" \/ number[c] \in {1, 2} => packet_queue[c] = {}
    /\ link[c] = "room" =>
          IF player_nbr[c] = NoPlayer
          THEN events[c] # << >> /\ events[c][1] = JoinEvent(number[c])
          ELSE player_nbr[c] = number[c] - 1

(* The packets for a client in a room are of that room, and those for one  *)
(* of the first two players follow the event that starts the match.        *)
PacketsFollow(c) ==
    \A i \in 1 .. Len(events[c]) : events[c][i].type = "custom" =>
        /\ events[c][i].of = room[c]
        /\ state[c] = "kMenu" /\ number[c] \in {1, 2} =>
              \E j \in 1 .. i - 1 : events[c][j] = JoinEvent(2)

FreshOf(c) ==
    /\ state[c] = "kMenu" /\ ~ CutOff(c) => FreshMenu(c)
    /\ state[c] = "kInGame" =>
          /\ player_nbr[c] \in {0, 1}
          /\ number[c] # NoNumber => player_nbr[c] = number[c] - 1
    /\ state[c] \in {"kMenu", "kInGame"} =>
          /\ PacketsFollow(c)
          /\ room[c] # NoRoom => packet_queue[c] \subseteq {room[c]}
    /\ state[c] # "Undefined"
    /\ confirmed_world[c] <= 1
    /\ state[c] = "closed" => confirmed_world[c] = 0

FreshInv == \A c \in Client \ hasty : FreshOf(c)

LifecycleInv ==
    /\ TypeOK
    /\ PlaceInv
    /\ SeatsInv
    /\ EventsInv
    /\ StrandedInv
    /\ WorldsInv
    /\ WaitingMeansJoining
    /\ NobodyIsLeftBehind
    /\ FreshInv

-----------------------------------------------------------------------------
(* Events and the sequences they travel in. *)

(* An event is of one of three kinds, and told by its kind and its value.  *)
LEMMA EventKinds ==
    ASSUME NEW e \in Event
    PROVE  /\ e.type \in {"join", "custom", "left"}
           /\ e.type = "join"   => e.of \in 1 .. MaxJoins /\ e = JoinEvent(e.of)
           /\ e.type = "custom" => e.of \in Room /\ e = CustomEvent(e.of)
           /\ e.type = "left"   => e = LeftEvent
  BY DEF Event, JoinEvent, CustomEvent, LeftEvent

LEMMA EventsAreEvents ==
    /\ \A nr \in 1 .. MaxJoins : JoinEvent(nr) \in Event
    /\ \A r \in Room : CustomEvent(r) \in Event
    /\ LeftEvent \in Event
  BY DEF Event

Appended(s, t, e) ==
    /\ t \in Seq(Event)
    /\ Len(t) = Len(s) + 1
    /\ \A i \in 1 .. Len(s) : t[i] = s[i]
    /\ t[Len(s) + 1] = e

HeadTaken(s, t) ==
    /\ t \in Seq(Event)
    /\ Len(s) > 0
    /\ Len(t) = Len(s) - 1
    /\ \A i \in 1 .. Len(t) : t[i] = s[i + 1]

(* What SendTo() does to the events of each client.                        *)
LEMMA SendToEvents ==
    ASSUME TypeOK, NEW clients, NEW e \in Event, SendTo(clients, e)
    PROVE  /\ events' \in [Client -> Seq(Event)]
           /\ \A c \in Client :
                 IF c \in clients /\ link[c] # "offline"
                 THEN Appended(events[c], events'[c], e)
                 ELSE events'[c] = events[c]
<1>1. ASSUME NEW c \in Client
      PROVE  Appended(events[c], Append(events[c], e), e)
  <2>1. events[c] \in Seq(Event)
    BY DEF TypeOK
  <2>2. /\ Append(events[c], e) \in Seq(Event)
        /\ Len(Append(events[c], e)) = Len(events[c]) + 1
        /\ \A i \in 1 .. Len(events[c]) : Append(events[c], e)[i] = events[c][i]
        /\ Append(events[c], e)[Len(events[c]) + 1] = e
    BY <2>1, AppendProperties
  <2>. QED  BY <2>2 DEF Appended
<1>2. ASSUME NEW c \in Client
      PROVE  events'[c] = IF c \in clients /\ link[c] # "offline"
                          THEN Append(events[c], e) ELSE events[c]
  BY DEF SendTo
<1>3. events' = [c \in Client |-> IF c \in clients /\ link[c] # "offline"
                                  THEN Append(events[c], e) ELSE events[c]]
  BY DEF SendTo
<1>4. \A c \in Client : events[c] \in Seq(Event)
  BY DEF TypeOK
<1>5. \A c \in Client : Append(events[c], e) \in Seq(Event)
  BY <1>1 DEF Appended
<1>. QED  BY <1>1, <1>2, <1>3, <1>4, <1>5

(* What Service() does to them.                                            *)
LEMMA ServiceEvents ==
    ASSUME TypeOK, NEW c \in Client, events[c] # << >>,
           events' = [events EXCEPT ![c] = Tail(@)]
    PROVE  /\ events' \in [Client -> Seq(Event)]
           /\ HeadTaken(events[c], events'[c])
           /\ Head(events[c]) = events[c][1]
           /\ Head(events[c]) \in Event
           /\ \A d \in Client \ {c} : events'[d] = events[d]
<1>1. events \in [Client -> Seq(Event)]
  BY DEF TypeOK
<1>2. events[c] \in Seq(Event)
  BY <1>1
<1>3. /\ Tail(events[c]) \in Seq(Event)
      /\ Len(events[c]) \in Nat
      /\ Len(events[c]) > 0
      /\ Len(Tail(events[c])) = Len(events[c]) - 1
      /\ \A i \in 1 .. Len(Tail(events[c])) : Tail(events[c])[i] = events[c][i + 1]
      /\ Head(events[c]) = events[c][1]
      /\ Head(events[c]) \in Event
  BY <1>2, HeadTailProperties, EmptySeq, LenProperties
<1>4. events'[c] = Tail(events[c]) /\ \A d \in Client \ {c} : events'[d] = events[d]
  BY <1>1
<1>5. events' \in [Client -> Seq(Event)]
  BY <1>1, <1>3
<1>. QED  BY <1>3, <1>4, <1>5 DEF HeadTaken
-----------------------------------------------------------------------------
(* The bounds of the model. *)

(* A request is only granted while there is a number left for the room.    *)
LEMMA NumbersLeft ==
    ASSUME TypeOK, NEW r \in Room, HasSeat(r)
    PROVE  next_number[r] \in 1 .. MaxJoins
<1>1. next_number[r] \in 1 .. MaxJoins + 1 /\ MaxJoins \in Nat /\ MaxRooms \in Nat
  BY RoomsAssumption DEF TypeOK
<1>2. ASSUME next_number[r] = MaxJoins + 1
      PROVE  FALSE
  <2>. DEFINE All == {<<r, nr>> : nr \in 1 .. MaxJoins}
              f == [nr \in 1 .. MaxJoins |-> <<r, nr>>]
  <2>1. IsFiniteSet(Joins)
    <3>1. IsFiniteSet(Room) /\ IsFiniteSet(1 .. MaxJoins)
      BY <1>1, FS_Interval DEF Room
    <3>2. IsFiniteSet(Room \X (1 .. MaxJoins))
      BY <3>1, FS_Product
    <3>3. Joins \subseteq Room \X (1 .. MaxJoins)
      BY DEF Joins
    <3>. QED  BY <3>2, <3>3, FS_Subset
  <2>2. All \subseteq Joins
    BY <1>1, <1>2 DEF Joins
  <2>3. f \in Bijection(1 .. MaxJoins, All)
    BY DEF Bijection, Injection, Surjection, IsInjective
  <2>4. ExistsBijection(1 .. MaxJoins, All)
    BY <2>3 DEF ExistsBijection
  <2>5. IsFiniteSet(1 .. MaxJoins) /\ Cardinality(1 .. MaxJoins) = MaxJoins
    BY <1>1, FS_Interval
  <2>6. Cardinality(All) = MaxJoins
    BY <2>4, <2>5, FS_Bijection
  <2>7. Cardinality(All) <= Cardinality(Joins)
    BY <2>1, <2>2, FS_Subset
  <2>8. Cardinality(Joins) \in Nat
    BY <2>1, FS_CardinalityType
  <2>. QED  BY <1>1, <2>6, <2>7, <2>8 DEF HasSeat
<1>. QED  BY <1>1, <1>2

LEMMA StartedRoomsFinite ==
    /\ IsFiniteSet(StartedRooms)
    /\ Cardinality(StartedRooms) \in 0 .. MaxRooms
<1>1. IsFiniteSet(Room) /\ Cardinality(Room) = MaxRooms /\ MaxRooms \in Nat
  BY RoomsAssumption, FS_Interval DEF Room
<1>2. StartedRooms \subseteq Room
  BY DEF StartedRooms
<1>. QED  BY <1>1, <1>2, FS_Subset, FS_CardinalityType

(* The second player of a room makes it one more started room; no other    *)
(* one does.                                                               *)
LEMMA RoomsStarted ==
    ASSUME TypeOK, NEW r \in Room, next_number' = [next_number EXCEPT ![r] = @ + 1]
    PROVE  Cardinality(StartedRooms)' =
              Cardinality(StartedRooms) + (IF next_number[r] = 2 THEN 1 ELSE 0)
<1>1. next_number \in [Room -> Int] /\ next_number[r] \in Int
  BY RoomsAssumption DEF TypeOK
<1>2. CASE next_number[r] = 2
  <2>1. StartedRooms' = StartedRooms \cup {r} /\ r \notin StartedRooms
    BY <1>1, <1>2 DEF StartedRooms
  <2>. QED  BY <1>2, <2>1, StartedRoomsFinite, FS_AddElement
<1>3. CASE next_number[r] # 2
  <2>1. StartedRooms' = StartedRooms
    BY <1>1, <1>3 DEF StartedRooms
  <2>2. Cardinality(StartedRooms) \in Nat
    BY StartedRoomsFinite
  <2>. QED  BY <1>3, <2>1, <2>2
<1>. QED  BY <1>2, <1>3
-----------------------------------------------------------------------------
(* The steps. *)

(* One event dispatched by Service(), by its kind.                         *)
Served(c) ==
    /\ Running(c)
    /\ events' \in [Client -> Seq(Event)]
    /\ HeadTaken(events[c], events'[c])
    /\ \A d \in Client \ {c} : events'[d] = events[d]
    /\ UNCHANGED <<isWaitingOtherPlayer, is_connected, current_frame, room,
                   number, next_number, hasty, stranded>>

ServedStart(c) ==
    /\ Served(c)
    /\ events[c][1] = JoinEvent(2) /\ 2 <= MaxJoins
    /\ player_nbr' = [player_nbr EXCEPT ![c] = IF @ = NoPlayer THEN 1 ELSE @]
    /\ state' = [state EXCEPT ![c] = "kInGame"]
    /\ shown_world' = [shown_world EXCEPT ![c] = @ + 1]
    /\ confirmed_world' = [confirmed_world EXCEPT ![c] = @ + 1]
    /\ UNCHANGED <<packet_queue, link>>

ServedJoin(c) ==
    /\ Served(c)
    /\ \E nr \in 1 .. MaxJoins :
          /\ nr # 2
          /\ events[c][1] = JoinEvent(nr)
          /\ player_nbr' = [player_nbr EXCEPT ![c] = IF @ = NoPlayer THEN nr - 1 ELSE @]
    /\ UNCHANGED <<state, shown_world, confirmed_world, packet_queue, link>>

ServedCustom(c) ==
    /\ Served(c)
    /\ \E r \in Room :
          /\ events[c][1] = CustomEvent(r)
          /\ packet_queue' = [packet_queue EXCEPT ![c] = @ \cup {r}]
    /\ UNCHANGED <<state, player_nbr, shown_world, confirmed_world, link>>

ServedLeft(c) ==
    /\ Served(c)
    /\ events[c][1] = LeftEvent
    /\ link' = [link EXCEPT ![c] = "lobby"]
    /\ UNCHANGED <<state, player_nbr, packet_queue, shown_world, confirmed_world>>

LEMMA ServiceByKind ==
    ASSUME TypeOK, NEW c \in Client, Service(c)
    PROVE  ServedStart(c) \/ ServedJoin(c) \/ ServedCustom(c) \/ ServedLeft(c)
<1>. DEFINE e == Head(events[c])
<1>1. /\ events' \in [Client -> Seq(Event)]
      /\ HeadTaken(events[c], events'[c])
      /\ e = events[c][1]
      /\ e \in Event
      /\ \A d \in Client \ {c} : events'[d] = events[d]
  BY ServiceEvents DEF Service
<1>2. Served(c)
  BY <1>1 DEF Service, Served
<1>3. \/ e.type = "join" /\ JoinRoomEventAction(c)
      \/ e.type = "custom" /\ CustomEventAction(c)
      \/ e.type = "left" /\ LeaveRoomReturn(c)
  BY <1>1, EventKinds DEF Service
<1>4. CASE e.type = "join" /\ JoinRoomEventAction(c)
  <2>1. e.of \in 1 .. MaxJoins /\ e = JoinEvent(e.of)
    BY <1>1, <1>4, EventKinds
  <2>2. CASE e.of = 2
    <3>1. 2 <= MaxJoins /\ Seat(e.of) = 1 /\ events[c][1] = JoinEvent(2)
      BY <1>1, <2>1, <2>2, RoomsAssumption DEF Seat
    <3>. QED  BY <1>2, <1>4, <2>2, <3>1
              DEF ServedStart, JoinRoomEventAction, StartsTheMatch
  <2>3. CASE e.of # 2
    BY <1>1, <1>2, <1>4, <2>1, <2>3
       DEF ServedJoin, JoinRoomEventAction, StartsTheMatch, Seat
  <2>. QED  BY <2>2, <2>3
<1>5. CASE e.type = "custom" /\ CustomEventAction(c)
  BY <1>1, <1>2, <1>5, EventKinds DEF ServedCustom, CustomEventAction
<1>6. CASE e.type = "left" /\ LeaveRoomReturn(c)
  BY <1>1, <1>2, <1>6, EventKinds DEF ServedLeft, LeaveRoomReturn
<1>. QED  BY <1>3, <1>4, <1>5, <1>6

(* A request granted: the number of the client, and the events sent.       *)
JoinedAs(c, r) ==
    /\ link[c] = "joining"
    /\ r \in Room
    /\ next_number[r] \in 1 .. MaxJoins
    /\ next_number' = [next_number EXCEPT ![r] = @ + 1]
    /\ link' = [link EXCEPT ![c] = "room"]
    /\ room' = [room EXCEPT ![c] = r]
    /\ number' = [number EXCEPT ![c] = next_number[r]]
    /\ events' \in [Client -> Seq(Event)]
    /\ \A d \in Client :
          IF (room[d] = r \/ d = c) /\ link[d] # "offline"
          THEN Appended(events[d], events'[d], JoinEvent(next_number[r]))
          ELSE events'[d] = events[d]
    /\ UNCHANGED <<state, game_vars, hasty, stranded>>

Joined(c) == \E r \in Room : JoinedAs(c, r)

LEMMA ServeJoinEvents ==
    ASSUME TypeOK, NEW c \in Client, ServeJoin(c)
    PROVE  Joined(c)
<1>1. PICK r \in Room :
        /\ HasSeat(r)
        /\ link' = [link EXCEPT ![c] = "room"]
        /\ room' = [room EXCEPT ![c] = r]
        /\ number' = [number EXCEPT ![c] = next_number[r]]
        /\ next_number' = [next_number EXCEPT ![r] = @ + 1]
        /\ SendTo(Members(r) \cup {c}, JoinEvent(next_number[r]))
  BY DEF ServeJoin
<1>2. next_number[r] \in 1 .. MaxJoins
  BY <1>1, NumbersLeft
<1>3. JoinEvent(next_number[r]) \in Event
  BY <1>2, EventsAreEvents
<1>4. /\ events' \in [Client -> Seq(Event)]
      /\ \A d \in Client :
            IF d \in Members(r) \cup {c} /\ link[d] # "offline"
            THEN Appended(events[d], events'[d], JoinEvent(next_number[r]))
            ELSE events'[d] = events[d]
  BY <1>1, <1>3, SendToEvents
<1>5. \A d \in Client : d \in Members(r) \cup {c} <=> room[d] = r \/ d = c
  BY DEF Members
<1>6. link[c] = "joining" /\ UNCHANGED <<state, game_vars, hasty, stranded>>
  BY DEF ServeJoin
<1>. QED  BY <1>1, <1>2, <1>4, <1>5, <1>6 DEF Joined, JoinedAs

(* A frame of c, with the packet it raises, if any, and a frame that       *)
(* indexes out of bounds.                                                  *)
Framed(c) ==
    /\ state[c] = "kInGame"
    /\ current_frame[c] + 1 < GameFrameNbr
    /\ current_frame' = [current_frame EXCEPT ![c] = @ + 1]
    /\ \E left \in SUBSET packet_queue[c] :
          packet_queue' = [packet_queue EXCEPT ![c] = left]
    /\ UNCHANGED <<player_nbr, isWaitingOtherPlayer, is_connected, shown_world,
                   confirmed_world, link, room, number, next_number, hasty, stranded>>

FrameSent(c) ==
    /\ Framed(c)
    /\ UNCHANGED state
    /\ events' \in [Client -> Seq(Event)]
    /\ \A d \in Client :
          \/ events'[d] = events[d]
          \/ /\ link[c] = "room" /\ room[c] \in Room
             /\ d # c /\ room[d] = room[c] /\ link[d] # "offline"
             /\ Appended(events[d], events'[d], CustomEvent(room[c]))

FrameUndefined(c) ==
    /\ Framed(c)
    /\ player_nbr[c] \notin {0, 1}
    /\ state' = [state EXCEPT ![c] = "Undefined"]
    /\ UNCHANGED events

LEMMA RunFrameEvents ==
    ASSUME TypeOK, PlaceInv, NEW c \in Client, RunFrame(c)
    PROVE  FrameSent(c) \/ FrameUndefined(c)
<1>0. Framed(c)
  <2>1. current_frame[c] \in Int /\ GameFrameNbr \in Int
    BY RoomsAssumption, GameFrameNbrAssumption DEF TypeOK
  <2>2. ~ MatchIsOver(c)
    BY DEF RunFrame
  <2>3. current_frame[c] + 1 < GameFrameNbr
    BY <2>1, <2>2 DEF MatchIsOver
  <2>. QED  BY <2>3 DEF RunFrame, Framed
<1>1. CASE UNCHANGED events /\ UNCHANGED state
  BY <1>0, <1>1 DEF FrameSent, TypeOK
<1>2. CASE /\ link[c] = "room"
           /\ SendTo(Members(room[c]) \ {c}, CustomEvent(room[c]))
           /\ UNCHANGED state
  <2>1. room[c] \in Room
    BY <1>2 DEF TypeOK, PlaceInv
  <2>2. CustomEvent(room[c]) \in Event
    BY <2>1, EventsAreEvents
  <2>3. /\ events' \in [Client -> Seq(Event)]
        /\ \A d \in Client :
              IF d \in Members(room[c]) \ {c} /\ link[d] # "offline"
              THEN Appended(events[d], events'[d], CustomEvent(room[c]))
              ELSE events'[d] = events[d]
    BY <1>2, <2>2, SendToEvents
  <2>4. \A d \in Client : d \in Members(room[c]) \ {c} => d # c /\ room[d] = room[c]
    BY DEF Members
  <2>. QED  BY <1>0, <1>2, <2>1, <2>3, <2>4 DEF FrameSent
<1>3. CASE /\ player_nbr[c] \notin {0, 1}
           /\ state' = [state EXCEPT ![c] = "Undefined"]
           /\ UNCHANGED events
  BY <1>0, <1>3 DEF FrameUndefined
<1>. QED  BY <1>1, <1>2, <1>3 DEF RunFrame

(* The answer to a departure.                                              *)
Left(c) ==
    /\ link[c] \in {"leaving", "offline"}
    /\ room[c] # NoRoom
    /\ room' = [room EXCEPT ![c] = NoRoom]
    /\ number' = [number EXCEPT ![c] = NoNumber]
    /\ events' \in [Client -> Seq(Event)]
    /\ IF link[c] # "offline"
       THEN Appended(events[c], events'[c], LeftEvent)
       ELSE events'[c] = events[c]
    /\ \A d \in Client \ {c} : events'[d] = events[d]
    /\ UNCHANGED <<state, game_vars, link, next_number, hasty, stranded>>

LEMMA ServeLeaveEvents ==
    ASSUME TypeOK, NEW c \in Client, ServeLeave(c)
    PROVE  Left(c)
<1>1. SendTo({c}, LeftEvent)
  BY DEF ServeLeave
<1>. QED  BY <1>1, EventsAreEvents, SendToEvents DEF ServeLeave, Left

(* The end of a match and the iterations after it, without and with a      *)
(* click.                                                                  *)
Ended(c) ==
    /\ state[c] = "kInGame"
    /\ current_frame[c] + 1 >= GameFrameNbr
    /\ current_frame' = [current_frame EXCEPT ![c] = @ + 1]
    /\ link' = [link EXCEPT ![c] = IF @ = "room" THEN "leaving" ELSE @]
    /\ state' = [state EXCEPT ![c] = "kGameFinished"]
    /\ UNCHANGED <<player_nbr, isWaitingOtherPlayer, is_connected, packet_queue,
                   shown_world, confirmed_world, room, number, next_number,
                   events, hasty, stranded>>

Restarted(c) ==
    /\ state' = [state EXCEPT ![c] = "kMenu"]
    /\ player_nbr' = [player_nbr EXCEPT ![c] = NoPlayer]
    /\ shown_world' = [shown_world EXCEPT ![c] = 0]
    /\ isWaitingOtherPlayer' = [isWaitingOtherPlayer EXCEPT ![c] = FALSE]

EndedAndRestarted(c) ==
    /\ state[c] = "kInGame"
    /\ current_frame[c] + 1 >= GameFrameNbr
    /\ current_frame' = [current_frame EXCEPT ![c] = @ + 1]
    /\ link' = [link EXCEPT ![c] = IF @ = "room" THEN "leaving" ELSE @]
    /\ Restarted(c)
    /\ hasty' = hasty \cup {c}
    /\ UNCHANGED <<is_connected, packet_queue, confirmed_world, room, number,
                   next_number, events, stranded>>

Cleaned(c) ==
    /\ state[c] = "kGameFinished"
    /\ current_frame' = [current_frame EXCEPT ![c] = -1]
    /\ confirmed_world' = [confirmed_world EXCEPT ![c] = 0]
    /\ packet_queue' = [packet_queue EXCEPT ![c] = {}]
    /\ UNCHANGED <<is_connected, network_vars, stranded>>

CleanedOnly(c) ==
    /\ Cleaned(c)
    /\ UNCHANGED <<state, player_nbr, shown_world, isWaitingOtherPlayer, hasty>>

CleanedAndRestarted(c) ==
    /\ Cleaned(c)
    /\ Restarted(c)
    /\ hasty' = IF link[c] = "leaving" THEN hasty \cup {c} ELSE hasty \ {c}

(* The window closed: no events any more.                                  *)
Closed(c) ==
    /\ TearDown(c)
    /\ events' \in [Client -> Seq(Event)]
    /\ events'[c] = << >>
    /\ \A d \in Client \ {c} : events'[d] = events[d]

LEMMA TearDownEvents ==
    ASSUME TypeOK, NEW c \in Client, TearDown(c)
    PROVE  Closed(c)
<1>1. events \in [Client -> Seq(Event)] /\ events' = [events EXCEPT ![c] = << >>]
  BY DEF TypeOK, TearDown
<1>2. << >> \in Seq(Event)
  BY EmptySeq
<1>. QED  BY <1>1, <1>2 DEF Closed

(* The connection lost: no events any more either.                         *)
Disconnected(c) ==
    /\ DisconnectReturn(c)
    /\ events' \in [Client -> Seq(Event)]
    /\ events'[c] = << >>
    /\ \A d \in Client \ {c} : events'[d] = events[d]

LEMMA DisconnectEvents ==
    ASSUME TypeOK, NEW c \in Client, DisconnectReturn(c)
    PROVE  Disconnected(c)
<1>1. events \in [Client -> Seq(Event)] /\ events' = [events EXCEPT ![c] = << >>]
  BY DEF TypeOK, DisconnectReturn
<1>2. << >> \in Seq(Event)
  BY EmptySeq
<1>. QED  BY <1>1, <1>2 DEF Disconnected

(* What a client, or the server for it, does in one step.                  *)
Step(c) == Run(c) \/ ServeJoin(c) \/ RefuseJoin(c) \/ ServeLeave(c)

(* The effects of a step, one of which it has.                             *)
Effect(c) ==
    \/ ServedStart(c)
    \/ ServedJoin(c)
    \/ ServedCustom(c)
    \/ ServedLeft(c)
    \/ ConnectReturn(c)
    \/ DrawMenu(c)
    \/ FrameSent(c)
    \/ FrameUndefined(c)
    \/ Ended(c)
    \/ EndedAndRestarted(c)
    \/ CleanedOnly(c)
    \/ CleanedAndRestarted(c)
    \/ Closed(c)
    \/ Joined(c)
    \/ RefuseJoin(c)
    \/ Left(c)
    \/ Disconnected(c)

LEMMA StepEffects ==
    ASSUME TypeOK, PlaceInv, NEW c \in Client, Step(c)
    PROVE  Effect(c)
<1>1. CASE Service(c)
  BY <1>1, ServiceByKind DEF Effect
<1>2. CASE RunFrame(c)
  BY <1>2, RunFrameEvents DEF Effect
<1>3. CASE EndOfMatch(c)
  <2>1. Ended(c) \/ EndedAndRestarted(c)
    BY <1>3 DEF EndOfMatch, MatchIsOver, Ended, EndedAndRestarted, Restart,
                Restarted, ForgetNumber, StopWaiting
  <2>. QED  BY <2>1 DEF Effect
<1>4. CASE GameFinished(c)
  <2>1. CleanedOnly(c) \/ CleanedAndRestarted(c)
    BY <1>4 DEF GameFinished, Cleaned, CleanedOnly, CleanedAndRestarted, Restart, Restarted,
                ForgetNumber, StopWaiting, ResetFrame, ClearConfirmed, DropPackets
  <2>. QED  BY <2>1 DEF Effect
<1>5. CASE ServeJoin(c)
  BY <1>5, ServeJoinEvents DEF Effect
<1>6. CASE ServeLeave(c)
  BY <1>6, ServeLeaveEvents DEF Effect
<1>7. CASE TearDown(c)
  BY <1>7, TearDownEvents DEF Effect
<1>8. CASE DisconnectReturn(c)
  BY <1>8, DisconnectEvents DEF Effect
<1>. QED  BY <1>1, <1>2, <1>3, <1>4, <1>5, <1>6, <1>7, <1>8 DEF Step, Run, Effect
-----------------------------------------------------------------------------
(* The types, in groups.                                                   *)
MenuTypes ==
    /\ state \in [Client -> {"kMenu", "kInGame", "kGameFinished", "Undefined", "closed"}]
    /\ player_nbr           \in [Client -> NoPlayer .. MaxJoins - 1]
    /\ isWaitingOtherPlayer \in [Client -> BOOLEAN]
    /\ is_connected         \in [Client -> BOOLEAN]

MatchTypes ==
    /\ current_frame        \in [Client -> -1 .. GameFrameNbr + MaxRooms]
    /\ packet_queue         \in [Client -> SUBSET Room]
    /\ shown_world          \in [Client -> 0 .. MaxRooms]
    /\ confirmed_world      \in [Client -> 0 .. MaxRooms]

RoomTypes ==
    /\ link        \in [Client -> {"offline", "lobby", "joining", "room", "leaving"}]
    /\ room        \in [Client -> Room \cup {NoRoom}]
    /\ number      \in [Client -> NoNumber .. MaxJoins]
    /\ next_number \in [Room -> 1 .. MaxJoins + 1]

EventTypes ==
    /\ events      \in [Client -> Seq(Event)]
    /\ hasty       \in SUBSET Client
    /\ stranded     \in SUBSET Client

LEMMA TypeGroups == TypeOK <=> MenuTypes /\ MatchTypes /\ RoomTypes /\ EventTypes
  BY DEF TypeOK, MenuTypes, MatchTypes, RoomTypes, EventTypes

(* The state of the game and what the menu reads. *)
LEMMA MenuTypesStep ==
    ASSUME MenuTypes, NEW c \in Client, Effect(c)
    PROVE  MenuTypes'
<1>1. CASE ServedStart(c)
  BY <1>1, RoomsAssumption
  DEF ServedStart, Served, HeadTaken, Running, MenuTypes, NoPlayer
<1>2. CASE ServedJoin(c)
  BY <1>2, RoomsAssumption
  DEF ServedJoin, Served, HeadTaken, Running, MenuTypes, NoPlayer
<1>3. CASE ServedCustom(c)
  BY <1>3, RoomsAssumption
  DEF ServedCustom, Served, HeadTaken, Running, MenuTypes, NoPlayer
<1>4. CASE ServedLeft(c)
  BY <1>4, RoomsAssumption
  DEF ServedLeft, Served, HeadTaken, Running, MenuTypes, NoPlayer
<1>5. CASE ConnectReturn(c)
  BY <1>5, RoomsAssumption
  DEF ConnectReturn, Running, MenuTypes, NoPlayer
<1>6. CASE DrawMenu(c)
  BY <1>6, RoomsAssumption
  DEF DrawMenu, MenuTypes, NoPlayer
<1>7. CASE FrameSent(c)
  BY <1>7, RoomsAssumption
  DEF FrameSent, Framed, Appended, MenuTypes, NoPlayer
<1>8. CASE FrameUndefined(c)
  BY <1>8, RoomsAssumption
  DEF FrameUndefined, Framed, MenuTypes, NoPlayer
<1>9. CASE Ended(c)
  BY <1>9, RoomsAssumption
  DEF Ended, MenuTypes, NoPlayer
<1>10. CASE EndedAndRestarted(c)
  BY <1>10, RoomsAssumption
  DEF EndedAndRestarted, Restarted, MenuTypes, NoPlayer
<1>11. CASE CleanedOnly(c)
  BY <1>11, RoomsAssumption
  DEF CleanedOnly, Cleaned, network_vars, MenuTypes, NoPlayer
<1>12. CASE CleanedAndRestarted(c)
  BY <1>12, RoomsAssumption
  DEF CleanedAndRestarted, Cleaned, Restarted, network_vars, MenuTypes,
      NoPlayer
<1>13. CASE Closed(c)
  BY <1>13, RoomsAssumption
  DEF Closed, TearDown, Running, MenuTypes, NoPlayer
<1>14. CASE Joined(c)
  BY <1>14, RoomsAssumption
  DEF Joined, JoinedAs, Appended, game_vars, MenuTypes, NoPlayer
<1>15. CASE RefuseJoin(c)
  BY <1>15, RoomsAssumption
  DEF RefuseJoin, game_vars, MenuTypes, NoPlayer
<1>16. CASE Left(c)
  BY <1>16, RoomsAssumption
  DEF Left, Appended, game_vars, MenuTypes, NoPlayer
<1>17. CASE Disconnected(c)
  BY <1>17, RoomsAssumption
  DEF Disconnected, DisconnectReturn, game_vars, MenuTypes, NoPlayer
<1>. QED  BY <1>1, <1>2, <1>3, <1>4, <1>5, <1>6, <1>7, <1>8, <1>9, <1>10, <1>11,
     <1>12, <1>13, <1>14, <1>15, <1>16, <1>17
  DEF Effect

(* Rooms and numbers. *)
LEMMA RoomTypesStep ==
    ASSUME RoomTypes, NEW c \in Client, Effect(c)
    PROVE  RoomTypes'
<1>1. CASE ServedStart(c)
  BY <1>1, RoomsAssumption
  DEF ServedStart, Served, HeadTaken, Running, RoomTypes, NoRoom, NoNumber
<1>2. CASE ServedJoin(c)
  BY <1>2, RoomsAssumption
  DEF ServedJoin, Served, HeadTaken, Running, RoomTypes, NoRoom, NoNumber
<1>3. CASE ServedCustom(c)
  BY <1>3, RoomsAssumption
  DEF ServedCustom, Served, HeadTaken, Running, RoomTypes, NoRoom, NoNumber
<1>4. CASE ServedLeft(c)
  BY <1>4, RoomsAssumption
  DEF ServedLeft, Served, HeadTaken, Running, RoomTypes, NoRoom, NoNumber
<1>5. CASE ConnectReturn(c)
  BY <1>5, RoomsAssumption
  DEF ConnectReturn, Running, RoomTypes, NoRoom, NoNumber
<1>6. CASE DrawMenu(c)
  BY <1>6, RoomsAssumption
  DEF DrawMenu, RoomTypes, NoRoom, NoNumber
<1>7. CASE FrameSent(c)
  BY <1>7, RoomsAssumption
  DEF FrameSent, Framed, Appended, RoomTypes, NoRoom, NoNumber
<1>8. CASE FrameUndefined(c)
  BY <1>8, RoomsAssumption
  DEF FrameUndefined, Framed, RoomTypes, NoRoom, NoNumber
<1>9. CASE Ended(c)
  BY <1>9, RoomsAssumption
  DEF Ended, RoomTypes, NoRoom, NoNumber
<1>10. CASE EndedAndRestarted(c)
  BY <1>10, RoomsAssumption
  DEF EndedAndRestarted, Restarted, RoomTypes, NoRoom, NoNumber
<1>11. CASE CleanedOnly(c)
  BY <1>11, RoomsAssumption
  DEF CleanedOnly, Cleaned, network_vars, RoomTypes, NoRoom, NoNumber
<1>12. CASE CleanedAndRestarted(c)
  BY <1>12, RoomsAssumption
  DEF CleanedAndRestarted, Cleaned, Restarted, network_vars, RoomTypes,
      NoRoom, NoNumber
<1>13. CASE Closed(c)
  BY <1>13, RoomsAssumption
  DEF Closed, TearDown, Running, RoomTypes, NoRoom, NoNumber
<1>14. CASE Joined(c)
  BY <1>14, RoomsAssumption
  DEF Joined, JoinedAs, Appended, game_vars, RoomTypes, NoRoom, NoNumber
<1>15. CASE RefuseJoin(c)
  BY <1>15, RoomsAssumption
  DEF RefuseJoin, game_vars, RoomTypes, NoRoom, NoNumber
<1>16. CASE Left(c)
  BY <1>16, RoomsAssumption
  DEF Left, Appended, game_vars, RoomTypes, NoRoom, NoNumber
<1>17. CASE Disconnected(c)
  BY <1>17, RoomsAssumption
  DEF Disconnected, DisconnectReturn, game_vars, RoomTypes, NoRoom, NoNumber
<1>. QED  BY <1>1, <1>2, <1>3, <1>4, <1>5, <1>6, <1>7, <1>8, <1>9, <1>10, <1>11,
     <1>12, <1>13, <1>14, <1>15, <1>16, <1>17
  DEF Effect

(* Events on their way. *)
LEMMA EventTypesStep ==
    ASSUME TypeOK, NEW c \in Client, Effect(c)
    PROVE  EventTypes'
<1>1. CASE ServedStart(c)
  BY <1>1, TypeGroups
  DEF ServedStart, Served, HeadTaken, Running, EventTypes
<1>2. CASE ServedJoin(c)
  BY <1>2, TypeGroups
  DEF ServedJoin, Served, HeadTaken, Running, EventTypes
<1>3. CASE ServedCustom(c)
  BY <1>3, TypeGroups
  DEF ServedCustom, Served, HeadTaken, Running, EventTypes
<1>4. CASE ServedLeft(c)
  BY <1>4, TypeGroups
  DEF ServedLeft, Served, HeadTaken, Running, EventTypes
<1>5. CASE ConnectReturn(c)
  BY <1>5, TypeGroups
  DEF ConnectReturn, Running, EventTypes
<1>6. CASE DrawMenu(c)
  BY <1>6, TypeGroups
  DEF DrawMenu, EventTypes
<1>7. CASE FrameSent(c)
  BY <1>7, TypeGroups
  DEF FrameSent, Framed, Appended, EventTypes
<1>8. CASE FrameUndefined(c)
  BY <1>8, TypeGroups
  DEF FrameUndefined, Framed, EventTypes
<1>9. CASE Ended(c)
  BY <1>9, TypeGroups
  DEF Ended, EventTypes
<1>10. CASE EndedAndRestarted(c)
  BY <1>10, TypeGroups
  DEF EndedAndRestarted, Restarted, EventTypes
<1>11. CASE CleanedOnly(c)
  BY <1>11, TypeGroups
  DEF CleanedOnly, Cleaned, network_vars, EventTypes
<1>12. CASE CleanedAndRestarted(c)
  BY <1>12, TypeGroups
  DEF CleanedAndRestarted, Cleaned, Restarted, network_vars, EventTypes
<1>13. CASE Closed(c)
  BY <1>13, TypeGroups
  DEF Closed, TearDown, Running, EventTypes
<1>14. CASE Joined(c)
  BY <1>14, TypeGroups
  DEF Joined, JoinedAs, Appended, game_vars, EventTypes
<1>15. CASE RefuseJoin(c)
  BY <1>15, TypeGroups
  DEF RefuseJoin, game_vars, EventTypes
<1>16. CASE Left(c)
  BY <1>16, TypeGroups
  DEF Left, Appended, game_vars, EventTypes
<1>17. CASE Disconnected(c)
  BY <1>17, TypeGroups
  DEF Disconnected, DisconnectReturn, game_vars, EventTypes
<1>. QED  BY <1>1, <1>2, <1>3, <1>4, <1>5, <1>6, <1>7, <1>8, <1>9, <1>10, <1>11,
     <1>12, <1>13, <1>14, <1>15, <1>16, <1>17
  DEF Effect


(* What the event that starts a match says of the client it reaches.       *)
LEMMA StartInTheMenu ==
    ASSUME TypeOK, PlaceInv, EventsInv, NEW c \in Client, Len(events[c]) > 0,
           events[c][1] = JoinEvent(2)
    PROVE  /\ state[c] = "kMenu"
           /\ link[c] = "room"
           /\ number[c] \in {1, 2}
           /\ room[c] \in Room
           /\ next_number[room[c]] > 2
           /\ Contains(events[c], JoinEvent(2))
           /\ \A j \in 1 .. Len(events[c]) : events[c][j] = JoinEvent(2) => j = 1
<1>1. events[c] \in Seq(Event)
  BY DEF TypeOK
<1>2. Len(events[c]) \in Nat /\ 1 \in 1 .. Len(events[c])
  BY <1>1, LenProperties
<1>3. /\ state[c] = "kMenu"
      /\ link[c] = "room"
      /\ number[c] \in {1, 2}
      /\ \A j \in 1 .. Len(events[c]) : events[c][j] = JoinEvent(2) => j = 1
  BY <1>2 DEF EventsInv, EventsOf, StartsOnce
<1>4. room[c] # NoRoom
  BY <1>3 DEF PlaceInv
<1>5. room[c] \in Room
  BY <1>4 DEF TypeOK
<1>6. 2 < next_number[room[c]]
  BY <1>2, <1>4 DEF EventsInv, EventsOf, JoinEvent
<1>7. next_number[room[c]] \in Int
  BY <1>5, RoomsAssumption DEF TypeOK
<1>. QED  BY <1>2, <1>3, <1>5, <1>6, <1>7 DEF Contains

(* What the answer to a departure says of the client it reaches.           *)
LEMMA LeftLast ==
    ASSUME TypeOK, EventsInv, NEW c \in Client, Len(events[c]) > 0,
           events[c][1] = LeftEvent
    PROVE  link[c] = "leaving" /\ room[c] = NoRoom /\ Len(events[c]) = 1
<1>1. events[c] \in Seq(Event)
  BY DEF TypeOK
<1>2. Len(events[c]) \in Nat /\ 1 \in 1 .. Len(events[c])
  BY <1>1, LenProperties
<1>3. events[c][1].type = "left"
  BY DEF LeftEvent
<1>4. 1 = Len(events[c]) /\ link[c] = "leaving" /\ room[c] = NoRoom
  BY <1>2, <1>3 DEF EventsInv, EventsOf
<1>. QED  BY <1>4

(* The ranges of the counters, of which WorldsInv gives the upper ends.    *)
MatchRanges ==
    /\ current_frame   \in [Client -> Nat \cup {-1}]
    /\ packet_queue    \in [Client -> SUBSET Room]
    /\ shown_world     \in [Client -> Nat]
    /\ confirmed_world \in [Client -> Nat]

(* Frames and worlds are counted, packets are queued. *)
LEMMA MatchRangesStep ==
    ASSUME MatchRanges, NEW c \in Client, Effect(c)
    PROVE  MatchRanges'
<1>1. CASE ServedStart(c)
  BY <1>1
  DEF ServedStart, Served, HeadTaken, Running, MatchRanges
<1>2. CASE ServedJoin(c)
  BY <1>2
  DEF ServedJoin, Served, HeadTaken, Running, MatchRanges
<1>3. CASE ServedCustom(c)
  BY <1>3
  DEF ServedCustom, Served, HeadTaken, Running, MatchRanges
<1>4. CASE ServedLeft(c)
  BY <1>4
  DEF ServedLeft, Served, HeadTaken, Running, MatchRanges
<1>5. CASE ConnectReturn(c)
  BY <1>5
  DEF ConnectReturn, Running, MatchRanges
<1>6. CASE DrawMenu(c)
  BY <1>6
  DEF DrawMenu, MatchRanges
<1>7. CASE FrameSent(c)
  <2>1. PICK left \in SUBSET packet_queue[c] :
           packet_queue' = [packet_queue EXCEPT ![c] = left]
    BY <1>7 DEF FrameSent, Framed
  <2>2. left \in SUBSET Room
    BY DEF MatchRanges
  <2>3. packet_queue' \in [Client -> SUBSET Room]
    BY <2>1, <2>2 DEF MatchRanges
  <2>4. current_frame' \in [Client -> Nat \cup {-1}]
    <3>1. current_frame' = [current_frame EXCEPT ![c] = current_frame[c] + 1]
      BY <1>7 DEF FrameSent, Framed
    <3>2. current_frame[c] + 1 \in Nat
      BY DEF MatchRanges
    <3>. QED  BY <3>1, <3>2 DEF MatchRanges
  <2>. QED  BY <1>7, <2>3, <2>4 DEF FrameSent, Framed, MatchRanges
<1>8. CASE FrameUndefined(c)
  BY <1>8
  DEF FrameUndefined, Framed, MatchRanges
<1>9. CASE Ended(c)
  BY <1>9
  DEF Ended, MatchRanges
<1>10. CASE EndedAndRestarted(c)
  BY <1>10
  DEF EndedAndRestarted, Restarted, MatchRanges
<1>11. CASE CleanedOnly(c)
  BY <1>11
  DEF CleanedOnly, Cleaned, network_vars, MatchRanges
<1>12. CASE CleanedAndRestarted(c)
  BY <1>12
  DEF CleanedAndRestarted, Cleaned, Restarted, network_vars, MatchRanges
<1>13. CASE Closed(c)
  BY <1>13
  DEF Closed, TearDown, Running, MatchRanges
<1>14. CASE Joined(c)
  BY <1>14
  DEF Joined, JoinedAs, Appended, game_vars, MatchRanges
<1>15. CASE RefuseJoin(c)
  BY <1>15
  DEF RefuseJoin, game_vars, MatchRanges
<1>16. CASE Left(c)
  BY <1>16
  DEF Left, Appended, game_vars, MatchRanges
<1>17. CASE Disconnected(c)
  BY <1>17
  DEF Disconnected, DisconnectReturn, game_vars, MatchRanges
<1>. QED  BY <1>1, <1>2, <1>3, <1>4, <1>5, <1>6, <1>7, <1>8, <1>9, <1>10, <1>11,
     <1>12, <1>13, <1>14, <1>15, <1>16, <1>17
  DEF Effect

(* The bounds of the worlds and of the frames follow from WorldsInv.       *)
LEMMA MatchTypesFromWorlds ==
    MenuTypes /\ MatchRanges /\ WorldsInv => MatchTypes
<1>. SUFFICES ASSUME MenuTypes, MatchRanges, WorldsInv PROVE MatchTypes
  OBVIOUS
<1>1. GameFrameNbr \in Nat /\ MaxRooms \in Nat \ {0}
  BY RoomsAssumption, GameFrameNbrAssumption
<1>2. ASSUME NEW c \in Client
      PROVE  /\ shown_world[c] \in 0 .. MaxRooms
             /\ confirmed_world[c] \in 0 .. MaxRooms
             /\ current_frame[c] \in -1 .. GameFrameNbr + MaxRooms
  <2>1. shown_world[c] \in Nat /\ confirmed_world[c] \in Nat /\ current_frame[c] \in Nat \cup {-1}
    BY DEF MatchRanges
  <2>2. state[c] \in {"kMenu", "kInGame", "kGameFinished", "Undefined", "closed"}
    BY DEF MenuTypes
  <2>3. shown_world[c] \in {0, 1}
    BY <2>2 DEF WorldsInv
  <2>4. confirmed_world[c] <= MaxRooms
    BY <1>1, <2>1, StartedRoomsFinite DEF WorldsInv
  <2>5. current_frame[c] < GameFrameNbr + confirmed_world[c]
    BY DEF WorldsInv
  <2>. QED  BY <1>1, <2>1, <2>3, <2>4, <2>5
<1>. QED  BY <1>2 DEF MatchTypes, MatchRanges

LEMMA RangesOfTypes == MatchTypes => MatchRanges
  BY DEF MatchTypes, MatchRanges

(* Where a client is. *)
LEMMA PlaceStep ==
    ASSUME TypeOK, MenuTypes, RoomTypes, PlaceInv, EventsInv, NEW c \in Client, Effect(c)
    PROVE  PlaceInv'
<1>1. CASE ServedStart(c)
  BY <1>1, RoomsAssumption, StartInTheMenu
  DEF ServedStart, Served, HeadTaken, Running, PlaceInv, MenuTypes,
      RoomTypes, NoRoom
<1>2. CASE ServedJoin(c)
  BY <1>2, RoomsAssumption
  DEF ServedJoin, Served, HeadTaken, Running, PlaceInv, MenuTypes,
      RoomTypes, NoRoom
<1>3. CASE ServedCustom(c)
  BY <1>3, RoomsAssumption
  DEF ServedCustom, Served, HeadTaken, Running, PlaceInv, MenuTypes,
      RoomTypes, NoRoom
<1>4. CASE ServedLeft(c)
  BY <1>4, RoomsAssumption, LeftLast
  DEF ServedLeft, Served, HeadTaken, Running, PlaceInv, MenuTypes,
      RoomTypes, NoRoom
<1>5. CASE ConnectReturn(c)
  BY <1>5, RoomsAssumption
  DEF ConnectReturn, Running, PlaceInv, MenuTypes, RoomTypes, NoRoom
<1>6. CASE DrawMenu(c)
  BY <1>6, RoomsAssumption
  DEF DrawMenu, PlaceInv, MenuTypes, RoomTypes, NoRoom, Running
<1>7. CASE FrameSent(c)
  BY <1>7, RoomsAssumption
  DEF FrameSent, Framed, Appended, PlaceInv, MenuTypes, RoomTypes, NoRoom,
      Running
<1>8. CASE FrameUndefined(c)
  BY <1>8, RoomsAssumption
  DEF FrameUndefined, Framed, PlaceInv, MenuTypes, RoomTypes, NoRoom,
      Running
<1>9. CASE Ended(c)
  BY <1>9, RoomsAssumption
  DEF Ended, PlaceInv, MenuTypes, RoomTypes, NoRoom, Running
<1>10. CASE EndedAndRestarted(c)
  BY <1>10, RoomsAssumption
  DEF EndedAndRestarted, Restarted, PlaceInv, MenuTypes, RoomTypes, NoRoom,
      Running
<1>11. CASE CleanedOnly(c)
  BY <1>11, RoomsAssumption
  DEF CleanedOnly, Cleaned, network_vars, PlaceInv, MenuTypes, RoomTypes,
      NoRoom, Running
<1>12. CASE CleanedAndRestarted(c)
  BY <1>12, RoomsAssumption
  DEF CleanedAndRestarted, Cleaned, Restarted, network_vars, PlaceInv,
      MenuTypes, RoomTypes, NoRoom, Running
<1>13. CASE Closed(c)
  BY <1>13, RoomsAssumption
  DEF Closed, TearDown, Running, PlaceInv, MenuTypes, RoomTypes, NoRoom
<1>14. CASE Joined(c)
  <2>1. PICK r \in Room : JoinedAs(c, r)
    BY <1>14 DEF Joined
  <2>2. /\ \A q \in Room : next_number[q] \in Int /\ next_number'[q] \in Int
                             /\ next_number[q] <= next_number'[q]
        /\ r # NoRoom
    BY <2>1, RoomsAssumption DEF JoinedAs, RoomTypes, Room, NoRoom
  <2>3. ASSUME NEW d \in Client
        PROVE  /\ link'[d] = IF d = c THEN "room" ELSE link[d]
               /\ room'[d] = IF d = c THEN r ELSE room[d]
               /\ d # c => number'[d] = number[d]
               /\ room[d] # NoRoom => room[d] \in Room
    BY <2>1 DEF JoinedAs, RoomTypes
  <2>4. state[c] = "kMenu" /\ link[c] = "joining" /\ UNCHANGED <<state, is_connected>>
    BY <2>1 DEF JoinedAs, PlaceInv, game_vars
  <2>. QED  BY <2>2, <2>3, <2>4 DEF PlaceInv, Running
<1>15. CASE RefuseJoin(c)
  BY <1>15, RoomsAssumption
  DEF RefuseJoin, game_vars, PlaceInv, MenuTypes, RoomTypes, NoRoom, Running
<1>16. CASE Left(c)
  BY <1>16, RoomsAssumption
  DEF Left, Appended, game_vars, PlaceInv, MenuTypes, RoomTypes, NoRoom,
      Running
<1>17. CASE Disconnected(c)
  BY <1>17, RoomsAssumption
  DEF Disconnected, DisconnectReturn, game_vars, PlaceInv, MenuTypes,
      RoomTypes, NoRoom, Running
<1>. QED  BY <1>1, <1>2, <1>3, <1>4, <1>5, <1>6, <1>7, <1>8, <1>9, <1>10, <1>11,
     <1>12, <1>13, <1>14, <1>15, <1>16, <1>17
  DEF Effect

(* The seats: who joins gets the next number of the room, and the others have smaller ones. *)
LEMMA SeatsStep ==
    ASSUME MenuTypes, RoomTypes, PlaceInv, SeatsInv, NEW c \in Client, Effect(c)
    PROVE  SeatsInv'
<1>1. CASE ServedStart(c)
  BY <1>1, RoomsAssumption
  DEF ServedStart, Served, HeadTaken, Running, SeatsInv, RoomTypes, NoRoom,
      NoNumber
<1>2. CASE ServedJoin(c)
  BY <1>2, RoomsAssumption
  DEF ServedJoin, Served, HeadTaken, Running, SeatsInv, RoomTypes, NoRoom,
      NoNumber
<1>3. CASE ServedCustom(c)
  BY <1>3, RoomsAssumption
  DEF ServedCustom, Served, HeadTaken, Running, SeatsInv, RoomTypes, NoRoom,
      NoNumber
<1>4. CASE ServedLeft(c)
  BY <1>4, RoomsAssumption
  DEF ServedLeft, Served, HeadTaken, Running, SeatsInv, RoomTypes, NoRoom,
      NoNumber
<1>5. CASE ConnectReturn(c)
  BY <1>5, RoomsAssumption
  DEF ConnectReturn, Running, SeatsInv, RoomTypes, NoRoom, NoNumber
<1>6. CASE DrawMenu(c)
  BY <1>6, RoomsAssumption
  DEF DrawMenu, SeatsInv, RoomTypes, NoRoom, NoNumber
<1>7. CASE FrameSent(c)
  BY <1>7, RoomsAssumption
  DEF FrameSent, Framed, Appended, SeatsInv, RoomTypes, NoRoom, NoNumber
<1>8. CASE FrameUndefined(c)
  BY <1>8, RoomsAssumption
  DEF FrameUndefined, Framed, SeatsInv, RoomTypes, NoRoom, NoNumber
<1>9. CASE Ended(c)
  BY <1>9, RoomsAssumption
  DEF Ended, SeatsInv, RoomTypes, NoRoom, NoNumber
<1>10. CASE EndedAndRestarted(c)
  BY <1>10, RoomsAssumption
  DEF EndedAndRestarted, Restarted, SeatsInv, RoomTypes, NoRoom, NoNumber
<1>11. CASE CleanedOnly(c)
  BY <1>11, RoomsAssumption
  DEF CleanedOnly, Cleaned, network_vars, SeatsInv, RoomTypes, NoRoom,
      NoNumber
<1>12. CASE CleanedAndRestarted(c)
  BY <1>12, RoomsAssumption
  DEF CleanedAndRestarted, Cleaned, Restarted, network_vars, SeatsInv,
      RoomTypes, NoRoom, NoNumber
<1>13. CASE Closed(c)
  BY <1>13, RoomsAssumption
  DEF Closed, TearDown, Running, SeatsInv, RoomTypes, NoRoom, NoNumber
<1>14. CASE Joined(c)
  <2>1. PICK r \in Room : JoinedAs(c, r)
    BY <1>14 DEF Joined
  <2>2. /\ r # NoRoom
        /\ next_number[r] \in 1 .. MaxJoins
        /\ \A q \in Room : /\ next_number[q] \in Int
                            /\ next_number'[q] = IF q = r THEN next_number[r] + 1
                                                 ELSE next_number[q]
    BY <2>1, RoomsAssumption DEF JoinedAs, RoomTypes, Room, NoRoom
  <2>3. ASSUME NEW d \in Client
        PROVE  /\ room'[d] = IF d = c THEN r ELSE room[d]
               /\ number'[d] = IF d = c THEN next_number[r] ELSE number[d]
               /\ number[d] \in Int
               /\ room[d] # NoRoom => room[d] \in Room
    BY <2>1, RoomsAssumption DEF JoinedAs, RoomTypes, NoNumber
  <2>4. \A d \in Client : room[d] = r => number[d] < next_number[r]
    BY <2>2 DEF SeatsInv
  <2>5. next_number[r] # NoNumber /\ r # NoRoom
    BY <2>2 DEF NoNumber
  <2>6. \A d \in Client : room[d] = r => number[d] # next_number[r]
    BY <2>2, <2>3, <2>4
  <2>7. ASSUME NEW d \in Client
        PROVE  /\ room'[d] = NoRoom <=> number'[d] = NoNumber
               /\ room'[d] # NoRoom => number'[d] < next_number'[room'[d]]
    <3>1. CASE d = c
      BY <2>2, <2>3, <2>5, <3>1
    <3>2. CASE d # c
      <4>1. room'[d] = room[d] /\ number'[d] = number[d]
        BY <2>3, <3>2
      <4>2. room[d] = NoRoom <=> number[d] = NoNumber
        BY DEF SeatsInv
      <4>3. room[d] # NoRoom => room[d] \in Room /\ number[d] < next_number[room[d]]
        BY <2>3 DEF SeatsInv
      <4>. QED  BY <2>2, <2>3, <4>1, <4>2, <4>3
    <3>. QED  BY <3>1, <3>2
  <2>8. ASSUME NEW d \in Client, NEW e \in Client, d # e,
               room'[d] = room'[e], room'[d] # NoRoom
        PROVE  number'[d] # number'[e]
    <3>1. CASE d = c
      BY <2>3, <2>6, <2>8, <3>1
    <3>2. CASE e = c
      BY <2>3, <2>6, <2>8, <3>2
    <3>3. CASE d # c /\ e # c
      BY <2>3, <2>8, <3>3 DEF SeatsInv
    <3>. QED  BY <3>1, <3>2, <3>3
  <2>. QED  BY <2>7, <2>8 DEF SeatsInv
<1>15. CASE RefuseJoin(c)
  BY <1>15, RoomsAssumption
  DEF RefuseJoin, game_vars, SeatsInv, RoomTypes, NoRoom, NoNumber
<1>16. CASE Left(c)
  BY <1>16, RoomsAssumption
  DEF Left, Appended, game_vars, SeatsInv, RoomTypes, NoRoom, NoNumber
<1>17. CASE Disconnected(c)
  BY <1>17, RoomsAssumption
  DEF Disconnected, DisconnectReturn, game_vars, SeatsInv, RoomTypes,
      NoRoom, NoNumber
<1>. QED  BY <1>1, <1>2, <1>3, <1>4, <1>5, <1>6, <1>7, <1>8, <1>9, <1>10, <1>11,
     <1>12, <1>13, <1>14, <1>15, <1>16, <1>17
  DEF Effect

(* Requests refused, connections lost. *)
LEMMA StrandedStep ==
    ASSUME TypeOK, MenuTypes, RoomTypes, PlaceInv, EventsInv, StrandedInv,
           WaitingMeansJoining, NEW c \in Client, Effect(c)
    PROVE  StrandedInv'
<1>1. CASE ServedStart(c)
  BY <1>1, StartInTheMenu
  DEF ServedStart, Served, HeadTaken, Running, StrandedInv, MenuTypes,
      RoomTypes
<1>2. CASE ServedJoin(c)
  BY <1>2
  DEF ServedJoin, Served, HeadTaken, Running, StrandedInv, MenuTypes,
      RoomTypes
<1>3. CASE ServedCustom(c)
  BY <1>3
  DEF ServedCustom, Served, HeadTaken, Running, StrandedInv, MenuTypes,
      RoomTypes
<1>4. CASE ServedLeft(c)
  BY <1>4, LeftLast
  DEF ServedLeft, Served, HeadTaken, Running, StrandedInv, MenuTypes,
      RoomTypes
<1>5. CASE ConnectReturn(c)
  BY <1>5
  DEF ConnectReturn, Running, StrandedInv, MenuTypes, RoomTypes
<1>6. CASE DrawMenu(c)
  <2>1. /\ state[c] = "kMenu" /\ ~ isWaitingOtherPlayer[c]
        /\ UNCHANGED state
        /\ isWaitingOtherPlayer' = [isWaitingOtherPlayer EXCEPT ![c] = TRUE]
    BY <1>6 DEF DrawMenu
  <2>2. link[c] \notin {"joining", "room"} /\ c \notin stranded
    BY <2>1 DEF WaitingMeansJoining
  <2>3. /\ isWaitingOtherPlayer'[c]
        /\ \A d \in stranded : isWaitingOtherPlayer'[d]
    BY <2>1, <2>2 DEF MenuTypes, StrandedInv
  <2>4. CASE link' = [link EXCEPT ![c] = "joining"] /\ UNCHANGED stranded
    BY <2>1, <2>2, <2>3, <2>4 DEF StrandedInv, RoomTypes
  <2>5. CASE stranded' = stranded \cup {c} /\ UNCHANGED link
    BY <2>1, <2>2, <2>3, <2>5 DEF StrandedInv
  <2>. QED  BY <1>6, <2>4, <2>5 DEF DrawMenu
<1>7. CASE FrameSent(c)
  BY <1>7
  DEF FrameSent, Framed, Appended, StrandedInv, MenuTypes, RoomTypes
<1>8. CASE FrameUndefined(c)
  BY <1>8
  DEF FrameUndefined, Framed, StrandedInv, MenuTypes, RoomTypes
<1>9. CASE Ended(c)
  BY <1>9
  DEF Ended, StrandedInv, MenuTypes, RoomTypes
<1>10. CASE EndedAndRestarted(c)
  BY <1>10
  DEF EndedAndRestarted, Restarted, StrandedInv, MenuTypes, RoomTypes
<1>11. CASE CleanedOnly(c)
  BY <1>11
  DEF CleanedOnly, Cleaned, network_vars, StrandedInv, MenuTypes, RoomTypes
<1>12. CASE CleanedAndRestarted(c)
  BY <1>12
  DEF CleanedAndRestarted, Cleaned, Restarted, network_vars, StrandedInv,
      MenuTypes, RoomTypes
<1>13. CASE Closed(c)
  BY <1>13
  DEF Closed, TearDown, Running, StrandedInv, MenuTypes, RoomTypes
<1>14. CASE Joined(c)
  BY <1>14
  DEF Joined, JoinedAs, Appended, game_vars, StrandedInv, MenuTypes,
      RoomTypes
<1>15. CASE RefuseJoin(c)
  BY <1>15
  DEF RefuseJoin, game_vars, StrandedInv, MenuTypes, RoomTypes, PlaceInv,
      WaitingMeansJoining
<1>16. CASE Left(c)
  BY <1>16
  DEF Left, Appended, game_vars, StrandedInv, MenuTypes, RoomTypes
<1>17. CASE Disconnected(c)
  BY <1>17
  DEF Disconnected, DisconnectReturn, game_vars, StrandedInv, MenuTypes,
      RoomTypes
<1>. QED  BY <1>1, <1>2, <1>3, <1>4, <1>5, <1>6, <1>7, <1>8, <1>9, <1>10, <1>11,
     <1>12, <1>13, <1>14, <1>15, <1>16, <1>17
  DEF Effect

(* Waiting. *)
LEMMA WaitingStep ==
    ASSUME TypeOK, MenuTypes, RoomTypes, PlaceInv, EventsInv, StrandedInv,
           WaitingMeansJoining, NEW c \in Client, Effect(c)
    PROVE  WaitingMeansJoining'
<1>1. CASE ServedStart(c)
  BY <1>1, StartInTheMenu
  DEF ServedStart, Served, HeadTaken, Running, WaitingMeansJoining,
      MenuTypes, RoomTypes, PlaceInv, StrandedInv
<1>2. CASE ServedJoin(c)
  BY <1>2
  DEF ServedJoin, Served, HeadTaken, Running, WaitingMeansJoining,
      MenuTypes, RoomTypes, PlaceInv, StrandedInv
<1>3. CASE ServedCustom(c)
  BY <1>3
  DEF ServedCustom, Served, HeadTaken, Running, WaitingMeansJoining,
      MenuTypes, RoomTypes, PlaceInv, StrandedInv
<1>4. CASE ServedLeft(c)
  BY <1>4, LeftLast
  DEF ServedLeft, Served, HeadTaken, Running, WaitingMeansJoining,
      MenuTypes, RoomTypes, PlaceInv, StrandedInv
<1>5. CASE ConnectReturn(c)
  BY <1>5
  DEF ConnectReturn, Running, WaitingMeansJoining, MenuTypes, RoomTypes,
      PlaceInv, StrandedInv
<1>6. CASE DrawMenu(c)
  BY <1>6
  DEF DrawMenu, WaitingMeansJoining, MenuTypes, RoomTypes, PlaceInv,
      StrandedInv
<1>7. CASE FrameSent(c)
  BY <1>7
  DEF FrameSent, Framed, Appended, WaitingMeansJoining, MenuTypes,
      RoomTypes, PlaceInv, StrandedInv
<1>8. CASE FrameUndefined(c)
  BY <1>8
  DEF FrameUndefined, Framed, WaitingMeansJoining, MenuTypes, RoomTypes,
      PlaceInv, StrandedInv
<1>9. CASE Ended(c)
  BY <1>9
  DEF Ended, WaitingMeansJoining, MenuTypes, RoomTypes, PlaceInv, StrandedInv
<1>10. CASE EndedAndRestarted(c)
  BY <1>10
  DEF EndedAndRestarted, Restarted, WaitingMeansJoining, MenuTypes,
      RoomTypes, PlaceInv, StrandedInv
<1>11. CASE CleanedOnly(c)
  BY <1>11
  DEF CleanedOnly, Cleaned, network_vars, WaitingMeansJoining, MenuTypes,
      RoomTypes, PlaceInv, StrandedInv
<1>12. CASE CleanedAndRestarted(c)
  BY <1>12
  DEF CleanedAndRestarted, Cleaned, Restarted, network_vars,
      WaitingMeansJoining, MenuTypes, RoomTypes, PlaceInv, StrandedInv
<1>13. CASE Closed(c)
  BY <1>13
  DEF Closed, TearDown, Running, WaitingMeansJoining, MenuTypes, RoomTypes,
      PlaceInv, StrandedInv
<1>14. CASE Joined(c)
  BY <1>14
  DEF Joined, JoinedAs, Appended, game_vars, WaitingMeansJoining, MenuTypes,
      RoomTypes, PlaceInv, StrandedInv
<1>15. CASE RefuseJoin(c)
  BY <1>15
  DEF RefuseJoin, game_vars, WaitingMeansJoining, MenuTypes, RoomTypes,
      PlaceInv, StrandedInv
<1>16. CASE Left(c)
  BY <1>16
  DEF Left, Appended, game_vars, WaitingMeansJoining, MenuTypes, RoomTypes,
      PlaceInv, StrandedInv
<1>17. CASE Disconnected(c)
  BY <1>17
  DEF Disconnected, DisconnectReturn, game_vars, WaitingMeansJoining,
      MenuTypes, RoomTypes, PlaceInv, StrandedInv
<1>. QED  BY <1>1, <1>2, <1>3, <1>4, <1>5, <1>6, <1>7, <1>8, <1>9, <1>10, <1>11,
     <1>12, <1>13, <1>14, <1>15, <1>16, <1>17
  DEF Effect


(* An event taken from, or added to, those on their way.                   *)
LEMMA ContainsTaken ==
    ASSUME NEW s \in Seq(Event), NEW t, NEW e, HeadTaken(s, t)
    PROVE  /\ Contains(t, e) => Contains(s, e)
           /\ Contains(s, e) => s[1] = e \/ Contains(t, e)
<1>1. Len(s) \in Nat /\ Len(t) = Len(s) - 1 /\ Len(s) > 0
  BY LenProperties DEF HeadTaken
<1>2. ASSUME NEW i \in 1 .. Len(t)
      PROVE  i + 1 \in 1 .. Len(s) /\ t[i] = s[i + 1]
  BY <1>1 DEF HeadTaken
<1>3. ASSUME NEW i \in 1 .. Len(s), i # 1
      PROVE  i - 1 \in 1 .. Len(t) /\ s[i] = t[i - 1]
  <2>1. i - 1 \in 1 .. Len(t) /\ (i - 1) + 1 = i
    BY <1>1, <1>3
  <2>. QED  BY <1>2, <2>1
<1>. QED  BY <1>2, <1>3 DEF Contains

LEMMA ContainsAppended ==
    ASSUME NEW s \in Seq(Event), NEW t, NEW x, NEW e, Appended(s, t, x)
    PROVE  Contains(t, e) <=> Contains(s, e) \/ x = e
<1>1. Len(s) \in Nat /\ Len(t) = Len(s) + 1
  BY LenProperties DEF Appended
<1>2. \A i \in 1 .. Len(s) : i \in 1 .. Len(t) /\ t[i] = s[i]
  BY <1>1 DEF Appended
<1>3. Len(s) + 1 \in 1 .. Len(t) /\ t[Len(s) + 1] = x
  BY <1>1 DEF Appended
<1>4. \A i \in 1 .. Len(t) : i \in 1 .. Len(s) \/ i = Len(s) + 1
  BY <1>1
<1>. QED  BY <1>2, <1>3, <1>4 DEF Contains

(* The event that starts a match is only sent with the start of a room.    *)
StartsCounted(c) ==
    /\ Cardinality(StartedRooms) \in Nat
    /\ Cardinality(StartedRooms)' \in Nat
    /\ Cardinality(StartedRooms) <= Cardinality(StartedRooms)'
    /\ \A d \in Client : Contains(events'[d], JoinEvent(2)) =>
          \/ Contains(events[d], JoinEvent(2))
          \/ Cardinality(StartedRooms)' = Cardinality(StartedRooms) + 1
    /\ ServedStart(c) => ~ Contains(events'[c], JoinEvent(2))

LEMMA CountedStep ==
    ASSUME TypeOK, PlaceInv, EventsInv, NEW c \in Client, Effect(c)
    PROVE  StartsCounted(c)
<1>0. Cardinality(StartedRooms) \in Nat /\ \A d \in Client : events[d] \in Seq(Event)
  BY StartedRoomsFinite DEF TypeOK
<1>1. CASE Joined(c)
  <2>1. PICK r \in Room : JoinedAs(c, r)
    BY <1>1 DEF Joined
  <2>2. Cardinality(StartedRooms)' =
           Cardinality(StartedRooms) + (IF next_number[r] = 2 THEN 1 ELSE 0)
    BY <2>1, RoomsStarted DEF JoinedAs
  <2>3. ASSUME NEW d \in Client, Contains(events'[d], JoinEvent(2)),
               ~ Contains(events[d], JoinEvent(2))
        PROVE  next_number[r] = 2
    <3>1. Appended(events[d], events'[d], JoinEvent(next_number[r]))
      BY <2>1, <2>3 DEF JoinedAs
    <3>2. JoinEvent(next_number[r]) = JoinEvent(2)
      BY <1>0, <2>3, <3>1, ContainsAppended
    <3>. QED  BY <3>2 DEF JoinEvent
  <2>4. ~ ServedStart(c)
    <3>1. next_number'[r] = next_number[r] + 1 /\ next_number[r] \in Int
      BY <2>1, RoomsAssumption DEF JoinedAs, TypeOK
    <3>. QED  BY <3>1 DEF ServedStart, Served
  <2>. QED  BY <1>0, <2>2, <2>3, <2>4 DEF StartsCounted
<1>2. CASE ~ Joined(c)
  <2>1. UNCHANGED next_number
    BY <1>2 DEF Effect, ServedStart, ServedJoin, ServedCustom, ServedLeft, Served,
       ConnectReturn, DrawMenu, FrameSent, FrameUndefined, Framed, Ended,
       EndedAndRestarted, CleanedOnly, CleanedAndRestarted, Cleaned, network_vars,
       Closed, TearDown, RefuseJoin, Left, Disconnected,
       DisconnectReturn
  <2>2. Cardinality(StartedRooms)' = Cardinality(StartedRooms)
    BY <2>1 DEF StartedRooms
  <2>3. ASSUME NEW d \in Client
        PROVE  Contains(events'[d], JoinEvent(2)) => Contains(events[d], JoinEvent(2))
    <3>1. \/ events'[d] = events[d]
          \/ events'[d] = << >>
          \/ HeadTaken(events[d], events'[d])
          \/ \E r \in Room : Appended(events[d], events'[d], CustomEvent(r))
          \/ Appended(events[d], events'[d], LeftEvent)
      BY <1>2 DEF Effect, ServedStart, ServedJoin, ServedCustom, ServedLeft, Served,
         ConnectReturn, DrawMenu, FrameSent, FrameUndefined, Ended,
         EndedAndRestarted, CleanedOnly, CleanedAndRestarted, Cleaned, network_vars,
         Closed, RefuseJoin, Left, Disconnected
    <3>2. \A r \in Room : CustomEvent(r) # JoinEvent(2)
      BY DEF CustomEvent, JoinEvent
    <3>3. LeftEvent # JoinEvent(2)
      BY DEF LeftEvent, JoinEvent
    <3>4. ~ Contains(<< >>, JoinEvent(2))
      BY DEF Contains
    <3>. QED  BY <1>0, <3>1, <3>2, <3>3, <3>4, ContainsTaken, ContainsAppended
  <2>4. ASSUME ServedStart(c)
        PROVE  ~ Contains(events'[c], JoinEvent(2))
    <3>1. HeadTaken(events[c], events'[c]) /\ events[c][1] = JoinEvent(2)
      BY <2>4 DEF ServedStart, Served
    <3>2. Len(events[c]) \in Nat /\ Len(events[c]) > 0 /\ Len(events'[c]) = Len(events[c]) - 1
      BY <1>0, <3>1, LenProperties DEF HeadTaken
    <3>3. \A j \in 1 .. Len(events[c]) : events[c][j] = JoinEvent(2) => j = 1
      BY <3>1, <3>2, StartInTheMenu
    <3>4. ASSUME NEW i \in 1 .. Len(events'[c])
          PROVE  events'[c][i] # JoinEvent(2)
      <4>1. i + 1 \in 1 .. Len(events[c]) /\ i + 1 # 1 /\ events'[c][i] = events[c][i + 1]
        BY <3>1, <3>2 DEF HeadTaken
      <4>. QED  BY <3>3, <4>1
    <3>. QED  BY <3>4 DEF Contains
  <2>. QED  BY <1>0, <2>2, <2>3, <2>4 DEF StartsCounted
<1>. QED  BY <1>1, <1>2

(* Worlds. *)
LEMMA WorldsStep ==
    ASSUME TypeOK, MenuTypes, MatchRanges, PlaceInv, EventsInv, WorldsInv, NEW c \in Client, Effect(c)
    PROVE  WorldsInv'
<1>1. CASE ServedStart(c)
  <2>1. /\ state[c] = "kMenu"
        /\ Contains(events[c], JoinEvent(2))
        /\ ~ Contains(events'[c], JoinEvent(2))
        /\ Len(events[c]) > 0
    BY <1>1, CountedStep, StartInTheMenu DEF ServedStart, Served, HeadTaken, StartsCounted
  <2>2. /\ shown_world[c] = 0
        /\ confirmed_world[c] < Cardinality(StartedRooms)
        /\ current_frame[c] < GameFrameNbr + confirmed_world[c]
        /\ confirmed_world[c] = 0 \/ MatchIsOver(c)
    BY <2>1 DEF WorldsInv
  <2>3. /\ Cardinality(StartedRooms) \in Nat
        /\ Cardinality(StartedRooms)' \in Nat
        /\ Cardinality(StartedRooms) <= Cardinality(StartedRooms)'
        /\ \A d \in Client \ {c} : events'[d] = events[d]
    BY <1>1, CountedStep DEF ServedStart, Served, StartsCounted
  <2>4. /\ state'[c] = "kInGame" /\ shown_world'[c] = 1
        /\ confirmed_world'[c] = confirmed_world[c] + 1
        /\ current_frame' = current_frame
        /\ \A d \in Client \ {c} : /\ state'[d] = state[d]
                                  /\ shown_world'[d] = shown_world[d]
                                  /\ confirmed_world'[d] = confirmed_world[d]
    BY <1>1, <2>2 DEF ServedStart, Served, MenuTypes, MatchRanges
  <2>5. \A d \in Client : /\ confirmed_world[d] \in Nat
                          /\ current_frame[d] \in Int
    BY DEF MatchRanges
  <2>6. ASSUME NEW d \in Client
        PROVE  /\ state'[d] \in {"kMenu", "closed"} => shown_world'[d] = 0
               /\ state'[d] \in {"kInGame", "kGameFinished", "Undefined"} =>
                     shown_world'[d] = 1
               /\ state'[d] \in {"kMenu", "kGameFinished"} =>
                     confirmed_world'[d] = 0 \/ MatchIsOver(d)'
               /\ state'[d] = "kInGame" => confirmed_world'[d] = 1 \/ MatchIsOver(d)'
               /\ state'[d] = "kInGame" => confirmed_world'[d] > 0
               /\ confirmed_world'[d] <= Cardinality(StartedRooms)'
               /\ Contains(events'[d], JoinEvent(2)) =>
                     confirmed_world'[d] < Cardinality(StartedRooms)'
               /\ current_frame'[d] < GameFrameNbr + confirmed_world'[d]
               /\ state'[d] = "kInGame" =>
                     current_frame'[d] + 1 < GameFrameNbr + confirmed_world'[d]
    <3>1. CASE d = c
      BY SMTT(30), <2>1, <2>2, <2>3, <2>4, <2>5, <3>1, GameFrameNbrAssumption
         DEF MatchIsOver
    <3>2. CASE d # c
      <4>1. /\ state'[d] = state[d]
            /\ shown_world'[d] = shown_world[d]
            /\ confirmed_world'[d] = confirmed_world[d]
            /\ current_frame'[d] = current_frame[d]
            /\ events'[d] = events[d]
        BY <2>3, <2>4, <3>2
      <4>. QED  BY <2>3, <2>5, <4>1, GameFrameNbrAssumption DEF WorldsInv, MatchIsOver
    <3>. QED  BY <3>1, <3>2
  <2>. QED  BY <2>6 DEF WorldsInv
<1>2. CASE ServedJoin(c)
  <2>1. UNCHANGED <<state, shown_world, confirmed_world, current_frame>>
    BY <1>2 DEF ServedJoin, Served
  <2>2. StartsCounted(c)
    BY CountedStep
  <2>3. \A d \in Client : confirmed_world[d] \in Nat
    BY DEF MatchRanges
  <2>. QED  BY <2>1, <2>2, <2>3 DEF WorldsInv, MatchIsOver, StartsCounted
<1>3. CASE ServedCustom(c)
  BY SMTT(30), <1>3, CountedStep, GameFrameNbrAssumption
  DEF ServedCustom, Served, HeadTaken, Running, WorldsInv, MatchIsOver, MenuTypes,
      MatchRanges, StartsCounted
<1>4. CASE ServedLeft(c)
  BY SMTT(30), <1>4, CountedStep, GameFrameNbrAssumption
  DEF ServedLeft, Served, HeadTaken, Running, WorldsInv, MatchIsOver, MenuTypes,
      MatchRanges, StartsCounted
<1>5. CASE ConnectReturn(c)
  BY <1>5, CountedStep, GameFrameNbrAssumption
  DEF ConnectReturn, Running, WorldsInv, MatchIsOver, MenuTypes, MatchRanges,
      StartsCounted
<1>6. CASE DrawMenu(c)
  BY <1>6, CountedStep, GameFrameNbrAssumption
  DEF DrawMenu, WorldsInv, MatchIsOver, MenuTypes, MatchRanges, StartsCounted
<1>7. CASE FrameSent(c)
  <2>1. /\ state[c] = "kInGame"
        /\ current_frame[c] + 1 < GameFrameNbr
        /\ current_frame' = [current_frame EXCEPT ![c] = @ + 1]
        /\ UNCHANGED <<state, shown_world, confirmed_world>>
    BY <1>7 DEF FrameSent, Framed
  <2>2. \A d \in Client : confirmed_world[d] \in Nat /\ current_frame[d] \in Int
    BY DEF MatchRanges
  <2>3. \A d \in Client : current_frame'[d] =
           IF d = c THEN current_frame[d] + 1 ELSE current_frame[d]
    BY <2>1 DEF MatchRanges
  <2>4. StartsCounted(c)
    BY CountedStep
  <2>5. confirmed_world[c] > 0
    BY <2>1 DEF WorldsInv
  <2>. QED  BY <2>1, <2>2, <2>3, <2>4, <2>5, GameFrameNbrAssumption
            DEF WorldsInv, MatchIsOver, StartsCounted
<1>8. CASE FrameUndefined(c)
  BY <1>8, CountedStep, GameFrameNbrAssumption
  DEF FrameUndefined, Framed, WorldsInv, MatchIsOver, MenuTypes, MatchRanges,
      StartsCounted
<1>9. CASE Ended(c)
  BY <1>9, CountedStep, GameFrameNbrAssumption
  DEF Ended, WorldsInv, MatchIsOver, MenuTypes, MatchRanges, StartsCounted
<1>10. CASE EndedAndRestarted(c)
  BY <1>10, CountedStep, GameFrameNbrAssumption
  DEF EndedAndRestarted, Restarted, WorldsInv, MatchIsOver, MenuTypes, MatchRanges,
      StartsCounted
<1>11. CASE CleanedOnly(c)
  BY <1>11, CountedStep, GameFrameNbrAssumption
  DEF CleanedOnly, Cleaned, network_vars, WorldsInv, MatchIsOver, MenuTypes, MatchRanges,
      StartsCounted
<1>12. CASE CleanedAndRestarted(c)
  BY <1>12, CountedStep, GameFrameNbrAssumption
  DEF CleanedAndRestarted, Cleaned, Restarted, network_vars, WorldsInv,
      MatchIsOver, MenuTypes, MatchRanges, StartsCounted
<1>13. CASE Closed(c)
  BY <1>13, CountedStep, GameFrameNbrAssumption
  DEF Closed, TearDown, Running, WorldsInv, MatchIsOver, MenuTypes, MatchRanges,
      StartsCounted
<1>14. CASE Joined(c)
  BY SMTT(30), <1>14, CountedStep, GameFrameNbrAssumption
  DEF Joined, JoinedAs, Appended, game_vars, WorldsInv, MatchIsOver, MenuTypes,
      MatchRanges, StartsCounted
<1>15. CASE RefuseJoin(c)
  BY <1>15, CountedStep, GameFrameNbrAssumption
  DEF RefuseJoin, game_vars, WorldsInv, MatchIsOver, MenuTypes, MatchRanges,
      StartsCounted
<1>16. CASE Left(c)
  BY <1>16, CountedStep, GameFrameNbrAssumption
  DEF Left, Appended, game_vars, WorldsInv, MatchIsOver, MenuTypes, MatchRanges,
      StartsCounted
<1>17. CASE Disconnected(c)
  BY <1>17, CountedStep, GameFrameNbrAssumption
  DEF Disconnected, DisconnectReturn, game_vars, WorldsInv, MatchIsOver,
      MenuTypes, MatchRanges, StartsCounted
<1>. QED  BY <1>1, <1>2, <1>3, <1>4, <1>5, <1>6, <1>7, <1>8, <1>9, <1>10, <1>11,
     <1>12, <1>13, <1>14, <1>15, <1>16, <1>17
  DEF Effect


(* The events of a client that a step does not concern.                    *)
LEMMA EventsKept ==
    ASSUME TypeOK, EventsInv, NEW d \in Client,
           state'[d] = state[d], link'[d] = link[d], room'[d] = room[d],
           number'[d] = number[d], events'[d] = events[d],
           \A r \in Room : next_number'[r] >= next_number[r] /\ next_number'[r] \in Int
    PROVE  EventsOf(d)'
<1>1. room[d] # NoRoom => /\ room[d] \in Room
                          /\ next_number'[room[d]] >= next_number[room[d]]
                          /\ next_number'[room[d]] \in Int
                          /\ next_number[room[d]] \in Int
  BY RoomsAssumption DEF TypeOK
<1>2. \A i \in 1 .. Len(events[d]) :
         events[d][i].type = "join" => events[d][i].of \in Int
  <2>1. events[d] \in Seq(Event)
    BY DEF TypeOK
  <2>2. \A i \in 1 .. Len(events[d]) : events[d][i] \in Event
    BY <2>1, ElementOfSeq
  <2>. QED  BY <2>2, EventKinds
<1>3. EventsOf(d)
  BY DEF EventsInv
<1>. QED  BY <1>1, <1>2, <1>3 DEF EventsOf, StartsOnce

(* An event that starts no match, sent to a member of a room.              *)
LEMMA EventsSent ==
    ASSUME TypeOK, EventsInv, PlaceInv, NEW d \in Client, NEW e \in Event,
           state'[d] = state[d], link'[d] = link[d], room'[d] = room[d],
           number'[d] = number[d], Appended(events[d], events'[d], e),
           room[d] # NoRoom, link[d] # "offline",
           e.type # "left", e # JoinEvent(2),
           e.type = "join" => e.of < next_number'[room[d]],
           \A r \in Room : next_number'[r] >= next_number[r] /\ next_number'[r] \in Int
    PROVE  EventsOf(d)'
<1>0. EventsOf(d) /\ events[d] \in Seq(Event)
  BY DEF EventsInv, TypeOK
<1>1. /\ room[d] \in Room
      /\ next_number'[room[d]] >= next_number[room[d]]
      /\ next_number'[room[d]] \in Int
      /\ next_number[room[d]] \in Int
  BY RoomsAssumption DEF TypeOK
<1>2. \A i \in 1 .. Len(events[d]) :
         events[d][i].type = "join" => events[d][i].of \in Int
  <2>1. \A i \in 1 .. Len(events[d]) : events[d][i] \in Event
    BY <1>0, ElementOfSeq
  <2>. QED  BY <2>1, EventKinds
<1>3. link[d] \notin {"offline", "lobby", "joining"}
  BY DEF PlaceInv
<1>4. Len(events[d]) \in Nat /\ Len(events'[d]) = Len(events[d]) + 1
  BY <1>0, LenProperties DEF Appended
<1>5. ASSUME NEW i \in 1 .. Len(events'[d])
      PROVE  \/ i \in 1 .. Len(events[d]) /\ events'[d][i] = events[d][i]
             \/ i = Len(events[d]) + 1 /\ events'[d][i] = e
  BY <1>4 DEF Appended
<1>6. ASSUME NEW i \in 1 .. Len(events'[d])
      PROVE  /\ events'[d][i].type # "left"
             /\ events'[d][i].type = "join" => events'[d][i].of < next_number'[room[d]]
  <2>1. CASE i \in 1 .. Len(events[d]) /\ events'[d][i] = events[d][i]
    BY <1>0, <1>1, <1>2, <2>1 DEF EventsOf
  <2>2. CASE events'[d][i] = e
    BY <2>2
  <2>. QED  BY <1>5, <2>1, <2>2
<1>7. StartsOnce(d)'
  <2>1. \A i \in 1 .. Len(events'[d]) : events'[d][i] = JoinEvent(2) =>
           i \in 1 .. Len(events[d]) /\ events'[d][i] = events[d][i]
    BY <1>5
  <2>2. StartsOnce(d)
    BY <1>0 DEF EventsOf
  <2>. QED  BY <2>1, <2>2 DEF StartsOnce
<1>. QED  BY <1>3, <1>6, <1>7 DEF EventsOf

(* The first event taken by a client, other than the answer to its         *)
(* departure.                                                              *)
LEMMA EventsTaken ==
    ASSUME TypeOK, EventsInv, NEW d \in Client,
           link'[d] = link[d], room'[d] = room[d], number'[d] = number[d],
           HeadTaken(events[d], events'[d]),
           state'[d] = state[d] \/ ~ Contains(events'[d], JoinEvent(2)),
           next_number' = next_number
    PROVE  EventsOf(d)'
<1>0. EventsOf(d) /\ events[d] \in Seq(Event)
  BY DEF EventsInv, TypeOK
<1>1. /\ Len(events[d]) \in Nat /\ Len(events[d]) > 0
      /\ Len(events'[d]) = Len(events[d]) - 1
  BY <1>0, LenProperties DEF HeadTaken
<1>2. ASSUME NEW i \in 1 .. Len(events'[d])
      PROVE  /\ i + 1 \in 1 .. Len(events[d])
             /\ events'[d][i] = events[d][i + 1]
             /\ i + 1 = Len(events[d]) => i = Len(events'[d])
  BY <1>1 DEF HeadTaken
<1>3. events[d] # << >>
  BY <1>1, EmptySeq
<1>4. link[d] \notin {"offline", "lobby", "joining"}
  BY <1>0, <1>3 DEF EventsOf
<1>5. ASSUME NEW i \in 1 .. Len(events'[d])
      PROVE  /\ events'[d][i].type = "left" =>
                   i = Len(events'[d]) /\ link[d] = "leaving" /\ room[d] = NoRoom
             /\ events'[d][i].type = "join" /\ room[d] # NoRoom =>
                   events'[d][i].of < next_number[room[d]]
  BY <1>0, <1>2 DEF EventsOf
<1>6. StartsOnce(d)'
  <2>1. CASE ~ Contains(events'[d], JoinEvent(2))
    BY <2>1 DEF StartsOnce, Contains
  <2>2. CASE state'[d] = state[d]
    <3>1. StartsOnce(d)
      BY <1>0 DEF EventsOf
    <3>2. ASSUME NEW i \in 1 .. Len(events'[d]), NEW j \in 1 .. Len(events'[d]),
                 events'[d][i] = JoinEvent(2), events'[d][j] = JoinEvent(2)
          PROVE  j = i
      <4>1. i + 1 = j + 1
        BY <1>2, <3>1, <3>2 DEF StartsOnce
      <4>. QED  BY <4>1
    <3>3. ASSUME NEW i \in 1 .. Len(events'[d]), events'[d][i] = JoinEvent(2)
          PROVE  state[d] = "kMenu" /\ link[d] = "room" /\ number[d] \in {1, 2}
      BY <1>2, <3>1, <3>3 DEF StartsOnce
    <3>. QED  BY <2>2, <3>2, <3>3 DEF StartsOnce
  <2>. QED  BY <2>1, <2>2
<1>. QED  BY <1>4, <1>5, <1>6 DEF EventsOf

(* No match starts for a client that is not waiting in a room, and nothing *)
(* follows a departure that was not answered.                              *)
LEMMA EventsStay ==
    ASSUME TypeOK, EventsInv, NEW d \in Client,
           room'[d] = room[d], number'[d] = number[d], events'[d] = events[d],
           ~ Contains(events[d], JoinEvent(2)),
           link'[d] = link[d] \/ link[d] = "room",
           link'[d] \notin {"offline", "lobby", "joining"} \/ link'[d] = link[d],
           next_number' = next_number
    PROVE  EventsOf(d)'
<1>1. EventsOf(d)
  BY DEF EventsInv
<1>2. StartsOnce(d)'
  BY DEF StartsOnce, Contains
<1>. QED  BY <1>1, <1>2 DEF EventsOf

LEMMA NoEventsLeft ==
    ASSUME NEW d \in Client, events'[d] = << >>
    PROVE  EventsOf(d)'
<1>1. Len(<< >>) = 0
  OBVIOUS
<1>. QED  BY <1>1 DEF EventsOf, StartsOnce


-----------------------------------------------------------------------------
(* What a step does to the clients it is not a step of. *)

Untouched(d) ==
    /\ state'[d] = state[d]
    /\ player_nbr'[d] = player_nbr[d]
    /\ is_connected'[d] = is_connected[d]
    /\ current_frame'[d] = current_frame[d]
    /\ packet_queue'[d] = packet_queue[d]
    /\ confirmed_world'[d] = confirmed_world[d]
    /\ link'[d] = link[d]
    /\ room'[d] = room[d]
    /\ number'[d] = number[d]
    /\ d \in hasty' <=> d \in hasty

(* The events of the others: as they were, a packet more, or a join more.  *)
NothingSent(d) ==
    /\ events'[d] = events[d]
    /\ room[d] \in Room /\ link[d] # "offline" =>
          next_number'[room[d]] = next_number[room[d]]

PacketSent(c, d) ==
    /\ state[c] = "kInGame"
    /\ link[c] = "room"
    /\ room[c] = room[d]
    /\ room[d] \in Room
    /\ link[d] # "offline"
    /\ Appended(events[d], events'[d], CustomEvent(room[d]))
    /\ next_number' = next_number

JoinSent(d) ==
    /\ room[d] \in Room
    /\ link[d] # "offline"
    /\ next_number[room[d]] \in 1 .. MaxJoins
    /\ Appended(events[d], events'[d], JoinEvent(next_number[room[d]]))
    /\ next_number'[room[d]] = next_number[room[d]] + 1

NumbersGrow ==
    \A r \in Room : next_number'[r] >= next_number[r] /\ next_number'[r] \in Int

LEMMA GrowingNumbers ==
    ASSUME TypeOK, NEW c \in Client, Effect(c)
    PROVE  NumbersGrow
<1>1. \A r \in Room : next_number[r] \in Int
  BY RoomsAssumption DEF TypeOK
<1>2. CASE next_number' = next_number
  BY <1>1, <1>2 DEF NumbersGrow
<1>3. CASE Joined(c)
  <2>1. PICK r \in Room : next_number' = [next_number EXCEPT ![r] = @ + 1]
    BY <1>3 DEF Joined, JoinedAs
  <2>2. \A q \in Room : next_number'[q] = IF q = r THEN next_number[q] + 1
                                          ELSE next_number[q]
    BY <2>1 DEF TypeOK
  <2>. QED  BY <1>1, <2>2 DEF NumbersGrow
<1>4. next_number' = next_number \/ Joined(c)
  BY DEF Effect, ServedStart, ServedJoin, ServedCustom, ServedLeft, Served,
         ConnectReturn, DrawMenu, FrameSent, FrameUndefined, Framed, Ended,
         EndedAndRestarted, CleanedOnly, CleanedAndRestarted, Cleaned,
         network_vars, Closed, TearDown, RefuseJoin, Left, Disconnected,
       DisconnectReturn
<1>. QED  BY <1>2, <1>3, <1>4

(* A step leaves the state of the other clients alone.                     *)
LEMMA OthersUntouched ==
    ASSUME MenuTypes, MatchRanges, RoomTypes, NEW c \in Client, Effect(c), NEW d \in Client \ {c}
    PROVE  Untouched(d)
<1>1. CASE ServedStart(c)
  BY <1>1
  DEF ServedStart, Served, HeadTaken, Running, Untouched, MenuTypes,
      MatchRanges, RoomTypes
<1>2. CASE ServedJoin(c)
  BY <1>2
  DEF ServedJoin, Served, HeadTaken, Running, Untouched, MenuTypes,
      MatchRanges, RoomTypes
<1>3. CASE ServedCustom(c)
  BY <1>3
  DEF ServedCustom, Served, HeadTaken, Running, Untouched, MenuTypes,
      MatchRanges, RoomTypes
<1>4. CASE ServedLeft(c)
  BY <1>4
  DEF ServedLeft, Served, HeadTaken, Running, Untouched, MenuTypes,
      MatchRanges, RoomTypes
<1>5. CASE ConnectReturn(c)
  BY <1>5
  DEF ConnectReturn, Running, Untouched, MenuTypes, MatchRanges, RoomTypes
<1>6. CASE DrawMenu(c)
  BY <1>6
  DEF DrawMenu, Untouched, MenuTypes, MatchRanges, RoomTypes
<1>7. CASE FrameSent(c)
  BY <1>7
  DEF FrameSent, Framed, Appended, Untouched, MenuTypes, MatchRanges,
      RoomTypes
<1>8. CASE FrameUndefined(c)
  BY <1>8
  DEF FrameUndefined, Framed, Untouched, MenuTypes, MatchRanges, RoomTypes
<1>9. CASE Ended(c)
  BY <1>9
  DEF Ended, Untouched, MenuTypes, MatchRanges, RoomTypes
<1>10. CASE EndedAndRestarted(c)
  BY <1>10
  DEF EndedAndRestarted, Restarted, Untouched, MenuTypes, MatchRanges,
      RoomTypes
<1>11. CASE CleanedOnly(c)
  BY <1>11
  DEF CleanedOnly, Cleaned, network_vars, Untouched, MenuTypes, MatchRanges,
      RoomTypes
<1>12. CASE CleanedAndRestarted(c)
  BY <1>12
  DEF CleanedAndRestarted, Cleaned, Restarted, network_vars, Untouched,
      MenuTypes, MatchRanges, RoomTypes
<1>13. CASE Closed(c)
  BY <1>13
  DEF Closed, TearDown, Running, Untouched, MenuTypes, MatchRanges,
      RoomTypes
<1>14. CASE Joined(c)
  BY <1>14
  DEF Joined, JoinedAs, Appended, game_vars, Untouched, MenuTypes,
      MatchRanges, RoomTypes
<1>15. CASE RefuseJoin(c)
  BY <1>15
  DEF RefuseJoin, game_vars, Untouched, MenuTypes, MatchRanges, RoomTypes
<1>16. CASE Left(c)
  BY <1>16
  DEF Left, Appended, game_vars, Untouched, MenuTypes, MatchRanges,
      RoomTypes
<1>17. CASE Disconnected(c)
  BY <1>17
  DEF Disconnected, DisconnectReturn, game_vars, Untouched, MenuTypes,
      MatchRanges, RoomTypes
<1>. QED  BY <1>1, <1>2, <1>3, <1>4, <1>5, <1>6, <1>7, <1>8, <1>9, <1>10, <1>11,
     <1>12, <1>13, <1>14, <1>15, <1>16, <1>17
  DEF Effect


(* What reaches another client in a step.                                  *)
LEMMA OthersEvents ==
    ASSUME TypeOK, PlaceInv, NEW c \in Client, Effect(c), NEW d \in Client \ {c}
    PROVE  NothingSent(d) \/ PacketSent(c, d) \/ JoinSent(d)
<1>1. CASE events'[d] = events[d] /\ next_number' = next_number
  BY <1>1 DEF NothingSent
<1>2. CASE FrameSent(c)
  <2>1. state[c] = "kInGame" /\ next_number' = next_number
    BY <1>2 DEF FrameSent, Framed
  <2>2. \/ events'[d] = events[d]
        \/ /\ link[c] = "room" /\ room[c] \in Room
           /\ room[d] = room[c] /\ link[d] # "offline"
           /\ Appended(events[d], events'[d], CustomEvent(room[c]))
    BY <1>2 DEF FrameSent
  <2>. QED  BY <1>1, <2>1, <2>2 DEF PacketSent
<1>3. CASE Joined(c)
  <2>1. PICK r \in Room : JoinedAs(c, r)
    BY <1>3 DEF Joined
  <2>2. /\ next_number[r] \in 1 .. MaxJoins
        /\ next_number'[r] = next_number[r] + 1
        /\ \A q \in Room \ {r} : next_number'[q] = next_number[q]
    BY <2>1 DEF JoinedAs, TypeOK
  <2>3. IF room[d] = r /\ link[d] # "offline"
        THEN Appended(events[d], events'[d], JoinEvent(next_number[r]))
        ELSE events'[d] = events[d]
    BY <2>1 DEF JoinedAs
  <2>. QED  BY <2>1, <2>2, <2>3 DEF NothingSent, JoinSent
<1>4. CASE Left(c)
  BY <1>1, <1>4 DEF Left
<1>5. \/ events'[d] = events[d] /\ next_number' = next_number
      \/ FrameSent(c) \/ Joined(c) \/ Left(c)
  BY DEF Effect, ServedStart, ServedJoin, ServedCustom, ServedLeft, Served,
         ConnectReturn, DrawMenu, FrameUndefined, Framed, Ended,
         EndedAndRestarted, CleanedOnly, CleanedAndRestarted, Cleaned,
         network_vars, Closed, TearDown, RefuseJoin, Disconnected, DisconnectReturn
<1>. QED  BY <1>1, <1>2, <1>3, <1>4, <1>5

(* The second player of a room reaches the first one in the menu, waiting, *)
(* with no other such event on its way.                                    *)
LEMMA SecondReachesFirst ==
    ASSUME TypeOK, PlaceInv, SeatsInv, EventsInv, NEW d \in Client,
           room[d] \in Room, link[d] # "offline", next_number[room[d]] = 2
    PROVE  /\ state[d] = "kMenu"
           /\ link[d] = "room"
           /\ number[d] = 1
           /\ ~ Contains(events[d], JoinEvent(2))
<1>1. room[d] # NoRoom
  BY DEF Room, NoRoom
<1>2. number[d] \in Nat /\ number[d] # NoNumber /\ number[d] < 2
  BY <1>1, RoomsAssumption DEF SeatsInv, TypeOK, NoNumber
<1>3. link[d] \notin {"lobby", "joining"}
  BY <1>1 DEF PlaceInv
<1>4. link[d] # "leaving"
  BY <1>1 DEF PlaceInv
<1>5. link[d] = "room"
  BY <1>3, <1>4 DEF TypeOK
<1>6. state[d] \notin {"kInGame", "Undefined", "kGameFinished", "closed"}
  BY <1>5 DEF PlaceInv
<1>7. state[d] = "kMenu"
  BY <1>6 DEF TypeOK
<1>8. \A i \in 1 .. Len(events[d]) : events[d][i] # JoinEvent(2)
  BY <1>1 DEF EventsInv, EventsOf, JoinEvent
<1>. QED  BY <1>2, <1>5, <1>7, <1>8 DEF Contains, NoNumber

LEMMA StartsOnlyInTheMenu ==
    ASSUME EventsInv, NEW d \in Client, state[d] # "kMenu"
    PROVE  ~ Contains(events[d], JoinEvent(2))
  BY DEF EventsInv, EventsOf, StartsOnce, Contains

(* The event that starts the match, sent to the first player.              *)
LEMMA StartSent ==
    ASSUME TypeOK, PlaceInv, SeatsInv, EventsInv, NEW d \in Client, Untouched(d),
           NumbersGrow, JoinSent(d), next_number[room[d]] = 2
    PROVE  EventsOf(d)'
<1>1. /\ state[d] = "kMenu" /\ link[d] = "room" /\ number[d] = 1
      /\ ~ Contains(events[d], JoinEvent(2))
  BY SecondReachesFirst DEF JoinSent
<1>2. /\ state'[d] = "kMenu" /\ link'[d] = "room" /\ number'[d] = 1
      /\ room'[d] = room[d] /\ room[d] \in Room
      /\ next_number'[room[d]] = 3
  BY <1>1 DEF Untouched, JoinSent
<1>3. Appended(events[d], events'[d], JoinEvent(2))
  BY DEF JoinSent
<1>4. events[d] \in Seq(Event) /\ Len(events[d]) \in Nat
  BY LenProperties DEF TypeOK
<1>5. ASSUME NEW i \in 1 .. Len(events'[d])
      PROVE  \/ i \in 1 .. Len(events[d]) /\ events'[d][i] = events[d][i]
             \/ i = Len(events[d]) + 1 /\ events'[d][i] = JoinEvent(2)
  BY <1>3, <1>4 DEF Appended
<1>6. ASSUME NEW i \in 1 .. Len(events[d])
      PROVE  /\ events[d][i] # JoinEvent(2)
             /\ events[d][i].type # "left"
             /\ events[d][i].type = "join" => events[d][i].of < 2
  BY <1>1, RoomsAssumption DEF Contains, EventsInv, EventsOf, JoinSent, NoRoom, Room
<1>7. ASSUME NEW i \in 1 .. Len(events'[d])
      PROVE  /\ events'[d][i].type # "left"
             /\ events'[d][i].type = "join" => events'[d][i].of < 3
  <2>1. CASE i \in 1 .. Len(events[d]) /\ events'[d][i] = events[d][i]
    <3>1. events[d][i] \in Event
      BY <1>4, <2>1, ElementOfSeq
    <3>2. events[d][i].type = "join" => events[d][i].of \in Int
      BY <3>1, EventKinds
    <3>. QED  BY <1>6, <2>1, <3>2
  <2>2. CASE events'[d][i] = JoinEvent(2)
    BY <2>2 DEF JoinEvent
  <2>. QED  BY <1>5, <2>1, <2>2
<1>8. StartsOnce(d)'
  <2>1. \A i \in 1 .. Len(events'[d]) : events'[d][i] = JoinEvent(2) => i = Len(events[d]) + 1
    BY <1>5, <1>6
  <2>. QED  BY <1>2, <2>1 DEF StartsOnce
<1>. QED  BY <1>2, <1>7, <1>8 DEF EventsOf

LEMMA EventsOfOthers ==
    ASSUME TypeOK, PlaceInv, SeatsInv, EventsInv, NEW c \in Client, Effect(c),
           NEW d \in Client \ {c}
    PROVE  EventsOf(d)'
<1>1. Untouched(d) /\ NumbersGrow
  BY OthersUntouched, GrowingNumbers, TypeGroups, RangesOfTypes
<1>2. CASE NothingSent(d)
  BY <1>1, <1>2, EventsKept DEF Untouched, NumbersGrow, NothingSent
<1>3. CASE PacketSent(c, d)
  <2>1. CustomEvent(room[d]) \in Event
    BY <1>3, EventsAreEvents DEF PacketSent
  <2>2. /\ CustomEvent(room[d]).type = "custom"
        /\ CustomEvent(room[d]) # JoinEvent(2)
    BY DEF CustomEvent, JoinEvent
  <2>3. room[d] # NoRoom
    BY <1>3 DEF PacketSent, Room, NoRoom
  <2>. QED  BY <1>1, <1>3, <2>1, <2>2, <2>3, EventsSent DEF Untouched, NumbersGrow, PacketSent
<1>4. CASE JoinSent(d)
  <2>1. CASE next_number[room[d]] = 2
    BY <1>1, <1>4, <2>1, StartSent
  <2>2. CASE next_number[room[d]] # 2
    <3>. DEFINE n == next_number[room[d]]
    <3>1. JoinEvent(n) \in Event
      BY <1>4, EventsAreEvents DEF JoinSent
    <3>2. /\ JoinEvent(n).type = "join"
          /\ JoinEvent(n).of = n
          /\ JoinEvent(n) # JoinEvent(2)
      BY <2>2 DEF JoinEvent
    <3>3. room[d] # NoRoom
      BY <1>4 DEF JoinSent, Room, NoRoom
    <3>4. n \in Int /\ next_number'[room[d]] = n + 1
      BY <1>4 DEF JoinSent
    <3>5. /\ Appended(events[d], events'[d], JoinEvent(n))
          /\ JoinEvent(n).of < next_number'[room[d]]
          /\ link[d] # "offline"
      BY <1>4, <3>2, <3>4 DEF JoinSent
    <3>. HIDE DEF n
    <3>. QED  BY <1>1, <3>1, <3>2, <3>3, <3>5, EventsSent DEF Untouched, NumbersGrow
  <2>. QED  BY <2>1, <2>2
<1>. QED  BY <1>2, <1>3, <1>4, OthersEvents

(* The events of the client a step is of.                                  *)
LEMMA EventsOfOwn ==
    ASSUME TypeOK, PlaceInv, EventsInv, NEW c \in Client, Effect(c)
    PROVE  EventsOf(c)'
<1>1. CASE ServedStart(c)
  <2>1. /\ Len(events[c]) > 0 /\ events[c][1] = JoinEvent(2)
        /\ HeadTaken(events[c], events'[c])
        /\ Running(c) /\ state' = [state EXCEPT ![c] = "kInGame"]
        /\ next_number' = next_number
    BY <1>1 DEF ServedStart, Served, HeadTaken
  <2>2. ~ Contains(events'[c], JoinEvent(2))
    <3>1. \A j \in 1 .. Len(events[c]) : events[c][j] = JoinEvent(2) => j = 1
      BY <2>1, StartInTheMenu
    <3>2. Len(events[c]) \in Nat
      BY LenProperties DEF TypeOK
    <3>3. ASSUME NEW i \in 1 .. Len(events'[c])
          PROVE  events'[c][i] # JoinEvent(2)
      <4>1. /\ events'[c][i] = events[c][i + 1]
            /\ i + 1 \in 1 .. Len(events[c])
            /\ i + 1 # 1
        BY <2>1, <3>2 DEF HeadTaken
      <4>. QED  BY <3>1, <4>1
    <3>. QED  BY <3>3 DEF Contains
  <2>3. state'[c] # "closed"
    BY <2>1 DEF TypeOK
  <2>. QED  BY <1>1, <2>1, <2>2, <2>3, EventsTaken DEF ServedStart, Served
<1>2. CASE ServedJoin(c)
  <2>1. /\ HeadTaken(events[c], events'[c]) /\ Running(c) /\ state' = state
        /\ UNCHANGED <<link, room, number, next_number>>
    BY <1>2 DEF ServedJoin, Served
  <2>. QED  BY <2>1, EventsTaken DEF Running
<1>3. CASE ServedCustom(c)
  <2>1. /\ HeadTaken(events[c], events'[c]) /\ Running(c) /\ state' = state
        /\ UNCHANGED <<link, room, number, next_number>>
    BY <1>3 DEF ServedCustom, Served
  <2>. QED  BY <2>1, EventsTaken DEF Running
<1>4. CASE ServedLeft(c)
  <2>1. /\ Len(events[c]) > 0 /\ events[c][1] = LeftEvent
        /\ HeadTaken(events[c], events'[c])
    BY <1>4 DEF ServedLeft, Served, HeadTaken
  <2>2. Len(events'[c]) = 0 /\ events'[c] \in Seq(Event)
    BY <2>1, LeftLast DEF HeadTaken
  <2>. QED  BY <2>2, EmptySeq, NoEventsLeft
<1>5. CASE ConnectReturn(c)
  <2>1. link[c] = "offline" /\ events' = events
    BY <1>5 DEF ConnectReturn, PlaceInv
  <2>. QED  BY <2>1, NoEventsLeft DEF EventsInv, EventsOf
<1>6. CASE DrawMenu(c)
  <2>1. CASE link[c] = "lobby"
    BY <1>6, <2>1, NoEventsLeft DEF DrawMenu, EventsInv, EventsOf
  <2>2. CASE link[c] # "lobby"
    BY <1>6, <2>2, GrowingNumbers, EventsKept DEF DrawMenu, NumbersGrow
  <2>. QED  BY <2>1, <2>2
<1>7. CASE FrameSent(c)
  <2>1. events'[c] = events[c] /\ UNCHANGED <<state, link, room, number>>
    BY <1>7 DEF FrameSent, Framed
  <2>. QED  BY <2>1, GrowingNumbers, EventsKept DEF NumbersGrow
<1>8. CASE FrameUndefined(c)
  <2>1. state[c] \in {"kInGame", "kGameFinished"} /\ state'[c] # "closed"
    BY <1>8 DEF FrameUndefined, Framed, TypeOK
  <2>2. ~ Contains(events[c], JoinEvent(2))
    BY <2>1, StartsOnlyInTheMenu
  <2>. QED  BY <1>8, <2>1, <2>2, EventsStay DEF FrameUndefined, Framed, TypeOK
<1>9. CASE Ended(c)
  <2>1. state[c] \in {"kInGame", "kGameFinished"} /\ state'[c] # "closed"
    BY <1>9 DEF Ended, TypeOK
  <2>2. ~ Contains(events[c], JoinEvent(2))
    BY <2>1, StartsOnlyInTheMenu
  <2>. QED  BY <1>9, <2>1, <2>2, EventsStay DEF Ended, TypeOK
<1>10. CASE EndedAndRestarted(c)
  <2>1. state[c] \in {"kInGame", "kGameFinished"} /\ state'[c] # "closed"
    BY <1>10 DEF EndedAndRestarted, Restarted, TypeOK
  <2>2. ~ Contains(events[c], JoinEvent(2))
    BY <2>1, StartsOnlyInTheMenu
  <2>. QED  BY <1>10, <2>1, <2>2, EventsStay DEF EndedAndRestarted, Restarted, TypeOK
<1>11. CASE CleanedOnly(c)
  <2>1. UNCHANGED <<state, events, link, room, number>>
    BY <1>11 DEF CleanedOnly, Cleaned, network_vars
  <2>. QED  BY <2>1, GrowingNumbers, EventsKept DEF NumbersGrow
<1>12. CASE CleanedAndRestarted(c)
  <2>1. state[c] \in {"kInGame", "kGameFinished"} /\ state'[c] # "closed"
    BY <1>12 DEF CleanedAndRestarted, Cleaned, Restarted, network_vars, TypeOK
  <2>2. ~ Contains(events[c], JoinEvent(2))
    BY <2>1, StartsOnlyInTheMenu
  <2>. QED  BY <1>12, <2>1, <2>2, EventsStay DEF CleanedAndRestarted, Cleaned, Restarted, network_vars, TypeOK
<1>13. CASE Closed(c)
  BY <1>13, NoEventsLeft DEF Closed
<1>14. CASE Joined(c)
  <2>1. PICK r \in Room : JoinedAs(c, r)
    BY <1>14 DEF Joined
  <2>. DEFINE n == next_number[r]
  <2>2. /\ state'[c] = "kMenu" /\ link'[c] = "room" /\ room'[c] = r
        /\ number'[c] = n /\ n \in Int /\ next_number'[r] = n + 1
    BY <2>1 DEF JoinedAs, PlaceInv, TypeOK
  <2>3. events[c] = << >> /\ Len(events[c]) = 0
    BY <2>1, EmptySeq DEF JoinedAs, EventsInv, EventsOf
  <2>4. Appended(events[c], events'[c], JoinEvent(n))
    BY <2>1, <2>2 DEF JoinedAs, PlaceInv
  <2>5. Len(events'[c]) = 1 /\ events'[c][1] = JoinEvent(n)
    BY <2>3, <2>4 DEF Appended
  <2>6. /\ JoinEvent(n).type = "join" /\ JoinEvent(n).of = n
        /\ JoinEvent(n) = JoinEvent(2) => n = 2
    BY DEF JoinEvent
  <2>. HIDE DEF n
  <2>7. StartsOnce(c)'
    BY <2>2, <2>5, <2>6 DEF StartsOnce
  <2>. QED  BY <2>2, <2>5, <2>6, <2>7 DEF EventsOf
<1>15. CASE RefuseJoin(c)
  BY <1>15, NoEventsLeft DEF RefuseJoin, EventsInv, EventsOf
<1>16. CASE Left(c)
  <2>1. CASE link[c] = "offline"
    BY <1>16, <2>1, NoEventsLeft DEF Left, EventsInv, EventsOf
  <2>2. CASE link[c] # "offline"
    <3>1. /\ link[c] = "leaving" /\ link'[c] = "leaving"
          /\ room[c] # NoRoom /\ room'[c] = NoRoom
          /\ state'[c] = state[c]
          /\ Appended(events[c], events'[c], LeftEvent)
      BY <1>16, <2>2 DEF Left, game_vars, TypeOK
    <3>2. Len(events[c]) \in Nat
      BY LenProperties DEF TypeOK
    <3>3. EventsOf(c)
      BY DEF EventsInv
    <3>4. ASSUME NEW i \in 1 .. Len(events'[c])
          PROVE  \/ i \in 1 .. Len(events[c]) /\ events'[c][i] = events[c][i]
                 \/ i = Len(events'[c]) /\ events'[c][i] = LeftEvent
      BY <3>1, <3>2 DEF Appended
    <3>5. LeftEvent # JoinEvent(2)
      BY DEF LeftEvent, JoinEvent
    <3>6. \A i \in 1 .. Len(events[c]) :
             events[c][i].type # "left" /\ events[c][i] # JoinEvent(2)
      BY <3>1, <3>3 DEF EventsOf, StartsOnce
    <3>7. ASSUME NEW i \in 1 .. Len(events'[c])
          PROVE  /\ events'[c][i].type = "left" => i = Len(events'[c])
                 /\ events'[c][i] # JoinEvent(2)
      BY <3>4, <3>5, <3>6
    <3>. QED  BY <2>2, <3>1, <3>7 DEF EventsOf, StartsOnce
  <2>. QED  BY <2>1, <2>2
<1>17. CASE Disconnected(c)
  BY <1>17, NoEventsLeft DEF Disconnected
<1>. QED  BY <1>1, <1>2, <1>3, <1>4, <1>5, <1>6, <1>7, <1>8, <1>9, <1>10, <1>11,
     <1>12, <1>13, <1>14, <1>15, <1>16, <1>17
  DEF Effect

LEMMA EventsStep ==
    ASSUME TypeOK, PlaceInv, SeatsInv, EventsInv, NEW c \in Client, Effect(c)
    PROVE  EventsInv'
  BY EventsOfOwn, EventsOfOthers DEF EventsInv


-----------------------------------------------------------------------------
(* Nobody is left behind. *)

LEMMA NobodyOfOthers ==
    ASSUME TypeOK, PlaceInv, NobodyIsLeftBehind, NEW c \in Client, Effect(c),
           NEW d \in Client \ {c}, state'[d] = "kMenu", link'[d] = "room",
           number'[d] \in {1, 2}, next_number'[room'[d]] > 2
    PROVE  Contains(events'[d], JoinEvent(2))
<1>1. Untouched(d)
  BY OthersUntouched, TypeGroups, RangesOfTypes
<1>2. /\ state[d] = "kMenu" /\ link[d] = "room" /\ number[d] \in {1, 2}
      /\ room'[d] = room[d] /\ next_number'[room[d]] > 2
  BY <1>1 DEF Untouched
<1>3. room[d] \in Room /\ next_number[room[d]] \in Int
  BY <1>2, RoomsAssumption DEF PlaceInv, TypeOK
<1>4. events[d] \in Seq(Event)
  BY DEF TypeOK
<1>5. CASE next_number[room[d]] > 2
  <2>1. Contains(events[d], JoinEvent(2))
    BY <1>2, <1>5 DEF NobodyIsLeftBehind
  <2>2. CASE events'[d] = events[d]
    BY <2>1, <2>2
  <2>3. CASE \E e : Appended(events[d], events'[d], e)
    BY <1>4, <2>1, <2>3, ContainsAppended
  <2>. QED  BY <2>2, <2>3, OthersEvents DEF NothingSent, PacketSent, JoinSent
<1>6. CASE ~ next_number[room[d]] > 2
  <2>1. JoinSent(d)
    BY <1>2, <1>3, <1>6, OthersEvents DEF NothingSent, PacketSent
  <2>2. next_number[room[d]] = 2
    BY <1>2, <1>3, <1>6, <2>1 DEF JoinSent
  <2>3. Appended(events[d], events'[d], JoinEvent(2))
    BY <2>1, <2>2 DEF JoinSent
  <2>. QED  BY <1>4, <2>3, ContainsAppended
<1>. QED  BY <1>5, <1>6

(* The client itself: in the menu, in a room.                              *)
LEMMA NobodyOfOwn ==
    ASSUME TypeOK, PlaceInv, EventsInv, NobodyIsLeftBehind, NEW c \in Client, Effect(c),
           state'[c] = "kMenu", link'[c] = "room",
           number'[c] \in {1, 2}, next_number'[room'[c]] > 2
    PROVE  Contains(events'[c], JoinEvent(2))
<1>1. CASE ServedStart(c)
  BY <1>1
  DEF ServedStart, Served, HeadTaken, Running, TypeOK, PlaceInv
<1>2. CASE ServedJoin(c)
  <2>1. /\ HeadTaken(events[c], events'[c])
        /\ UNCHANGED <<state, link, room, number, next_number>>
    BY <1>2 DEF ServedJoin, Served
  <2>2. events[c] \in Seq(Event) /\ Contains(events[c], JoinEvent(2))
    BY <2>1 DEF TypeOK, NobodyIsLeftBehind
  <2>3. events[c][1] # JoinEvent(2)
    BY <1>2 DEF ServedJoin, JoinEvent, CustomEvent
  <2>. QED  BY <2>1, <2>2, <2>3, ContainsTaken
<1>3. CASE ServedCustom(c)
  <2>1. /\ HeadTaken(events[c], events'[c])
        /\ UNCHANGED <<state, link, room, number, next_number>>
    BY <1>3 DEF ServedCustom, Served
  <2>2. events[c] \in Seq(Event) /\ Contains(events[c], JoinEvent(2))
    BY <2>1 DEF TypeOK, NobodyIsLeftBehind
  <2>3. events[c][1] # JoinEvent(2)
    BY <1>3 DEF ServedCustom, JoinEvent, CustomEvent
  <2>. QED  BY <2>1, <2>2, <2>3, ContainsTaken
<1>4. CASE ServedLeft(c)
  BY <1>4
  DEF ServedLeft, Served, HeadTaken, Running, TypeOK, PlaceInv
<1>5. CASE ConnectReturn(c)
  BY <1>5
  DEF ConnectReturn, Running, TypeOK, PlaceInv
<1>6. CASE DrawMenu(c)
  <2>1. link' = link /\ UNCHANGED <<state, room, number, next_number, events>>
    BY <1>6 DEF DrawMenu, TypeOK
  <2>. QED  BY <2>1 DEF NobodyIsLeftBehind
<1>7. CASE FrameSent(c)
  BY <1>7
  DEF FrameSent, Framed, Appended, TypeOK, PlaceInv
<1>8. CASE FrameUndefined(c)
  BY <1>8
  DEF FrameUndefined, Framed, TypeOK, PlaceInv
<1>9. CASE Ended(c)
  BY <1>9
  DEF Ended, TypeOK, PlaceInv
<1>10. CASE EndedAndRestarted(c)
  BY <1>10
  DEF EndedAndRestarted, Restarted, TypeOK, PlaceInv
<1>11. CASE CleanedOnly(c)
  BY <1>11
  DEF CleanedOnly, Cleaned, network_vars, TypeOK, PlaceInv
<1>12. CASE CleanedAndRestarted(c)
  BY <1>12
  DEF CleanedAndRestarted, Cleaned, Restarted, network_vars, TypeOK,
      PlaceInv
<1>13. CASE Closed(c)
  BY <1>13
  DEF Closed, TearDown, Running, TypeOK, PlaceInv
<1>14. CASE Joined(c)
  <2>1. PICK r \in Room : JoinedAs(c, r)
    BY <1>14 DEF Joined
  <2>2. /\ next_number[r] \in 1 .. MaxJoins
        /\ room'[c] = r /\ number'[c] = next_number[r]
        /\ next_number'[r] = next_number[r] + 1
        /\ events[c] \in Seq(Event)
    BY <2>1 DEF JoinedAs, TypeOK
  <2>3. next_number[r] = 2
    BY <2>2
  <2>4. Appended(events[c], events'[c], JoinEvent(2))
    BY <2>1, <2>3 DEF JoinedAs, PlaceInv
  <2>. QED  BY <2>2, <2>4, ContainsAppended
<1>15. CASE RefuseJoin(c)
  BY <1>15
  DEF RefuseJoin, game_vars, TypeOK, PlaceInv
<1>16. CASE Left(c)
  BY <1>16
  DEF Left, Appended, game_vars, TypeOK, PlaceInv
<1>17. CASE Disconnected(c)
  BY <1>17
  DEF Disconnected, DisconnectReturn, TypeOK, PlaceInv
<1>. QED  BY <1>1, <1>2, <1>3, <1>4, <1>5, <1>6, <1>7, <1>8, <1>9, <1>10, <1>11,
     <1>12, <1>13, <1>14, <1>15, <1>16, <1>17
  DEF Effect

LEMMA NobodyStep ==
    ASSUME TypeOK, PlaceInv, EventsInv, NobodyIsLeftBehind, NEW c \in Client, Effect(c)
    PROVE  NobodyIsLeftBehind'
  BY NobodyOfOthers, NobodyOfOwn DEF NobodyIsLeftBehind


-----------------------------------------------------------------------------
(* A match starts fresh. *)

(* The events of a client after one more, when the new one is a join or a  *)
(* packet of its room that the start of the match precedes.                *)
LEMMA PacketsFollowAppended ==
    ASSUME TypeOK, NEW d \in Client, NEW e, Appended(events[d], events'[d], e),
           PacketsFollow(d), room'[d] = room[d], number'[d] = number[d],
           state'[d] = state[d],
           e.type = "custom" =>
              /\ e.of = room[d]
              /\ state[d] = "kMenu" /\ number[d] \in {1, 2} =>
                    Contains(events[d], JoinEvent(2))
    PROVE  PacketsFollow(d)'
<1>1. Len(events[d]) \in Nat
  BY LenProperties DEF TypeOK
<1>2. /\ Len(events'[d]) = Len(events[d]) + 1
      /\ \A i \in 1 .. Len(events[d]) : events'[d][i] = events[d][i]
      /\ events'[d][Len(events[d]) + 1] = e
  BY DEF Appended
<1>3. ASSUME NEW i \in 1 .. Len(events'[d]), events'[d][i].type = "custom"
      PROVE  /\ events'[d][i].of = room[d]
             /\ state[d] = "kMenu" /\ number[d] \in {1, 2} =>
                   \E j \in 1 .. i - 1 : events'[d][j] = JoinEvent(2)
  <2>1. CASE i \in 1 .. Len(events[d])
    <3>1. events'[d][i] = events[d][i]
      BY <1>2, <2>1
    <3>2. /\ events[d][i].of = room[d]
          /\ state[d] = "kMenu" /\ number[d] \in {1, 2} =>
                \E j \in 1 .. i - 1 : events[d][j] = JoinEvent(2)
      BY <1>3, <2>1, <3>1 DEF PacketsFollow
    <3>3. \A j \in 1 .. i - 1 : events'[d][j] = events[d][j]
      BY <1>1, <1>2, <2>1
    <3>. QED  BY <3>1, <3>2, <3>3
  <2>2. CASE i = Len(events[d]) + 1
    <3>1. events'[d][i] = e
      BY <1>2, <2>2
    <3>2. ASSUME state[d] = "kMenu", number[d] \in {1, 2}
          PROVE  \E j \in 1 .. i - 1 : events'[d][j] = JoinEvent(2)
      <4>1. PICK j \in 1 .. Len(events[d]) : events[d][j] = JoinEvent(2)
        BY <1>3, <3>1, <3>2 DEF Contains
      <4>2. j \in 1 .. i - 1 /\ events'[d][j] = JoinEvent(2)
        BY <1>1, <1>2, <2>2, <4>1
      <4>. QED  BY <4>2
    <3>. QED  BY <1>3, <3>1, <3>2
  <2>. QED  BY <1>1, <1>2, <2>1, <2>2
<1>. QED  BY <1>3 DEF PacketsFollow

LEMMA PacketsFollowTaken ==
    ASSUME TypeOK, NEW d \in Client, HeadTaken(events[d], events'[d]),
           PacketsFollow(d), room'[d] = room[d], number'[d] = number[d],
           \/ state'[d] = state[d] /\ events[d][1] # JoinEvent(2)
           \/ state'[d] # "kMenu"
    PROVE  PacketsFollow(d)'
<1>1. /\ Len(events[d]) \in Nat
      /\ Len(events'[d]) = Len(events[d]) - 1
      /\ \A i \in 1 .. Len(events'[d]) : events'[d][i] = events[d][i + 1]
  BY LenProperties DEF TypeOK, HeadTaken
<1>2. ASSUME NEW i \in 1 .. Len(events'[d]), events'[d][i].type = "custom"
      PROVE  /\ events'[d][i].of = room[d]
             /\ state'[d] = "kMenu" /\ number[d] \in {1, 2} =>
                   \E j \in 1 .. i - 1 : events'[d][j] = JoinEvent(2)
  <2>1. i + 1 \in 1 .. Len(events[d]) /\ events[d][i + 1].type = "custom"
    BY <1>1, <1>2
  <2>2. /\ events[d][i + 1].of = room[d]
        /\ state[d] = "kMenu" /\ number[d] \in {1, 2} =>
              \E j \in 1 .. (i + 1) - 1 : events[d][j] = JoinEvent(2)
    BY <2>1 DEF PacketsFollow
  <2>3. ASSUME state'[d] = "kMenu", number[d] \in {1, 2}
        PROVE  \E j \in 1 .. i - 1 : events'[d][j] = JoinEvent(2)
    <3>1. state[d] = "kMenu" /\ events[d][1] # JoinEvent(2)
      BY <2>3
    <3>2. PICK j \in 1 .. (i + 1) - 1 : events[d][j] = JoinEvent(2)
      BY <2>2, <2>3, <3>1
    <3>3. j # 1
      BY <3>1, <3>2
    <3>4. j - 1 \in 1 .. i - 1 /\ events'[d][j - 1] = events[d][(j - 1) + 1]
      BY <1>1, <1>2, <3>2, <3>3
    <3>5. (j - 1) + 1 = j
      BY <3>2
    <3>. QED  BY <3>2, <3>4, <3>5
  <2>. QED  BY <1>1, <2>2, <2>3
<1>. QED  BY <1>2 DEF PacketsFollow

LEMMA PacketsFollowKept ==
    ASSUME NEW d \in Client, events'[d] = events[d],
           PacketsFollow(d), room'[d] = room[d], number'[d] = number[d],
           state'[d] = state[d]
    PROVE  PacketsFollow(d)'
  BY DEF PacketsFollow

LEMMA NoPacketsFollow ==
    ASSUME NEW d \in Client, events'[d] = << >>
    PROVE  PacketsFollow(d)'
<1>1. Len(<< >>) = 0
  OBVIOUS
<1>. QED  BY <1>1 DEF PacketsFollow

LEMMA FreshOfOthers ==
    ASSUME TypeOK, PlaceInv, NobodyIsLeftBehind, FreshInv, NEW c \in Client, Effect(c),
           NEW d \in Client \ {c}, d \notin hasty'
    PROVE  FreshOf(d)'
<1>1. Untouched(d)
  BY OthersUntouched, TypeGroups, RangesOfTypes
<1>2. FreshOf(d)
  BY <1>1 DEF Untouched, FreshInv
<1>3. ASSUME state[d] \in {"kMenu", "kInGame"}
      PROVE  PacketsFollow(d)'
  <2>0. PacketsFollow(d)
    BY <1>2, <1>3 DEF FreshOf
  <2>1. CASE NothingSent(d)
    BY <1>1, <2>0, <2>1, PacketsFollowKept DEF NothingSent, Untouched
  <2>2. CASE PacketSent(c, d)
    <3>1. ASSUME state[d] = "kMenu", number[d] \in {1, 2}
          PROVE  Contains(events[d], JoinEvent(2))
      <4>1. link[d] \notin {"leaving", "offline"}
        BY <1>2, <2>2, <3>1 DEF FreshOf, FreshMenu, CutOff, PacketSent
      <4>2. room[d] # NoRoom
        BY <2>2 DEF PacketSent, Room, NoRoom
      <4>3. link[d] = "room"
        BY <4>1, <4>2 DEF PlaceInv, TypeOK
      <4>4. next_number[room[d]] > 2
        BY <2>2 DEF PacketSent, PlaceInv
      <4>. QED  BY <3>1, <4>3, <4>4 DEF NobodyIsLeftBehind
    <3>2. CustomEvent(room[d]).of = room[d]
      BY DEF CustomEvent
    <3>. QED  BY <1>1, <2>0, <2>2, <3>1, <3>2, PacketsFollowAppended
              DEF PacketSent, Untouched
  <2>3. CASE JoinSent(d)
    <3>1. JoinEvent(next_number[room[d]]).type # "custom"
      BY DEF JoinEvent
    <3>. QED  BY <1>1, <2>0, <2>3, <3>1, PacketsFollowAppended DEF JoinSent, Untouched
  <2>. QED  BY <2>1, <2>2, <2>3, OthersEvents
<1>4. ASSUME events[d] # << >>
      PROVE  events'[d] # << >> /\ events'[d][1] = events[d][1]
  <2>1. events[d] \in Seq(Event) /\ Len(events[d]) \in Nat /\ Len(events[d]) # 0
    BY <1>4, EmptySeq, LenProperties DEF TypeOK
  <2>2. CASE events'[d] = events[d]
    BY <1>4, <2>2
  <2>3. CASE \E e : Appended(events[d], events'[d], e)
    <3>1. Len(events'[d]) = Len(events[d]) + 1 /\ events'[d][1] = events[d][1]
      BY <2>1, <2>3 DEF Appended
    <3>2. Len(events'[d]) # Len(<< >>)
      BY <2>1, <3>1
    <3>. QED  BY <3>1, <3>2
  <2>. QED  BY <2>2, <2>3, OthersEvents DEF NothingSent, PacketSent, JoinSent
<1>5. CutOff(d)' <=> CutOff(d)
  BY <1>1 DEF Untouched, CutOff
<1>6. state[d] = "kMenu" /\ ~ CutOff(d) => FreshMenu(d)'
  BY <1>1, <1>2, <1>4 DEF FreshOf, FreshMenu, Untouched
<1>. QED  BY <1>1, <1>2, <1>3, <1>5, <1>6 DEF FreshOf, Untouched

(* The client itself, by what it did.                                      *)
LEMMA FreshOfOwn ==
    ASSUME TypeOK, PlaceInv, SeatsInv, EventsInv, FreshInv, NEW c \in Client, Effect(c),
           c \notin hasty'
    PROVE  FreshOf(c)'
<1>1. CASE ServedStart(c)
  <2>1. /\ Len(events[c]) > 0 /\ events[c][1] = JoinEvent(2)
        /\ HeadTaken(events[c], events'[c])
        /\ state'[c] = "kInGame" /\ c \notin hasty
        /\ player_nbr'[c] = IF player_nbr[c] = NoPlayer THEN 1 ELSE player_nbr[c]
        /\ confirmed_world'[c] = confirmed_world[c] + 1
        /\ UNCHANGED <<packet_queue, room, number>>
    BY <1>1 DEF ServedStart, Served, HeadTaken, TypeOK
  <2>2. state[c] = "kMenu" /\ link[c] = "room" /\ number[c] \in {1, 2} /\ ~ CutOff(c)
    BY <2>1, StartInTheMenu DEF CutOff
  <2>3. /\ FreshMenu(c)
        /\ PacketsFollow(c)
        /\ packet_queue[c] = {}
    BY <2>1, <2>2 DEF FreshInv, FreshOf, FreshMenu
  <2>4. PacketsFollow(c)'
    BY <2>1, <2>3, PacketsFollowTaken
  <2>5. JoinEvent(2) = JoinEvent(number[c]) => number[c] = 2
    BY DEF JoinEvent
  <2>6. player_nbr'[c] = number'[c] - 1 /\ player_nbr'[c] \in {0, 1}
    BY <2>1, <2>2, <2>3, <2>5 DEF FreshMenu
  <2>. QED  BY <2>1, <2>3, <2>4, <2>6 DEF FreshMenu, FreshOf
<1>2. CASE ServedJoin(c)
  <2>1. PICK nr \in 1 .. MaxJoins :
           /\ nr # 2
           /\ events[c][1] = JoinEvent(nr)
           /\ player_nbr' = [player_nbr EXCEPT ![c] = IF @ = NoPlayer THEN nr - 1 ELSE @]
    BY <1>2 DEF ServedJoin
  <2>2. /\ HeadTaken(events[c], events'[c])
        /\ UNCHANGED <<state, is_connected, current_frame, confirmed_world, packet_queue,
                       link, room, number, hasty>>
    BY <1>2 DEF ServedJoin, Served
  <2>3. player_nbr'[c] = IF player_nbr[c] = NoPlayer THEN nr - 1 ELSE player_nbr[c]
    BY <2>1 DEF TypeOK
  <2>4. FreshOf(c)
    BY <2>2 DEF FreshInv
  <2>5. events[c] # << >>
    <3>1. Len(events[c]) # Len(<< >>)
      BY <2>2 DEF HeadTaken
    <3>. QED  BY <3>1
  <2>6. JoinEvent(nr) # JoinEvent(2) /\ JoinEvent(nr).of = nr
    BY <2>1 DEF JoinEvent
  <2>7. state[c] \in {"kMenu", "kInGame"} => PacketsFollow(c)'
    BY <2>1, <2>2, <2>4, <2>6, PacketsFollowTaken DEF FreshOf
  <2>8. ASSUME state[c] = "kMenu"
        PROVE  FreshMenu(c)'
    <3>0. link[c] \notin {"offline", "lobby", "joining"} /\ ~ CutOff(c)
      BY <2>5 DEF EventsInv, EventsOf, CutOff
    <3>1. link[c] # "leaving"
      BY <2>4, <2>8, <3>0 DEF FreshOf, FreshMenu
    <3>2. link[c] = "room"
      BY <3>0, <3>1 DEF TypeOK
    <3>3. number[c] \in Nat /\ number[c] # 0
      BY <3>2, RoomsAssumption DEF PlaceInv, SeatsInv, NoNumber, TypeOK
    <3>4. JoinEvent(number[c]).of = number[c]
      BY DEF JoinEvent
    <3>5. player_nbr[c] = NoPlayer => nr = number[c]
      BY <2>1, <2>4, <2>6, <2>8, <3>0, <3>2, <3>4 DEF FreshOf, FreshMenu
    <3>6. player_nbr[c] # NoPlayer => player_nbr[c] = number[c] - 1
      BY <2>4, <2>8, <3>0, <3>2 DEF FreshOf, FreshMenu
    <3>7. player_nbr'[c] = number[c] - 1 /\ number[c] - 1 # NoPlayer
      BY <2>1, <2>3, <3>3, <3>5, <3>6 DEF NoPlayer
    <3>. QED  BY <2>2, <2>4, <2>8, <3>0, <3>2, <3>7 DEF FreshOf, FreshMenu
  <2>9. state[c] = "kInGame" => player_nbr'[c] = player_nbr[c]
    BY <2>3, <2>4 DEF FreshOf, NoPlayer
  <2>. QED  BY <2>2, <2>4, <2>7, <2>8, <2>9 DEF FreshOf
<1>3. CASE ServedCustom(c)
  <2>1. PICK r \in Room :
           /\ events[c][1] = CustomEvent(r)
           /\ packet_queue' = [packet_queue EXCEPT ![c] = @ \cup {r}]
    BY <1>3 DEF ServedCustom
  <2>2. /\ HeadTaken(events[c], events'[c])
        /\ UNCHANGED <<state, player_nbr, is_connected, current_frame, confirmed_world,
                       link, room, number, hasty>>
        /\ packet_queue'[c] = packet_queue[c] \cup {r}
    BY <1>3, <2>1 DEF ServedCustom, Served, TypeOK
  <2>3. FreshOf(c)
    BY <2>2 DEF FreshInv
  <2>4. /\ CustomEvent(r).type = "custom" /\ CustomEvent(r).of = r
        /\ \A nr : CustomEvent(r) # JoinEvent(nr)
    BY DEF CustomEvent, JoinEvent
  <2>5. 1 \in 1 .. Len(events[c])
    BY <2>2, LenProperties DEF HeadTaken, TypeOK
  <2>6. events[c] # << >>
    <3>1. Len(events[c]) # Len(<< >>)
      BY <2>2 DEF HeadTaken
    <3>. QED  BY <3>1
  <2>7. ASSUME state[c] \in {"kMenu", "kInGame"}
        PROVE  /\ PacketsFollow(c)'
               /\ room[c] # NoRoom => packet_queue'[c] \subseteq {room[c]}
               /\ ~ (state[c] = "kMenu" /\ number[c] \in {1, 2})
    <3>1. PacketsFollow(c)
      BY <2>3, <2>7 DEF FreshOf
    <3>2. /\ r = room[c]
          /\ state[c] = "kMenu" /\ number[c] \in {1, 2} =>
                \E j \in 1 .. 1 - 1 : events[c][j] = JoinEvent(2)
      BY <2>1, <2>4, <2>5, <3>1 DEF PacketsFollow
    <3>3. PacketsFollow(c)'
      BY <2>1, <2>2, <2>4, <3>1, PacketsFollowTaken
    <3>. QED  BY <2>2, <2>3, <2>7, <3>2, <3>3 DEF FreshOf
  <2>8. ASSUME state[c] = "kMenu"
        PROVE  FreshMenu(c)'
    <3>0. link[c] \notin {"offline", "lobby", "joining"} /\ ~ CutOff(c)
      BY <2>6 DEF EventsInv, EventsOf, CutOff
    <3>1. link[c] # "leaving"
      BY <2>3, <2>8, <3>0 DEF FreshOf, FreshMenu
    <3>2. link[c] = "room"
      BY <3>0, <3>1 DEF TypeOK
    <3>3. player_nbr[c] # NoPlayer
      BY <2>1, <2>3, <2>4, <2>8, <3>0, <3>2 DEF FreshOf, FreshMenu
    <3>. QED  BY <2>2, <2>3, <2>7, <2>8, <3>0, <3>2, <3>3 DEF FreshOf, FreshMenu
  <2>. QED  BY <2>2, <2>3, <2>7, <2>8 DEF FreshOf
<1>4. CASE ServedLeft(c)
  <2>1. /\ Len(events[c]) > 0 /\ events[c][1] = LeftEvent
        /\ UNCHANGED <<state, confirmed_world, hasty>>
    BY <1>4 DEF ServedLeft, Served, HeadTaken
  <2>2. link[c] = "leaving" /\ FreshOf(c)
    BY <2>1, LeftLast DEF FreshInv
  <2>3. state[c] \notin {"kMenu", "kInGame"}
    BY <2>2 DEF FreshOf, FreshMenu, PlaceInv, CutOff
  <2>. QED  BY <2>1, <2>2, <2>3 DEF FreshOf
<1>5. CASE ConnectReturn(c)
  <2>1. /\ UNCHANGED <<state, player_nbr, current_frame, confirmed_world, packet_queue,
                      room, number, events, hasty>>
        /\ link[c] = "offline" /\ state[c] = "kMenu" /\ room[c] = NoRoom
        /\ ~ CutOff(c) /\ link'[c] \in {"offline", "lobby"}
    BY <1>5 DEF CutOff, ConnectReturn, PlaceInv, TypeOK
  <2>2. FreshOf(c) /\ events'[c] = << >>
    BY <2>1 DEF FreshInv, EventsInv, EventsOf
  <2>3. PacketsFollow(c)'
    BY <2>2, NoPacketsFollow
  <2>. QED  BY <2>1, <2>2, <2>3 DEF FreshOf, FreshMenu
<1>6. CASE DrawMenu(c)
  <2>1. /\ UNCHANGED <<state, player_nbr, is_connected, current_frame, confirmed_world,
                       packet_queue, room, number, events, hasty>>
        /\ \/ link[c] = "lobby" /\ link'[c] = "joining"
           \/ link'[c] = link[c]
    BY <1>6 DEF DrawMenu, TypeOK
  <2>2. FreshOf(c)
    BY <2>1 DEF FreshInv
  <2>3. PacketsFollow(c)'
    BY <1>6, <2>1, <2>2, PacketsFollowKept DEF FreshOf, DrawMenu
  <2>4. CutOff(c)' <=> CutOff(c)
    BY <2>1 DEF CutOff
  <2>. QED  BY <1>6, <2>1, <2>2, <2>3, <2>4 DEF FreshOf, FreshMenu, DrawMenu
<1>7. CASE FrameSent(c)
  <2>1. /\ UNCHANGED <<state, player_nbr, confirmed_world, room, number, hasty>>
        /\ events'[c] = events[c] /\ state[c] = "kInGame"
        /\ packet_queue'[c] \subseteq packet_queue[c]
    BY <1>7 DEF FrameSent, Framed, TypeOK
  <2>2. FreshOf(c)
    BY <2>1 DEF FreshInv
  <2>3. PacketsFollow(c)'
    BY <2>1, <2>2, PacketsFollowKept DEF FreshOf
  <2>. QED  BY <2>1, <2>2, <2>3 DEF FreshOf
<1>8. CASE FrameUndefined(c)
  <2>1. state[c] = "kInGame" /\ player_nbr[c] \notin {0, 1} /\ c \notin hasty
    BY <1>8 DEF FrameUndefined, Framed
  <2>2. player_nbr[c] \in {0, 1}
    BY <2>1 DEF FreshInv, FreshOf
  <2>. QED  BY <2>1, <2>2
<1>9. CASE Ended(c)
  <2>1. /\ UNCHANGED <<confirmed_world, hasty>> /\ state'[c] = "kGameFinished"
    BY <1>9 DEF Ended, TypeOK
  <2>. QED  BY <2>1 DEF FreshInv, FreshOf
<1>10. CASE EndedAndRestarted(c)
  BY <1>10 DEF EndedAndRestarted
<1>11. CASE CleanedOnly(c)
  BY <1>11 DEF CleanedOnly, Cleaned, FreshOf, TypeOK
<1>12. CASE CleanedAndRestarted(c)
  <2>1. link[c] \in {"lobby", "offline"}
    BY <1>12 DEF CleanedAndRestarted, Cleaned, PlaceInv
  <2>2. /\ state'[c] = "kMenu" /\ link'[c] = link[c] /\ events'[c] = << >>
        /\ room'[c] = room[c]
        /\ player_nbr'[c] = NoPlayer /\ current_frame'[c] = -1
        /\ confirmed_world'[c] = 0 /\ packet_queue'[c] = {}
    BY <1>12, <2>1 DEF CleanedAndRestarted, Cleaned, Restarted, network_vars, TypeOK,
                      EventsInv, EventsOf
  <2>. QED  BY <2>1, <2>2, NoPacketsFollow DEF FreshOf, FreshMenu
<1>13. CASE Closed(c)
  <2>1. state'[c] = "closed" /\ confirmed_world'[c] = 0
    BY <1>13 DEF Closed, TearDown, TypeOK
  <2>. QED  BY <2>1 DEF FreshOf
<1>14. CASE Joined(c)
  <2>1. PICK r \in Room : JoinedAs(c, r)
    BY <1>14 DEF Joined
  <2>2. /\ UNCHANGED <<state, player_nbr, current_frame, confirmed_world, packet_queue, hasty>>
        /\ link[c] = "joining" /\ state[c] = "kMenu"
        /\ link'[c] = "room" /\ number'[c] = next_number[r]
    BY <2>1 DEF JoinedAs, game_vars, PlaceInv, TypeOK
  <2>3. FreshOf(c) /\ ~ CutOff(c)
    BY <2>2 DEF FreshInv, CutOff
  <2>4. /\ player_nbr[c] = NoPlayer /\ packet_queue[c] = {} /\ current_frame[c] = -1
        /\ confirmed_world[c] = 0
    BY <2>2, <2>3 DEF FreshOf, FreshMenu
  <2>5. events[c] = << >> /\ Len(events[c]) = 0
    BY <2>2, EmptySeq DEF EventsInv, EventsOf
  <2>6. Appended(events[c], events'[c], JoinEvent(next_number[r]))
    BY <2>1, <2>2 DEF JoinedAs
  <2>7. Len(events'[c]) = 1 /\ events'[c][1] = JoinEvent(number'[c])
    BY <2>2, <2>5, <2>6 DEF Appended
  <2>8. events'[c] # << >>
    <3>1. Len(events'[c]) # Len(<< >>)
      BY <2>7
    <3>. QED  BY <3>1
  <2>9. PacketsFollow(c)'
    BY <2>7 DEF PacketsFollow, JoinEvent
  <2>. QED  BY <2>2, <2>4, <2>7, <2>8, <2>9 DEF FreshOf, FreshMenu
<1>15. CASE RefuseJoin(c)
  <2>1. /\ UNCHANGED <<state, player_nbr, current_frame, confirmed_world, packet_queue,
                      room, number, events, hasty>>
        /\ link[c] = "joining" /\ room[c] = NoRoom /\ link'[c] = "lobby"
    BY <1>15 DEF RefuseJoin, game_vars, PlaceInv, TypeOK
  <2>2. FreshOf(c) /\ ~ CutOff(c) /\ events'[c] = << >>
    BY <2>1 DEF FreshInv, EventsInv, EventsOf, CutOff
  <2>3. PacketsFollow(c)'
    BY <2>2, NoPacketsFollow
  <2>. QED  BY <2>1, <2>2, <2>3 DEF FreshOf, FreshMenu
<1>16. CASE Left(c)
  <2>1. /\ UNCHANGED <<state, player_nbr, is_connected, current_frame, confirmed_world,
                       packet_queue, link, hasty>>
        /\ link[c] \in {"leaving", "offline"} /\ room[c] # NoRoom
        /\ room'[c] = NoRoom /\ number'[c] = NoNumber
        /\ link[c] = "offline" => events'[c] = events[c]
    BY <1>16 DEF Left, game_vars, TypeOK
  <2>2. FreshOf(c)
    BY <2>1 DEF FreshInv
  <2>3. CASE link[c] = "leaving"
    <3>1. state[c] \notin {"kMenu", "kInGame"}
      BY <2>2, <2>3 DEF FreshOf, FreshMenu, PlaceInv, CutOff
    <3>. QED  BY <2>1, <2>2, <3>1 DEF FreshOf
  <2>4. CASE link[c] = "offline"
    <3>1. state[c] # "kMenu" \/ CutOff(c)'
      BY <2>1, <2>4 DEF PlaceInv, Running, CutOff
    <3>2. events'[c] = << >>
      BY <2>1, <2>4 DEF EventsInv, EventsOf
    <3>. QED  BY <2>1, <2>2, <3>1, <3>2, NoPacketsFollow DEF FreshOf
  <2>. QED  BY <2>1, <2>3, <2>4
<1>17. CASE Disconnected(c)
  <2>1. /\ UNCHANGED <<state, player_nbr, is_connected, confirmed_world, packet_queue,
                       room, number, hasty>>
        /\ Running(c) /\ link[c] # "offline" /\ link'[c] = "offline"
        /\ events'[c] = << >>
    BY <1>17 DEF Disconnected, DisconnectReturn, game_vars, TypeOK
  <2>2. FreshOf(c) /\ CutOff(c)'
    BY <2>1 DEF FreshInv, PlaceInv, CutOff, Running
  <2>3. PacketsFollow(c)'
    BY <2>1, NoPacketsFollow
  <2>. QED  BY <2>1, <2>2, <2>3 DEF FreshOf
<1>. QED  BY <1>1, <1>2, <1>3, <1>4, <1>5, <1>6, <1>7, <1>8, <1>9, <1>10, <1>11,
     <1>12, <1>13, <1>14, <1>15, <1>16, <1>17
  DEF Effect

LEMMA FreshStep ==
    ASSUME TypeOK, PlaceInv, SeatsInv, EventsInv, NobodyIsLeftBehind, FreshInv,
           NEW c \in Client, Effect(c)
    PROVE  FreshInv'
  BY FreshOfOwn, FreshOfOthers DEF FreshInv


-----------------------------------------------------------------------------
(* The invariant. *)

LEMMA InitInv == Init => LifecycleInv
<1>. SUFFICES ASSUME Init PROVE LifecycleInv
  OBVIOUS
<1>1. GameFrameNbr \in Nat \ {0} /\ MaxRooms \in Nat \ {0} /\ MaxJoins \in Nat \ {0}
  BY GameFrameNbrAssumption, RoomsAssumption
<1>2. \A c \in Client : events[c] = << >> /\ Len(events[c]) = 0
  <2>1. Len(<< >>) = 0
    OBVIOUS
  <2>. QED  BY <2>1 DEF Init
<1>3. TypeOK
  <2>1. << >> \in Seq(Event)
    BY EmptySeq
  <2>. QED  BY <1>1, <2>1 DEF Init, TypeOK, NoPlayer, NoRoom, NoNumber
<1>4. PlaceInv /\ StrandedInv /\ WaitingMeansJoining /\ NobodyIsLeftBehind
  BY DEF Init, PlaceInv, StrandedInv, WaitingMeansJoining, NobodyIsLeftBehind
<1>5. SeatsInv
  BY DEF Init, SeatsInv
<1>6. EventsInv
  BY <1>2 DEF EventsInv, EventsOf, StartsOnce
<1>7. WorldsInv
  <2>1. Cardinality(StartedRooms) \in Nat
    BY StartedRoomsFinite
  <2>2. \A c \in Client : ~ Contains(events[c], JoinEvent(2))
    BY <1>2 DEF Contains
  <2>3. \A c \in Client : /\ state[c] = "kMenu"
                          /\ shown_world[c] = 0
                          /\ confirmed_world[c] = 0
                          /\ current_frame[c] = -1
    BY DEF Init
  <2>. QED  BY <1>1, <2>1, <2>2, <2>3 DEF WorldsInv
<1>8. FreshInv
  BY <1>2 DEF Init, FreshInv, FreshOf, FreshMenu, PacketsFollow
<1>. QED  BY <1>3, <1>4, <1>5, <1>6, <1>7, <1>8 DEF LifecycleInv

LEMMA StepInv ==
    ASSUME LifecycleInv, NEW c \in Client, Step(c)
    PROVE  LifecycleInv'
<1>1. /\ TypeOK /\ PlaceInv /\ SeatsInv /\ EventsInv /\ StrandedInv /\ WorldsInv
      /\ WaitingMeansJoining /\ NobodyIsLeftBehind /\ FreshInv
  BY DEF LifecycleInv
<1>2. MenuTypes /\ MatchTypes /\ MatchRanges /\ RoomTypes /\ EventTypes
  BY <1>1, TypeGroups, RangesOfTypes
<1>3. Effect(c)
  BY <1>1, StepEffects
<1>4. /\ MenuTypes' /\ MatchRanges' /\ RoomTypes' /\ EventTypes'
      /\ WorldsInv'
  BY <1>1, <1>2, <1>3, MenuTypesStep, MatchRangesStep, RoomTypesStep,
     EventTypesStep, WorldsStep
<1>5. TypeOK'
  <2>1. MatchTypes'
    BY <1>4, MatchTypesFromWorlds, PTL
  <2>. QED  BY <1>4, <2>1 DEF TypeOK, MenuTypes, MatchTypes, RoomTypes, EventTypes
<1>6. /\ PlaceInv' /\ SeatsInv' /\ StrandedInv' /\ WaitingMeansJoining'
  BY <1>1, <1>2, <1>3, PlaceStep, SeatsStep, StrandedStep, WaitingStep
<1>7. EventsInv' /\ NobodyIsLeftBehind' /\ FreshInv'
  BY <1>1, <1>3, EventsStep, NobodyStep, FreshStep
<1>. QED  BY <1>4, <1>5, <1>6, <1>7 DEF LifecycleInv

LEMMA StutterInv == LifecycleInv /\ UNCHANGED vars => LifecycleInv'
<1>. SUFFICES ASSUME LifecycleInv, UNCHANGED vars PROVE LifecycleInv'
  OBVIOUS
<1>. USE DEF vars, game_vars, network_vars
<1>1. TypeOK' /\ PlaceInv' /\ SeatsInv' /\ StrandedInv'
  BY DEF LifecycleInv, TypeOK, PlaceInv, SeatsInv, StrandedInv, Running
<1>2. EventsInv'
  BY DEF LifecycleInv, EventsInv, EventsOf, StartsOnce
<1>3. WorldsInv'
  BY DEF LifecycleInv, WorldsInv, StartedRooms, MatchIsOver
<1>4. WaitingMeansJoining' /\ NobodyIsLeftBehind'
  BY DEF LifecycleInv, WaitingMeansJoining, NobodyIsLeftBehind
<1>5. FreshInv'
  BY DEF LifecycleInv, FreshInv, FreshOf, FreshMenu, PacketsFollow, CutOff
<1>. QED  BY <1>1, <1>2, <1>3, <1>4, <1>5 DEF LifecycleInv

LEMMA NextInv == LifecycleInv /\ [Next]_vars => LifecycleInv'
<1>. SUFFICES ASSUME LifecycleInv, [Next]_vars PROVE LifecycleInv'
  OBVIOUS
<1>1. CASE Next
  <2>1. PICK c \in Client : Step(c)
    BY <1>1 DEF Next, Step
  <2>. QED  BY <2>1, StepInv
<1>2. CASE UNCHANGED vars
  BY <1>2, StutterInv
<1>. QED  BY <1>1, <1>2

(* The inductive invariant of the rooms and of what a match leaves behind. *)
THEOREM LifecycleInvariant == Spec => []LifecycleInv
  BY InitInv, NextInv, PTL DEF Spec

-----------------------------------------------------------------------------
(* The theorems. *)

(* Every variable keeps its type: the frame counter passes the length of a *)
(* match at most once for each room in which one was started, and every    *)
(* event is one that the callbacks of Network know.                        *)
THEOREM TypeCorrect == Spec => []TypeOK
<1>1. LifecycleInv => TypeOK
  BY DEF LifecycleInv
<1>. QED  BY <1>1, LifecycleInvariant, PTL

(* A player in a match has number 0 or 1, that of its seat while it has    *)
(* one, and no frame indexes out of bounds: joinRoomEventAction() takes    *)
(* the first number it is told, and that is the client's own.              *)
THEOREM PlayersAlwaysNumbered == Spec => []PlayersAreNumbered
<1>1. LifecycleInv => PlayersAreNumbered
  BY DEF LifecycleInv, PlaceInv, FreshInv, FreshOf, PlayersAreNumbered
<1>. QED  BY <1>1, LifecycleInvariant, PTL

(* "Waiting for other player" is shown to who joins, is in a room, was     *)
(* refused or lost its connection waiting, and to nobody else.             *)
THEOREM WaitingAlwaysMeansJoining == Spec => []WaitingMeansJoining
<1>1. LifecycleInv => WaitingMeansJoining
  BY DEF LifecycleInv
<1>. QED  BY <1>1, LifecycleInvariant, PTL

(* StartGame() and RegisterGame() set each world up once between two       *)
(* cleanings, or the match is over as it begins: no frame ever steps a     *)
(* world with the colliders of two set-ups.                                *)
THEOREM WorldsAlwaysSetUpOnce == Spec => []WorldsAreSetUpOnce
<1>1. LifecycleInv => WorldsAreSetUpOnce
  <2>. SUFFICES ASSUME LifecycleInv, NEW c \in Client
                PROVE  /\ shown_world[c] <= 1
                       /\ state[c] = "kInGame" => confirmed_world[c] = 1 \/ MatchIsOver(c)
                       /\ state[c] \in {"kInGame", "kGameFinished"} => shown_world[c] = 1
    BY DEF WorldsAreSetUpOnce
  <2>1. state[c] \in {"kMenu", "kInGame", "kGameFinished", "Undefined", "closed"}
    BY DEF LifecycleInv, TypeOK
  <2>2. shown_world[c] \in {0, 1}
    BY <2>1 DEF LifecycleInv, WorldsInv
  <2>3. state[c] \in {"kInGame", "kGameFinished"} => shown_world[c] = 1
    BY DEF LifecycleInv, WorldsInv
  <2>4. state[c] = "kInGame" => confirmed_world[c] = 1 \/ MatchIsOver(c)
    BY DEF LifecycleInv, WorldsInv
  <2>. QED  BY <2>2, <2>3, <2>4
<1>. QED  BY <1>1, LifecycleInvariant, PTL

(* Once a room has its second player, both play, have played or have the   *)
(* event that starts the match on its way: who joins, leaves or closes the *)
(* window meanwhile changes nothing.                                       *)
THEOREM NobodyEverLeftBehind == Spec => []NobodyIsLeftBehind
<1>1. LifecycleInv => NobodyIsLeftBehind
  BY DEF LifecycleInv
<1>. QED  BY <1>1, LifecycleInvariant, PTL

(* A match consumes the packets of its own room only.                      *)
THEOREM PacketsAlwaysOfTheRoom == Spec => []PacketsAreOfTheRoom
<1>1. LifecycleInv => PacketsAreOfTheRoom
  BY DEF LifecycleInv, FreshInv, FreshOf, PacketsAreOfTheRoom
<1>. QED  BY <1>1, LifecycleInvariant, PTL

(* A match starts with the frame counter reset and an empty packet queue.  *)
THEOREM MatchesAlwaysStartFresh == Spec => MatchesStartFresh
<1>. DEFINE Fresh ==
       \A c \in Client :
          state[c] = "kMenu" /\ state'[c] = "kInGame" /\ c \notin hasty
            => current_frame[c] = -1 /\ packet_queue[c] = {}
<1>1. ASSUME LifecycleInv, [Next]_vars
      PROVE  [Fresh]_vars
  <2>. SUFFICES ASSUME NEW c \in Client, state[c] = "kMenu", state'[c] = "kInGame",
                       c \notin hasty, Next
                PROVE  current_frame[c] = -1 /\ packet_queue[c] = {}
    BY <1>1
  <2>1. PICK d \in Client : Step(d)
    BY DEF Next, Step
  <2>2. Effect(d) /\ TypeOK
    BY <1>1, <2>1, StepEffects DEF LifecycleInv
  <2>3. d = c
    <3>1. c # d => Untouched(c)
      BY <2>2, OthersUntouched, TypeGroups, RangesOfTypes
    <3>. QED  BY <3>1 DEF Untouched
  <2>4. ServedStart(c)
    BY <2>2, <2>3
       DEF Effect, ServedJoin, ServedCustom, ServedLeft, ConnectReturn, DrawMenu,
           FrameSent, FrameUndefined, Framed, Ended, EndedAndRestarted,
           CleanedOnly, CleanedAndRestarted, Cleaned, Closed, TearDown, Running,
           Joined, JoinedAs, RefuseJoin, Left, Disconnected, DisconnectReturn, TypeOK
  <2>5. /\ state[c] = "kMenu" /\ link[c] = "room" /\ number[c] \in {1, 2}
    BY <1>1, <2>4, StartInTheMenu DEF ServedStart, Served, HeadTaken, LifecycleInv
  <2>6. FreshMenu(c)
    BY <1>1, <2>5 DEF LifecycleInv, FreshInv, FreshOf, CutOff
  <2>. QED  BY <2>5, <2>6 DEF FreshMenu
<1>. QED  BY <1>1, LifecycleInvariant, PTL DEF Spec, MatchesStartFresh
=============================================================================
