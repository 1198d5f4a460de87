---------------------------- MODULE InputsProofs ----------------------------
(***************************************************************************)
(* The inputs a player received are those the other one sampled, and they  *)
(* reach it in order: the proofs of ReceivedInputsAreTrue and              *)
(* NoPacketBlocksTheQueue, for every length of a match and every set of    *)
(* inputs.                                                                 *)
(***************************************************************************)
EXTENDS SessionProofs

(* A list holds consecutive frames before the frame count, each with the   *)
(* input of the table for it.                                              *)
Slice(list, inputs, count) ==
    \A i \in 1 .. Len(list) :
        /\ list[i].frame_nbr = list[1].frame_nbr + i - 1
        /\ list[i].frame_nbr < count
        /\ list[i].input = inputs[list[i].frame_nbr]

(* A packet that the sender of the table raises now: its list, if any, ends *)
(* with the last sampled frame.                                            *)
Fresh(packet, inputs, count) ==
    /\ Slice(packet.frames, inputs, count)
    /\ packet.frames # << >> => Last(packet.frames).frame_nbr = count - 1
    /\ packet.type = "kInput" => packet.frames # << >>

(* The newest frame of a packet is not newer than that of another. *)
NotNewer(packet, other) ==
    packet.frames # << >> /\ other.frames # << >> =>
        Last(packet.frames).frame_nbr <= Last(other.frames).frame_nbr

(* Packets under way to a player that received the inputs up to a frame:   *)
(* true, not older than what was received, in order.                       *)
InOrder(packets, inputs, count, received) ==
    /\ \A i \in 1 .. Len(packets) :
          /\ Slice(packets[i].frames, inputs, count)
          /\ packets[i].frames # << >> => received <= Last(packets[i].frames).frame_nbr
          /\ packets[i].type = "kInput" => packets[i].frames # << >>
    /\ \A i, j \in 1 .. Len(packets) : i < j => NotNewer(packets[i], packets[j])

-----------------------------------------------------------------------------
(* Slices. *)

(* The elements of a list hold frames of the match.                        *)
LEMMA FrameOfElement ==
    ASSUME NEW list \in Seq(FrameInput), NEW i \in 1 .. Len(list)
    PROVE  list[i].frame_nbr \in Frame /\ list[i].frame_nbr \in Int
<1>1. list[i] \in FrameInput
  BY ElementOfSeq
<1>. QED  BY <1>1 DEF FrameInput, Frame

(* A slice stays one while the table only changes from the count on. *)
LEMMA SliceGrows ==
    ASSUME NEW list \in Seq(FrameInput), NEW inputs, NEW count \in Int,
           NEW later, NEW more \in Int, count <= more,
           \A f \in Frame : f < count => later[f] = inputs[f],
           Slice(list, inputs, count)
    PROVE  Slice(list, later, more)
<1>. SUFFICES ASSUME NEW i \in 1 .. Len(list)
              PROVE  /\ list[i].frame_nbr = list[1].frame_nbr + i - 1
                     /\ list[i].frame_nbr < more
                     /\ list[i].input = later[list[i].frame_nbr]
  BY DEF Slice
<1>2. list[i].frame_nbr \in Frame /\ list[i].frame_nbr \in Int
  BY FrameOfElement
<1>3. /\ list[i].frame_nbr = list[1].frame_nbr + i - 1
      /\ list[i].frame_nbr < count
      /\ list[i].input = inputs[list[i].frame_nbr]
  BY DEF Slice
<1>. QED  BY <1>2, <1>3

(* A slice stays one without its first element.                            *)
LEMMA SliceWithoutFirst ==
    ASSUME NEW list \in Seq(FrameInput), list # << >>,
           NEW inputs, NEW count \in Int, Slice(list, inputs, count)
    PROVE  /\ Slice(Tail(list), inputs, count)
           /\ Tail(list) # << >> => Last(Tail(list)) = Last(list)
<1>1. /\ Tail(list) \in Seq(FrameInput)
      /\ Len(list) \in Nat \ {0}
      /\ Len(Tail(list)) = Len(list) - 1
      /\ \A i \in 1 .. Len(Tail(list)) : Tail(list)[i] = list[i + 1]
  BY HeadTailProperties, EmptySeq
<1>2. ASSUME NEW i \in 1 .. Len(Tail(list))
      PROVE  /\ Tail(list)[i].frame_nbr = Tail(list)[1].frame_nbr + i - 1
             /\ Tail(list)[i].frame_nbr < count
             /\ Tail(list)[i].input = inputs[Tail(list)[i].frame_nbr]
  <2>1. i + 1 \in 1 .. Len(list) /\ 2 \in 1 .. Len(list) /\ 1 \in 1 .. Len(list)
    BY <1>1
  <2>2. Tail(list)[i] = list[i + 1] /\ Tail(list)[1] = list[2]
    BY <1>1
  <2>3. list[1].frame_nbr \in Int
    BY <2>1, FrameOfElement
  <2>4. /\ list[i + 1].frame_nbr = list[1].frame_nbr + (i + 1) - 1
        /\ list[2].frame_nbr = list[1].frame_nbr + 2 - 1
        /\ list[i + 1].frame_nbr < count
        /\ list[i + 1].input = inputs[list[i + 1].frame_nbr]
    BY <2>1 DEF Slice
  <2>. QED  BY <2>2, <2>3, <2>4
<1>3. ASSUME Tail(list) # << >>
      PROVE  Last(Tail(list)) = Last(list)
  <2>1. Len(Tail(list)) \in Nat \ {0}
    BY <1>1, <1>3, EmptySeq
  <2>. QED  BY <1>1, <2>1 DEF Last
<1>. QED  BY <1>2, <1>3 DEF Slice

(* A slice that reaches the count, and the input of the next frame.        *)
LEMMA SliceWithNext ==
    ASSUME NEW list \in Seq(FrameInput), NEW inputs, NEW count \in Frame,
           Slice(list, inputs, count),
           list # << >> => Last(list).frame_nbr = count - 1,
           NEW input \in Input, inputs[count] = input
    PROVE  LET longer == Append(list, [input |-> input, frame_nbr |-> count])
           IN  /\ Slice(longer, inputs, count + 1)
               /\ longer # << >>
               /\ Last(longer).frame_nbr = count
<1>. DEFINE new    == [input |-> input, frame_nbr |-> count]
            longer == Append(list, new)
<1>1. new \in FrameInput /\ count \in Int
  BY DEF FrameInput, Frame
<1>2. /\ longer \in Seq(FrameInput)
      /\ Len(list) \in Nat
      /\ Len(longer) = Len(list) + 1
      /\ \A i \in 1 .. Len(list) : longer[i] = list[i]
      /\ longer[Len(list) + 1] = new
  BY <1>1, AppendProperties, LenProperties
<1>. HIDE DEF longer
<1>3. longer # << >> /\ Last(longer).frame_nbr = count
  BY <1>2, EmptySeq DEF Last
<1>4. ASSUME NEW i \in 1 .. Len(longer)
      PROVE  /\ longer[i].frame_nbr = longer[1].frame_nbr + i - 1
             /\ longer[i].frame_nbr < count + 1
             /\ longer[i].input = inputs[longer[i].frame_nbr]
  <2>1. CASE i <= Len(list)
    <3>1. i \in 1 .. Len(list) /\ 1 \in 1 .. Len(list)
      BY <1>2, <2>1
    <3>2. longer[i] = list[i] /\ longer[1] = list[1]
      BY <1>2, <3>1
    <3>3. list[i].frame_nbr \in Int
      BY <3>1, FrameOfElement
    <3>4. /\ list[i].frame_nbr = list[1].frame_nbr + i - 1
          /\ list[i].frame_nbr < count
          /\ list[i].input = inputs[list[i].frame_nbr]
      BY <3>1 DEF Slice
    <3>. QED  BY <1>1, <3>2, <3>3, <3>4
  <2>2. CASE i = Len(list) + 1
    <3>1. longer[i] = new
      BY <1>2, <2>2
    <3>2. CASE Len(list) = 0
      BY <1>1, <2>2, <3>1, <3>2
    <3>3. CASE Len(list) > 0
      <4>1. 1 \in 1 .. Len(list) /\ Len(list) \in 1 .. Len(list) /\ list # << >>
        BY <1>2, <3>3, EmptySeq
      <4>2. longer[1] = list[1]
        BY <1>2, <4>1
      <4>3. list[1].frame_nbr \in Int
        BY <4>1, FrameOfElement
      <4>4. list[Len(list)].frame_nbr = list[1].frame_nbr + Len(list) - 1
        BY <4>1 DEF Slice
      <4>5. list[Len(list)].frame_nbr = count - 1
        BY <4>1 DEF Last
      <4>6. count = list[1].frame_nbr + Len(list)
        <5>1. \A a, b \in Int : a = b + Len(list) - 1 /\ a = count - 1 => count = b + Len(list)
          BY <1>1, <1>2
        <5>2. list[Len(list)].frame_nbr \in Int
          BY <4>1, FrameOfElement
        <5>. QED  BY <4>3, <4>4, <4>5, <5>1, <5>2
      <4>7. /\ longer[i].frame_nbr = count
            /\ longer[i].input = inputs[count]
        BY <3>1
      <4>8. longer[1].frame_nbr + i - 1 = count
        BY <1>2, <2>2, <4>2, <4>3, <4>6
      <4>. QED  BY <1>1, <4>7, <4>8
    <3>. QED  BY <1>2, <3>2, <3>3
  <2>. QED  BY <1>2, <2>1, <2>2
<1>. QED  BY <1>3, <1>4 DEF Slice, longer

(* The input SetOtherPlayerInput() reads for a missing frame is that of    *)
(* the frame.                                                              *)
LEMMA MissingInputIsTrue ==
    ASSUME NEW r \in RollbackState, NEW list \in Seq(FrameInput),
           RemoteInputsDefined(r, list), IsNews(r, list),
           NEW inputs, NEW count \in Int, Slice(list, inputs, count),
           NEW f \in MissingFrames(r, NewLastInput(r, list))
    PROVE  MissingInput(r, list, f) = inputs[f]
<1>. DEFINE lacking == r.last_remote_input_frame + 1
            first   == FindFrame(list, lacking)
            at      == first + f - lacking
<1>1. /\ at \in 1 .. Len(list)
      /\ MissingInput(r, list, f) = list[at].input
  BY MissingInputType DEF MissingInput
<1>2. lacking \in Int /\ Len(list) \in Nat
  BY FrameCountersAreInt, LenProperties
<1>3. f \in Int /\ lacking <= f
  <2>1. NewLastInput(r, list).frame_nbr \in Int
    <3>1. NewLastInput(r, list) \in FrameInput
      BY NewLastInputType
    <3>. QED  BY <3>1 DEF FrameInput, Frame
  <2>. QED  BY <1>2, <2>1 DEF MissingFrames
<1>4. /\ first \in 1 .. Len(list) + 1
      /\ first <= Len(list) => list[first].frame_nbr = lacking
  BY <1>2, FindFrameProperties
<1>. HIDE DEF first, lacking
<1>5. first \in 1 .. Len(list) /\ 1 \in 1 .. Len(list)
  BY <1>1, <1>2, <1>3, <1>4
<1>6. list[1].frame_nbr \in Int
  BY <1>5, FrameOfElement
<1>7. /\ list[at].frame_nbr = list[1].frame_nbr + at - 1
      /\ list[first].frame_nbr = list[1].frame_nbr + first - 1
      /\ list[at].input = inputs[list[at].frame_nbr]
  BY <1>1, <1>5 DEF Slice
<1>8. list[at].frame_nbr = f
  <2>1. at = first + f - lacking /\ first \in Int /\ at \in Int
    BY <1>2, <1>3, <1>5
  <2>2. list[first].frame_nbr = lacking
    BY <1>2, <1>4, <1>5
  <2>3. \A a \in Int : lacking = a + first - 1 => a + at - 1 = f
    <3>. HIDE DEF at
    <3>. QED  BY <1>2, <1>3, <2>1
  <2>4. lacking = list[1].frame_nbr + first - 1
    BY <1>7, <2>2
  <2>5. list[1].frame_nbr + at - 1 = f
    <3>. HIDE DEF at
    <3>. QED  BY <1>6, <2>3, <2>4
  <2>. HIDE DEF at
  <2>. QED  BY <1>7, <2>5
<1>. QED  BY <1>1, <1>7, <1>8

(* Taking a slice of the inputs of player p, a manager that held the true  *)
(* ones up to the last received frame does so still, and it has received   *)
(* none after the last frame of the slice.                                 *)
LEMMA SetOtherPlayerInputIsTrue ==
    ASSUME NEW r \in RollbackState, NEW list \in Seq(FrameInput), NEW p \in Player,
           RemoteInputsDefined(r, list),
           NEW inputs, NEW count \in Int, Slice(list, inputs, count),
           \A f \in 0 .. r.last_remote_input_frame :
              f < count /\ r.inputs[p][f] = inputs[f]
    PROVE  LET s == SetOtherPlayerInput(r, list, p)
           IN  /\ \A f \in 0 .. s.last_remote_input_frame :
                    f < count /\ s.inputs[p][f] = inputs[f]
               /\ s.inputs[Other(p)] = r.inputs[Other(p)]
               /\ \/ s.last_remote_input_frame = r.last_remote_input_frame
                  \/ s.last_remote_input_frame <= Last(list).frame_nbr
<1>. DEFINE s == SetOtherPlayerInput(r, list, p)
<1>1. CASE ~ IsNews(r, list)
  BY <1>1 DEF SetOtherPlayerInput
<1>2. CASE IsNews(r, list)
  <2>. DEFINE last   == NewLastInput(r, list)
              filled == FillInputs(r, list, p)
              shown  == IF MustRollback(r, list, p) THEN DoRollback(filled) ELSE filled
  <2>1. /\ last \in FrameInput
        /\ last.frame_nbr <= r.current_frame
        /\ last.frame_nbr <= Last(list).frame_nbr
        /\ last.frame_nbr \in Frame
        /\ last.frame_nbr \in Int
    <3>1. /\ last \in FrameInput
          /\ last.frame_nbr <= r.current_frame
          /\ last.frame_nbr <= Last(list).frame_nbr
      BY <1>2, NewLastInputType
    <3>. QED  BY <3>1 DEF FrameInput, Frame
  <2>2. last.frame_nbr < count /\ last.input = inputs[last.frame_nbr]
    <3>1. PICK i \in 1 .. Len(list) : last = list[i]
      BY <1>2, NewLastInputType
    <3>. QED  BY <3>1 DEF Slice
  <2>3. /\ s.last_remote_input_frame = last.frame_nbr
        /\ s.inputs = filled.inputs
    <3>1. /\ shown.inputs = filled.inputs
          /\ DOMAIN shown = DOMAIN r
      BY DEF FillInputs, DoRollback, RollbackState
    <3>2. s = [shown EXCEPT !.last_inputs[p]          = last.input,
                            !.last_remote_input_frame = last.frame_nbr]
      BY <1>2 DEF SetOtherPlayerInput
    <3>. HIDE DEF shown, filled, last, s
    <3>. QED  BY <3>1, <3>2 DEF RollbackState
  <2>4. /\ filled.inputs[Other(p)] = r.inputs[Other(p)]
        /\ filled.inputs[p] =
              [f \in Frame |->
                IF f \in last.frame_nbr .. r.current_frame THEN last.input
                ELSE IF f \in MissingFrames(r, last) THEN MissingInput(r, list, f)
                ELSE r.inputs[p][f]]
    BY DEF FillInputs, RollbackState, Other, Player
  <2>5. ASSUME NEW f \in 0 .. last.frame_nbr
        PROVE  f < count /\ filled.inputs[p][f] = inputs[f]
    <3>1. f \in Frame /\ f \in Int
      BY <2>1, GameFrameNbrAssumption DEF Frame
    <3>2. CASE f = last.frame_nbr
      <4>1. f \in last.frame_nbr .. r.current_frame
        BY <2>1, <3>1, <3>2, FrameCountersAreInt
      <4>. HIDE DEF last, filled
      <4>. QED  BY <2>2, <2>4, <3>1, <3>2, <4>1
    <3>3. CASE f < last.frame_nbr /\ f \in MissingFrames(r, last)
      <4>1. MissingInput(r, list, f) = inputs[f]
        BY <1>2, <3>3, MissingInputIsTrue
      <4>2. f \notin last.frame_nbr .. r.current_frame
        BY <2>1, <3>1, <3>3
      <4>3. f < count
        BY <2>1, <2>2, <3>1, <3>3
      <4>. HIDE DEF last, filled
      <4>. QED  BY <2>4, <3>1, <3>3, <4>1, <4>2, <4>3
    <3>4. CASE f < last.frame_nbr /\ f \notin MissingFrames(r, last)
      <4>1. f \notin last.frame_nbr .. r.current_frame
        BY <2>1, <3>1, <3>4
      <4>2. f \in 0 .. r.last_remote_input_frame
        BY <2>1, <3>1, <3>4, FrameCountersAreInt DEF MissingFrames
      <4>. HIDE DEF last, filled
      <4>. QED  BY <2>4, <3>1, <3>4, <4>1, <4>2
    <3>. QED  BY <2>1, <3>1, <3>2, <3>3, <3>4
  <2>. HIDE DEF last, filled, s
  <2>. QED  BY <2>1, <2>3, <2>4, <2>5 DEF s
<1>. QED  BY <1>1, <1>2
-----------------------------------------------------------------------------
(* Packets in order. *)

(* The lists of packets are typed, and end with a frame number.            *)
LEMMA FramesOfPacket ==
    ASSUME NEW packets \in Seq(Packet), NEW i \in 1 .. Len(packets)
    PROVE  /\ packets[i].frames \in Seq(FrameInput)
           /\ packets[i].frames # << >> => Last(packets[i].frames).frame_nbr \in Int
<1>1. packets[i].frames \in Seq(FrameInput)
  <2>1. packets[i] \in Packet
    BY ElementOfSeq
  <2>. QED  BY <2>1 DEF Packet
<1>2. ASSUME NEW list \in Seq(FrameInput), list # << >>
      PROVE  Last(list).frame_nbr \in Int
  <2>1. Last(list) \in FrameInput
    BY <1>2, LastType
  <2>. QED  BY <2>1 DEF FrameInput, Frame
<1>. QED  BY <1>1, <1>2

(* Packets stay in order while the table grows. *)
LEMMA InOrderGrows ==
    ASSUME NEW packets \in Seq(Packet), NEW inputs, NEW count \in Int,
           NEW later, NEW more \in Int, count <= more, NEW received,
           \A f \in Frame : f < count => later[f] = inputs[f],
           InOrder(packets, inputs, count, received)
    PROVE  InOrder(packets, later, more, received)
<1>1. ASSUME NEW i \in 1 .. Len(packets)
      PROVE  Slice(packets[i].frames, later, more)
  BY FramesOfPacket, SliceGrows DEF InOrder
<1>. QED  BY <1>1 DEF InOrder

(* Some of the packets, in the same order, are in order. *)
LEMMA InOrderSelected ==
    ASSUME NEW packets, NEW inputs, NEW count, NEW received,
           InOrder(packets, inputs, count, received),
           NEW selected, NEW at \in [1 .. Len(selected) -> 1 .. Len(packets)],
           \A i \in 1 .. Len(selected) : selected[i] = packets[at[i]],
           \A i, j \in 1 .. Len(selected) : i < j => at[i] < at[j]
    PROVE  InOrder(selected, inputs, count, received)
  BY DEF InOrder

(* The first packet may be taken away.                                     *)
LEMMA InOrderWithoutFirst ==
    ASSUME NEW packets \in Seq(Packet), packets # << >>,
           NEW inputs, NEW count, NEW received,
           InOrder(packets, inputs, count, received)
    PROVE  InOrder(Tail(packets), inputs, count, received)
<1>. DEFINE at == [i \in 1 .. Len(Tail(packets)) |-> i + 1]
<1>1. /\ Len(packets) \in Nat
      /\ Len(Tail(packets)) = Len(packets) - 1
      /\ \A i \in 1 .. Len(Tail(packets)) : Tail(packets)[i] = packets[i + 1]
  BY HeadTailProperties, LenProperties
<1>2. at \in [1 .. Len(Tail(packets)) -> 1 .. Len(packets)]
  BY <1>1
<1>3. /\ \A i \in 1 .. Len(Tail(packets)) : Tail(packets)[i] = packets[at[i]]
      /\ \A i, j \in 1 .. Len(Tail(packets)) : i < j => at[i] < at[j]
  BY <1>1
<1>. HIDE DEF at
<1>. QED  BY <1>2, <1>3, InOrderSelected

(* Whatever follows a first part may lose its first packet. *)
LEMMA InOrderWithLoss ==
    ASSUME NEW queue \in Seq(Packet), NEW way \in Seq(Packet), way # << >>,
           NEW inputs, NEW count, NEW received,
           InOrder(queue \o way, inputs, count, received)
    PROVE  InOrder(queue \o Tail(way), inputs, count, received)
<1>. DEFINE kept == queue \o Tail(way)
            at   == [i \in 1 .. Len(kept) |-> IF i <= Len(queue) THEN i ELSE i + 1]
<1>1. /\ Len(queue) \in Nat /\ Len(way) \in Nat
      /\ Tail(way) \in Seq(Packet)
      /\ Len(Tail(way)) = Len(way) - 1
      /\ \A i \in 1 .. Len(Tail(way)) : Tail(way)[i] = way[i + 1]
  BY HeadTailProperties, LenProperties
<1>2. /\ Len(queue \o way) = Len(queue) + Len(way)
      /\ \A i \in 1 .. Len(queue) + Len(way) :
            (queue \o way)[i] = IF i <= Len(queue) THEN queue[i] ELSE way[i - Len(queue)]
      /\ Len(kept) = Len(queue) + Len(Tail(way))
      /\ \A i \in 1 .. Len(queue) + Len(Tail(way)) :
            kept[i] = IF i <= Len(queue) THEN queue[i] ELSE Tail(way)[i - Len(queue)]
  BY <1>1, ConcatProperties
<1>. HIDE DEF kept
<1>3. at \in [1 .. Len(kept) -> 1 .. Len(queue \o way)]
  BY <1>1, <1>2
<1>4. ASSUME NEW i \in 1 .. Len(kept)
      PROVE  kept[i] = (queue \o way)[at[i]]
  <2>1. CASE i <= Len(queue)
    BY <1>1, <1>2, <2>1
  <2>2. CASE ~ (i <= Len(queue))
    <3>1. /\ at[i] = i + 1
          /\ i - Len(queue) \in 1 .. Len(Tail(way))
          /\ i + 1 \in 1 .. Len(queue) + Len(way)
          /\ ~ (i + 1 <= Len(queue))
          /\ (i - Len(queue)) + 1 = (i + 1) - Len(queue)
      BY <1>1, <1>2, <2>2
    <3>2. kept[i] = way[(i - Len(queue)) + 1]
      BY <1>1, <1>2, <2>2, <3>1
    <3>3. (queue \o way)[i + 1] = way[(i + 1) - Len(queue)]
      BY <1>2, <3>1
    <3>. QED  BY <3>1, <3>2, <3>3
  <2>. QED  BY <2>1, <2>2
<1>5. \A i, j \in 1 .. Len(kept) : i < j => at[i] < at[j]
  BY <1>1, <1>2
<1>. HIDE DEF at
<1>. QED  BY <1>3, <1>4, <1>5, InOrderSelected DEF kept

(* The packets under way may all be dropped.                               *)
LEMMA InOrderOfFirstPart ==
    ASSUME NEW queue \in Seq(Packet), NEW way \in Seq(Packet),
           NEW inputs, NEW count, NEW received,
           InOrder(queue \o way, inputs, count, received)
    PROVE  InOrder(queue, inputs, count, received)
<1>. DEFINE at == [i \in 1 .. Len(queue) |-> i]
<1>1. /\ Len(queue) \in Nat /\ Len(way) \in Nat
      /\ Len(queue \o way) = Len(queue) + Len(way)
      /\ \A i \in 1 .. Len(queue) + Len(way) :
            (queue \o way)[i] = IF i <= Len(queue) THEN queue[i] ELSE way[i - Len(queue)]
  BY ConcatProperties, LenProperties
<1>2. at \in [1 .. Len(queue) -> 1 .. Len(queue \o way)]
  BY <1>1
<1>3. \A i \in 1 .. Len(queue) : queue[i] = (queue \o way)[at[i]]
  BY <1>1
<1>. QED  BY <1>2, <1>3, InOrderSelected

(* A player that took the first packet, or no news, may say so. *)
LEMMA InOrderReceived ==
    ASSUME NEW packets \in Seq(Packet), packets # << >>,
           NEW inputs, NEW count, NEW received \in Int, NEW now \in Int,
           InOrder(packets, inputs, count, received),
           \/ now = received
           \/ /\ packets[1].frames # << >>
              /\ now <= Last(packets[1].frames).frame_nbr
    PROVE  InOrder(packets, inputs, count, now)
<1>1. Len(packets) \in Nat \ {0}
  BY EmptySeq
<1>2. ASSUME NEW i \in 1 .. Len(packets), packets[i].frames # << >>
      PROVE  now <= Last(packets[i].frames).frame_nbr
  <2>1. CASE now = received
    BY <1>2, <2>1 DEF InOrder
  <2>2. CASE i = 1 /\ now # received
    BY <2>2
  <2>3. CASE i # 1 /\ now # received
    <3>1. 1 \in 1 .. Len(packets) /\ 1 < i
      BY <1>1, <2>3
    <3>2. NotNewer(packets[1], packets[i])
      BY <3>1 DEF InOrder
    <3>3. /\ Last(packets[1].frames).frame_nbr <= Last(packets[i].frames).frame_nbr
          /\ now <= Last(packets[1].frames).frame_nbr
      BY <1>2, <2>3, <3>2 DEF NotNewer
    <3>. QED  BY <1>2, <2>3, <3>1, <3>3, FramesOfPacket
  <2>. QED  BY <2>1, <2>2, <2>3
<1>. QED  BY <1>2 DEF InOrder

(* What the sender raises comes after what is under way. *)
LEMMA InOrderWithRaised ==
    ASSUME NEW packets \in Seq(Packet), NEW raised \in Seq(Packet),
           NEW inputs, NEW count \in Int, NEW received \in Int,
           InOrder(packets, inputs, count, received), received < count,
           \A i \in 1 .. Len(raised) : Fresh(raised[i], inputs, count)
    PROVE  InOrder(packets \o raised, inputs, count, received)
<1>. DEFINE all == packets \o raised
<1>1. /\ Len(packets) \in Nat /\ Len(raised) \in Nat
      /\ all \in Seq(Packet)
      /\ Len(all) = Len(packets) + Len(raised)
      /\ \A i \in 1 .. Len(packets) + Len(raised) :
            all[i] = IF i <= Len(packets) THEN packets[i] ELSE raised[i - Len(packets)]
  BY ConcatProperties, LenProperties
<1>. HIDE DEF all
<1>2. \A i \in 1 .. Len(all) :
         \/ i <= Len(packets) /\ i \in 1 .. Len(packets) /\ all[i] = packets[i]
         \/ /\ i > Len(packets)
            /\ i - Len(packets) \in 1 .. Len(raised)
            /\ all[i] = raised[i - Len(packets)]
  BY <1>1
<1>3. \A i \in 1 .. Len(all) : i > Len(packets) => Fresh(all[i], inputs, count)
  BY <1>1, <1>2
<1>4. ASSUME NEW i \in 1 .. Len(all), all[i].frames # << >>
      PROVE  Last(all[i].frames).frame_nbr <= count - 1
  <2>1. CASE i > Len(packets)
    BY <1>3, <1>4, <2>1 DEF Fresh
  <2>2. CASE i <= Len(packets)
    <3>1. Slice(all[i].frames, inputs, count)
      BY <1>1, <1>2, <2>2 DEF InOrder
    <3>2. all[i].frames \in Seq(FrameInput)
      BY <1>1, FramesOfPacket
    <3>3. /\ Len(all[i].frames) \in 1 .. Len(all[i].frames)
          /\ Last(all[i].frames) = all[i].frames[Len(all[i].frames)]
      BY <1>4, <3>2, EmptySeq DEF Last
    <3>4. Last(all[i].frames).frame_nbr < count
      BY <3>1, <3>3 DEF Slice
    <3>5. Last(all[i].frames).frame_nbr \in Int
      BY <1>1, <1>4, FramesOfPacket
    <3>. QED  BY <3>4, <3>5
  <2>. QED  BY <1>1, <2>1, <2>2
<1>5. ASSUME NEW i \in 1 .. Len(all)
      PROVE  /\ Slice(all[i].frames, inputs, count)
             /\ all[i].frames # << >> => received <= Last(all[i].frames).frame_nbr
             /\ all[i].type = "kInput" => all[i].frames # << >>
  <2>1. CASE i > Len(packets)
    BY <1>3, <2>1 DEF Fresh
  <2>2. CASE i <= Len(packets)
    BY <1>1, <1>2, <2>2 DEF InOrder
  <2>. QED  BY <1>1, <2>1, <2>2
<1>6. ASSUME NEW i \in 1 .. Len(all), NEW j \in 1 .. Len(all), i < j
      PROVE  NotNewer(all[i], all[j])
  <2>1. CASE j > Len(packets)
    <3>1. ASSUME all[i].frames # << >>, all[j].frames # << >>
          PROVE  Last(all[i].frames).frame_nbr <= Last(all[j].frames).frame_nbr
      <4>1. Last(all[j].frames).frame_nbr = count - 1
        BY <1>3, <2>1, <3>1 DEF Fresh
      <4>. QED  BY <1>4, <3>1, <4>1
    <3>. QED  BY <3>1 DEF NotNewer
  <2>2. CASE j <= Len(packets)
    BY <1>1, <1>2, <1>6, <2>2 DEF InOrder
  <2>. QED  BY <1>1, <2>1, <2>2
<1>. QED  BY <1>5, <1>6 DEF InOrder, all
-----------------------------------------------------------------------------
(* The inductive invariant. *)

(* The packets a player has still to handle, in the order it will. *)
EventsTo(p) == packet_queue[p] \o net[p]

SampledInputs(p) == rollback[p].inputs[p]

UnackedInv(p) ==
    /\ Slice(unacked[p], SampledInputs(p), SampledCount(p))
    /\ unacked[p] # << >> => Last(unacked[p]).frame_nbr = SampledCount(p) - 1

EventsInv(p) ==
    InOrder(EventsTo(p), SampledInputs(Other(p)), SampledCount(Other(p)),
            rollback[p].last_remote_input_frame)

ReceivedInv(p) ==
    \A f \in 0 .. rollback[p].last_remote_input_frame :
        /\ f < SampledCount(Other(p))
        /\ rollback[p].inputs[Other(p)][f] = SampledInputs(Other(p))[f]

InputsInv == \A p \in Player : UnackedInv(p) /\ EventsInv(p) /\ ReceivedInv(p)

(* There are two players.                                                  *)
LEMMA OtherPlayer ==
    ASSUME NEW p \in Player
    PROVE  /\ Other(p) \in Player
           /\ Other(p) # p
           /\ Other(Other(p)) = p
           /\ \A q \in Player : q = p \/ q = Other(p)
  BY DEF Other, Player

(* Shorthands for what the type invariant says of one player. *)
LEMMA PlayerTypes ==
    ASSUME TypeInv, NEW p \in Player
    PROVE  /\ rollback[p] \in RollbackState
           /\ unacked[p] \in Seq(FrameInput)
           /\ packet_queue[p] \in Seq(Packet)
           /\ net[p] \in Seq(Packet)
           /\ EventsTo(p) \in Seq(Packet)
           /\ SampledInputs(p) \in [Frame -> Input]
           /\ SampledCount(p) \in Int
           /\ rollback[p].last_remote_input_frame \in Int
<1>1. /\ rollback[p] \in RollbackState
      /\ unacked[p] \in Seq(FrameInput)
      /\ packet_queue[p] \in Seq(Packet)
      /\ net[p] \in Seq(Packet)
  BY DEF TypeInv, TypeOK
<1>2. EventsTo(p) \in Seq(Packet)
  BY <1>1, ConcatProperties DEF EventsTo
<1>3. SampledInputs(p) \in [Frame -> Input]
  BY <1>1 DEF SampledInputs, RollbackState
<1>4. /\ rollback[p].last_remote_input_frame \in Int
      /\ rollback[p].current_frame \in Int
  BY <1>1, FrameCountersAreInt
<1>5. SampledCount(p) \in Int
  BY <1>4 DEF SampledCount
<1>. QED  BY <1>1, <1>2, <1>3, <1>4, <1>5

(* Nothing is sampled, raised or received at first.                        *)
LEMMA InitInputsInv == Init => InputsInv
<1>. SUFFICES ASSUME Init, NEW p \in Player
              PROVE  UnackedInv(p) /\ EventsInv(p) /\ ReceivedInv(p)
  BY DEF InputsInv
<1>1. /\ unacked[p] = << >>
      /\ EventsTo(p) = << >>
      /\ rollback[p].last_remote_input_frame = -1
  BY EmptySeq, ConcatEmptySeq DEF Init, EventsTo, RollbackInit
<1>2. UnackedInv(p)
  BY <1>1, EmptySeq DEF UnackedInv, Slice
<1>3. EventsInv(p)
  BY <1>1, EmptySeq DEF EventsInv, InOrder
<1>4. ReceivedInv(p)
  BY <1>1 DEF ReceivedInv
<1>. QED  BY <1>2, <1>3, <1>4

(* What a step that samples no input must show. *)
LEMMA KeepsInputsInv ==
    ASSUME TypeInv, InputsInv,
           \A q \in Player : SampledCount(q)' = SampledCount(q),
           \A q \in Player : SampledInputs(q)' = SampledInputs(q),
           \A q \in Player :
              \/ unacked'[q] = unacked[q]
              \/ unacked[q] # << >> /\ unacked'[q] = Tail(unacked[q]),
           \A q \in Player : EventsInv(q)' /\ ReceivedInv(q)'
    PROVE  InputsInv'
<1>. SUFFICES ASSUME NEW q \in Player
              PROVE  UnackedInv(q)'
  BY DEF InputsInv
<1>1. UnackedInv(q) /\ unacked[q] \in Seq(FrameInput) /\ SampledCount(q) \in Int
  BY PlayerTypes DEF InputsInv
<1>2. CASE unacked'[q] = unacked[q]
  BY <1>1, <1>2 DEF UnackedInv
<1>3. CASE unacked[q] # << >> /\ unacked'[q] = Tail(unacked[q])
  <2>1. /\ Slice(Tail(unacked[q]), SampledInputs(q), SampledCount(q))
        /\ Tail(unacked[q]) # << >> => Last(Tail(unacked[q])) = Last(unacked[q])
    BY <1>1, <1>3, SliceWithoutFirst DEF UnackedInv
  <2>. QED  BY <1>1, <1>3, <2>1 DEF UnackedInv
<1>. QED  BY <1>2, <1>3

(* Nor does it change what a player received, unless it does. *)
LEMMA KeepsReceived ==
    ASSUME InputsInv,
           \A q \in Player : SampledCount(q)' = SampledCount(q),
           \A q \in Player : SampledInputs(q)' = SampledInputs(q),
           NEW p \in Player,
           rollback'[p].last_remote_input_frame = rollback[p].last_remote_input_frame,
           rollback'[p].inputs = rollback[p].inputs
    PROVE  /\ ReceivedInv(p)'
           /\ EventsTo(p)' = EventsTo(p) => EventsInv(p)'
<1>1. ReceivedInv(p) /\ EventsInv(p) /\ Other(p) \in Player
  BY OtherPlayer DEF InputsInv
<1>2. ReceivedInv(p)'
  BY <1>1 DEF ReceivedInv
<1>3. EventsTo(p)' = EventsTo(p) => EventsInv(p)'
  BY <1>1 DEF EventsInv
<1>. QED  BY <1>2, <1>3

(* A packet received goes from the network to the end of the queue.        *)
LEMMA ReceivedInTurn ==
    ASSUME NEW queue \in Seq(Packet), NEW way \in Seq(Packet), way # << >>
    PROVE  Append(queue, Head(way)) \o Tail(way) = queue \o way
<1>1. /\ Len(queue) \in Nat /\ Len(way) \in Nat \ {0}
      /\ Head(way) \in Packet /\ Head(way) = way[1]
      /\ Tail(way) \in Seq(Packet)
      /\ Len(Tail(way)) = Len(way) - 1
      /\ \A i \in 1 .. Len(Tail(way)) : Tail(way)[i] = way[i + 1]
  BY HeadTailProperties, LenProperties, EmptySeq
<1>. DEFINE front == Append(queue, Head(way))
<1>2. /\ front \in Seq(Packet)
      /\ Len(front) = Len(queue) + 1
      /\ \A i \in 1 .. Len(queue) : front[i] = queue[i]
      /\ front[Len(queue) + 1] = way[1]
  BY <1>1, AppendProperties
<1>. HIDE DEF front
<1>3. /\ front \o Tail(way) \in Seq(Packet)
      /\ Len(front \o Tail(way)) = Len(front) + Len(Tail(way))
      /\ \A i \in 1 .. Len(front) + Len(Tail(way)) :
            (front \o Tail(way))[i] =
                IF i <= Len(front) THEN front[i] ELSE Tail(way)[i - Len(front)]
      /\ queue \o way \in Seq(Packet)
      /\ Len(queue \o way) = Len(queue) + Len(way)
      /\ \A i \in 1 .. Len(queue) + Len(way) :
            (queue \o way)[i] = IF i <= Len(queue) THEN queue[i] ELSE way[i - Len(queue)]
  BY <1>1, <1>2, ConcatProperties
<1>4. ASSUME NEW i \in 1 .. Len(queue) + Len(way)
      PROVE  (front \o Tail(way))[i] = (queue \o way)[i]
  <2>1. CASE i <= Len(queue)
    BY <1>1, <1>2, <1>3, <2>1
  <2>2. CASE i = Len(queue) + 1
    BY <1>1, <1>2, <1>3, <2>2
  <2>3. CASE i > Len(queue) + 1
    <3>1. /\ i - Len(front) \in 1 .. Len(Tail(way))
          /\ (i - Len(front)) + 1 = i - Len(queue)
          /\ ~ (i <= Len(front)) /\ ~ (i <= Len(queue))
          /\ i \in 1 .. Len(front) + Len(Tail(way))
      BY <1>1, <1>2, <2>3
    <3>2. (front \o Tail(way))[i] = way[(i - Len(front)) + 1]
      BY <1>1, <1>3, <3>1
    <3>. QED  BY <1>3, <3>1, <3>2
  <2>4. i <= Len(queue) \/ i = Len(queue) + 1 \/ i > Len(queue) + 1
    BY <1>1
  <2>. QED  BY <2>1, <2>2, <2>3, <2>4
<1>5. Len(front \o Tail(way)) = Len(queue \o way) /\ Len(queue \o way) = Len(queue) + Len(way)
  BY <1>1, <1>2, <1>3
<1>. QED  BY <1>3, <1>4, <1>5, SeqEqual DEF front

(* The front of the queue is the first of the events. *)
LEMMA FrontOfEvents ==
    ASSUME TypeInv, NEW p \in Player, packet_queue[p] # << >>
    PROVE  /\ EventsTo(p) # << >>
           /\ 1 \in 1 .. Len(EventsTo(p))
           /\ EventsTo(p)[1] = FrontPacket(p)
           /\ Tail(EventsTo(p)) = Tail(packet_queue[p]) \o net[p]
<1>. DEFINE queue == packet_queue[p]
            way   == net[p]
            rest  == Tail(queue) \o way
<1>1. queue \in Seq(Packet) /\ way \in Seq(Packet) /\ queue \o way \in Seq(Packet)
  BY PlayerTypes, ConcatProperties
<1>. HIDE DEF queue, way
<1>2. /\ Len(queue) \in Nat \ {0} /\ Len(way) \in Nat
      /\ Head(queue) = queue[1]
      /\ Tail(queue) \in Seq(Packet)
      /\ Len(Tail(queue)) = Len(queue) - 1
      /\ \A i \in 1 .. Len(Tail(queue)) : Tail(queue)[i] = queue[i + 1]
  BY <1>1, HeadTailProperties, LenProperties, EmptySeq DEF queue
<1>3. /\ Len(queue \o way) = Len(queue) + Len(way)
      /\ \A i \in 1 .. Len(queue) + Len(way) :
            (queue \o way)[i] = IF i <= Len(queue) THEN queue[i] ELSE way[i - Len(queue)]
      /\ rest \in Seq(Packet)
      /\ Len(rest) = Len(Tail(queue)) + Len(way)
      /\ \A i \in 1 .. Len(Tail(queue)) + Len(way) :
            rest[i] = IF i <= Len(Tail(queue)) THEN Tail(queue)[i]
                      ELSE way[i - Len(Tail(queue))]
  BY <1>1, <1>2, ConcatProperties
<1>. HIDE DEF rest
<1>4. queue \o way # << >> /\ 1 \in 1 .. Len(queue \o way)
  BY <1>2, <1>3, EmptySeq
<1>5. (queue \o way)[1] = queue[1]
  BY <1>2, <1>3
<1>6. /\ Tail(queue \o way) \in Seq(Packet)
      /\ Len(Tail(queue \o way)) = Len(queue \o way) - 1
      /\ \A i \in 1 .. Len(Tail(queue \o way)) : Tail(queue \o way)[i] = (queue \o way)[i + 1]
  BY <1>1, <1>4, HeadTailProperties
<1>7. Len(Tail(queue \o way)) = Len(rest)
  BY <1>2, <1>3, <1>6
<1>8. ASSUME NEW i \in 1 .. Len(rest)
      PROVE  Tail(queue \o way)[i] = rest[i]
  <2>1. Tail(queue \o way)[i] = (queue \o way)[i + 1] /\ i + 1 \in 1 .. Len(queue) + Len(way)
    BY <1>2, <1>3, <1>6, <1>7
  <2>2. CASE i <= Len(Tail(queue))
    BY <1>2, <1>3, <2>1, <2>2
  <2>3. CASE ~ (i <= Len(Tail(queue)))
    <3>1. ~ (i + 1 <= Len(queue)) /\ (i + 1) - Len(queue) = i - Len(Tail(queue))
      BY <1>2, <2>3
    <3>. QED  BY <1>2, <1>3, <2>1, <2>3, <3>1
  <2>. QED  BY <2>2, <2>3
<1>9. Tail(queue \o way) = rest
  BY <1>3, <1>6, <1>7, <1>8, SeqEqual
<1>. QED  BY <1>2, <1>4, <1>5, <1>9 DEF EventsTo, FrontPacket, queue, way, rest

(* Concatenation of packets is associative.                                *)
LEMMA ConcatPackets ==
    ASSUME NEW a \in Seq(Packet), NEW b \in Seq(Packet), NEW c \in Seq(Packet)
    PROVE  (a \o b) \o c = a \o (b \o c)
  BY ConcatAssociative

(* The events raised to the other player come after those under way. *)
LEMMA RaisedInOrder ==
    ASSUME TypeInv, NEW p \in Player, NEW raised \in Seq(Packet),
           RaiseEvents(p, raised),
           packet_queue'[Other(p)] = packet_queue[Other(p)],
           NEW inputs, NEW count \in Int, NEW received \in Int, received < count,
           InOrder(EventsTo(Other(p)), inputs, count, received),
           \A i \in 1 .. Len(raised) : Fresh(raised[i], inputs, count)
    PROVE  InOrder(EventsTo(Other(p))', inputs, count, received)
<1>1. /\ Other(p) \in Player
      /\ packet_queue[Other(p)] \in Seq(Packet)
      /\ net[Other(p)] \in Seq(Packet)
      /\ EventsTo(Other(p)) \in Seq(Packet)
  BY OtherPlayer, PlayerTypes
<1>2. CASE state[Other(p)] = "kInGame"
  <2>1. net'[Other(p)] = net[Other(p)] \o raised
    BY <1>1, <1>2 DEF RaiseEvents, TypeInv, TypeOK
  <2>2. EventsTo(Other(p))' = EventsTo(Other(p)) \o raised
    <3>1. (packet_queue[Other(p)] \o net[Other(p)]) \o raised
            = packet_queue[Other(p)] \o (net[Other(p)] \o raised)
      BY <1>1, ConcatPackets
    <3>. QED  BY <2>1, <3>1 DEF EventsTo
  <2>3. InOrder(EventsTo(Other(p)) \o raised, inputs, count, received)
    BY <1>1, InOrderWithRaised
  <2>. QED  BY <2>2, <2>3
<1>3. CASE state[Other(p)] # "kInGame"
  <2>1. net'[Other(p)] = net[Other(p)]
    BY <1>3 DEF RaiseEvents
  <2>2. EventsTo(Other(p))' = EventsTo(Other(p))
    BY <2>1 DEF EventsTo
  <2>. QED  BY <2>2
<1>. QED  BY <1>2, <1>3

(* Raising to the other player leaves one's own events alone. *)
LEMMA RaiseEventsLeaves ==
    ASSUME TypeInv, NEW p \in Player, NEW raised, RaiseEvents(p, raised)
    PROVE  net'[p] = net[p]
  BY OtherPlayer DEF RaiseEvents, TypeInv, TypeOK

(* A player has received none of the frames the other one did not sample. *)
LEMMA ReceivedBelowSampled ==
    ASSUME TypeInv, InputsInv, NEW p \in Player
    PROVE  \/ rollback[p].last_remote_input_frame = -1
           \/ rollback[p].last_remote_input_frame < SampledCount(Other(p))
<1>1. rollback[p].last_remote_input_frame \in -1 .. GameFrameNbr - 1
  BY PlayerTypes DEF RollbackState
<1>2. ReceivedInv(p)
  BY DEF InputsInv
<1>. QED  BY <1>1, <1>2, GameFrameNbrAssumption DEF ReceivedInv

-----------------------------------------------------------------------------
(* Every step keeps the invariant. *)

(* Service() keeps the order of the events of a sender.                    *)
LEMMA ReceiveEventInputsInv ==
    ASSUME TypeInv, InputsInv, NEW p \in Player, ReceiveEvent(p)
    PROVE  InputsInv'
<1>1. /\ UNCHANGED <<rollback, unacked, state, pc>>
      /\ net[p] # << >>
      /\ packet_queue' = [packet_queue EXCEPT ![p] = Append(@, Head(net[p]))]
      /\ net' = [net EXCEPT ![p] = Tail(@)]
  BY DEF ReceiveEvent, Push
<1>2. /\ \A q \in Player : SampledCount(q)' = SampledCount(q)
      /\ \A q \in Player : SampledInputs(q)' = SampledInputs(q)
  BY <1>1 DEF SampledCount, SampledInputs
<1>3. ASSUME NEW q \in Player
      PROVE  EventsTo(q)' = EventsTo(q)
  <2>1. CASE q = p
    <3>1. /\ packet_queue'[p] = Append(packet_queue[p], Head(net[p]))
          /\ net'[p] = Tail(net[p])
      BY <1>1 DEF TypeInv, TypeOK
    <3>2. Append(packet_queue[p], Head(net[p])) \o Tail(net[p])
            = packet_queue[p] \o net[p]
      BY <1>1, PlayerTypes, ReceivedInTurn
    <3>. QED  BY <2>1, <3>1, <3>2 DEF EventsTo
  <2>2. CASE q # p
    BY <1>1, <2>2 DEF EventsTo, TypeInv, TypeOK
  <2>. QED  BY <2>1, <2>2
<1>4. \A q \in Player : EventsInv(q)' /\ ReceivedInv(q)'
  BY <1>1, <1>2, <1>3, KeepsReceived
<1>. QED  BY <1>1, <1>2, <1>4, KeepsInputsInv

(* A loss leaves the other events in order.                                *)
LEMMA LoseEventInputsInv ==
    ASSUME TypeInv, InputsInv, NEW p \in Player, LoseEvent(p)
    PROVE  InputsInv'
<1>1. /\ UNCHANGED <<rollback, unacked, packet_queue, state, pc>>
      /\ net[p] # << >>
      /\ net' = [net EXCEPT ![p] = Tail(@)]
  BY DEF LoseEvent
<1>2. /\ \A q \in Player : SampledCount(q)' = SampledCount(q)
      /\ \A q \in Player : SampledInputs(q)' = SampledInputs(q)
  BY <1>1 DEF SampledCount, SampledInputs
<1>3. ASSUME NEW q \in Player
      PROVE  EventsInv(q)' /\ ReceivedInv(q)'
  <2>1. CASE q = p
    <3>1. EventsTo(p)' = packet_queue[p] \o Tail(net[p])
      BY <1>1 DEF EventsTo, TypeInv, TypeOK
    <3>2. EventsInv(p) /\ Other(p) \in Player
      BY OtherPlayer DEF InputsInv
    <3>3. InOrder(packet_queue[p] \o Tail(net[p]), SampledInputs(Other(p)),
                  SampledCount(Other(p)), rollback[p].last_remote_input_frame)
      BY <1>1, <3>2, PlayerTypes, InOrderWithLoss DEF EventsInv, EventsTo
    <3>4. EventsInv(p)'
      BY <1>1, <1>2, <3>1, <3>2, <3>3 DEF EventsInv
    <3>. QED  BY <1>1, <1>2, <2>1, <3>4, KeepsReceived
  <2>2. CASE q # p
    <3>1. EventsTo(q)' = EventsTo(q)
      BY <1>1, <2>2 DEF EventsTo, TypeInv, TypeOK
    <3>. QED  BY <1>1, <1>2, <3>1, KeepsReceived
  <2>. QED  BY <2>1, <2>2
<1>. QED  BY <1>1, <1>2, <1>3, KeepsInputsInv

(* A frame begins with nothing sampled; a player that leaves loses its events. *)
LEMMA BeginFrameInputsInv ==
    ASSUME TypeInv, InputsInv, NEW p \in Player, BeginFrame(p)
    PROVE  InputsInv'
<1>. DEFINE next == IncreaseCurrentFrame(rollback[p])
<1>1. /\ rollback' = [rollback EXCEPT ![p] = next]
      /\ UNCHANGED <<unacked, packet_queue>>
      /\ pc[p] = "loop" /\ state[p] = "kInGame"
      /\ \/ /\ state' = [state EXCEPT ![p] = "kGameFinished"]
            /\ net' = [net EXCEPT ![p] = << >>]
            /\ UNCHANGED pc
         \/ /\ pc' = [pc EXCEPT ![p] = "packets"]
            /\ UNCHANGED <<state, net>>
  BY DEF BeginFrame, BetweenFrames
<1>2. /\ next.current_frame = rollback[p].current_frame + 1
      /\ next.inputs = rollback[p].inputs
      /\ next.last_remote_input_frame = rollback[p].last_remote_input_frame
  BY PlayerTypes DEF IncreaseCurrentFrame, RollbackState
<1>. HIDE DEF next
<1>3. ASSUME NEW q \in Player
      PROVE  /\ rollback'[q].inputs = rollback[q].inputs
             /\ rollback'[q].last_remote_input_frame = rollback[q].last_remote_input_frame
  BY <1>1, <1>2 DEF TypeInv, TypeOK
<1>4. ASSUME NEW q \in Player
      PROVE  /\ SampledCount(q)' = SampledCount(q)
             /\ SampledInputs(q)' = SampledInputs(q)
  <2>1. SampledInputs(q)' = SampledInputs(q)
    BY <1>3 DEF SampledInputs
  <2>2. CASE q = p
    <3>1. /\ rollback'[p].current_frame = rollback[p].current_frame + 1
          /\ SampledCount(p) = rollback[p].current_frame + 1
      BY <1>1, <1>2 DEF SampledCount, TypeInv, TypeOK
    <3>2. ~ (pc'[p] = "loop" /\ state'[p] = "kInGame")
      BY <1>1 DEF TypeInv, TypeOK
    <3>3. SampledCount(p)' = rollback'[p].current_frame
      BY <3>2 DEF SampledCount
    <3>. QED  BY <2>1, <2>2, <3>1, <3>3
  <2>3. CASE q # p
    BY <1>1, <2>1, <2>3 DEF SampledCount, TypeInv, TypeOK
  <2>. QED  BY <2>2, <2>3
<1>5. ASSUME NEW q \in Player
      PROVE  EventsInv(q)' /\ ReceivedInv(q)'
  <2>1. CASE net'[q] = net[q]
    <3>1. EventsTo(q)' = EventsTo(q)
      BY <1>1, <2>1 DEF EventsTo
    <3>. QED  BY <1>3, <1>4, <3>1, KeepsReceived
  <2>2. CASE net'[q] = << >>
    <3>1. EventsTo(q)' = packet_queue[q]
      BY <1>1, <2>2, PlayerTypes, ConcatEmptySeq DEF EventsTo
    <3>2. EventsInv(q) /\ Other(q) \in Player
      BY OtherPlayer DEF InputsInv
    <3>3. InOrder(packet_queue[q], SampledInputs(Other(q)),
                  SampledCount(Other(q)), rollback[q].last_remote_input_frame)
      BY <3>2, PlayerTypes, InOrderOfFirstPart DEF EventsInv, EventsTo
    <3>4. EventsInv(q)'
      BY <1>3, <1>4, <3>1, <3>2, <3>3 DEF EventsInv
    <3>. QED  BY <1>3, <1>4, <3>4, KeepsReceived
  <2>. QED  BY <1>1, <2>1, <2>2 DEF TypeInv, TypeOK
<1>. QED  BY <1>1, <1>4, <1>5, KeepsInputsInv

(* A player that is gone changes nothing any more.                         *)
LEMMA UndefinedStepInputsInv ==
    ASSUME TypeInv, InputsInv, NEW p \in Player, pc[p] # "loop", UndefinedStep(p)
    PROVE  InputsInv'
<1>1. /\ UNCHANGED <<rollback, unacked, packet_queue, net>>
      /\ state' = [state EXCEPT ![p] = "Undefined"]
      /\ pc' = [pc EXCEPT ![p] = "loop"]
  BY DEF UndefinedStep
<1>2. \A q \in Player : SampledCount(q)' = SampledCount(q)
  BY <1>1 DEF SampledCount, TypeInv, TypeOK
<1>3. /\ \A q \in Player : SampledInputs(q)' = SampledInputs(q)
      /\ \A q \in Player : EventsTo(q)' = EventsTo(q)
  BY <1>1 DEF SampledInputs, EventsTo
<1>4. \A q \in Player : EventsInv(q)' /\ ReceivedInv(q)'
  BY <1>1, <1>2, <1>3, KeepsReceived
<1>. QED  BY <1>1, <1>2, <1>3, <1>4, KeepsInputsInv

(* A handler leaves the frames and the inputs its player sampled alone. *)
LEMMA HandlerKeepsSampled ==
    ASSUME TypeInv, NEW p \in Player, pc[p] # "loop", NEW r,
           rollback' = [rollback EXCEPT ![p] = r],
           r.current_frame = rollback[p].current_frame,
           r.inputs[p] = rollback[p].inputs[p],
           UNCHANGED state,
           UNCHANGED pc \/ pc' = [pc EXCEPT ![p] = "sample"]
    PROVE  /\ \A q \in Player : SampledCount(q)' = SampledCount(q)
           /\ \A q \in Player : SampledInputs(q)' = SampledInputs(q)
           /\ rollback'[p] = r
           /\ rollback'[Other(p)] = rollback[Other(p)]
<1>1. /\ rollback'[p] = r
      /\ rollback'[Other(p)] = rollback[Other(p)]
  BY OtherPlayer DEF TypeInv, TypeOK
<1>2. ASSUME NEW q \in Player
      PROVE  /\ rollback'[q].current_frame = rollback[q].current_frame
             /\ rollback'[q].inputs[q] = rollback[q].inputs[q]
             /\ pc'[q] = "loop" <=> pc[q] = "loop"
  <2>1. CASE q = p
    BY <1>1, <2>1 DEF TypeInv, TypeOK
  <2>2. CASE q = Other(p)
    BY <1>1, <2>2, OtherPlayer DEF TypeInv, TypeOK
  <2>. QED  BY <2>1, <2>2, OtherPlayer
<1>. QED  BY <1>1, <1>2 DEF SampledCount, SampledInputs

(* A handler that took the inputs of a packet in front of its queue: what  *)
(* it must show of the events and the inputs it received.                  *)
LEMMA TakesInputs ==
    ASSUME TypeInv, InputsInv, NEW p \in Player, packet_queue[p] # << >>,
           \A q \in Player : SampledCount(q)' = SampledCount(q),
           \A q \in Player : SampledInputs(q)' = SampledInputs(q),
           NEW s \in RollbackState, rollback'[p] = s,
           \A f \in 0 .. s.last_remote_input_frame :
              /\ f < SampledCount(Other(p))
              /\ s.inputs[Other(p)][f] = SampledInputs(Other(p))[f],
           \/ s.last_remote_input_frame = rollback[p].last_remote_input_frame
           \/ /\ FrontPacket(p).frames # << >>
              /\ s.last_remote_input_frame <= Last(FrontPacket(p).frames).frame_nbr,
           \/ EventsTo(p)' = EventsTo(p)
           \/ EventsTo(p)' = Tail(EventsTo(p))
    PROVE  EventsInv(p)' /\ ReceivedInv(p)'
<1>1. Other(p) \in Player /\ EventsInv(p)
  BY OtherPlayer DEF InputsInv
<1>2. ReceivedInv(p)'
  BY <1>1 DEF ReceivedInv
<1>3. /\ EventsTo(p) # << >> /\ EventsTo(p)[1] = FrontPacket(p)
      /\ EventsTo(p) \in Seq(Packet)
      /\ rollback[p].last_remote_input_frame \in Int
      /\ s.last_remote_input_frame \in Int
  BY FrontOfEvents, PlayerTypes, FrameCountersAreInt
<1>4. InOrder(EventsTo(p), SampledInputs(Other(p)), SampledCount(Other(p)),
              s.last_remote_input_frame)
  BY <1>1, <1>3, InOrderReceived DEF EventsInv
<1>5. InOrder(Tail(EventsTo(p)), SampledInputs(Other(p)), SampledCount(Other(p)),
              s.last_remote_input_frame)
  BY <1>3, <1>4, InOrderWithoutFirst
<1>6. EventsInv(p)'
  BY <1>1, <1>4, <1>5 DEF EventsInv
<1>. QED  BY <1>2, <1>6

(* What the master raises with each frame it confirms is fresh. *)
LEMMA ConfirmationsAreFresh ==
    ASSUME TypeInv, InputsInv, NEW r \in RollbackState, CountersAgree(r),
           NEW n \in Nat, ConfirmFramesDefined(r, n)
    PROVE  /\ Confirmations(r, n) \in Seq(Packet)
           /\ \A i \in 1 .. Len(Confirmations(r, n)) :
                 Fresh(Confirmations(r, n)[i], SampledInputs(Master), SampledCount(Master))
<1>1. Confirmations(r, n) \in Seq(Packet)
  BY ConfirmationsType DEF TypeInv
<1>2. Len(Confirmations(r, n)) = n
  BY <1>1, LenProperties DEF Confirmations
<1>3. UnackedInv(Master)
  BY DEF InputsInv, Master, Player
<1>4. ASSUME NEW i \in 1 .. n
      PROVE  Fresh(Confirmations(r, n)[i], SampledInputs(Master), SampledCount(Master))
  <2>1. /\ Confirmations(r, n)[i].frames = unacked[Master]
        /\ Confirmations(r, n)[i].type = "kFrameConfirmation"
    BY DEF Confirmations, ConfirmationPacket
  <2>. QED  BY <1>3, <2>1 DEF UnackedInv, Fresh
<1>. QED  BY <1>1, <1>2, <1>4

(* A player whose frame has begun raises after what it sampled: the other  *)
(* one has received less.                                                  *)
LEMMA OtherReceivedLess ==
    ASSUME TypeInv, InputsInv, NEW p \in Player, pc[p] # "loop"
    PROVE  /\ SampledCount(p) = rollback[p].current_frame
           /\ rollback[p].current_frame \in Frame
           /\ rollback[Other(p)].last_remote_input_frame < SampledCount(p)
<1>1. /\ rollback[p].current_frame >= 0 /\ rollback[p].current_frame < GameFrameNbr
      /\ rollback[p].current_frame \in Int
  BY PlayerTypes, FrameCountersAreInt DEF TypeInv, FramesInv
<1>2. SampledCount(p) = rollback[p].current_frame
  BY DEF SampledCount
<1>3. \/ rollback[Other(p)].last_remote_input_frame = -1
      \/ rollback[Other(p)].last_remote_input_frame < SampledCount(p)
  BY OtherPlayer, ReceivedBelowSampled
<1>. QED  BY <1>1, <1>2, <1>3, GameFrameNbrAssumption DEF Frame

(* HandlePacket(), an input packet.                                        *)
LEMMA HandleInputInputsInv ==
    ASSUME TypeInv, InputsInv, NEW p \in Player, HandleInput(p)
    PROVE  InputsInv'
<1>. DEFINE list  == FrontPacket(p).frames
            r     == SetOtherPlayerInput(rollback[p], list, Other(p))
            count == IF p = Master THEN ConfirmCount(r, list) ELSE 0
            s     == ConfirmFrames(r, count)
<1>1. /\ pc[p] = "packets" /\ packet_queue[p] # << >>
      /\ FrontPacket(p).type = "kInput"
      /\ list \in Seq(FrameInput)
  BY FrontPacketType DEF HandleInput, Handling
<1>2. /\ Other(p) \in Player /\ Other(p) # p /\ Other(Other(p)) = p
      /\ \A q \in Player : q = p \/ q = Other(p)
      /\ rollback[p] \in RollbackState
      /\ CountersAgree(rollback[p])
  BY OtherPlayer, PlayerTypes DEF TypeInv, FramesInv
<1>3. CASE IsOld(rollback[p], list)
  <2>1. /\ pc' = [pc EXCEPT ![p] = "sample"]
        /\ UNCHANGED <<rollback, unacked, packet_queue, net, state>>
    BY <1>3 DEF HandleInput, ReturnFromHandlePacket
  <2>2. /\ \A q \in Player : SampledCount(q)' = SampledCount(q)
        /\ \A q \in Player : SampledInputs(q)' = SampledInputs(q)
        /\ \A q \in Player : EventsTo(q)' = EventsTo(q)
    BY <1>1, <2>1 DEF SampledCount, SampledInputs, EventsTo, TypeInv, TypeOK
  <2>3. \A q \in Player : EventsInv(q)' /\ ReceivedInv(q)'
    BY <2>1, <2>2, KeepsReceived
  <2>. QED  BY <2>1, <2>2, <2>3, KeepsInputsInv
<1>4. CASE /\ ~ IsOld(rollback[p], list)
           /\ ~ (/\ RemoteInputsDefined(rollback[p], list)
                 /\ p = Master => ConfirmationDefined(r, list))
  <2>1. UndefinedStep(p)
    BY <1>4 DEF HandleInput
  <2>. QED  BY <1>1, <2>1, UndefinedStepInputsInv
<1>5. CASE /\ ~ IsOld(rollback[p], list)
           /\ RemoteInputsDefined(rollback[p], list)
           /\ p = Master => ConfirmationDefined(r, list)
  <2>1. /\ rollback' = [rollback EXCEPT ![p] = s]
        /\ RaiseEvents(p, Confirmations(r, count))
        /\ packet_queue' = [packet_queue EXCEPT ![p] = Tail(@)]
        /\ UNCHANGED <<unacked, state, pc>>
    BY <1>5 DEF HandleInput, PopPacket
  <2>2. /\ r \in RollbackState
        /\ CountersAgree(r)
        /\ r.current_frame = rollback[p].current_frame
    BY <1>1, <1>2, <1>5, SetOtherPlayerInputType, SetOtherPlayerInputLeaves
  <2>3. /\ \A f \in 0 .. r.last_remote_input_frame :
              /\ f < SampledCount(Other(p))
              /\ r.inputs[Other(p)][f] = SampledInputs(Other(p))[f]
        /\ r.inputs[p] = rollback[p].inputs[p]
        /\ \/ r.last_remote_input_frame = rollback[p].last_remote_input_frame
           \/ r.last_remote_input_frame <= Last(list).frame_nbr
    <3>1. /\ \A f \in 0 .. rollback[p].last_remote_input_frame :
                /\ f < SampledCount(Other(p))
                /\ rollback[p].inputs[Other(p)][f] = SampledInputs(Other(p))[f]
      BY DEF InputsInv, ReceivedInv
    <3>2. Slice(list, SampledInputs(Other(p)), SampledCount(Other(p)))
      BY <1>1, FrontOfEvents DEF InputsInv, EventsInv, InOrder
    <3>3. SampledCount(Other(p)) \in Int
      BY <1>2, PlayerTypes
    <3>. HIDE DEF list
    <3>. QED  BY <1>1, <1>2, <1>5, <3>1, <3>2, <3>3, SetOtherPlayerInputIsTrue
  <2>4. list # << >>
    BY <1>5 DEF RemoteInputsDefined
  <2>5. count \in Nat /\ ConfirmFramesDefined(r, count)
    <3>. HIDE DEF list, r
    <3>1. CASE p = Master
      BY <1>1, <1>5, <2>2, <3>1, ConfirmCountType DEF ConfirmationDefined
    <3>2. CASE p # Master
      BY <2>2, <3>2, GameFrameNbrAssumption DEF ConfirmFramesDefined, RollbackState
    <3>. QED  BY <3>1, <3>2
  <2>. HIDE DEF r, count
  <2>6. /\ s \in RollbackState
        /\ s.current_frame = rollback[p].current_frame
        /\ s.inputs = r.inputs
        /\ s.last_remote_input_frame = r.last_remote_input_frame
    BY <2>2, <2>5, ConfirmFramesType DEF ConfirmFrames, RollbackState
  <2>. HIDE DEF s, list
  <2>7. /\ \A q \in Player : SampledCount(q)' = SampledCount(q)
        /\ \A q \in Player : SampledInputs(q)' = SampledInputs(q)
        /\ rollback'[p] = s
        /\ rollback'[Other(p)] = rollback[Other(p)]
    BY <1>1, <2>1, <2>3, <2>6, HandlerKeepsSampled
  <2>8. EventsInv(p)' /\ ReceivedInv(p)'
    <3>1. EventsTo(p)' = Tail(EventsTo(p))
      <4>1. net'[p] = net[p]
        BY <2>1, RaiseEventsLeaves
      <4>2. packet_queue'[p] = Tail(packet_queue[p])
        BY <2>1 DEF TypeInv, TypeOK
      <4>. QED  BY <1>1, <4>1, <4>2, FrontOfEvents DEF EventsTo
    <3>2. list = FrontPacket(p).frames
      BY DEF list
    <3>3. \A f \in 0 .. s.last_remote_input_frame :
              /\ f < SampledCount(Other(p))
              /\ s.inputs[Other(p)][f] = SampledInputs(Other(p))[f]
      BY <2>3, <2>6
    <3>4. \/ s.last_remote_input_frame = rollback[p].last_remote_input_frame
          \/ /\ FrontPacket(p).frames # << >>
             /\ s.last_remote_input_frame <= Last(FrontPacket(p).frames).frame_nbr
      BY <2>3, <2>4, <2>6, <3>2
    <3>. QED  BY <1>1, <2>6, <2>7, <3>1, <3>3, <3>4, TakesInputs
  <2>9. EventsInv(Other(p))' /\ ReceivedInv(Other(p))'
    <3>1. ReceivedInv(Other(p))'
      BY <1>2, <2>7, KeepsReceived
    <3>2. CASE p # Master
      <4>1. Confirmations(r, count) = << >>
        BY <3>2, EmptySeq DEF Confirmations, count
      <4>2. net' = net
        <5>1. net[Other(p)] \o << >> = net[Other(p)]
          BY <1>2, PlayerTypes, ConcatEmptySeq
        <5>. QED  BY <2>1, <4>1, <5>1, <1>2 DEF RaiseEvents, TypeInv, TypeOK
      <4>3. EventsTo(Other(p))' = EventsTo(Other(p))
        <5>1. packet_queue'[Other(p)] = packet_queue[Other(p)]
          BY <1>2, <2>1
        <5>. QED  BY <4>2, <5>1 DEF EventsTo
      <4>. QED  BY <1>2, <2>7, <4>3, KeepsReceived
    <3>3. CASE p = Master
      <4>1. /\ Confirmations(r, count) \in Seq(Packet)
            /\ \A i \in 1 .. Len(Confirmations(r, count)) :
                  Fresh(Confirmations(r, count)[i], SampledInputs(p), SampledCount(p))
        BY <2>2, <2>5, <3>3, ConfirmationsAreFresh
      <4>2. EventsInv(Other(p)) /\ packet_queue'[Other(p)] = packet_queue[Other(p)]
        BY <1>2, <2>1 DEF InputsInv
      <4>3. /\ SampledCount(p) \in Int
            /\ rollback[Other(p)].last_remote_input_frame \in Int
            /\ rollback[Other(p)].last_remote_input_frame < SampledCount(p)
        BY <1>1, <1>2, PlayerTypes, OtherReceivedLess
      <4>4. InOrder(EventsTo(Other(p)), SampledInputs(p), SampledCount(p),
                    rollback[Other(p)].last_remote_input_frame)
        BY <1>2, <4>2 DEF EventsInv
      <4>5. InOrder(EventsTo(Other(p))', SampledInputs(p), SampledCount(p),
                    rollback[Other(p)].last_remote_input_frame)
        BY <2>1, <4>1, <4>2, <4>3, <4>4, RaisedInOrder
      <4>6. EventsInv(Other(p))'
        BY <1>2, <2>7, <4>5 DEF EventsInv
      <4>. QED  BY <3>1, <4>6
    <3>. QED  BY <3>2, <3>3
  <2>. QED  BY <1>2, <2>1, <2>7, <2>8, <2>9, KeepsInputsInv
<1>. QED  BY <1>3, <1>4, <1>5

(* HandlePacket() of the master, an acknowledgement.                       *)
LEMMA HandleAckInputsInv ==
    ASSUME TypeInv, InputsInv, HandleAck
    PROVE  InputsInv'
<1>1. /\ Master \in Player
      /\ pc[Master] # "loop" /\ packet_queue[Master] # << >>
  BY DEF Master, Player, HandleAck, Handling
<1>2. CASE unacked[Master] = << >>
  <2>1. UndefinedStep(Master)
    BY <1>2 DEF HandleAck
  <2>. QED  BY <1>1, <2>1, UndefinedStepInputsInv
<1>3. CASE unacked[Master] # << >>
  <2>1. /\ unacked' = [unacked EXCEPT ![Master] = Tail(@)]
        /\ packet_queue' = [packet_queue EXCEPT ![Master] = Tail(@)]
        /\ UNCHANGED <<rollback, net, state, pc>>
    BY <1>3 DEF HandleAck, EraseOldest, PopPacket
  <2>2. /\ \A q \in Player : SampledCount(q)' = SampledCount(q)
        /\ \A q \in Player : SampledInputs(q)' = SampledInputs(q)
    BY <2>1 DEF SampledCount, SampledInputs
  <2>3. \A q \in Player : \/ unacked'[q] = unacked[q]
                          \/ unacked[q] # << >> /\ unacked'[q] = Tail(unacked[q])
    BY <1>3, <2>1 DEF TypeInv, TypeOK
  <2>4. ASSUME NEW q \in Player
        PROVE  EventsInv(q)' /\ ReceivedInv(q)'
    <3>1. CASE q # Master
      <4>1. EventsTo(q)' = EventsTo(q)
        BY <2>1, <3>1 DEF EventsTo, TypeInv, TypeOK
      <4>. QED  BY <2>1, <2>2, <4>1, KeepsReceived
    <3>2. CASE q = Master
      <4>1. packet_queue'[q] = Tail(packet_queue[q]) /\ net'[q] = net[q]
        BY <2>1, <3>2 DEF TypeInv, TypeOK
      <4>2. EventsTo(q)' = Tail(EventsTo(q))
        BY <1>1, <3>2, <4>1, FrontOfEvents DEF EventsTo
      <4>3. /\ rollback'[q] = rollback[q] /\ rollback[q] \in RollbackState
            /\ \A f \in 0 .. rollback[q].last_remote_input_frame :
                  /\ f < SampledCount(Other(q))
                  /\ rollback[q].inputs[Other(q)][f] = SampledInputs(Other(q))[f]
        BY <2>1, PlayerTypes DEF InputsInv, ReceivedInv
      <4>. QED  BY <1>1, <2>2, <3>2, <4>2, <4>3, TakesInputs
    <3>. QED  BY <3>1, <3>2
  <2>. QED  BY <2>2, <2>3, <2>4, KeepsInputsInv
<1>. QED  BY <1>2, <1>3

(* The follower's manager after a confirmation holds true inputs still.    *)
LEMMA ConfirmedByFollowerIsTrue ==
    ASSUME TypeInv, NEW packet \in Packet, ConfirmedByFollowerDefined(packet),
           NEW inputs, NEW count \in Int, Slice(packet.frames, inputs, count),
           \A f \in 0 .. rollback[Follower].last_remote_input_frame :
              f < count /\ rollback[Follower].inputs[Master][f] = inputs[f]
    PROVE  LET s == ConfirmedByFollower(packet)
           IN  /\ \A f \in 0 .. s.last_remote_input_frame :
                    f < count /\ s.inputs[Master][f] = inputs[f]
               /\ s.inputs[Follower] = rollback[Follower].inputs[Follower]
               /\ packet.frames # << >>
               /\ \/ s.last_remote_input_frame
                       = rollback[Follower].last_remote_input_frame
                  \/ s.last_remote_input_frame <= Last(packet.frames).frame_nbr
<1>. DEFINE r == rollback[Follower]
            t == IF r.last_remote_input_frame < Last(packet.frames).frame_nbr
                 THEN SetOtherPlayerInput(r, packet.frames, Master)
                 ELSE r
<1>1. /\ r \in RollbackState
      /\ packet.frames \in Seq(FrameInput)
      /\ Master \in Player /\ Other(Master) = Follower
      /\ RemoteInputsDefined(r, packet.frames)
  BY PlayerTypes DEF Follower, Master, Other, Player, Packet, ConfirmedByFollowerDefined
<1>2. \A f \in 0 .. r.last_remote_input_frame :
         f < count /\ r.inputs[Master][f] = inputs[f]
  OBVIOUS
<1>. HIDE DEF r
<1>3. /\ \A f \in 0 .. t.last_remote_input_frame :
            f < count /\ t.inputs[Master][f] = inputs[f]
      /\ t.inputs[Follower] = r.inputs[Follower]
      /\ \/ t.last_remote_input_frame = r.last_remote_input_frame
         \/ t.last_remote_input_frame <= Last(packet.frames).frame_nbr
  <2>1. CASE r.last_remote_input_frame < Last(packet.frames).frame_nbr
    <3>1. t = SetOtherPlayerInput(r, packet.frames, Master)
      BY <2>1
    <3>. HIDE DEF t
    <3>. QED  BY <1>1, <1>2, <3>1, SetOtherPlayerInputIsTrue
  <2>2. CASE ~ (r.last_remote_input_frame < Last(packet.frames).frame_nbr)
    BY <1>2, <2>2
  <2>. QED  BY <2>1, <2>2
<1>4. t \in RollbackState
  BY <1>1, SetOtherPlayerInputType
<1>. HIDE DEF t
<1>5. /\ ConfirmFrame(t).inputs = t.inputs
      /\ ConfirmFrame(t).last_remote_input_frame = t.last_remote_input_frame
  BY <1>4 DEF ConfirmFrame, ConfirmFrames, RollbackState
<1>6. ConfirmedByFollower(packet) = ConfirmFrame(t)
  BY DEF ConfirmedByFollower, r, t
<1>7. packet.frames # << >>
  BY <1>1 DEF RemoteInputsDefined
<1>. QED  BY <1>3, <1>5, <1>6, <1>7 DEF r

(* HandlePacket() of the follower, a confirmation.                         *)
LEMMA HandleConfirmationInputsInv ==
    ASSUME TypeInv, InputsInv, HandleConfirmation
    PROVE  InputsInv'
<1>. DEFINE packet == FrontPacket(Follower)
            s      == ConfirmedByFollower(packet)
            equal  == CheckSum(s) = packet.checksum
<1>1. /\ Follower \in Player /\ Other(Follower) = Master /\ Other(Master) = Follower
      /\ Master \in Player
      /\ Master # Follower
      /\ \A q \in Player : q = Follower \/ q = Master
  BY DEF Follower, Master, Other, Player
<1>2. /\ packet \in Packet
      /\ pc[Follower] = "packets" /\ packet_queue[Follower] # << >>
  BY <1>1, FrontPacketType DEF HandleConfirmation, Handling
<1>3. CASE ~ (/\ ConfirmedByFollowerDefined(packet)
              /\ equal => unacked[Follower] # << >>)
  <2>1. UndefinedStep(Follower)
    BY <1>3 DEF HandleConfirmation
  <2>. QED  BY <1>1, <1>2, <2>1, UndefinedStepInputsInv
<1>4. CASE /\ ConfirmedByFollowerDefined(packet)
           /\ equal => unacked[Follower] # << >>
  <2>1. /\ rollback' = [rollback EXCEPT ![Follower] = s]
        /\ \/ /\ RaiseEvents(Follower, <<AckPacket>>)
              /\ unacked[Follower] # << >>
              /\ unacked' = [unacked EXCEPT ![Follower] = Tail(@)]
              /\ packet_queue' = [packet_queue EXCEPT ![Follower] = Tail(@)]
              /\ UNCHANGED pc
           \/ /\ pc' = [pc EXCEPT ![Follower] = "sample"]
              /\ UNCHANGED <<unacked, packet_queue, net>>
        /\ UNCHANGED state
    BY <1>4 DEF HandleConfirmation, ReturnFromHandlePacket, EraseOldest, PopPacket
  <2>2. /\ s \in RollbackState
        /\ s.current_frame = rollback[Follower].current_frame
    BY <1>2, <1>4, ConfirmedByFollowerType
  <2>3. /\ \A f \in 0 .. s.last_remote_input_frame :
              /\ f < SampledCount(Master)
              /\ s.inputs[Master][f] = SampledInputs(Master)[f]
        /\ s.inputs[Follower] = rollback[Follower].inputs[Follower]
        /\ packet.frames # << >>
        /\ \/ s.last_remote_input_frame = rollback[Follower].last_remote_input_frame
           \/ s.last_remote_input_frame <= Last(packet.frames).frame_nbr
    <3>1. \A f \in 0 .. rollback[Follower].last_remote_input_frame :
              /\ f < SampledCount(Master)
              /\ rollback[Follower].inputs[Master][f] = SampledInputs(Master)[f]
      BY <1>1 DEF InputsInv, ReceivedInv
    <3>2. Slice(packet.frames, SampledInputs(Master), SampledCount(Master))
      BY <1>1, <1>2, FrontOfEvents DEF InputsInv, EventsInv, InOrder
    <3>3. SampledCount(Master) \in Int
      BY <1>1, PlayerTypes
    <3>. HIDE DEF packet
    <3>. QED  BY <1>2, <1>4, <3>1, <3>2, <3>3, ConfirmedByFollowerIsTrue
  <2>. HIDE DEF s, equal
  <2>4. /\ \A q \in Player : SampledCount(q)' = SampledCount(q)
        /\ \A q \in Player : SampledInputs(q)' = SampledInputs(q)
        /\ rollback'[Follower] = s
        /\ rollback'[Master] = rollback[Master]
    BY <1>1, <1>2, <2>1, <2>2, <2>3, HandlerKeepsSampled
  <2>5. EventsInv(Follower)' /\ ReceivedInv(Follower)'
    <3>1. \/ EventsTo(Follower)' = EventsTo(Follower)
          \/ EventsTo(Follower)' = Tail(EventsTo(Follower))
      <4>1. CASE UNCHANGED <<packet_queue, net>>
        BY <4>1 DEF EventsTo
      <4>2. CASE /\ RaiseEvents(Follower, <<AckPacket>>)
                 /\ packet_queue' = [packet_queue EXCEPT ![Follower] = Tail(@)]
        <5>1. net'[Follower] = net[Follower]
          BY <1>1, <4>2, RaiseEventsLeaves
        <5>2. packet_queue'[Follower] = Tail(packet_queue[Follower])
          BY <1>1, <4>2 DEF TypeInv, TypeOK
        <5>. QED  BY <1>1, <1>2, <5>1, <5>2, FrontOfEvents DEF EventsTo
      <4>. QED  BY <2>1, <4>1, <4>2
    <3>. QED  BY <1>1, <1>2, <2>2, <2>3, <2>4, <3>1, TakesInputs
  <2>6. EventsInv(Master)' /\ ReceivedInv(Master)'
    <3>1. CASE UNCHANGED <<packet_queue, net>>
      <4>1. EventsTo(Master)' = EventsTo(Master)
        BY <3>1 DEF EventsTo
      <4>. QED  BY <1>1, <2>4, <4>1, KeepsReceived
    <3>2. CASE /\ RaiseEvents(Follower, <<AckPacket>>)
               /\ packet_queue' = [packet_queue EXCEPT ![Follower] = Tail(@)]
      <4>1. /\ <<AckPacket>> \in Seq(Packet)
            /\ \A i \in 1 .. Len(<<AckPacket>>) :
                  Fresh(<<AckPacket>>[i], SampledInputs(Follower), SampledCount(Follower))
        <5>1. AckPacket \in Packet
          BY EmptySeq DEF AckPacket, ConfirmationPacket, Packet, GameHistory
        <5>2. Fresh(AckPacket, SampledInputs(Follower), SampledCount(Follower))
          BY EmptySeq DEF AckPacket, ConfirmationPacket, Fresh, Slice
        <5>. HIDE DEF AckPacket
        <5>. QED  BY <5>1, <5>2
      <4>2. packet_queue'[Master] = packet_queue[Master]
        BY <1>1, <3>2
      <4>3. /\ SampledCount(Follower) \in Int
            /\ rollback[Master].last_remote_input_frame \in Int
            /\ rollback[Master].last_remote_input_frame < SampledCount(Follower)
        BY <1>1, <1>2, PlayerTypes, OtherReceivedLess
      <4>4. InOrder(EventsTo(Master), SampledInputs(Follower), SampledCount(Follower),
                    rollback[Master].last_remote_input_frame)
        BY <1>1 DEF InputsInv, EventsInv
      <4>5. InOrder(EventsTo(Master)', SampledInputs(Follower), SampledCount(Follower),
                    rollback[Master].last_remote_input_frame)
        BY <1>1, <3>2, <4>1, <4>2, <4>3, <4>4, RaisedInOrder
      <4>6. EventsInv(Master)'
        BY <1>1, <2>4, <4>5 DEF EventsInv
      <4>. QED  BY <1>1, <2>4, <4>6, KeepsReceived
    <3>. QED  BY <2>1, <3>1, <3>2
  <2>7. \A q \in Player : \/ unacked'[q] = unacked[q]
                          \/ unacked[q] # << >> /\ unacked'[q] = Tail(unacked[q])
    BY <1>1, <2>1 DEF TypeInv, TypeOK
  <2>. QED  BY <1>1, <2>4, <2>5, <2>6, <2>7, KeepsInputsInv
<1>. QED  BY <1>3, <1>4

(* The player samples one more input and raises all the unconfirmed ones.  *)
LEMMA EndFrameInputsInv ==
    ASSUME TypeInv, InputsInv, NEW p \in Player, EndFrame(p)
    PROVE  InputsInv'
<1>. DEFINE frame == rollback[p].current_frame
            later == SampledInputs(p)'
<1>1. PICK input \in Input :
          LET sampled == SetPlayerInput(rollback[p], p, input)
              list    == Append(unacked[p], [input |-> input, frame_nbr |-> frame])
          IN  /\ rollback' = [rollback EXCEPT ![p] = UpdateGame(sampled)]
              /\ unacked' = [unacked EXCEPT ![p] = list]
              /\ RaiseEvents(p, <<InputPacket(list)>>)
  BY DEF EndFrame
<1>. DEFINE r    == UpdateGame(SetPlayerInput(rollback[p], p, input))
            list == Append(unacked[p], [input |-> input, frame_nbr |-> frame])
<1>2. /\ rollback' = [rollback EXCEPT ![p] = r]
      /\ unacked' = [unacked EXCEPT ![p] = list]
      /\ RaiseEvents(p, <<InputPacket(list)>>)
      /\ pc' = [pc EXCEPT ![p] = "loop"]
      /\ UNCHANGED <<packet_queue, state>>
      /\ pc[p] # "loop"
      /\ state[p] = "kInGame"
  BY <1>1 DEF EndFrame, TypeInv, FramesInv
<1>3. /\ Other(p) \in Player /\ Other(p) # p /\ Other(Other(p)) = p
      /\ \A q \in Player : q = p \/ q = Other(p)
      /\ rollback[p] \in RollbackState
      /\ unacked[p] \in Seq(FrameInput)
  BY OtherPlayer, PlayerTypes
<1>4. /\ SampledCount(p) = frame
      /\ frame \in Frame /\ frame \in Int
      /\ rollback[Other(p)].last_remote_input_frame < frame
      /\ rollback[Other(p)].last_remote_input_frame \in Int
  BY <1>2, <1>3, OtherReceivedLess, PlayerTypes, FrameCountersAreInt
<1>5. /\ r.current_frame = frame
      /\ r.last_remote_input_frame = rollback[p].last_remote_input_frame
      /\ r.inputs[Other(p)] = rollback[p].inputs[Other(p)]
      /\ r.inputs[p] = [rollback[p].inputs[p] EXCEPT ![frame] = input]
  BY <1>3 DEF UpdateGame, SetPlayerInput, RollbackState
<1>. HIDE DEF r, list
<1>6. /\ rollback'[p] = r /\ rollback'[Other(p)] = rollback[Other(p)]
      /\ unacked'[p] = list /\ unacked'[Other(p)] = unacked[Other(p)]
      /\ pc'[p] = "loop" /\ pc'[Other(p)] = pc[Other(p)]
  BY <1>2, <1>3 DEF TypeInv, TypeOK
<1>7. /\ SampledCount(p)' = frame + 1
      /\ SampledCount(Other(p))' = SampledCount(Other(p))
      /\ SampledInputs(Other(p))' = SampledInputs(Other(p))
  BY <1>2, <1>3, <1>5, <1>6 DEF SampledCount, SampledInputs
<1>8. /\ later[frame] = input
      /\ \A f \in Frame : f < frame => later[f] = SampledInputs(p)[f]
  BY <1>3, <1>4, <1>5, <1>6 DEF SampledInputs, RollbackState
<1>. HIDE DEF frame
<1>9. /\ Slice(list, later, frame + 1)
      /\ list # << >>
      /\ Last(list).frame_nbr = frame
  <2>1. /\ Slice(unacked[p], SampledInputs(p), frame)
        /\ unacked[p] # << >> => Last(unacked[p]).frame_nbr = frame - 1
    BY <1>4 DEF InputsInv, UnackedInv
  <2>2. Slice(unacked[p], later, frame)
    <3>. HIDE DEF later
    <3>. QED  BY <1>3, <1>4, <1>8, <2>1, SliceGrows
  <2>. HIDE DEF later
  <2>3. /\ unacked[p] \in Seq(FrameInput) /\ frame \in Frame
        /\ later[frame] = input
    BY <1>3, <1>4, <1>8
  <2>. DEFINE longer == Append(unacked[p], [input |-> input, frame_nbr |-> frame])
  <2>4. /\ Slice(longer, later, frame + 1)
        /\ longer # << >>
        /\ Last(longer).frame_nbr = frame
    BY <2>1, <2>2, <2>3, SliceWithNext
  <2>. QED  BY <2>4 DEF list
<1>10. UnackedInv(p)' /\ UnackedInv(Other(p))'
  <2>1. UnackedInv(p)'
    BY <1>4, <1>6, <1>7, <1>9 DEF UnackedInv
  <2>2. UnackedInv(Other(p))
    BY <1>3 DEF InputsInv
  <2>3. UnackedInv(Other(p))'
    BY <1>6, <1>7, <2>2 DEF UnackedInv
  <2>. QED  BY <2>1, <2>3
<1>11. EventsInv(p)' /\ ReceivedInv(p)'
  <2>1. EventsInv(p) /\ ReceivedInv(p)
    BY DEF InputsInv
  <2>2. EventsTo(p)' = EventsTo(p)
    <3>1. net'[p] = net[p]
      BY <1>2, RaiseEventsLeaves
    <3>. QED  BY <1>2, <3>1 DEF EventsTo
  <2>3. EventsInv(p)'
    BY <1>5, <1>6, <1>7, <2>1, <2>2 DEF EventsInv
  <2>4. ReceivedInv(p)'
    BY <1>5, <1>6, <1>7, <2>1 DEF ReceivedInv
  <2>. QED  BY <2>3, <2>4
<1>12. ReceivedInv(Other(p))'
  <2>1. \A f \in 0 .. rollback[Other(p)].last_remote_input_frame :
          /\ f < frame
          /\ rollback[Other(p)].inputs[p][f] = SampledInputs(p)[f]
    BY <1>3, <1>4 DEF InputsInv, ReceivedInv
  <2>2. \A f \in 0 .. rollback[Other(p)].last_remote_input_frame :
          /\ f < frame + 1
          /\ rollback[Other(p)].inputs[p][f] = later[f]
    <3>1. \A f \in 0 .. rollback[Other(p)].last_remote_input_frame :
            f \in Int /\ f \in Frame /\ f < frame
      BY <1>4, <2>1, GameFrameNbrAssumption DEF Frame
    <3>. HIDE DEF later
    <3>. QED  BY <1>4, <1>8, <2>1, <3>1
  <2>. QED  BY <1>3, <1>6, <1>7, <2>2 DEF ReceivedInv
<1>13. EventsInv(Other(p))'
  <2>1. EventsTo(Other(p)) \in Seq(Packet)
    BY <1>3, PlayerTypes
  <2>2. InOrder(EventsTo(Other(p)), SampledInputs(p), frame,
                rollback[Other(p)].last_remote_input_frame)
    BY <1>3, <1>4 DEF InputsInv, EventsInv
  <2>3. InOrder(EventsTo(Other(p)), later, frame + 1,
                rollback[Other(p)].last_remote_input_frame)
    <3>1. frame <= frame + 1 /\ frame + 1 \in Int
      BY <1>4
    <3>. HIDE DEF later
    <3>. QED  BY <1>4, <1>8, <2>1, <2>2, <3>1, InOrderGrows
  <2>4. /\ <<InputPacket(list)>> \in Seq(Packet)
        /\ \A i \in 1 .. Len(<<InputPacket(list)>>) :
              Fresh(<<InputPacket(list)>>[i], later, frame + 1)
    <3>1. list \in Seq(FrameInput)
      <4>1. [input |-> input, frame_nbr |-> frame] \in FrameInput
        BY <1>4 DEF FrameInput
      <4>. QED  BY <1>3, <4>1, AppendProperties DEF list
    <3>2. InputPacket(list) \in Packet
      BY <3>1, EmptySeq DEF InputPacket, Packet, GameHistory
    <3>3. Fresh(InputPacket(list), later, frame + 1)
      <4>1. InputPacket(list).frames = list
        BY DEF InputPacket
      <4>2. Last(list).frame_nbr = (frame + 1) - 1
        BY <1>4, <1>9
      <4>. HIDE DEF later
      <4>. QED  BY <1>9, <4>1, <4>2 DEF Fresh
    <3>. HIDE DEF later
    <3>. QED  BY <3>2, <3>3
  <2>5. /\ frame + 1 \in Int
        /\ rollback[Other(p)].last_remote_input_frame < frame + 1
        /\ packet_queue'[Other(p)] = packet_queue[Other(p)]
    BY <1>2, <1>4
  <2>6. InOrder(EventsTo(Other(p))', later, frame + 1,
                rollback[Other(p)].last_remote_input_frame)
    BY <1>2, <1>4, <2>3, <2>4, <2>5, RaisedInOrder
  <2>. QED  BY <1>3, <1>6, <1>7, <2>6 DEF EventsInv
<1>. QED  BY <1>3, <1>10, <1>11, <1>12, <1>13 DEF InputsInv

(* All the steps together.                                                 *)
LEMMA NextInputsInv ==
    ASSUME TypeInv, InputsInv, [Next]_vars
    PROVE  InputsInv'
<1>1. ASSUME NEW p \in Player, ReceiveEvent(p)
      PROVE  InputsInv'
  BY <1>1, ReceiveEventInputsInv
<1>2. ASSUME NEW p \in Player, LoseEvent(p)
      PROVE  InputsInv'
  BY <1>2, LoseEventInputsInv
<1>3. ASSUME NEW p \in Player, BeginFrame(p)
      PROVE  InputsInv'
  BY <1>3, BeginFrameInputsInv
<1>4. ASSUME NEW p \in Player, HandleInput(p)
      PROVE  InputsInv'
  BY <1>4, HandleInputInputsInv
<1>5. CASE HandleAck
  BY <1>5, HandleAckInputsInv
<1>6. CASE HandleConfirmation
  BY <1>6, HandleConfirmationInputsInv
<1>7. ASSUME NEW p \in Player, EndFrame(p)
      PROVE  InputsInv'
  BY <1>7, EndFrameInputsInv
<1>8. CASE UNCHANGED vars
  BY <1>8 DEF vars, InputsInv, UnackedInv, EventsInv, ReceivedInv,
              EventsTo, SampledInputs, SampledCount
<1>. QED  BY <1>1, <1>2, <1>3, <1>4, <1>5, <1>6, <1>7, <1>8
          DEF Next, FrameStep, MatchOver

(* InputsInv, with the type invariant, holds in every match.               *)
LEMMA InputsInvariant == Spec => [](TypeInv /\ InputsInv)
<1>1. Init => TypeInv /\ InputsInv
  BY InitTypeInv, InitInputsInv
<1>2. TypeInv /\ InputsInv /\ [Next]_vars => (TypeInv /\ InputsInv)'
  BY NextTypeInv, NextInputsInv
<1>. QED  BY <1>1, <1>2, PTL DEF Spec
-----------------------------------------------------------------------------
(* The inputs a player holds for the frames it says it received are those  *)
(* the other one sampled: SetOtherPlayerInput() never slips by a frame.    *)
THEOREM ReceivedInputsCorrect == Spec => []ReceivedInputsAreTrue
<1>1. TypeInv /\ InputsInv => ReceivedInputsAreTrue
  <2>. SUFFICES ASSUME TypeInv, InputsInv, NEW p \in Player,
                       NEW f \in 0 .. rollback[p].last_remote_input_frame
                PROVE  /\ f \in SampledFrames(Other(p))
                       /\ rollback[p].inputs[Other(p)][f]
                            = rollback[Other(p)].inputs[Other(p)][f]
    BY DEF ReceivedInputsAreTrue
  <2>1. ReceivedInv(p)
    BY DEF InputsInv
  <2>2. SampledCount(Other(p)) \in Int
    BY OtherPlayer, PlayerTypes
  <2>. QED  BY <2>1, <2>2 DEF ReceivedInv, SampledFrames, SampledInputs
<1>. QED  BY <1>1, InputsInvariant, PTL

(* Remote inputs reach HandlePacket() in order: its return for old ones is *)
(* never taken.                                                            *)
THEOREM QueueNeverBlocked == Spec => []NoPacketBlocksTheQueue
<1>1. TypeInv /\ InputsInv => NoPacketBlocksTheQueue
  <2>. SUFFICES ASSUME TypeInv, InputsInv, NEW p \in Player, Handling(p, "kInput")
                PROVE  /\ FrontPacket(p).frames # << >>
                       /\ ~ IsOld(rollback[p], FrontPacket(p).frames)
    BY DEF NoPacketBlocksTheQueue
  <2>1. /\ packet_queue[p] # << >> /\ FrontPacket(p).type = "kInput"
    BY DEF Handling
  <2>2. /\ 1 \in 1 .. Len(EventsTo(p)) /\ EventsTo(p)[1] = FrontPacket(p)
        /\ EventsTo(p) \in Seq(Packet)
    BY <2>1, FrontOfEvents, PlayerTypes
  <2>3. /\ FrontPacket(p).frames # << >>
        /\ rollback[p].last_remote_input_frame <= Last(FrontPacket(p).frames).frame_nbr
    BY <2>1, <2>2 DEF InputsInv, EventsInv, InOrder
  <2>4. /\ rollback[p].last_remote_input_frame \in Int
        /\ Last(FrontPacket(p).frames).frame_nbr \in Int
    BY <2>2, <2>3, PlayerTypes, FramesOfPacket
  <2>. QED  BY <2>3, <2>4 DEF IsOld
<1>. QED  BY <1>1, InputsInvariant, PTL
=============================================================================
