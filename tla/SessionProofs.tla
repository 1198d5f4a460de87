---------------------------- MODULE SessionProofs ----------------------------
(***************************************************************************)
(* Lemmas about the operators of Rollback and theorems about Session, for  *)
(* every length of a match and every set of inputs.                        *)
(***************************************************************************)
EXTENDS Session, SequenceTheorems, FiniteSetTheorems, WellFoundedInduction, TLAPS

(* A non-empty set of naturals has a least element, and Min returns it.    *)
(* The set's initial segments are finite, and strict inclusion of finite   *)
(* sets is well-founded.                                                   *)
LEMMA MinProperties ==
    ASSUME NEW S \in SUBSET Nat, S # {}
    PROVE  /\ Min(S) \in S
           /\ \A i \in S : Min(S) <= i
<1>. DEFINE Below(i) == {j \in S : j < i}
            Segments == {Below(i) : i \in S}
<1>1. Segments \subseteq FiniteSubsetsOf(S)
  <2>1. ASSUME NEW i \in S
        PROVE  IsFiniteSet(Below(i))
    BY FS_BoundedSetOfNaturals
  <2>. QED  BY <2>1 DEF FiniteSubsetsOf
<1>2. PICK D \in Segments :
         \A E \in Segments : ~ (<<E, D>> \in StrictSubsetOrdering(S))
  <2>1. Segments # {}
    OBVIOUS
  <2>2. IsWellFoundedOn(StrictSubsetOrdering(S), FiniteSubsetsOf(S))
    BY FS_StrictSubsetOrderingWellFounded
  <2>. QED  BY <1>1, <2>1, <2>2, WFMin
<1>3. PICK m \in S : D = Below(m)
  OBVIOUS
<1>4. ASSUME NEW i \in S, i < m
      PROVE  FALSE
  <2>1. Below(i) \subseteq Below(m) /\ Below(i) # Below(m)
    <3>1. i \in Below(m) /\ i \notin Below(i)
      BY <1>4
    <3>2. \A j \in Below(i) : j \in Below(m)
      BY <1>4
    <3>. QED  BY <3>1, <3>2
  <2>2. Below(i) \in SUBSET S /\ Below(m) \in SUBSET S
    OBVIOUS
  <2>3. <<Below(i), Below(m)>> \in StrictSubsetOrdering(S)
    <3>. HIDE DEF Below
    <3>. QED  BY <2>1, <2>2 DEF StrictSubsetOrdering
  <2>4. Below(i) \in Segments
    OBVIOUS
  <2>. HIDE DEF Below, Segments
  <2>. QED  BY <1>2, <1>3, <2>3, <2>4
<1>5. \A i \in S : m <= i
  BY <1>4
<1>. QED  BY <1>5 DEF Min
-----------------------------------------------------------------------------
(* find_if returns a position of the list, the first that matches, or the  *)
(* end.                                                                    *)
LEMMA FindFrameProperties ==
    ASSUME NEW list \in Seq(FrameInput), NEW frame \in Int
    PROVE  /\ FindFrame(list, frame) \in 1 .. Len(list) + 1
           /\ FindFrame(list, frame) <= Len(list) =>
                 list[FindFrame(list, frame)].frame_nbr = frame
           /\ \A i \in 1 .. Len(list) :
                 list[i].frame_nbr = frame => FindFrame(list, frame) <= i
<1>. DEFINE S == {i \in 1 .. Len(list) : list[i].frame_nbr = frame} \cup {Len(list) + 1}
<1>1. Len(list) \in Nat
  BY LenProperties
<1>2. S \in SUBSET Nat /\ S # {}
  BY <1>1
<1>3. Min(S) \in S /\ \A i \in S : Min(S) <= i
  BY <1>2, MinProperties
<1>. QED  BY <1>1, <1>3 DEF FindFrame

(* back() of a list that is not empty.                                     *)
LEMMA LastType ==
    ASSUME NEW T, NEW list \in Seq(T), list # << >>
    PROVE  /\ Len(list) \in Nat \ {0}
           /\ Last(list) \in T
           /\ Last(list) = list[Len(list)]
  BY EmptySeq, ElementOfSeq, LenProperties DEF Last

(* A list built by position, from 1 to n, is a sequence; it is empty when  *)
(* n is not positive.                                                      *)
LEMMA ReplayType ==
    ASSUME NEW r \in RollbackState, NEW first \in Nat, NEW n \in Int,
           first + n <= GameFrameNbr
    PROVE  /\ Replay(r, first, n) \in GameHistory
           /\ Len(Replay(r, first, n)) = IF n > 0 THEN n ELSE 0
<1>. DEFINE m == IF n > 0 THEN n ELSE 0
<1>1. m \in Nat /\ 1 .. n = 1 .. m
  OBVIOUS
<1>2. ASSUME NEW i \in 1 .. m
      PROVE  InputsAt(r, first + i - 1) \in Input \X Input
  <2>1. first + i - 1 \in Frame
    BY <1>2, GameFrameNbrAssumption DEF Frame
  <2>. QED  BY <2>1 DEF InputsAt, RollbackState, Player
<1>3. Replay(r, first, n) \in [1 .. m -> Input \X Input]
  BY <1>1, <1>2 DEF Replay
<1>. HIDE DEF m
<1>4. Replay(r, first, n) \in Seq(Input \X Input)
  BY <1>1, <1>3, SeqDef
<1>5. Len(Replay(r, first, n)) = m
  BY <1>1, <1>3, <1>4, LenProperties
<1>. QED  BY <1>4, <1>5 DEF m, GameHistory
-----------------------------------------------------------------------------
(* The operators keep the manager's type.  Each is defined where the       *)
(* iterators and the indices of the code point to an element.              *)

(* The counters of a manager are integers.                                 *)
LEMMA FrameCountersAreInt ==
    ASSUME NEW r \in RollbackState
    PROVE  /\ r.current_frame \in Int
           /\ r.last_remote_input_frame \in Int
           /\ r.last_remote_input_frame >= -1
           /\ r.frame_to_confirm \in Nat
           /\ r.confirmed_frame \in Int
  BY GameFrameNbrAssumption DEF RollbackState

(* Reset() and RegisterGame().                                             *)
LEMMA RollbackInitType == RollbackInit \in RollbackState
<1>1. << >> \in GameHistory
  BY EmptySeq DEF GameHistory
<1>. QED  BY <1>1, GameFrameNbrAssumption, NoInputAssumption
          DEF RollbackInit, RollbackState

(* SetPlayerInput().                                                       *)
LEMMA SetPlayerInputType ==
    ASSUME NEW r \in RollbackState, NEW p \in Player, NEW input \in Input
    PROVE  SetPlayerInput(r, p, input) \in RollbackState
  BY DEF SetPlayerInput, RollbackState

(* One update of the shown game.                                           *)
LEMMA UpdateGameType ==
    ASSUME NEW r \in RollbackState
    PROVE  UpdateGame(r) \in RollbackState
<1>1. <<r.last_inputs[0], r.last_inputs[1]>> \in Input \X Input
  BY DEF RollbackState, Player
<1>2. Append(r.current, <<r.last_inputs[0], r.last_inputs[1]>>) \in GameHistory
  BY <1>1, AppendProperties DEF RollbackState, GameHistory
<1>. QED  BY <1>2 DEF UpdateGame, RollbackState

(* DoRollback() replays frames of the match only.                          *)
LEMMA DoRollbackType ==
    ASSUME NEW r \in RollbackState
    PROVE  DoRollback(r) \in RollbackState
<1>. DEFINE replay == Replay(r, r.confirmed_frame + 1,
                             r.current_frame - r.confirmed_frame - 1)
<1>1. replay \in GameHistory
  BY ReplayType, GameFrameNbrAssumption DEF RollbackState
<1>2. r.confirmed \o replay \in GameHistory
  BY <1>1, ConcatProperties DEF RollbackState, GameHistory
<1>. QED  BY <1>2 DEF DoRollback, RollbackState

(* The two counters of the confirmed frames never part. *)
CountersAgree(r) == r.frame_to_confirm = r.confirmed_frame + 1

(* ConfirmFrame(), as often as it is defined.                              *)
LEMMA ConfirmFramesType ==
    ASSUME NEW r \in RollbackState, CountersAgree(r),
           NEW n \in Nat, ConfirmFramesDefined(r, n)
    PROVE  /\ ConfirmFrames(r, n) \in RollbackState
           /\ CountersAgree(ConfirmFrames(r, n))
<1>1. Replay(r, r.frame_to_confirm, n) \in GameHistory
  BY ReplayType DEF RollbackState, ConfirmFramesDefined
<1>2. r.confirmed \o Replay(r, r.frame_to_confirm, n) \in GameHistory
  BY <1>1, ConcatProperties DEF RollbackState, GameHistory
<1>3. /\ r.frame_to_confirm + n \in 0 .. GameFrameNbr
      /\ r.confirmed_frame + n \in -1 .. GameFrameNbr - 1
  BY GameFrameNbrAssumption DEF RollbackState, ConfirmFramesDefined, CountersAgree
<1>4. ConfirmFrames(r, n) \in RollbackState
  BY <1>2, <1>3 DEF ConfirmFrames, RollbackState
<1>5. CountersAgree(ConfirmFrames(r, n))
  BY DEF CountersAgree, ConfirmFrames, RollbackState
<1>. QED  BY <1>4, <1>5

(* What SetOtherPlayerInput() takes as the last input is an element of the *)
(* list, not beyond the current frame nor before the last one received.    *)
LEMMA NewLastInputType ==
    ASSUME NEW r \in RollbackState, NEW list \in Seq(FrameInput),
           RemoteInputsDefined(r, list), IsNews(r, list)
    PROVE  /\ NewLastInput(r, list) \in FrameInput
           /\ NewLastInput(r, list).frame_nbr <= r.current_frame
           /\ NewLastInput(r, list).frame_nbr <= Last(list).frame_nbr
           /\ \E i \in 1 .. Len(list) : NewLastInput(r, list) = list[i]
<1>1. /\ Len(list) \in Nat \ {0}
      /\ Last(list) \in FrameInput
      /\ Last(list) = list[Len(list)]
  BY LastType DEF RemoteInputsDefined
<1>2. CASE Last(list).frame_nbr > r.current_frame
  <2>. DEFINE at == FindFrame(list, r.current_frame)
  <2>1. /\ at \in 1 .. Len(list)
        /\ list[at].frame_nbr = r.current_frame
    <3>1. r.current_frame \in Int
      BY FrameCountersAreInt
    <3>2. /\ at \in 1 .. Len(list) + 1
          /\ at <= Len(list) => list[at].frame_nbr = r.current_frame
      BY <3>1, FindFrameProperties
    <3>3. at <= Len(list)
      BY <1>2 DEF RemoteInputsDefined
    <3>. HIDE DEF at
    <3>. QED  BY <1>1, <3>2, <3>3
  <2>2. list[at] \in FrameInput
    BY <2>1, ElementOfSeq
  <2>3. NewLastInput(r, list) = list[at]
    BY <1>2 DEF NewLastInput
  <2>. HIDE DEF at
  <2>. QED  BY <1>1, <1>2, <2>1, <2>2, <2>3 DEF FrameInput, Frame, RollbackState
<1>3. CASE ~ (Last(list).frame_nbr > r.current_frame)
  <2>1. NewLastInput(r, list) = Last(list)
    BY <1>3 DEF NewLastInput
  <2>. QED  BY <1>1, <1>3, <2>1 DEF FrameInput, Frame, RollbackState
<1>. QED  BY <1>2, <1>3

(* The walk over the missing frames stays in the list. *)
LEMMA MissingInputType ==
    ASSUME NEW r \in RollbackState, NEW list \in Seq(FrameInput),
           RemoteInputsDefined(r, list), IsNews(r, list),
           NEW f \in MissingFrames(r, NewLastInput(r, list))
    PROVE  /\ FindFrame(list, r.last_remote_input_frame + 1)
                + f - (r.last_remote_input_frame + 1) \in 1 .. Len(list)
           /\ MissingInput(r, list, f) \in Input
<1>. DEFINE first == FindFrame(list, r.last_remote_input_frame + 1)
            last  == NewLastInput(r, list)
<1>1. Len(list) \in Nat /\ first \in 1 .. Len(list) + 1
  <2>1. r.last_remote_input_frame + 1 \in Int
    BY FrameCountersAreInt
  <2>. QED  BY <2>1, LenProperties, FindFrameProperties
<1>2. last.frame_nbr \in Nat
  <2>1. last \in FrameInput
    BY NewLastInputType
  <2>. QED  BY <2>1 DEF FrameInput, Frame
<1>3. f \in r.last_remote_input_frame + 1 .. last.frame_nbr
  BY DEF MissingFrames
<1>4. first + last.frame_nbr - (r.last_remote_input_frame + 1) <= Len(list)
  BY DEF RemoteInputsDefined
<1>5. first + f - (r.last_remote_input_frame + 1) \in 1 .. Len(list)
  <2>. DEFINE lacking == r.last_remote_input_frame + 1
  <2>1. ASSUME NEW a \in Int, NEW b \in Int, NEW m \in Int, NEW g \in b .. m,
               NEW len \in Int, 1 <= a, a + m - b <= len
        PROVE  a + g - b \in 1 .. len
    BY <2>1
  <2>2. lacking \in Int /\ first \in Int /\ 1 <= first
    BY <1>1, FrameCountersAreInt
  <2>. HIDE DEF first, last, lacking
  <2>3. f \in lacking .. last.frame_nbr /\ first + last.frame_nbr - lacking <= Len(list)
    BY <1>3, <1>4 DEF lacking
  <2>4. first + f - lacking \in 1 .. Len(list)
    BY <1>1, <1>2, <2>1, <2>2, <2>3
  <2>. QED  BY <2>4 DEF lacking
<1>6. list[first + f - (r.last_remote_input_frame + 1)] \in FrameInput
  BY <1>5, ElementOfSeq
<1>. QED  BY <1>5, <1>6 DEF MissingInput, FrameInput

(* The loops of SetOtherPlayerInput() write inside the array.              *)
LEMMA FillInputsType ==
    ASSUME NEW r \in RollbackState, NEW list \in Seq(FrameInput), NEW p \in Player,
           RemoteInputsDefined(r, list), IsNews(r, list)
    PROVE  FillInputs(r, list, p) \in RollbackState
<1>. DEFINE last == NewLastInput(r, list)
            row == [f \in Frame |->
                      IF f \in last.frame_nbr .. r.current_frame THEN last.input
                      ELSE IF f \in MissingFrames(r, last) THEN MissingInput(r, list, f)
                      ELSE r.inputs[p][f]]
<1>1. last.input \in Input
  BY NewLastInputType DEF FrameInput
<1>2. row \in [Frame -> Input]
  BY <1>1, MissingInputType DEF RollbackState
<1>3. FillInputs(r, list, p) = [r EXCEPT !.inputs[p] = row]
  BY DEF FillInputs
<1>. HIDE DEF row
<1>. QED  BY <1>2, <1>3 DEF RollbackState

(* SetOtherPlayerInput().                                                  *)
LEMMA SetOtherPlayerInputType ==
    ASSUME NEW r \in RollbackState, NEW list \in Seq(FrameInput), NEW p \in Player,
           RemoteInputsDefined(r, list)
    PROVE  /\ SetOtherPlayerInput(r, list, p) \in RollbackState
           /\ CountersAgree(r) => CountersAgree(SetOtherPlayerInput(r, list, p))
<1>1. CASE ~ IsNews(r, list)
  BY <1>1 DEF SetOtherPlayerInput
<1>2. CASE IsNews(r, list)
  <2>. DEFINE last   == NewLastInput(r, list)
              filled == FillInputs(r, list, p)
              shown  == IF MustRollback(r, list, p) THEN DoRollback(filled) ELSE filled
  <2>1. filled \in RollbackState
    BY <1>2, FillInputsType
  <2>2. shown \in RollbackState
    BY <2>1, DoRollbackType
  <2>3. CountersAgree(r) => CountersAgree(shown)
    BY DEF CountersAgree, FillInputs, DoRollback, RollbackState
  <2>4. last.input \in Input /\ last.frame_nbr \in -1 .. GameFrameNbr - 1
    <3>1. last \in FrameInput
      BY <1>2, NewLastInputType
    <3>. QED  BY <3>1, GameFrameNbrAssumption DEF FrameInput, Frame
  <2>5. SetOtherPlayerInput(r, list, p) =
          [shown EXCEPT !.last_inputs[p]          = last.input,
                        !.last_remote_input_frame = last.frame_nbr]
    BY <1>2 DEF SetOtherPlayerInput
  <2>6. SetOtherPlayerInput(r, list, p) \in RollbackState
    <3>. DEFINE new == [shown.last_inputs EXCEPT ![p] = last.input]
    <3>1. new \in [Player -> Input]
      <4>1. shown.last_inputs \in [Player -> Input]
        BY <2>2 DEF RollbackState
      <4>. QED  BY <2>4, <4>1
    <3>2. SetOtherPlayerInput(r, list, p) =
            [shown EXCEPT !.last_inputs             = new,
                          !.last_remote_input_frame = last.frame_nbr]
      BY <2>5
    <3>. HIDE DEF last, shown, new
    <3>. QED  BY <2>2, <2>4, <3>1, <3>2 DEF RollbackState
  <2>7. CountersAgree(shown) => CountersAgree(SetOtherPlayerInput(r, list, p))
    <3>. HIDE DEF last, shown
    <3>. QED  BY <2>2, <2>5 DEF CountersAgree, RollbackState
  <2>. QED  BY <2>3, <2>6, <2>7
<1>. QED  BY <1>1, <1>2

(* It moves none of the counters of the frames and confirms nothing. *)
LEMMA SetOtherPlayerInputLeaves ==
    ASSUME NEW r \in RollbackState, NEW list, NEW p \in Player
    PROVE  LET s == SetOtherPlayerInput(r, list, p)
           IN  /\ s.current_frame = r.current_frame
               /\ s.frame_to_confirm = r.frame_to_confirm
               /\ s.confirmed_frame = r.confirmed_frame
               /\ s.confirmed = r.confirmed
<1>. DEFINE filled == FillInputs(r, list, p)
            shown  == IF MustRollback(r, list, p) THEN DoRollback(filled) ELSE filled
<1>1. /\ shown.current_frame = r.current_frame
      /\ shown.frame_to_confirm = r.frame_to_confirm
      /\ shown.confirmed_frame = r.confirmed_frame
      /\ shown.confirmed = r.confirmed
  BY DEF FillInputs, DoRollback, RollbackState
<1>2. DOMAIN shown = DOMAIN r
  BY DEF FillInputs, DoRollback, RollbackState
<1>3. SetOtherPlayerInput(r, list, p) =
        IF IsNews(r, list)
        THEN [shown EXCEPT !.last_inputs[p]          = NewLastInput(r, list).input,
                           !.last_remote_input_frame = NewLastInput(r, list).frame_nbr]
        ELSE r
  BY DEF SetOtherPlayerInput
<1>. HIDE DEF shown
<1>. QED  BY <1>1, <1>2, <1>3 DEF RollbackState

-----------------------------------------------------------------------------
(* The session. *)

(* The manager's counters of player p when its game is at a frame: in the  *)
(* match, the current frame is one of the match's as soon as it has begun. *)
FramesInv ==
    \A p \in Player :
        /\ CountersAgree(rollback[p])
        /\ state[p] = "kInGame" => rollback[p].current_frame < GameFrameNbr
        /\ pc[p] # "loop" => /\ state[p] = "kInGame"
                             /\ rollback[p].current_frame >= 0

TypeInv == TypeOK /\ FramesInv

(* A match begins with well-typed, empty lists.                            *)
LEMMA InitTypeInv == Init => TypeInv
<1>. SUFFICES ASSUME Init PROVE TypeInv
  OBVIOUS
<1>1. << >> \in Seq(FrameInput) /\ << >> \in Seq(Packet)
  BY EmptySeq
<1>2. TypeOK
  BY <1>1, RollbackInitType DEF Init, TypeOK
<1>3. FramesInv
  BY GameFrameNbrAssumption DEF Init, FramesInv, CountersAgree, RollbackInit
<1>. QED  BY <1>2, <1>3 DEF TypeInv

-----------------------------------------------------------------------------
(* What a player raises are packets. *)

(* The packets the two players make.                                       *)
LEMMA PacketTypes ==
    ASSUME NEW list \in Seq(FrameInput), NEW checksum \in GameHistory
    PROVE  /\ InputPacket(list) \in Packet
           /\ ConfirmationPacket(checksum, list) \in Packet
           /\ AckPacket \in Packet
  BY EmptySeq DEF InputPacket, ConfirmationPacket, AckPacket, Packet, GameHistory

(* Raising packets leaves packets under way.                               *)
LEMMA RaiseEventsType ==
    ASSUME TypeOK, NEW p \in Player, NEW packets \in Seq(Packet),
           RaiseEvents(p, packets)
    PROVE  net' \in [Player -> Seq(Packet)]
<1>1. Other(p) \in Player
  BY DEF Other, Player
<1>2. net[Other(p)] \o packets \in Seq(Packet)
  BY <1>1, ConcatProperties DEF TypeOK
<1>. QED  BY <1>2 DEF RaiseEvents, TypeOK

(* A player that is gone keeps its variables.                              *)
LEMMA UndefinedStepTypeInv ==
    ASSUME TypeInv, NEW p \in Player, UndefinedStep(p)
    PROVE  TypeInv'
<1>1. TypeOK'
  BY DEF TypeInv, TypeOK, UndefinedStep
<1>2. FramesInv'
  BY DEF TypeInv, TypeOK, FramesInv, UndefinedStep, CountersAgree
<1>. QED  BY <1>1, <1>2 DEF TypeInv

(* The loop of SendFrameConfirmation() stops at or after the frame to      *)
(* confirm.                                                                *)
LEMMA ConfirmCountType ==
    ASSUME NEW r \in RollbackState, NEW list \in Seq(FrameInput),
           ConfirmStops(r, list) # {}
    PROVE  ConfirmCount(r, list) \in Nat
<1>. DEFINE first == ConfirmFrom(r, list)
<1>1. first \in 1 .. Len(list) + 1 /\ Len(list) \in Nat
  <2>1. r.frame_to_confirm \in Int
    BY FrameCountersAreInt
  <2>. QED  BY <2>1, FindFrameProperties, LenProperties DEF ConfirmFrom
<1>2. ConfirmStops(r, list) \subseteq first .. Len(list) + 1
  BY DEF ConfirmStops
<1>. HIDE DEF first
<1>3. ConfirmStops(r, list) \in SUBSET Nat
  BY <1>1, <1>2
<1>4. Min(ConfirmStops(r, list)) \in first .. Len(list) + 1
  BY <1>2, <1>3, MinProperties
<1>. QED  BY <1>1, <1>4 DEF ConfirmCount, first

(* SendFrameConfirmation() raises packets.                                 *)
LEMMA ConfirmationsType ==
    ASSUME TypeOK, NEW r \in RollbackState, CountersAgree(r),
           NEW n \in Nat, ConfirmFramesDefined(r, n)
    PROVE  Confirmations(r, n) \in Seq(Packet)
<1>1. ASSUME NEW i \in 1 .. n
      PROVE  ConfirmationPacket(CheckSum(ConfirmFrames(r, i)), unacked[Master]) \in Packet
  <2>1. ConfirmFramesDefined(r, i)
    BY GameFrameNbrAssumption DEF ConfirmFramesDefined, RollbackState
  <2>2. ConfirmFrames(r, i) \in RollbackState
    BY <2>1, ConfirmFramesType
  <2>3. CheckSum(ConfirmFrames(r, i)) \in GameHistory
    BY <2>2 DEF CheckSum, RollbackState
  <2>4. unacked[Master] \in Seq(FrameInput)
    BY DEF TypeOK, Master, Player
  <2>. QED  BY <2>3, <2>4, PacketTypes
<1>2. Confirmations(r, n) \in [1 .. n -> Packet]
  BY <1>1 DEF Confirmations
<1>. QED  BY <1>2, SeqDef

(* The frames it confirms are frames of the match.                         *)
LEMMA PrematureFramesType ==
    ASSUME NEW r \in RollbackState, NEW n \in Nat, ConfirmFramesDefined(r, n)
    PROVE  PrematureFrames(r, n) \subseteq Frame
  BY GameFrameNbrAssumption
  DEF PrematureFrames, ConfirmFramesDefined, RollbackState, Frame
-----------------------------------------------------------------------------
(* Every step keeps the type invariant. *)

(* A step of player p that leaves the counters of the other alone: what it *)
(* must establish for FramesInv.                                           *)
LEMMA FramesInvOfPlayer ==
    ASSUME TypeInv, NEW p \in Player, NEW r \in RollbackState,
           rollback' = [rollback EXCEPT ![p] = r],
           CountersAgree(r),
           r.current_frame = rollback[p].current_frame,
           UNCHANGED state,
           \A q \in Player : pc'[q] # "loop" => pc[q] # "loop"
    PROVE  FramesInv'
  BY DEF TypeInv, TypeOK, FramesInv

(* Service(), an event arrives.                                            *)
LEMMA ReceiveEventTypeInv ==
    ASSUME TypeInv, NEW p \in Player, ReceiveEvent(p)
    PROVE  TypeInv'
<1>1. Head(net[p]) \in Packet /\ Tail(net[p]) \in Seq(Packet)
  BY HeadTailProperties DEF TypeInv, TypeOK, ReceiveEvent
<1>2. Push(packet_queue[p], Head(net[p])) \in Seq(Packet)
  BY <1>1, AppendProperties DEF TypeInv, TypeOK, Push
<1>3. TypeOK'
  BY <1>1, <1>2 DEF TypeInv, TypeOK, ReceiveEvent
<1>4. FramesInv'
  BY DEF TypeInv, FramesInv, ReceiveEvent
<1>. QED  BY <1>3, <1>4 DEF TypeInv

(* The network loses an event.                                             *)
LEMMA LoseEventTypeInv ==
    ASSUME TypeInv, NEW p \in Player, LoseEvent(p)
    PROVE  TypeInv'
<1>1. Tail(net[p]) \in Seq(Packet)
  BY HeadTailProperties DEF TypeInv, TypeOK, LoseEvent
<1>2. TypeOK'
  BY <1>1 DEF TypeInv, TypeOK, LoseEvent
<1>3. FramesInv'
  BY DEF TypeInv, FramesInv, LoseEvent
<1>. QED  BY <1>2, <1>3 DEF TypeInv

(* The frame counter never passes the length of the match.                 *)
LEMMA BeginFrameTypeInv ==
    ASSUME TypeInv, NEW p \in Player, BeginFrame(p)
    PROVE  TypeInv'
<1>. DEFINE next == IncreaseCurrentFrame(rollback[p])
<1>1. rollback[p] \in RollbackState /\ rollback[p].current_frame < GameFrameNbr
  BY DEF TypeInv, TypeOK, FramesInv, BeginFrame
<1>2. /\ next.current_frame = rollback[p].current_frame + 1
      /\ next.current_frame \in 0 .. GameFrameNbr
  BY <1>1, GameFrameNbrAssumption DEF IncreaseCurrentFrame, RollbackState
<1>3. next \in RollbackState
  BY <1>1, <1>2 DEF IncreaseCurrentFrame, RollbackState
<1>4. CountersAgree(next)
  BY <1>1 DEF TypeInv, FramesInv, CountersAgree, IncreaseCurrentFrame, RollbackState
<1>5. /\ rollback' = [rollback EXCEPT ![p] = next]
      /\ UNCHANGED <<unacked, packet_queue, premature>>
      /\ BetweenFrames /\ state[p] = "kInGame"
  BY DEF BeginFrame
<1>. HIDE DEF next
<1>6. CASE MatchIsOver(next)
  <2>1. /\ state' = [state EXCEPT ![p] = "kGameFinished"]
        /\ net' = [net EXCEPT ![p] = << >>]
        /\ UNCHANGED pc
    BY <1>6 DEF BeginFrame, next
  <2>2. TypeOK'
    BY <1>3, <1>5, <2>1, EmptySeq DEF TypeInv, TypeOK
  <2>3. FramesInv'
    BY <1>4, <1>5, <2>1 DEF TypeInv, TypeOK, FramesInv, BetweenFrames
  <2>. QED  BY <2>2, <2>3 DEF TypeInv
<1>7. CASE ~ MatchIsOver(next)
  <2>1. /\ pc' = [pc EXCEPT ![p] = "packets"]
        /\ UNCHANGED <<state, net>>
    BY <1>7 DEF BeginFrame, next
  <2>2. next.current_frame < GameFrameNbr /\ next.current_frame >= 0
    BY <1>2, <1>7, GameFrameNbrAssumption DEF MatchIsOver
  <2>3. TypeOK'
    BY <1>3, <1>5, <2>1 DEF TypeInv, TypeOK
  <2>4. FramesInv'
    BY <1>4, <1>5, <2>1, <2>2 DEF TypeInv, TypeOK, FramesInv, BetweenFrames
  <2>. QED  BY <2>3, <2>4 DEF TypeInv
<1>. QED  BY <1>6, <1>7

(* What a player finds in front of its queue. *)
LEMMA FrontPacketType ==
    ASSUME TypeInv, NEW p \in Player, NEW type, Handling(p, type)
    PROVE  /\ FrontPacket(p) \in Packet
           /\ Tail(packet_queue[p]) \in Seq(Packet)
           /\ FrontPacket(p).frames \in Seq(FrameInput)
           /\ FrontPacket(p).checksum \in GameHistory
<1>1. FrontPacket(p) \in Packet /\ Tail(packet_queue[p]) \in Seq(Packet)
  BY HeadTailProperties DEF TypeInv, TypeOK, Handling, FrontPacket
<1>. QED  BY <1>1 DEF Packet

(* HandlePacket(), an input packet.                                        *)
LEMMA HandleInputTypeInv ==
    ASSUME TypeInv, NEW p \in Player, HandleInput(p)
    PROVE  TypeInv'
<1>. DEFINE list  == FrontPacket(p).frames
            r     == SetOtherPlayerInput(rollback[p], list, Other(p))
            count == IF p = Master THEN ConfirmCount(r, list) ELSE 0
<1>1. /\ list \in Seq(FrameInput)
      /\ Tail(packet_queue[p]) \in Seq(Packet)
  BY FrontPacketType DEF HandleInput
<1>2. rollback[p] \in RollbackState /\ CountersAgree(rollback[p]) /\ TypeOK
  BY DEF TypeInv, TypeOK, FramesInv
<1>3. Other(p) \in Player
  BY DEF Other, Player
<1>4. CASE IsOld(rollback[p], list)
  <2>1. /\ ReturnFromHandlePacket(p)
        /\ UNCHANGED <<rollback, unacked, packet_queue, net, state, premature>>
        /\ pc[p] = "packets"
    BY <1>4 DEF HandleInput, Handling
  <2>2. TypeOK'
    BY <2>1 DEF TypeInv, TypeOK, ReturnFromHandlePacket
  <2>3. FramesInv'
    BY <2>1 DEF TypeInv, TypeOK, FramesInv, ReturnFromHandlePacket
  <2>. QED  BY <2>2, <2>3 DEF TypeInv
<1>5. CASE /\ ~ IsOld(rollback[p], list)
           /\ RemoteInputsDefined(rollback[p], list)
           /\ p = Master => ConfirmationDefined(r, list)
  <2>1. /\ rollback' = [rollback EXCEPT ![p] = ConfirmFrames(r, count)]
        /\ RaiseEvents(p, Confirmations(r, count))
        /\ premature' = premature \cup PrematureFrames(r, count)
        /\ PopPacket(p)
        /\ UNCHANGED <<unacked, state, pc>>
    BY <1>5 DEF HandleInput
  <2>2. /\ r \in RollbackState
        /\ CountersAgree(r)
        /\ r.current_frame = rollback[p].current_frame
    BY <1>1, <1>2, <1>3, <1>5, SetOtherPlayerInputType, SetOtherPlayerInputLeaves
  <2>. HIDE DEF list, r
  <2>3. count \in Nat /\ ConfirmFramesDefined(r, count)
    <3>1. CASE p = Master
      BY <1>1, <1>5, <2>2, <3>1, ConfirmCountType DEF ConfirmationDefined
    <3>2. CASE p # Master
      BY <2>2, <3>2, GameFrameNbrAssumption DEF ConfirmFramesDefined, RollbackState
    <3>. QED  BY <3>1, <3>2
  <2>. HIDE DEF count
  <2>4. /\ ConfirmFrames(r, count) \in RollbackState
        /\ CountersAgree(ConfirmFrames(r, count))
    BY <2>2, <2>3, ConfirmFramesType
  <2>5. ConfirmFrames(r, count).current_frame = rollback[p].current_frame
    BY <2>2 DEF ConfirmFrames, RollbackState
  <2>6. net' \in [Player -> Seq(Packet)]
    BY <1>2, <2>1, <2>2, <2>3, ConfirmationsType, RaiseEventsType
  <2>7. premature' \in SUBSET Frame
    BY <1>2, <2>1, <2>2, <2>3, PrematureFramesType DEF TypeOK
  <2>8. TypeOK'
    BY <1>1, <1>2, <2>1, <2>4, <2>6, <2>7 DEF TypeOK, PopPacket
  <2>9. FramesInv'
    BY <2>1, <2>4, <2>5, FramesInvOfPlayer
  <2>. QED  BY <2>8, <2>9 DEF TypeInv
<1>6. CASE /\ ~ IsOld(rollback[p], list)
           /\ ~ (/\ RemoteInputsDefined(rollback[p], list)
                 /\ p = Master => ConfirmationDefined(r, list))
  <2>1. UndefinedStep(p)
    BY <1>6 DEF HandleInput
  <2>. QED  BY <2>1, UndefinedStepTypeInv
<1>. QED  BY <1>4, <1>5, <1>6

(* HandlePacket() of the master, an acknowledgement.                       *)
LEMMA HandleAckTypeInv ==
    ASSUME TypeInv, HandleAck
    PROVE  TypeInv'
<1>1. Master \in Player
  BY DEF Master, Player
<1>2. CASE unacked[Master] # << >>
  <2>1. /\ unacked' = [unacked EXCEPT ![Master] = EraseOldest(@)]
        /\ PopPacket(Master)
        /\ UNCHANGED <<rollback, net, state, pc, premature>>
    BY <1>2 DEF HandleAck
  <2>2. EraseOldest(unacked[Master]) \in Seq(FrameInput)
    BY <1>1, <1>2, HeadTailProperties DEF TypeInv, TypeOK, EraseOldest
  <2>3. Tail(packet_queue[Master]) \in Seq(Packet)
    BY <1>1, FrontPacketType DEF HandleAck
  <2>4. TypeOK'
    BY <2>1, <2>2, <2>3 DEF TypeInv, TypeOK, PopPacket
  <2>5. FramesInv'
    BY <2>1 DEF TypeInv, FramesInv
  <2>. QED  BY <2>4, <2>5 DEF TypeInv
<1>3. CASE unacked[Master] = << >>
  BY <1>1, <1>3, UndefinedStepTypeInv DEF HandleAck
<1>. QED  BY <1>2, <1>3

(* The follower's manager after it took and confirmed what a confirmation  *)
(* brings.                                                                 *)
LEMMA ConfirmedByFollowerType ==
    ASSUME TypeInv, NEW packet \in Packet, ConfirmedByFollowerDefined(packet)
    PROVE  /\ ConfirmedByFollower(packet) \in RollbackState
           /\ CountersAgree(ConfirmedByFollower(packet))
           /\ ConfirmedByFollower(packet).current_frame
                = rollback[Follower].current_frame
<1>. DEFINE r == rollback[Follower]
            s == IF r.last_remote_input_frame < Last(packet.frames).frame_nbr
                 THEN SetOtherPlayerInput(r, packet.frames, Master)
                 ELSE r
<1>1. r \in RollbackState /\ CountersAgree(r)
  BY DEF TypeInv, TypeOK, FramesInv, Follower, Player
<1>2. packet.frames \in Seq(FrameInput) /\ Master \in Player
  BY DEF Packet, Master, Player
<1>3. RemoteInputsDefined(r, packet.frames) /\ ConfirmFramesDefined(r, 1)
  BY DEF ConfirmedByFollowerDefined
<1>. HIDE DEF r
<1>4. /\ s \in RollbackState
      /\ CountersAgree(s)
      /\ s.current_frame = r.current_frame
      /\ s.frame_to_confirm = r.frame_to_confirm
  BY <1>1, <1>2, <1>3, SetOtherPlayerInputType, SetOtherPlayerInputLeaves
<1>. HIDE DEF s
<1>5. ConfirmFramesDefined(s, 1)
  BY <1>3, <1>4 DEF ConfirmFramesDefined
<1>6. /\ ConfirmFrames(s, 1) \in RollbackState
      /\ CountersAgree(ConfirmFrames(s, 1))
  BY <1>4, <1>5, ConfirmFramesType
<1>7. ConfirmFrames(s, 1).current_frame = r.current_frame
  BY <1>4 DEF ConfirmFrames, RollbackState
<1>. QED  BY <1>6, <1>7 DEF ConfirmedByFollower, ConfirmFrame, r, s

(* HandlePacket() of the follower, a confirmation.                         *)
LEMMA HandleConfirmationTypeInv ==
    ASSUME TypeInv, HandleConfirmation
    PROVE  TypeInv'
<1>. DEFINE packet == FrontPacket(Follower)
            r      == ConfirmedByFollower(packet)
            equal  == CheckSum(r) = packet.checksum
<1>1. Follower \in Player /\ TypeOK
  BY DEF Follower, Player, TypeInv
<1>2. packet \in Packet /\ Tail(packet_queue[Follower]) \in Seq(Packet)
  BY <1>1, FrontPacketType DEF HandleConfirmation
<1>3. CASE /\ ConfirmedByFollowerDefined(packet)
           /\ equal => unacked[Follower] # << >>
  <2>1. /\ rollback' = [rollback EXCEPT ![Follower] = r]
        /\ IF equal
           THEN /\ RaiseEvents(Follower, <<AckPacket>>)
                /\ unacked' = [unacked EXCEPT ![Follower] = EraseOldest(@)]
                /\ PopPacket(Follower)
                /\ UNCHANGED pc
           ELSE /\ ReturnFromHandlePacket(Follower)
                /\ UNCHANGED <<unacked, packet_queue, net>>
        /\ UNCHANGED <<state, premature>>
        /\ pc[Follower] = "packets"
    BY <1>3 DEF HandleConfirmation, Handling
  <2>2. /\ r \in RollbackState
        /\ CountersAgree(r)
        /\ r.current_frame = rollback[Follower].current_frame
    BY <1>2, <1>3, ConfirmedByFollowerType
  <2>. HIDE DEF packet, r, equal
  <2>3. CASE equal
    <3>1. <<AckPacket>> \in Seq(Packet)
      <4>1. AckPacket \in Packet
        BY EmptySeq DEF AckPacket, ConfirmationPacket, Packet, GameHistory
      <4>. QED  BY <4>1
    <3>2. net' \in [Player -> Seq(Packet)]
      BY <1>1, <2>1, <2>3, <3>1, RaiseEventsType
    <3>3. EraseOldest(unacked[Follower]) \in Seq(FrameInput)
      BY <1>1, <1>3, <2>3, HeadTailProperties DEF TypeOK, EraseOldest
    <3>4. TypeOK'
      BY <1>1, <1>2, <2>1, <2>2, <2>3, <3>2, <3>3 DEF TypeOK, PopPacket
    <3>5. FramesInv'
      BY <1>1, <2>1, <2>2, <2>3, FramesInvOfPlayer
    <3>. QED  BY <3>4, <3>5 DEF TypeInv
  <2>4. CASE ~ equal
    <3>1. /\ pc' = [pc EXCEPT ![Follower] = "sample"]
          /\ UNCHANGED <<unacked, packet_queue, net>>
      BY <2>1, <2>4 DEF ReturnFromHandlePacket
    <3>2. TypeOK'
      BY <1>1, <2>1, <2>2, <3>1 DEF TypeOK
    <3>3. \A q \in Player : pc'[q] # "loop" => pc[q] # "loop"
      BY <1>1, <2>1, <3>1 DEF TypeOK
    <3>4. FramesInv'
      BY <1>1, <2>1, <2>2, <3>3, FramesInvOfPlayer
    <3>. QED  BY <3>2, <3>4 DEF TypeInv
  <2>. QED  BY <2>3, <2>4
<1>4. CASE ~ (/\ ConfirmedByFollowerDefined(packet)
              /\ equal => unacked[Follower] # << >>)
  <2>1. UndefinedStep(Follower)
    BY <1>4 DEF HandleConfirmation
  <2>. QED  BY <1>1, <2>1, UndefinedStepTypeInv
<1>. QED  BY <1>3, <1>4

(* The sampled input is written inside the arrays.                         *)
LEMMA EndFrameTypeInv ==
    ASSUME TypeInv, NEW p \in Player, EndFrame(p)
    PROVE  TypeInv'
<1>1. PICK input \in Input :
          LET sampled == SetPlayerInput(rollback[p], p, input)
              list    == Append(unacked[p],
                                [input     |-> input,
                                 frame_nbr |-> rollback[p].current_frame])
          IN  /\ rollback' = [rollback EXCEPT ![p] = UpdateGame(sampled)]
              /\ unacked' = [unacked EXCEPT ![p] = list]
              /\ RaiseEvents(p, <<InputPacket(list)>>)
  BY DEF EndFrame
<1>. DEFINE sampled == SetPlayerInput(rollback[p], p, input)
            list    == Append(unacked[p],
                              [input     |-> input,
                               frame_nbr |-> rollback[p].current_frame])
<1>2. /\ rollback[p] \in RollbackState
      /\ CountersAgree(rollback[p])
      /\ rollback[p].current_frame \in Frame
      /\ TypeOK
  <2>1. rollback[p] \in RollbackState /\ CountersAgree(rollback[p]) /\ TypeOK
    BY DEF TypeInv, TypeOK, FramesInv
  <2>2. pc[p] # "loop"
    BY DEF EndFrame
  <2>3. rollback[p].current_frame >= 0 /\ rollback[p].current_frame < GameFrameNbr
    BY <2>2 DEF TypeInv, FramesInv
  <2>. QED  BY <2>1, <2>3, FrameCountersAreInt, GameFrameNbrAssumption DEF Frame
<1>3. UpdateGame(sampled) \in RollbackState
  BY <1>2, SetPlayerInputType, UpdateGameType
<1>4. /\ CountersAgree(UpdateGame(sampled))
      /\ UpdateGame(sampled).current_frame = rollback[p].current_frame
  BY <1>2 DEF CountersAgree, UpdateGame, SetPlayerInput, RollbackState
<1>5. list \in Seq(FrameInput)
  <2>1. [input |-> input, frame_nbr |-> rollback[p].current_frame] \in FrameInput
    BY <1>2 DEF FrameInput
  <2>. QED  BY <1>2, <2>1, AppendProperties DEF TypeOK
<1>. HIDE DEF sampled, list
<1>6. <<InputPacket(list)>> \in Seq(Packet)
  <2>1. InputPacket(list) \in Packet
    BY <1>5, EmptySeq DEF InputPacket, Packet, GameHistory
  <2>. QED  BY <2>1
<1>7. net' \in [Player -> Seq(Packet)]
  BY <1>1, <1>2, <1>6, RaiseEventsType DEF list
<1>8. /\ rollback' = [rollback EXCEPT ![p] = UpdateGame(sampled)]
      /\ unacked' = [unacked EXCEPT ![p] = list]
      /\ pc' = [pc EXCEPT ![p] = "loop"]
      /\ UNCHANGED <<packet_queue, state, premature>>
  BY <1>1 DEF EndFrame, sampled, list
<1>9. TypeOK'
  BY <1>2, <1>3, <1>5, <1>7, <1>8 DEF TypeOK
<1>10. FramesInv'
  BY <1>2, <1>3, <1>4, <1>8, FramesInvOfPlayer DEF TypeOK
<1>. QED  BY <1>9, <1>10 DEF TypeInv

(* All the steps together.                                                 *)
LEMMA NextTypeInv ==
    ASSUME TypeInv, [Next]_vars
    PROVE  TypeInv'
<1>1. ASSUME NEW p \in Player, ReceiveEvent(p)
      PROVE  TypeInv'
  BY <1>1, ReceiveEventTypeInv
<1>2. ASSUME NEW p \in Player, LoseEvent(p)
      PROVE  TypeInv'
  BY <1>2, LoseEventTypeInv
<1>3. ASSUME NEW p \in Player, BeginFrame(p)
      PROVE  TypeInv'
  BY <1>3, BeginFrameTypeInv
<1>4. ASSUME NEW p \in Player, HandleInput(p)
      PROVE  TypeInv'
  BY <1>4, HandleInputTypeInv
<1>5. CASE HandleAck
  BY <1>5, HandleAckTypeInv
<1>6. CASE HandleConfirmation
  BY <1>6, HandleConfirmationTypeInv
<1>7. ASSUME NEW p \in Player, EndFrame(p)
      PROVE  TypeInv'
  BY <1>7, EndFrameTypeInv
<1>8. CASE UNCHANGED vars
  BY <1>8 DEF vars, TypeInv, TypeOK, FramesInv
<1>. QED  BY <1>1, <1>2, <1>3, <1>4, <1>5, <1>6, <1>7, <1>8
          DEF Next, FrameStep, MatchOver

(* The variables keep their types in every match: no frame number leaves   *)
(* the arrays, and no counter passes the length of the match.              *)
THEOREM TypeCorrect == Spec => []TypeOK
<1>1. Init => TypeInv
  BY InitTypeInv
<1>2. TypeInv /\ [Next]_vars => TypeInv'
  BY NextTypeInv
<1>3. TypeInv => TypeOK
  BY DEF TypeInv
<1>. QED  BY <1>1, <1>2, <1>3, PTL DEF Spec
=============================================================================
