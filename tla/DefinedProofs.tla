---------------------------- MODULE DefinedProofs ----------------------------
(***************************************************************************)
(* Before a premature confirmation no step of a match is undefined in C++, *)
(* each player keeps exactly the inputs that are not acknowledged, and the *)
(* game on the screen is the one a run from the start would show: the      *)
(* proofs of NoUndefinedStep, UnackedAreTheUnconfirmed and                 *)
(* SpeculationExact, for every length of a match and every set of inputs.  *)
(***************************************************************************)
EXTENDS ConfirmedProofs

(* The acknowledgements under way, like the confirmations, are numbered.   *)
Counted(packets, first, last) ==
    \E number \in [0 .. Len(packets) -> Int] : Numbered(number, packets, first, last)

(* A list that begins no later than the frame after one confirmed. *)
Reaches(list, confirmed) == list # << >> /\ list[1].frame_nbr <= confirmed + 1

(* The packets to player p that carry inputs do. *)
AllReach(packets, p, confirmed) ==
    \A i \in 1 .. Len(packets) :
        packets[i].type = "kInput" \/ p = Follower => Reaches(packets[i].frames, confirmed)

-----------------------------------------------------------------------------
(* Numbered packets, as they come and go. *)

(* Without the first packet. *)
LEMMA CountedWithoutFirst ==
    ASSUME NEW packets \in Seq(Packet), packets # << >>, NEW first, NEW last,
           Counted(packets, first, last)
    PROVE  Counted(Tail(packets), IF Counts(packets[1]) THEN first + 1 ELSE first, last)
<1>1. PICK number \in [0 .. Len(packets) -> Int] : Numbered(number, packets, first, last)
  BY DEF Counted
<1>. DEFINE later == [i \in 0 .. Len(packets) - 1 |-> number[i + 1]]
<1>2. /\ Numbered(later, Tail(packets), number[1], last)
      /\ number[1] = IF Counts(packets[1]) THEN first + 1 ELSE first
  BY <1>1, NumberedWithoutFirst
<1>. HIDE DEF later
<1>3. later \in [0 .. Len(Tail(packets)) -> Int]
  BY <1>2 DEF Numbered
<1>. QED  BY <1>2, <1>3 DEF Counted

(* With packets raised behind them. *)
LEMMA CountedWithMore ==
    ASSUME NEW packets \in Seq(Packet), NEW raised \in Seq(Packet),
           NEW first, NEW middle, NEW last,
           Counted(packets, first, middle), Counted(raised, middle, last)
    PROVE  Counted(packets \o raised, first, last)
<1>1. PICK number \in [0 .. Len(packets) -> Int] : Numbered(number, packets, first, middle)
  BY DEF Counted
<1>2. PICK more \in [0 .. Len(raised) -> Int] : Numbered(more, raised, middle, last)
  BY DEF Counted
<1>. DEFINE all == [i \in 0 .. Len(packets) + Len(raised) |->
                       IF i <= Len(packets) THEN number[i] ELSE more[i - Len(packets)]]
<1>3. Numbered(all, packets \o raised, first, last)
  BY <1>1, <1>2, NumberedWithMore
<1>. HIDE DEF all
<1>. QED  BY <1>3 DEF Counted, Numbered

(* A queue and what follows it. *)
LEMMA CountedParts ==
    ASSUME NEW packets \in Seq(Packet), NEW others \in Seq(Packet), NEW first, NEW last,
           Counted(packets \o others, first, last)
    PROVE  \E middle \in Int :
              Counted(packets, first, middle) /\ Counted(others, middle, last)
<1>1. PICK number \in [0 .. Len(packets \o others) -> Int] :
         Numbered(number, packets \o others, first, last)
  BY DEF Counted
<1>. DEFINE left   == [i \in 0 .. Len(packets) |-> number[i]]
            right  == [i \in 0 .. Len(others) |-> number[Len(packets) + i]]
            middle == number[Len(packets)]
<1>2. /\ Numbered(left, packets, first, middle)
      /\ Numbered(right, others, middle, last)
  BY <1>1, NumberedParts
<1>3. middle \in Int
  <2>1. Len(packets) \in 0 .. Len(packets \o others)
    BY ConcatProperties, LenProperties
  <2>. QED  BY <1>1, <2>1
<1>. HIDE DEF left, right, middle
<1>. QED  BY <1>2, <1>3 DEF Counted, Numbered

(* A loss among those that do not count. *)
LEMMA CountedWithLoss ==
    ASSUME NEW queue \in Seq(Packet), NEW way \in Seq(Packet), way # << >>,
           ~ Counts(Head(way)), NEW first, NEW last,
           Counted(queue \o way, first, last)
    PROVE  Counted(queue \o Tail(way), first, last)
<1>1. PICK middle \in Int : Counted(queue, first, middle) /\ Counted(way, middle, last)
  BY CountedParts
<1>2. Tail(way) \in Seq(Packet) /\ Head(way) = way[1]
  BY HeadTailProperties
<1>3. Counted(Tail(way), middle, last)
  BY <1>1, <1>2, CountedWithoutFirst
<1>. QED  BY <1>1, <1>2, <1>3, CountedWithMore

(* A single packet. *)
LEMMA CountedOne ==
    ASSUME NEW packet \in Packet, NEW first \in Int
    PROVE  Counted(<<packet>>, first, IF Counts(packet) THEN first + 1 ELSE first)
<1>. DEFINE last   == IF Counts(packet) THEN first + 1 ELSE first
            number == [i \in 0 .. 1 |-> IF i = 0 THEN first ELSE last]
<1>1. Len(<<packet>>) = 1 /\ <<packet>>[1] = packet
  OBVIOUS
<1>2. last \in Int /\ (last = IF Counts(packet) THEN first + 1 ELSE first)
  OBVIOUS
<1>. HIDE DEF last
<1>3. number \in [0 .. 1 -> Int] /\ number[0] = first /\ number[1] = last
  BY <1>2
<1>. HIDE DEF number
<1>4. Numbered(number, <<packet>>, first, last)
  BY <1>1, <1>2, <1>3 DEF Numbered
<1>. QED  BY <1>1, <1>3, <1>4 DEF Counted, last

(* Numbers do not go down. *)
LEMMA CountedOrdered ==
    ASSUME NEW packets \in Seq(Packet), NEW first \in Int, NEW last \in Int,
           Counted(packets, first, last)
    PROVE  first <= last
<1>. DEFINE counted == {i \in DOMAIN packets : Counts(packets[i])}
<1>1. Cardinality(counted) = last - first
  BY CountedPackets DEF Counted
<1>2. IsFiniteSet(counted)
  <2>1. counted \subseteq 1 .. Len(packets) /\ Len(packets) \in Nat
    BY LenProperties
  <2>2. IsFiniteSet(1 .. Len(packets))
    BY <2>1, FS_Interval
  <2>. QED  BY <2>1, <2>2, FS_Subset
<1>3. Cardinality(counted) \in Nat
  BY <1>2, FS_CardinalityType
<1>. HIDE DEF counted
<1>. QED  BY <1>1, <1>3

-----------------------------------------------------------------------------
(* Packets that reach, as they come and go. *)

(* Without the first packet. *)
LEMMA ReachWithoutFirst ==
    ASSUME NEW packets \in Seq(Packet), packets # << >>, NEW p, NEW confirmed,
           AllReach(packets, p, confirmed)
    PROVE  AllReach(Tail(packets), p, confirmed)
<1>1. /\ Len(packets) \in Nat \ {0}
      /\ Len(Tail(packets)) = Len(packets) - 1
      /\ \A i \in 1 .. Len(Tail(packets)) : Tail(packets)[i] = packets[i + 1]
  BY HeadTailProperties, EmptySeq
<1>2. ASSUME NEW i \in 1 .. Len(Tail(packets))
      PROVE  i + 1 \in 1 .. Len(packets) /\ Tail(packets)[i] = packets[i + 1]
  BY <1>1
<1>. QED  BY <1>2 DEF AllReach

(* With packets behind them. *)
LEMMA ReachWithMore ==
    ASSUME NEW packets \in Seq(Packet), NEW raised \in Seq(Packet), NEW p, NEW confirmed,
           AllReach(packets, p, confirmed), AllReach(raised, p, confirmed)
    PROVE  AllReach(packets \o raised, p, confirmed)
<1>1. /\ Len(packets) \in Nat /\ Len(raised) \in Nat
      /\ Len(packets \o raised) = Len(packets) + Len(raised)
      /\ \A i \in 1 .. Len(packets) + Len(raised) :
            (packets \o raised)[i] =
                IF i <= Len(packets) THEN packets[i] ELSE raised[i - Len(packets)]
  BY ConcatProperties, LenProperties
<1>2. ASSUME NEW i \in 1 .. Len(packets \o raised)
      PROVE  \/ i \in 1 .. Len(packets) /\ (packets \o raised)[i] = packets[i]
             \/ /\ i - Len(packets) \in 1 .. Len(raised)
                /\ (packets \o raised)[i] = raised[i - Len(packets)]
  BY <1>1
<1>. QED  BY <1>2 DEF AllReach

(* Of a queue and what follows it. *)
LEMMA ReachParts ==
    ASSUME NEW queue \in Seq(Packet), NEW way \in Seq(Packet), NEW p, NEW confirmed,
           AllReach(queue \o way, p, confirmed)
    PROVE  AllReach(queue, p, confirmed) /\ AllReach(way, p, confirmed)
<1>1. /\ Len(queue) \in Nat /\ Len(way) \in Nat
      /\ Len(queue \o way) = Len(queue) + Len(way)
      /\ \A i \in 1 .. Len(queue) + Len(way) :
            (queue \o way)[i] = IF i <= Len(queue) THEN queue[i] ELSE way[i - Len(queue)]
  BY ConcatProperties, LenProperties
<1>2. \A i \in 1 .. Len(queue) :
         i \in 1 .. Len(queue \o way) /\ (queue \o way)[i] = queue[i]
  BY <1>1
<1>3. \A i \in 1 .. Len(way) : /\ Len(queue) + i \in 1 .. Len(queue \o way)
                               /\ (queue \o way)[Len(queue) + i] = way[i]
  BY <1>1
<1>. QED  BY <1>2, <1>3 DEF AllReach

(* With a loss. *)
LEMMA ReachWithLoss ==
    ASSUME NEW queue \in Seq(Packet), NEW way \in Seq(Packet), way # << >>,
           NEW p, NEW confirmed, AllReach(queue \o way, p, confirmed)
    PROVE  AllReach(queue \o Tail(way), p, confirmed)
<1>1. Tail(way) \in Seq(Packet)
  BY HeadTailProperties
<1>. QED  BY <1>1, ReachParts, ReachWithoutFirst, ReachWithMore

(* When more is confirmed. *)
LEMMA ReachLater ==
    ASSUME NEW packets \in Seq(Packet), NEW p, NEW confirmed \in Int, NEW later \in Int,
           confirmed <= later, AllReach(packets, p, confirmed)
    PROVE  AllReach(packets, p, later)
<1>. SUFFICES ASSUME NEW i \in 1 .. Len(packets), Reaches(packets[i].frames, confirmed)
              PROVE  Reaches(packets[i].frames, later)
  BY DEF AllReach
<1>1. packets[i].frames \in Seq(FrameInput) /\ packets[i].frames # << >>
  BY FramesOfPacket DEF Reaches
<1>2. 1 \in 1 .. Len(packets[i].frames)
  BY <1>1, EmptySeq, LenProperties
<1>3. packets[i].frames[1].frame_nbr \in Int
  BY <1>1, <1>2, FrameOfElement
<1>. QED  BY <1>3 DEF Reaches

-----------------------------------------------------------------------------
(* Lists whose iterators are defined. *)

(* Where std::find_if finds a frame in a slice.                            *)
LEMMA SlicePosition ==
    ASSUME NEW list \in Seq(FrameInput), NEW inputs, NEW count, Slice(list, inputs, count),
           list # << >>, NEW frame \in Int,
           list[1].frame_nbr <= frame, frame <= Last(list).frame_nbr
    PROVE  /\ FindFrame(list, frame) = frame - list[1].frame_nbr + 1
           /\ FindFrame(list, frame) \in 1 .. Len(list)
<1>1. Len(list) \in Nat \ {0} /\ 1 \in 1 .. Len(list)
  BY EmptySeq, LenProperties
<1>2. list[1].frame_nbr \in Int
  BY <1>1, FrameOfElement
<1>3. Last(list).frame_nbr = list[1].frame_nbr + Len(list) - 1
  BY <1>1, SliceUpToLast
<1>. DEFINE at == frame - list[1].frame_nbr + 1
            found == FindFrame(list, frame)
<1>4. at \in 1 .. Len(list)
  BY <1>1, <1>2, <1>3
<1>5. list[at].frame_nbr = list[1].frame_nbr + at - 1
  BY <1>4 DEF Slice
<1>6. list[at].frame_nbr = frame
  BY <1>2, <1>5
<1>7. /\ found \in 1 .. Len(list) + 1
      /\ found <= Len(list) => list[found].frame_nbr = frame
      /\ found <= at
  BY <1>4, <1>6, FindFrameProperties
<1>. HIDE DEF found
<1>8. found \in 1 .. Len(list)
  BY <1>1, <1>4, <1>7
<1>9. list[found].frame_nbr = list[1].frame_nbr + found - 1
  BY <1>8 DEF Slice
<1>. QED  BY <1>2, <1>7, <1>8, <1>9 DEF found

(* A list that begins no later than the next frame to receive is walked    *)
(* within its bounds.                                                      *)
LEMMA ListIsDefined ==
    ASSUME NEW r \in RollbackState, NEW list \in Seq(FrameInput), list # << >>,
           NEW inputs, NEW count, Slice(list, inputs, count),
           list[1].frame_nbr <= r.last_remote_input_frame + 1,
           list[1].frame_nbr <= r.current_frame
    PROVE  RemoteInputsDefined(r, list)
<1>. DEFINE first   == list[1].frame_nbr
            newest  == Last(list).frame_nbr
            lacking == r.last_remote_input_frame + 1
            last    == NewLastInput(r, list).frame_nbr
<1>1. Len(list) \in Nat \ {0} /\ 1 \in 1 .. Len(list)
  BY EmptySeq, LenProperties
<1>2. /\ first \in Int /\ r.current_frame \in Int /\ r.last_remote_input_frame \in Int
      /\ lacking \in Int
  BY <1>1, FrameOfElement, FrameCountersAreInt
<1>3. newest = first + Len(list) - 1 /\ newest \in Int
  BY <1>1, <1>2, SliceUpToLast
<1>. SUFFICES ASSUME IsNews(r, list)
              PROVE  /\ newest > r.current_frame => FindFrame(list, r.current_frame) <= Len(list)
                     /\ FindFrame(list, lacking) + last - lacking <= Len(list)
  BY DEF RemoteInputsDefined
<1>4. first <= lacking /\ lacking <= newest
  BY <1>2, <1>3 DEF IsNews
<1>5. FindFrame(list, lacking) = lacking - first + 1
  <2>. HIDE DEF lacking
  <2>. QED  BY <1>2, <1>4, SlicePosition
<1>6. CASE newest > r.current_frame
  <2>. DEFINE at == FindFrame(list, r.current_frame)
  <2>1. at \in 1 .. Len(list) /\ at = r.current_frame - first + 1
    BY <1>2, <1>3, <1>6, SlicePosition
  <2>2. NewLastInput(r, list) = list[at]
    BY <1>6 DEF NewLastInput
  <2>3. list[at].frame_nbr = first + at - 1
    BY <2>1 DEF Slice
  <2>4. last = r.current_frame
    BY <1>2, <2>1, <2>2, <2>3
  <2>. HIDE DEF last, lacking, first, newest
  <2>. QED  BY <1>1, <1>2, <1>3, <1>5, <1>6, <2>1, <2>4
<1>7. CASE ~ (newest > r.current_frame)
  <2>1. last = newest
    BY <1>7 DEF NewLastInput
  <2>. HIDE DEF last, lacking, first, newest
  <2>. QED  BY <1>1, <1>2, <1>3, <1>5, <1>7, <2>1
<1>. QED  BY <1>6, <1>7

(* With one that begins no later than the frame to confirm, the loop of    *)
(* SendFrameConfirmation() ends within its bounds.                         *)
LEMMA ConfirmationIsDefined ==
    ASSUME NEW r \in RollbackState, NEW list \in Seq(FrameInput), list # << >>,
           NEW inputs, NEW count, Slice(list, inputs, count),
           list[1].frame_nbr <= r.frame_to_confirm,
           r.frame_to_confirm <= r.current_frame, r.current_frame < GameFrameNbr
    PROVE  ConfirmationDefined(r, list)
<1>. DEFINE first  == list[1].frame_nbr
            newest == Last(list).frame_nbr
            from   == ConfirmFrom(r, list)
            end    == ConfirmEnd(r, list)
            stops  == ConfirmStops(r, list)
            next   == r.frame_to_confirm
<1>1. Len(list) \in Nat \ {0} /\ 1 \in 1 .. Len(list) /\ Len(list) \in 1 .. Len(list)
  BY EmptySeq, LenProperties
<1>2. first \in Int /\ r.current_frame \in Int /\ next \in Int /\ GameFrameNbr \in Int
  BY <1>1, FrameOfElement, FrameCountersAreInt, GameFrameNbrAssumption
<1>3. /\ newest = first + Len(list) - 1 /\ newest \in Int
      /\ newest < GameFrameNbr
  <2>1. newest = first + Len(list) - 1
    BY <1>1, SliceUpToLast
  <2>2. Last(list) = list[Len(list)]
    BY <1>1 DEF Last
  <2>3. newest \in Frame
    BY <1>1, <2>2, FrameOfElement
  <2>. QED  BY <2>1, <2>3, GameFrameNbrAssumption DEF Frame
<1>4. /\ from \in 1 .. Len(list) + 1
      /\ from <= Len(list) => list[from].frame_nbr = next
      /\ next <= newest => from = next - first + 1 /\ from \in 1 .. Len(list)
  <2>1. /\ from \in 1 .. Len(list) + 1
        /\ from <= Len(list) => list[from].frame_nbr = next
    BY <1>2, FindFrameProperties DEF ConfirmFrom
  <2>2. next <= newest => from = next - first + 1 /\ from \in 1 .. Len(list)
    BY <1>2, SlicePosition DEF ConfirmFrom
  <2>. QED  BY <2>1, <2>2
<1>5. end \in from .. Len(list) + 1
  <2>1. CASE newest > r.current_frame
    <3>1. end = FindFrame(list, r.current_frame)
      BY <2>1 DEF ConfirmEnd
    <3>2. end = r.current_frame - first + 1 /\ end \in 1 .. Len(list)
      <4>1. first <= r.current_frame /\ r.current_frame <= newest
        BY <1>2, <1>3, <2>1
      <4>. QED  BY <1>2, <3>1, <4>1, SlicePosition
    <3>. HIDE DEF end, from, first, newest, next
    <3>3. next <= r.current_frame
      BY DEF next
    <3>. QED  BY <1>1, <1>2, <1>3, <1>4, <2>1, <3>2, <3>3
  <2>2. CASE ~ (newest > r.current_frame)
    <3>1. end = Len(list) + 1
      BY <2>2 DEF ConfirmEnd
    <3>. QED  BY <1>1, <1>4, <3>1
  <2>. QED  BY <2>1, <2>2
<1>6. end \in stops /\ stops \subseteq from .. Len(list) + 1
  BY <1>5 DEF ConfirmStops
<1>. HIDE DEF from, stops, end
<1>7. Min(stops) \in from .. Len(list) + 1
  <2>1. stops \in SUBSET Nat /\ stops # {}
    BY <1>1, <1>4, <1>6
  <2>. QED  BY <1>6, <2>1, MinProperties
<1>8. next + (Min(stops) - from) <= GameFrameNbr
  <2>. DEFINE stop == Min(stops)
  <2>. HIDE DEF stop
  <2>0. stop \in from .. Len(list) + 1 /\ next <= r.current_frame
    BY <1>7 DEF stop, next
  <2>. HIDE DEF first, newest, next
  <2>1. CASE next <= newest
    BY <1>1, <1>2, <1>3, <1>4, <2>0, <2>1 DEF stop
  <2>2. CASE ~ (next <= newest)
    <3>1. from = Len(list) + 1
      <4>1. from \in 1 .. Len(list) => list[from].frame_nbr = first + from - 1
        BY DEF Slice, first
      <4>. QED  BY <1>1, <1>2, <1>3, <1>4, <2>2, <4>1
    <3>. QED  BY <1>1, <1>2, <2>0, <3>1 DEF stop
  <2>. QED  BY <2>1, <2>2
<1>9. ConfirmCount(r, list) = Min(stops) - from
  BY DEF ConfirmCount, stops, from
<1>. QED  BY <1>6, <1>8, <1>9 DEF ConfirmationDefined, ConfirmFramesDefined, stops, next
-----------------------------------------------------------------------------
(* The last frame the master knows the follower confirmed. *)
Acknowledged == SampledCount(Master) - 1 - Len(unacked[Master])

(* Players confirm what they received, and receive nothing for frames that *)
(* they have not begun; the follower never passes the master.              *)
InTurnInv ==
    /\ \A p \in Player :
          /\ rollback[p].confirmed_frame <= rollback[p].last_remote_input_frame
          /\ rollback[p].last_remote_input_frame <= rollback[p].current_frame
    /\ rollback[Follower].confirmed_frame <= rollback[Master].confirmed_frame

KeptInv ==
    Len(unacked[Follower]) = SampledCount(Follower) - 1 - rollback[Follower].confirmed_frame

AckedInv ==
    state[Master] = "kInGame" =>
        Counted(EventsTo(Master), Acknowledged, rollback[Follower].confirmed_frame)

ReachInv ==
    \A p \in Player : AllReach(EventsTo(p), p, rollback[Follower].confirmed_frame)

PairingInv ==
    premature = {} =>
        InTurnInv /\ KeptInv /\ AckedInv /\ ReachInv
          /\ \A p \in Player : state[p] # "Undefined"

(* Nothing is sampled, received or under way at first.                     *)
LEMMA InitPairingInv == Init => PairingInv
<1>. SUFFICES ASSUME Init PROVE PairingInv
  OBVIOUS
<1>1. /\ Master \in Player /\ Follower \in Player
      /\ \A p \in Player : /\ rollback[p] = RollbackInit
                           /\ unacked[p] = << >> /\ EventsTo(p) = << >>
                           /\ SampledCount(p) = 0 /\ state[p] # "Undefined"
  BY ConcatEmptySeq, EmptySeq
     DEF Init, RollbackInit, EventsTo, SampledCount, Master, Follower, Player
<1>2. InTurnInv /\ KeptInv /\ Acknowledged = -1
  BY <1>1, EmptySeq DEF InTurnInv, KeptInv, Acknowledged, RollbackInit
<1>3. Counted(<< >>, -1, -1)
  <2>. DEFINE number == [i \in 0 .. 0 |-> -1]
  <2>1. Len(<< >>) = 0
    OBVIOUS
  <2>2. number \in [0 .. 0 -> Int] /\ Numbered(number, << >>, -1, -1)
    BY <2>1 DEF Numbered
  <2>. HIDE DEF number
  <2>. QED  BY <2>1, <2>2 DEF Counted
<1>4. AckedInv
  BY <1>1, <1>2, <1>3 DEF AckedInv, RollbackInit
<1>5. ReachInv
  BY <1>1, EmptySeq DEF ReachInv, AllReach
<1>. QED  BY <1>1, <1>2, <1>4, <1>5 DEF PairingInv

(* What the invariants say of the frames confirmed.                        *)
LEMMA ConfirmedInTurn ==
    ASSUME TypeInv, ConfirmedInv, PairingInv, premature = {}
    PROVE  /\ Master \in Player /\ Follower \in Player /\ Master # Follower
           /\ Other(Master) = Follower /\ Other(Follower) = Master
           /\ \A q \in Player : q = Master \/ q = Follower
           /\ \A q \in Player :
                 /\ SampledCount(q) \in Int
                 /\ rollback[q].confirmed_frame \in Int
                 /\ rollback[q].confirmed_frame >= -1
                 /\ rollback[q].frame_to_confirm = rollback[q].confirmed_frame + 1
                 /\ rollback[q].current_frame \in Int
                 /\ rollback[q].last_remote_input_frame \in Int
                 /\ rollback[q].confirmed_frame <= rollback[q].last_remote_input_frame
                 /\ rollback[q].last_remote_input_frame <= rollback[q].current_frame
                 /\ rollback[q].confirmed_frame <= rollback[Master].confirmed_frame
                 /\ rollback[Master].confirmed_frame >= 0 =>
                       rollback[Master].confirmed_frame < SampledCount(q)
                 /\ unacked[q] \in Seq(FrameInput) /\ Len(unacked[q]) \in Nat
           /\ rollback[Master].confirmed_frame < GameFrameNbr
           /\ Acknowledged \in Int
           /\ state[Master] = "kInGame" => Acknowledged <= rollback[Follower].confirmed_frame
<1>1. /\ Master \in Player /\ Follower \in Player /\ Master # Follower
      /\ Other(Master) = Follower /\ Other(Follower) = Master
      /\ \A q \in Player : q = Master \/ q = Follower
  BY DEF Master, Follower, Player, Other
<1>2. InTurnInv /\ AckedInv
  BY DEF PairingInv
<1>3. ASSUME NEW q \in Player
      PROVE  /\ SampledCount(q) \in Int
             /\ rollback[q].confirmed_frame \in Int
             /\ rollback[q].confirmed_frame >= -1
             /\ rollback[q].frame_to_confirm = rollback[q].confirmed_frame + 1
             /\ rollback[q].current_frame \in Int
             /\ rollback[q].last_remote_input_frame \in Int
             /\ unacked[q] \in Seq(FrameInput) /\ Len(unacked[q]) \in Nat
  BY PlayerTypes, ConfirmedFrames, FrameCountersAreInt, LenProperties
<1>4. ASSUME NEW q \in Player, rollback[Master].confirmed_frame >= 0
      PROVE  rollback[Master].confirmed_frame < SampledCount(q)
  <2>1. TruthInv(Master)
    BY <1>1 DEF ConfirmedInv
  <2>2. rollback[Master].confirmed_frame \in 0 .. rollback[Master].confirmed_frame
    BY <1>1, <1>3, <1>4
  <2>. QED  BY <2>1, <2>2 DEF TruthInv, Untainted
<1>5. rollback[Master].confirmed_frame < GameFrameNbr
  <2>1. rollback[Master] \in RollbackState
    BY <1>1, PlayerTypes
  <2>. QED  BY <2>1, GameFrameNbrAssumption DEF RollbackState
<1>6. Acknowledged \in Int
  BY <1>1, <1>3 DEF Acknowledged
<1>7. ASSUME state[Master] = "kInGame"
      PROVE  Acknowledged <= rollback[Follower].confirmed_frame
  <2>1. EventsTo(Master) \in Seq(Packet)
    BY <1>1, PlayerTypes
  <2>. QED  BY <1>1, <1>2, <1>3, <1>6, <1>7, <2>1, CountedOrdered DEF AckedInv
<1>8. \A q \in Player :
         /\ rollback[q].confirmed_frame <= rollback[q].last_remote_input_frame
         /\ rollback[q].last_remote_input_frame <= rollback[q].current_frame
         /\ rollback[q].confirmed_frame <= rollback[Master].confirmed_frame
  BY <1>1, <1>2, <1>3 DEF InTurnInv
<1>. QED  BY <1>1, <1>3, <1>4, <1>5, <1>6, <1>7, <1>8

(* The inputs a player keeps begin as many frames before the next one as   *)
(* there are.                                                              *)
LEMMA FirstKept ==
    ASSUME TypeInv, InputsInv, NEW p \in Player
    PROVE  /\ unacked[p] # << >> =>
                 unacked[p][1].frame_nbr = SampledCount(p) - Len(unacked[p])
           /\ \A new \in FrameInput : new.frame_nbr = SampledCount(p) =>
                 /\ Append(unacked[p], new) # << >>
                 /\ Append(unacked[p], new)[1].frame_nbr = SampledCount(p) - Len(unacked[p])
<1>. DEFINE list  == unacked[p]
            count == SampledCount(p)
<1>1. /\ list \in Seq(FrameInput) /\ Len(list) \in Nat /\ count \in Int
      /\ Slice(list, SampledInputs(p), count)
      /\ list # << >> => Last(list).frame_nbr = count - 1
  BY PlayerTypes, LenProperties DEF InputsInv, UnackedInv
<1>. HIDE DEF list, count
<1>2. list # << >> => list[1].frame_nbr = count - Len(list) /\ Len(list) > 0
  <2>. SUFFICES ASSUME list # << >>
                PROVE  list[1].frame_nbr = count - Len(list) /\ Len(list) > 0
    OBVIOUS
  <2>1. Len(list) > 0 /\ 1 \in 1 .. Len(list)
    BY <1>1, EmptySeq
  <2>2. list[1].frame_nbr \in Int
    BY <1>1, <2>1, FrameOfElement
  <2>3. Last(list).frame_nbr = list[1].frame_nbr + Len(list) - 1
    BY <1>1, <2>1, SliceUpToLast
  <2>. QED  BY <1>1, <2>1, <2>2, <2>3
<1>3. ASSUME NEW new \in FrameInput, new.frame_nbr = count
      PROVE  /\ Append(list, new) # << >>
             /\ Append(list, new)[1].frame_nbr = count - Len(list)
  <2>1. /\ Append(list, new) # << >>
        /\ \A i \in 1 .. Len(list) : Append(list, new)[i] = list[i]
        /\ Append(list, new)[Len(list) + 1] = new
    BY <1>1, AppendProperties
  <2>2. CASE list = << >>
    <3>1. Len(list) = 0
      BY <2>2
    <3>. QED  BY <1>1, <1>3, <2>1, <3>1
  <2>3. CASE list # << >>
    <3>1. 1 \in 1 .. Len(list)
      BY <1>1, <1>2, <2>3
    <3>. QED  BY <1>2, <2>1, <2>3, <3>1
  <2>. QED  BY <2>2, <2>3
<1>. QED  BY <1>2, <1>3 DEF list, count

(* Taking inputs never loses any, and takes none beyond the current frame. *)
LEMMA TakesMore ==
    ASSUME NEW r \in RollbackState, NEW list \in Seq(FrameInput), NEW p \in Player,
           RemoteInputsDefined(r, list), r.last_remote_input_frame <= r.current_frame
    PROVE  LET s == SetOtherPlayerInput(r, list, p)
           IN  /\ r.last_remote_input_frame <= s.last_remote_input_frame
               /\ s.last_remote_input_frame <= r.current_frame
<1>. DEFINE s == SetOtherPlayerInput(r, list, p)
<1>1. /\ r.last_remote_input_frame \in Int /\ r.current_frame \in Int
      /\ Last(list).frame_nbr \in Int
  <2>1. Last(list) \in FrameInput
    BY LastType DEF RemoteInputsDefined
  <2>. QED  BY <2>1, FrameCountersAreInt DEF FrameInput, Frame
<1>2. CASE ~ IsNews(r, list)
  BY <1>1, <1>2 DEF SetOtherPlayerInput
<1>3. CASE IsNews(r, list)
  <2>. DEFINE last   == NewLastInput(r, list)
              filled == FillInputs(r, list, p)
              shown  == IF MustRollback(r, list, p) THEN DoRollback(filled) ELSE filled
  <2>1. s = [shown EXCEPT !.last_inputs[p]          = last.input,
                          !.last_remote_input_frame = last.frame_nbr]
    BY <1>3 DEF SetOtherPlayerInput
  <2>2. DOMAIN shown = DOMAIN r
    BY DEF FillInputs, DoRollback, RollbackState
  <2>3. s.last_remote_input_frame = last.frame_nbr
    <3>. HIDE DEF shown, last
    <3>. QED  BY <2>1, <2>2 DEF RollbackState
  <2>4. last.frame_nbr <= r.current_frame
    BY <1>3, NewLastInputType
  <2>5. r.last_remote_input_frame <= s.last_remote_input_frame
    <3>1. r.last_remote_input_frame <= Last(list).frame_nbr
      BY <1>1, <1>3 DEF IsNews
    <3>. QED  BY <1>1, <3>1, ReceivedUpTo
  <2>. QED  BY <2>3, <2>4, <2>5
<1>. QED  BY <1>2, <1>3

(* What a handler finds in front of the queue is safe to walk.             *)
LEMMA FrontIsDefined ==
    ASSUME TypeInv, InputsInv, ConfirmedInv, PairingInv, premature = {},
           NEW p \in Player, NEW type, Handling(p, type), type = "kInput" \/ p = Follower
    PROVE  LET list == FrontPacket(p).frames
           IN  /\ list \in Seq(FrameInput) /\ list # << >>
               /\ Slice(list, SampledInputs(Other(p)), SampledCount(Other(p)))
               /\ list[1].frame_nbr \in Int
               /\ list[1].frame_nbr <= rollback[Follower].confirmed_frame + 1
               /\ RemoteInputsDefined(rollback[p], list)
               /\ SampledCount(p) = rollback[p].current_frame
               /\ rollback[p].frame_to_confirm <= rollback[p].current_frame
<1>. DEFINE list == FrontPacket(p).frames
            cf   == rollback[Follower].confirmed_frame
            r    == rollback[p]
<1>1. /\ list \in Seq(FrameInput)
      /\ packet_queue[p] # << >> /\ FrontPacket(p).type = type
      /\ pc[p] = "packets"
  BY FrontPacketType DEF Handling
<1>2. /\ 1 \in 1 .. Len(EventsTo(p)) /\ EventsTo(p)[1] = FrontPacket(p)
      /\ r \in RollbackState
  BY <1>1, FrontOfEvents, PlayerTypes
<1>3. Reaches(list, cf)
  BY <1>1, <1>2 DEF PairingInv, ReachInv, AllReach
<1>4. Slice(list, SampledInputs(Other(p)), SampledCount(Other(p)))
  BY <1>1, <1>2 DEF InputsInv, EventsInv, InOrder
<1>5. list # << >> /\ list[1].frame_nbr <= cf + 1
  BY <1>3 DEF Reaches
<1>6. list[1].frame_nbr \in Int
  <2>1. 1 \in 1 .. Len(list)
    BY <1>1, <1>5, EmptySeq, LenProperties
  <2>. QED  BY <1>1, <2>1, FrameOfElement
<1>7. SampledCount(p) = r.current_frame /\ r.current_frame >= 0
  BY <1>1 DEF SampledCount, TypeInv, FramesInv
<1>8. /\ cf \in Int /\ r.current_frame \in Int /\ r.last_remote_input_frame \in Int
      /\ cf + 1 <= r.last_remote_input_frame + 1
      /\ cf + 1 <= r.current_frame
      /\ r.frame_to_confirm <= r.current_frame
  <2>. DEFINE cm == rollback[Master].confirmed_frame
  <2>1. /\ cf \in Int /\ cm \in Int /\ r.confirmed_frame \in Int
        /\ r.current_frame \in Int /\ r.last_remote_input_frame \in Int
        /\ r.frame_to_confirm = r.confirmed_frame + 1
        /\ cf <= cm /\ r.confirmed_frame <= cm
        /\ cf <= r.confirmed_frame
        /\ r.confirmed_frame <= r.last_remote_input_frame
        /\ cm >= 0 => cm < SampledCount(p)
    BY ConfirmedInTurn
  <2>. HIDE DEF cf, cm, r
  <2>. QED  BY <1>7, <2>1
<1>9. RemoteInputsDefined(r, list)
  <2>1. /\ list[1].frame_nbr <= r.last_remote_input_frame + 1
        /\ list[1].frame_nbr <= r.current_frame
    <3>. HIDE DEF cf, r, list
    <3>. QED  BY <1>5, <1>6, <1>8
  <2>. QED  BY <1>1, <1>2, <1>4, <1>5, <2>1, ListIsDefined
<1>. QED  BY <1>1, <1>4, <1>5, <1>6, <1>7, <1>8, <1>9
-----------------------------------------------------------------------------
(* Every step keeps the invariant, and is defined. *)

(* What a step that shows nothing must leave as it was.                    *)
LEMMA KeepsPairingInv ==
    ASSUME TypeInv, TypeInv', ConfirmedInv, PairingInv, premature = {}, ShowsNothing,
           UNCHANGED unacked,
           \A q \in Player :
              /\ rollback[q].last_remote_input_frame <= rollback'[q].last_remote_input_frame
              /\ rollback'[q].last_remote_input_frame <= rollback'[q].current_frame
              /\ state'[q] # "Undefined"
              /\ AllReach(EventsTo(q), q, rollback[Follower].confirmed_frame)
                   => AllReach(EventsTo(q)', q, rollback[Follower].confirmed_frame),
           state'[Master] = "kInGame" =>
              /\ state[Master] = "kInGame"
              /\ \A first, last \in Int : Counted(EventsTo(Master), first, last)
                                            => Counted(EventsTo(Master)', first, last)
    PROVE  PairingInv'
<1>1. /\ \A q \in Player : SampledCount(q)' = SampledCount(q)
      /\ \A q \in Player : rollback'[q].confirmed_frame = rollback[q].confirmed_frame
  BY DEF ShowsNothing, SamplesNothing, ConfirmsNothing
<1>2. InTurnInv /\ KeptInv /\ AckedInv /\ ReachInv
  BY DEF PairingInv
<1>3. Master \in Player /\ Follower \in Player /\ Acknowledged \in Int
      /\ rollback[Follower].confirmed_frame \in Int
  BY ConfirmedInTurn
<1>4. InTurnInv'
  <2>1. ASSUME NEW q \in Player
        PROVE  rollback'[q].confirmed_frame <= rollback'[q].last_remote_input_frame
    <3>1. rollback'[q] \in RollbackState
      BY DEF TypeInv, TypeOK
    <3>2. rollback'[q].last_remote_input_frame \in Int
      BY <3>1, FrameCountersAreInt
    <3>3. /\ rollback[q].confirmed_frame \in Int
          /\ rollback[q].last_remote_input_frame \in Int
          /\ rollback[q].confirmed_frame <= rollback[q].last_remote_input_frame
      BY ConfirmedInTurn
    <3>. QED  BY <1>1, <3>2, <3>3
  <2>. QED  BY <1>1, <1>2, <1>3, <2>1 DEF InTurnInv
<1>5. KeptInv'
  BY <1>1, <1>2, <1>3 DEF KeptInv
<1>6. Acknowledged' = Acknowledged
  BY <1>1, <1>3 DEF Acknowledged
<1>7. AckedInv'
  BY <1>1, <1>2, <1>3, <1>6 DEF AckedInv
<1>8. ReachInv'
  BY <1>1, <1>2, <1>3 DEF ReachInv
<1>. QED  BY <1>4, <1>5, <1>7, <1>8 DEF PairingInv

(* Service() leaves the order of the events alone.                         *)
LEMMA ReceiveEventPairingInv ==
    ASSUME TypeInv, TypeInv', ConfirmedInv, PairingInv, premature = {},
           NEW p \in Player, ReceiveEvent(p)
    PROVE  PairingInv'
<1>1. /\ UNCHANGED <<rollback, unacked, state>>
      /\ \A q \in Player : EventsTo(q)' = EventsTo(q)
  BY ReceiveEventStep
<1>2. ShowsNothing
  BY ServiceShowsNothing
<1>3. \A q \in Player :
         /\ rollback[q].last_remote_input_frame \in Int
         /\ rollback[q].last_remote_input_frame <= rollback[q].current_frame
         /\ state[q] # "Undefined"
  BY ConfirmedInTurn DEF PairingInv
<1>4. Master \in Player
  BY DEF Master, Player
<1>. QED  BY <1>1, <1>2, <1>3, <1>4, KeepsPairingInv

(* No acknowledgement is lost.                                             *)
LEMMA LoseEventPairingInv ==
    ASSUME TypeInv, TypeInv', ConfirmedInv, PairingInv, premature = {},
           NEW p \in Player, LoseEvent(p)
    PROVE  PairingInv'
<1>1. /\ UNCHANGED <<rollback, unacked, state>>
      /\ net[p] # << >> /\ ~ Counts(Head(net[p]))
      /\ EventsTo(p)' = packet_queue[p] \o Tail(net[p])
      /\ EventsTo(Other(p))' = EventsTo(Other(p))
  BY LoseEventStep DEF Counts
<1>2. ShowsNothing
  BY ServiceShowsNothing
<1>3. \A q \in Player :
         /\ rollback[q].last_remote_input_frame \in Int
         /\ rollback[q].last_remote_input_frame <= rollback[q].current_frame
         /\ state[q] # "Undefined"
  BY ConfirmedInTurn DEF PairingInv
<1>4. /\ Master \in Player
      /\ \A q \in Player : q = p \/ q = Other(p)
      /\ packet_queue[p] \in Seq(Packet) /\ net[p] \in Seq(Packet)
  BY OtherPlayer, PlayerTypes DEF Master, Player
<1>5. ASSUME NEW q \in Player, NEW confirmed, AllReach(EventsTo(q), q, confirmed)
      PROVE  AllReach(EventsTo(q)', q, confirmed)
  BY <1>1, <1>4, <1>5, ReachWithLoss DEF EventsTo
<1>6. ASSUME NEW first \in Int, NEW last \in Int, Counted(EventsTo(Master), first, last)
      PROVE  Counted(EventsTo(Master)', first, last)
  <2>1. CASE p = Master
    BY <1>1, <1>4, <1>6, <2>1, CountedWithLoss DEF EventsTo
  <2>2. CASE Other(p) = Master
    BY <1>1, <1>6, <2>2
  <2>. QED  BY <1>4, <2>1, <2>2
<1>. QED  BY <1>1, <1>2, <1>3, <1>5, <1>6, KeepsPairingInv

(* A player that leaves has only its queue left; the other's events stay.  *)
LEMMA BeginFramePairingInv ==
    ASSUME TypeInv, TypeInv', ConfirmedInv, PairingInv, premature = {},
           NEW p \in Player, BeginFrame(p)
    PROVE  PairingInv'
<1>. DEFINE next == IncreaseCurrentFrame(rollback[p])
<1>1. /\ rollback' = [rollback EXCEPT ![p] = next]
      /\ UNCHANGED <<unacked, packet_queue, premature>>
      /\ \/ /\ state' = [state EXCEPT ![p] = "kGameFinished"]
            /\ net' = [net EXCEPT ![p] = << >>]
         \/ UNCHANGED <<state, net>>
  BY DEF BeginFrame
<1>2. /\ next.current_frame = rollback[p].current_frame + 1
      /\ next.last_remote_input_frame = rollback[p].last_remote_input_frame
  BY PlayerTypes DEF IncreaseCurrentFrame, RollbackState
<1>. HIDE DEF next
<1>3. ASSUME NEW q \in Player
      PROVE  /\ rollback'[q].last_remote_input_frame = rollback[q].last_remote_input_frame
             /\ rollback[q].last_remote_input_frame \in Int
             /\ rollback'[q].last_remote_input_frame <= rollback'[q].current_frame
  <2>1. /\ rollback[q].last_remote_input_frame \in Int /\ rollback[q].current_frame \in Int
        /\ rollback[q].last_remote_input_frame <= rollback[q].current_frame
    BY ConfirmedInTurn
  <2>2. rollback'[q] = IF q = p THEN next ELSE rollback[q]
    BY <1>1 DEF TypeInv, TypeOK
  <2>. QED  BY <1>2, <2>1, <2>2
<1>4. \A q \in Player : state'[q] # "Undefined"
  BY <1>1 DEF PairingInv, TypeInv, TypeOK
<1>5. ASSUME NEW q \in Player
      PROVE  \/ EventsTo(q)' = EventsTo(q)
             \/ q = p /\ EventsTo(q)' = packet_queue[q] /\ state'[q] = "kGameFinished"
  <2>1. packet_queue[q] \in Seq(Packet)
    BY PlayerTypes
  <2>. QED  BY <1>1, <2>1, ConcatEmptySeq DEF EventsTo, TypeInv, TypeOK
<1>6. ASSUME NEW q \in Player, NEW confirmed, AllReach(EventsTo(q), q, confirmed)
      PROVE  AllReach(EventsTo(q)', q, confirmed)
  <2>1. packet_queue[q] \in Seq(Packet) /\ net[q] \in Seq(Packet)
    BY PlayerTypes
  <2>. QED  BY <1>5, <1>6, <2>1, ReachParts DEF EventsTo
<1>7. Master \in Player
  BY DEF Master, Player
<1>8. state'[Master] = "kInGame" =>
         state[Master] = "kInGame" /\ EventsTo(Master)' = EventsTo(Master)
  BY <1>1, <1>5, <1>7 DEF TypeInv, TypeOK
<1>9. ShowsNothing
  BY BeginFrameShowsNothing
<1>. QED  BY <1>1, <1>3, <1>4, <1>6, <1>8, <1>9, KeepsPairingInv

(* The master has an input to erase for each acknowledgement.              *)
LEMMA HandleAckPairingInv ==
    ASSUME TypeInv, TypeInv', ConfirmedInv, PairingInv, premature = {}, HandleAck
    PROVE  PairingInv'
<1>. DEFINE cf     == rollback[Follower].confirmed_frame
            cm     == rollback[Master].confirmed_frame
            list   == unacked[Master]
            events == EventsTo(Master)
            count  == SampledCount(Master)
<1>1. /\ Master \in Player /\ Follower \in Player /\ Master # Follower
      /\ \A q \in Player : q = Master \/ q = Follower
      /\ cf \in Int /\ cm \in Int /\ cf >= -1 /\ cf <= cm
      /\ cm >= 0 => cm < count
      /\ count \in Int
      /\ list \in Seq(FrameInput) /\ Len(list) \in Nat
  BY ConfirmedInTurn
<1>2. /\ pc[Master] = "packets" /\ packet_queue[Master] # << >>
      /\ FrontPacket(Master).type = "kFrameConfirmation"
      /\ state[Master] = "kInGame"
      /\ count >= 0
  BY <1>1 DEF HandleAck, Handling, TypeInv, FramesInv, SampledCount
<1>3. /\ events \in Seq(Packet) /\ events # << >>
      /\ Counts(events[1])
      /\ Tail(events) = Tail(packet_queue[Master]) \o net[Master]
  BY <1>1, <1>2, FrontOfEvents, PlayerTypes DEF Counts
<1>4. Counted(events, Acknowledged, cf) /\ Acknowledged = count - 1 - Len(list)
  BY <1>2 DEF PairingInv, AckedInv, Acknowledged
<1>. HIDE DEF events, count, list, cf, cm
<1>5. Counted(Tail(events), Acknowledged + 1, cf)
  BY <1>3, <1>4, CountedWithoutFirst
<1>6. Acknowledged + 1 <= cf
  <2>1. Tail(events) \in Seq(Packet)
    BY <1>3, HeadTailProperties
  <2>2. Acknowledged + 1 \in Int
    BY <1>1, <1>4
  <2>. QED  BY <1>1, <1>5, <2>1, <2>2, CountedOrdered
<1>7. list # << >>
  <2>1. Len(list) # 0
    BY <1>1, <1>2, <1>4, <1>6
  <2>. QED  BY <2>1
<1>8. /\ unacked' = [unacked EXCEPT ![Master] = Tail(@)]
      /\ packet_queue' = [packet_queue EXCEPT ![Master] = Tail(@)]
      /\ UNCHANGED <<rollback, net, state, pc, premature>>
  BY <1>7 DEF HandleAck, PopPacket, EraseOldest, list
<1>9. /\ EventsTo(Master)' = Tail(events)
      /\ EventsTo(Follower)' = EventsTo(Follower)
      /\ unacked'[Master] = Tail(list) /\ unacked'[Follower] = unacked[Follower]
  BY <1>1, <1>3, <1>8 DEF EventsTo, TypeInv, TypeOK, list
<1>10. Acknowledged' = Acknowledged + 1
  <2>1. SampledCount(Master)' = count
    BY <1>8 DEF SampledCount, count
  <2>2. Len(Tail(list)) = Len(list) - 1
    BY <1>1, <1>7, HeadTailProperties
  <2>3. Acknowledged' = count - 1 - Len(Tail(list))
    BY <1>9, <2>1 DEF Acknowledged
  <2>. DEFINE before == Len(list)
              after  == Len(Tail(list))
  <2>4. before \in Nat /\ after = before - 1
    BY <1>1, <2>2
  <2>5. Acknowledged' = count - 1 - after /\ Acknowledged = count - 1 - before
    BY <1>4, <2>3
  <2>6. count \in Int
    BY <1>1
  <2>. HIDE DEF before, after
  <2>. QED  BY <2>4, <2>5, <2>6
<1>11. AckedInv'
  BY <1>5, <1>8, <1>9, <1>10 DEF AckedInv, cf
<1>12. KeptInv'
  BY <1>8, <1>9 DEF PairingInv, KeptInv, SampledCount
<1>13. ReachInv'
  <2>1. \A q \in Player : AllReach(EventsTo(q), q, cf)
    BY DEF PairingInv, ReachInv, cf
  <2>2. AllReach(Tail(events), Master, cf)
    BY <1>1, <1>3, <2>1, ReachWithoutFirst DEF events
  <2>. QED  BY <1>1, <1>8, <1>9, <2>1, <2>2 DEF ReachInv, cf
<1>14. InTurnInv' /\ \A q \in Player : state'[q] # "Undefined"
  BY <1>8 DEF PairingInv, InTurnInv
<1>. QED  BY <1>11, <1>12, <1>13, <1>14 DEF PairingInv

(* What a player raises at the end of a frame begins with its oldest       *)
(* unconfirmed input.                                                      *)
LEMMA EndFramePairingInv ==
    ASSUME TypeInv, TypeInv', InputsInv, ConfirmedInv, PairingInv, premature = {},
           NEW p \in Player, EndFrame(p)
    PROVE  PairingInv'
<1>. DEFINE frame == rollback[p].current_frame
            cf    == rollback[Follower].confirmed_frame
<1>1. PICK input \in Input :
          LET sampled == SetPlayerInput(rollback[p], p, input)
              list    == Append(unacked[p], [input |-> input, frame_nbr |-> frame])
          IN  /\ rollback' = [rollback EXCEPT ![p] = UpdateGame(sampled)]
              /\ unacked' = [unacked EXCEPT ![p] = list]
              /\ RaiseEvents(p, <<InputPacket(list)>>)
  BY DEF EndFrame
<1>. DEFINE r      == UpdateGame(SetPlayerInput(rollback[p], p, input))
            new    == [input |-> input, frame_nbr |-> frame]
            list   == Append(unacked[p], new)
            packet == InputPacket(list)
<1>2. /\ rollback' = [rollback EXCEPT ![p] = r]
      /\ unacked' = [unacked EXCEPT ![p] = list]
      /\ RaiseEvents(p, <<packet>>)
      /\ pc' = [pc EXCEPT ![p] = "loop"]
      /\ UNCHANGED <<packet_queue, state, premature>>
      /\ pc[p] # "loop"
      /\ state[p] = "kInGame"
  BY <1>1 DEF EndFrame, TypeInv, FramesInv
<1>3. /\ Other(p) \in Player /\ Other(p) # p
      /\ \A q \in Player : q = p \/ q = Other(p)
      /\ rollback[p] \in RollbackState
      /\ unacked[p] \in Seq(FrameInput) /\ Len(unacked[p]) \in Nat
  BY OtherPlayer, PlayerTypes, LenProperties
<1>4. SampledCount(p) = frame /\ frame \in Frame /\ frame \in Int
  <2>1. rollback[p].current_frame >= 0 /\ rollback[p].current_frame < GameFrameNbr
        /\ rollback[p].current_frame \in Int
    BY <1>2, <1>3, FrameCountersAreInt DEF TypeInv, FramesInv
  <2>. QED  BY <1>2, <2>1, GameFrameNbrAssumption DEF SampledCount, Frame
<1>5. /\ r.current_frame = frame
      /\ r.confirmed_frame = rollback[p].confirmed_frame
      /\ r.last_remote_input_frame = rollback[p].last_remote_input_frame
  BY <1>3 DEF UpdateGame, SetPlayerInput, RollbackState
<1>6. /\ new \in FrameInput /\ new.frame_nbr = SampledCount(p)
      /\ list \in Seq(FrameInput) /\ Len(list) = Len(unacked[p]) + 1
  <2>1. new \in FrameInput /\ new.frame_nbr = SampledCount(p)
    BY <1>4 DEF FrameInput
  <2>. HIDE DEF new
  <2>. QED  BY <1>3, <2>1, AppendProperties
<1>7. list # << >> /\ list[1].frame_nbr = SampledCount(p) - Len(unacked[p])
  BY <1>6, FirstKept
<1>. HIDE DEF r, list, frame
<1>8. /\ rollback'[p] = r /\ rollback'[Other(p)] = rollback[Other(p)]
      /\ unacked'[p] = list /\ unacked'[Other(p)] = unacked[Other(p)]
      /\ pc'[p] = "loop" /\ pc'[Other(p)] = pc[Other(p)]
  BY <1>2, <1>3 DEF TypeInv, TypeOK
<1>9. /\ SampledCount(p)' = SampledCount(p) + 1
      /\ SampledCount(Other(p))' = SampledCount(Other(p))
  BY <1>2, <1>3, <1>4, <1>5, <1>8 DEF SampledCount, frame
<1>10. \A q \in Player :
          /\ rollback'[q].confirmed_frame = rollback[q].confirmed_frame
          /\ rollback'[q].last_remote_input_frame = rollback[q].last_remote_input_frame
          /\ rollback'[q].current_frame = rollback[q].current_frame
  BY <1>3, <1>5, <1>8 DEF frame
<1>11. InTurnInv /\ KeptInv /\ AckedInv /\ ReachInv /\ \A q \in Player : state[q] # "Undefined"
  BY DEF PairingInv
<1>12. /\ Master \in Player /\ Follower \in Player /\ Master # Follower
       /\ cf \in Int /\ SampledCount(p) \in Int
       /\ p = Master \/ p = Follower
       /\ p = Master => Other(p) = Follower
       /\ p = Follower => Other(p) = Master
       /\ p = Master => Acknowledged <= cf
  BY <1>2, ConfirmedInTurn
<1>13. list[1].frame_nbr <= cf + 1
  <2>1. CASE p = Follower
    <3>1. Len(unacked[p]) = SampledCount(p) - 1 - cf
      BY <1>11, <2>1 DEF KeptInv
    <3>. HIDE DEF cf
    <3>. QED  BY <1>3, <1>7, <1>12, <3>1
  <2>2. CASE p = Master
    <3>1. SampledCount(p) - 1 - Len(unacked[p]) <= cf
      BY <1>12, <2>2 DEF Acknowledged
    <3>. HIDE DEF cf
    <3>. QED  BY <1>3, <1>7, <1>12, <3>1
  <2>. QED  BY <1>12, <2>1, <2>2
<1>14. /\ packet \in Packet /\ ~ Counts(packet) /\ <<packet>> \in Seq(Packet)
       /\ AllReach(<<packet>>, Other(p), cf)
  <2>1. packet \in Packet /\ ~ Counts(packet) /\ packet.frames = list
    BY <1>6, EmptySeq DEF InputPacket, Packet, GameHistory, Counts
  <2>2. Reaches(packet.frames, cf)
    BY <1>7, <1>13, <2>1 DEF Reaches
  <2>. HIDE DEF packet
  <2>3. Len(<<packet>>) = 1 /\ <<packet>>[1] = packet
    OBVIOUS
  <2>4. \A i \in 1 .. 1 : i = 1
    OBVIOUS
  <2>. QED  BY <2>1, <2>2, <2>3, <2>4 DEF AllReach
<1>. HIDE DEF packet, cf
<1>15. /\ EventsTo(p)' = EventsTo(p)
       /\ state[Other(p)] = "kInGame" =>
             EventsTo(Other(p))' = EventsTo(Other(p)) \o <<packet>>
       /\ state[Other(p)] # "kInGame" => EventsTo(Other(p))' = EventsTo(Other(p))
  <2>1. net'[p] = net[p]
    BY <1>2, RaiseEventsLeaves
  <2>2. /\ state[Other(p)] = "kInGame" =>
             EventsTo(Other(p))' = EventsTo(Other(p)) \o <<packet>>
        /\ state[Other(p)] # "kInGame" => EventsTo(Other(p))' = EventsTo(Other(p))
    BY <1>2, <1>14, RaisedLast
  <2>. QED  BY <1>2, <2>1, <2>2 DEF EventsTo
<1>16. ReachInv'
  <2>1. \A q \in Player : AllReach(EventsTo(q), q, cf) /\ EventsTo(q) \in Seq(Packet)
    BY <1>11, PlayerTypes DEF ReachInv, cf
  <2>2. AllReach(EventsTo(Other(p))', Other(p), cf)
    BY <1>3, <1>14, <1>15, <2>1, ReachWithMore
  <2>3. \A q \in Player : AllReach(EventsTo(q)', q, cf)
    BY <1>3, <1>15, <2>1, <2>2
  <2>. QED  BY <1>10, <1>12, <2>3 DEF ReachInv, cf
<1>17. AckedInv'
  <2>. SUFFICES ASSUME state[Master] = "kInGame"
                PROVE  Counted(EventsTo(Master)', Acknowledged', cf)
    BY <1>2, <1>10, <1>12 DEF AckedInv, cf
  <2>1. Counted(EventsTo(Master), Acknowledged, cf)
    BY <1>11 DEF AckedInv, cf
  <2>2. CASE p = Master
    <3>. DEFINE kept  == Len(unacked[p])
                count == SampledCount(p)
    <3>1. Acknowledged' = SampledCount(p)' - 1 - Len(unacked'[p])
      BY <2>2 DEF Acknowledged
    <3>2. Acknowledged = count - 1 - kept
      BY <2>2 DEF Acknowledged
    <3>3. SampledCount(p)' = count + 1 /\ Len(unacked'[p]) = kept + 1
      BY <1>6, <1>8, <1>9
    <3>4. Acknowledged' = (count + 1) - 1 - (kept + 1)
      BY <3>1, <3>3
    <3>5. count \in Int /\ kept \in Nat
      BY <1>3, <1>12
    <3>. HIDE DEF count, kept
    <3>6. Acknowledged' = Acknowledged
      BY <3>2, <3>4, <3>5
    <3>. QED  BY <1>15, <2>1, <2>2, <3>6
  <2>3. CASE p = Follower
    <3>1. Acknowledged' = Acknowledged
      BY <1>8, <1>9, <1>12, <2>3 DEF Acknowledged
    <3>2. Counted(<<packet>>, cf, cf)
      BY <1>12, <1>14, CountedOne
    <3>3. EventsTo(Master)' = EventsTo(Master) \o <<packet>> /\ EventsTo(Master) \in Seq(Packet)
      BY <1>12, <1>15, <2>3, PlayerTypes
    <3>. QED  BY <1>14, <2>1, <3>1, <3>2, <3>3, CountedWithMore
  <2>. QED  BY <1>12, <2>2, <2>3
<1>18. KeptInv'
  <2>1. CASE p = Follower
    <3>. DEFINE kept  == Len(unacked[p])
                count == SampledCount(p)
    <3>1. kept = count - 1 - cf /\ kept \in Nat /\ count \in Int
      BY <1>3, <1>11, <1>12, <2>1 DEF KeptInv, cf
    <3>2. SampledCount(p)' = count + 1 /\ Len(unacked'[p]) = kept + 1
      BY <1>6, <1>8, <1>9
    <3>3. rollback'[Follower].confirmed_frame = cf
      BY <1>10, <1>12 DEF cf
    <3>. HIDE DEF count, kept
    <3>4. kept + 1 = (count + 1) - 1 - cf
      BY <1>12, <3>1
    <3>5. Len(unacked'[Follower]) = kept + 1 /\ SampledCount(Follower)' = count + 1
      BY <2>1, <3>2
    <3>. QED  BY <3>3, <3>4, <3>5 DEF KeptInv
  <2>2. CASE p = Master
    BY <1>8, <1>9, <1>10, <1>11, <1>12, <2>2 DEF KeptInv
  <2>. QED  BY <1>12, <2>1, <2>2
<1>19. InTurnInv'
  BY <1>10, <1>11, <1>12 DEF InTurnInv
<1>. QED  BY <1>2, <1>11, <1>16, <1>17, <1>18, <1>19 DEF PairingInv

(* Nothing the master confirms is beyond what it received, and it sends a  *)
(* list with each confirmation, if it had sampled the frame.               *)
LEMMA HandleInputPairingInv ==
    ASSUME TypeInv, TypeInv', InputsInv, ConfirmedInv, PairingInv, premature = {},
           premature' = {}, NEW p \in Player, HandleInput(p)
    PROVE  PairingInv'
<1>. DEFINE list   == FrontPacket(p).frames
            r      == SetOtherPlayerInput(rollback[p], list, Other(p))
            count  == IF p = Master THEN ConfirmCount(r, list) ELSE 0
            s      == ConfirmFrames(r, count)
            raised == Confirmations(r, count)
            cf     == rollback[Follower].confirmed_frame
            cm     == rollback[Master].confirmed_frame
<1>1. /\ Handling(p, "kInput")
      /\ pc[p] = "packets" /\ packet_queue[p] # << >>
      /\ FrontPacket(p).type = "kInput"
      /\ state[p] = "kInGame" /\ rollback[p].current_frame < GameFrameNbr
  BY DEF HandleInput, Handling, TypeInv, FramesInv
<1>2. /\ Other(p) \in Player /\ Other(p) # p /\ Other(Other(p)) = p
      /\ \A q \in Player : q = p \/ q = Other(p)
      /\ rollback[p] \in RollbackState
      /\ CountersAgree(rollback[p])
  BY OtherPlayer, PlayerTypes DEF TypeInv, FramesInv
<1>3. /\ list \in Seq(FrameInput) /\ list # << >>
      /\ Slice(list, SampledInputs(Other(p)), SampledCount(Other(p)))
      /\ list[1].frame_nbr \in Int
      /\ list[1].frame_nbr <= cf + 1
      /\ RemoteInputsDefined(rollback[p], list)
      /\ SampledCount(p) = rollback[p].current_frame
      /\ rollback[p].frame_to_confirm <= rollback[p].current_frame
  BY <1>1, FrontIsDefined
<1>4. /\ Master \in Player /\ Follower \in Player /\ Master # Follower
      /\ p = Master \/ p = Follower
      /\ p = Master => Other(p) = Follower
      /\ p = Follower => Other(p) = Master
      /\ cf \in Int /\ cm \in Int /\ cf <= cm
      /\ rollback[p].last_remote_input_frame \in Int
      /\ rollback[p].confirmed_frame \in Int
      /\ rollback[p].frame_to_confirm = rollback[p].confirmed_frame + 1
      /\ rollback[p].confirmed_frame <= rollback[p].last_remote_input_frame
      /\ rollback[p].last_remote_input_frame <= rollback[p].current_frame
      /\ rollback[p].current_frame \in Int
      /\ p = Master => Acknowledged <= cf /\ Acknowledged \in Int
      /\ unacked[Master] \in Seq(FrameInput) /\ Len(unacked[Master]) \in Nat
  BY <1>1, ConfirmedInTurn
<1>5. InTurnInv /\ KeptInv /\ AckedInv /\ ReachInv /\ \A q \in Player : state[q] # "Undefined"
  BY DEF PairingInv
<1>6. ASSUME IsOld(rollback[p], list)
      PROVE  PairingInv'
  <2>1. /\ pc' = [pc EXCEPT ![p] = "sample"]
        /\ UNCHANGED <<rollback, unacked, packet_queue, net, state>>
    BY <1>6 DEF HandleInput, ReturnFromHandlePacket
  <2>2. /\ \A q \in Player : SampledCount(q)' = SampledCount(q)
        /\ \A q \in Player : EventsTo(q)' = EventsTo(q)
    BY <1>1, <2>1 DEF SampledCount, EventsTo, TypeInv, TypeOK
  <2>. QED  BY <1>4, <1>5, <2>1, <2>2
            DEF PairingInv, InTurnInv, KeptInv, AckedInv, ReachInv, Acknowledged
<1>7. ASSUME ~ IsOld(rollback[p], list)
      PROVE  PairingInv'
  <2>1. /\ r \in RollbackState
        /\ CountersAgree(r)
        /\ r.current_frame = rollback[p].current_frame
        /\ r.frame_to_confirm = rollback[p].frame_to_confirm
        /\ r.confirmed_frame = rollback[p].confirmed_frame
    BY <1>2, <1>3, SetOtherPlayerInputType, SetOtherPlayerInputLeaves
  <2>2. /\ rollback[p].last_remote_input_frame <= r.last_remote_input_frame
        /\ r.last_remote_input_frame <= r.current_frame
    BY <1>2, <1>3, <1>4, <2>1, TakesMore
  <2>3. r.inputs[p] = rollback[p].inputs[p]
    <3>1. \A f \in 0 .. rollback[p].last_remote_input_frame :
             /\ f < SampledCount(Other(p))
             /\ rollback[p].inputs[Other(p)][f] = SampledInputs(Other(p))[f]
      BY DEF InputsInv, ReceivedInv
    <3>2. SampledCount(Other(p)) \in Int
      BY <1>2, PlayerTypes
    <3>. HIDE DEF list
    <3>. QED  BY <1>2, <1>3, <3>1, <3>2, SetOtherPlayerInputIsTrue
  <2>4. ASSUME p = Master
        PROVE  ConfirmationDefined(r, list)
    <3>. HIDE DEF list, r
    <3>1. /\ list[1].frame_nbr <= r.frame_to_confirm
          /\ r.frame_to_confirm <= r.current_frame /\ r.current_frame < GameFrameNbr
      <4>1. cm = rollback[p].confirmed_frame
        BY <2>4
      <4>. HIDE DEF cf, cm
      <4>. QED  BY <1>1, <1>3, <1>4, <2>1, <4>1
    <3>. QED  BY <1>3, <2>1, <3>1, ConfirmationIsDefined
  <2>5. /\ rollback' = [rollback EXCEPT ![p] = s]
        /\ RaiseEvents(p, raised)
        /\ PrematureFrames(r, count) = {}
        /\ packet_queue' = [packet_queue EXCEPT ![p] = Tail(@)]
        /\ UNCHANGED <<unacked, state, pc>>
    BY <1>3, <1>7, <2>4 DEF HandleInput, PopPacket
  <2>6. count \in Nat /\ ConfirmFramesDefined(r, count) /\ (p # Master => count = 0)
    <3>. HIDE DEF list, r
    <3>1. CASE p = Master
      BY <1>3, <2>1, <2>4, <3>1, ConfirmCountType DEF ConfirmationDefined
    <3>2. CASE p # Master
      BY <2>1, <3>2, GameFrameNbrAssumption DEF ConfirmFramesDefined, RollbackState
    <3>. QED  BY <3>1, <3>2
  <2>7. ASSUME NEW f \in r.frame_to_confirm .. r.frame_to_confirm + count - 1
        PROVE  p = Master /\ f <= r.current_frame /\ f <= r.last_remote_input_frame
    <3>1. p = Master
      <4>. HIDE DEF r, list, count
      <4>. QED  BY <2>1, <2>6, <2>7, FrameCountersAreInt
    <3>2. f \in r.frame_to_confirm .. r.frame_to_confirm + ConfirmCount(r, list) - 1
      BY <2>7, <3>1
    <3>3. ConfirmStops(r, list) # {}
      BY <2>4, <3>1 DEF ConfirmationDefined
    <3>4. f <= r.current_frame /\ f <= r.last_remote_input_frame
      <4>. HIDE DEF list
      <4>. QED  BY <1>2, <1>3, <2>1, <3>2, <3>3, ConfirmsReceived
    <3>. QED  BY <3>1, <3>4
  <2>. HIDE DEF r, count, list
  <2>8. /\ s.current_frame = rollback[p].current_frame
        /\ s.inputs = r.inputs
        /\ s.last_remote_input_frame = r.last_remote_input_frame
        /\ s.confirmed_frame = rollback[p].confirmed_frame + count
        /\ r.last_remote_input_frame \in Int
    BY <2>1, FrameCountersAreInt DEF ConfirmFrames, RollbackState
  <2>9. raised \in Seq(Packet) /\ (count = 0 => raised = << >>)
    <3>1. raised \in Seq(Packet)
      BY <2>1, <2>6, ConfirmationsType DEF TypeInv
    <3>. QED  BY <3>1 DEF Confirmations
  <2>10. ASSUME count > 0
         PROVE  /\ p = Master
                /\ rollback[p].confirmed_frame + count <= r.last_remote_input_frame
                /\ Reaches(unacked[Master], cf)
    <3>. DEFINE oldest == r.frame_to_confirm
                newest == r.frame_to_confirm + count - 1
    <3>1. /\ oldest \in Int /\ r.current_frame \in Int
          /\ oldest \in oldest .. newest /\ newest \in oldest .. newest
      BY <2>1, <2>6, <2>10, FrameCountersAreInt
    <3>2. /\ p = Master
          /\ oldest <= r.current_frame /\ newest <= r.last_remote_input_frame
      BY <2>7, <3>1
    <3>3. oldest # r.current_frame
      BY <2>5, <3>1 DEF PrematureFrames
    <3>4. oldest = cm + 1 /\ r.current_frame = SampledCount(Master)
      BY <1>3, <1>4, <2>1, <3>2
    <3>. DEFINE kept == Len(unacked[Master])
    <3>5. kept > 0
      <4>1. Acknowledged = r.current_frame - 1 - kept
        BY <3>4 DEF Acknowledged
      <4>. HIDE DEF kept, cf, cm, oldest, newest
      <4>2. kept \in Nat
        BY <1>4 DEF kept
      <4>. QED  BY <1>4, <3>1, <3>2, <3>3, <3>4, <4>1, <4>2
    <3>6. unacked[Master] # << >>
      BY <3>5
    <3>7. unacked[Master][1].frame_nbr = SampledCount(Master) - kept
      BY <1>4, <3>6, FirstKept
    <3>8. SampledCount(Master) - kept <= cf + 1
      <4>1. Acknowledged = r.current_frame - 1 - kept
        BY <3>4 DEF Acknowledged
      <4>2. kept \in Nat
        BY <1>4
      <4>. HIDE DEF kept, cf, cm, oldest, newest
      <4>. QED  BY <1>4, <3>1, <3>2, <3>4, <4>1, <4>2
    <3>9. rollback[p].confirmed_frame + count <= r.last_remote_input_frame
      BY <1>4, <2>1, <2>6, <3>2
    <3>. QED  BY <3>2, <3>6, <3>7, <3>8, <3>9 DEF Reaches
  <2>11. AllReach(raised, Other(p), cf)
    <3>1. CASE count = 0
      <4>1. raised = << >> /\ Len(<< >>) = 0
        BY <2>9, <3>1
      <4>. HIDE DEF raised
      <4>. QED  BY <4>1 DEF AllReach
    <3>2. CASE count # 0
      <4>1. Reaches(unacked[Master], cf)
        BY <2>6, <2>10, <3>2
      <4>2. ASSUME NEW i \in 1 .. Len(raised)
            PROVE  raised[i].frames = unacked[Master]
        <5>1. Len(raised) = count
          BY <2>6 DEF Confirmations
        <5>. QED  BY <5>1 DEF Confirmations, ConfirmationPacket
      <4>. HIDE DEF raised, cf
      <4>. QED  BY <4>1, <4>2 DEF AllReach
    <3>. QED  BY <3>1, <3>2
  <2>. HIDE DEF s, raised, cf, cm
  <2>12. /\ \A q \in Player : SampledCount(q)' = SampledCount(q)
         /\ rollback'[p] = s
         /\ rollback'[Other(p)] = rollback[Other(p)]
    BY <1>1, <2>3, <2>5, <2>8, HandlerKeepsSampled
  <2>13. rollback'[Follower].confirmed_frame = cf
    <3>1. CASE p = Follower
      BY <1>4, <2>6, <2>8, <2>12, <3>1 DEF cf
    <3>2. CASE p = Master
      BY <1>4, <2>12, <3>2 DEF cf
    <3>. QED  BY <1>4, <3>1, <3>2
  <2>14. /\ EventsTo(p)' = Tail(EventsTo(p))
         /\ EventsTo(Other(p))' = EventsTo(Other(p)) \o raised
              \/ /\ EventsTo(Other(p))' = EventsTo(Other(p))
                 /\ state[Other(p)] # "kInGame"
         /\ EventsTo(p) # << >> /\ ~ Counts(EventsTo(p)[1])
         /\ \A q \in Player : EventsTo(q) \in Seq(Packet)
    <3>1. net'[p] = net[p] /\ packet_queue'[p] = Tail(packet_queue[p])
          /\ packet_queue'[Other(p)] = packet_queue[Other(p)]
      BY <1>2, <2>5, RaiseEventsLeaves DEF TypeInv, TypeOK
    <3>2. /\ EventsTo(p) # << >> /\ EventsTo(p)[1] = FrontPacket(p)
          /\ Tail(EventsTo(p)) = Tail(packet_queue[p]) \o net[p]
      BY <1>1, FrontOfEvents
    <3>3. /\ state[Other(p)] = "kInGame" =>
               EventsTo(Other(p))' = EventsTo(Other(p)) \o raised
          /\ state[Other(p)] # "kInGame" => EventsTo(Other(p))' = EventsTo(Other(p))
      BY <2>5, <2>9, <3>1, RaisedLast
    <3>4. \A q \in Player : EventsTo(q) \in Seq(Packet)
      BY PlayerTypes
    <3>. QED  BY <1>1, <3>1, <3>2, <3>3, <3>4 DEF EventsTo, Counts
  <2>15. ReachInv'
    <3>1. \A q \in Player : AllReach(EventsTo(q), q, cf)
      BY <1>5 DEF ReachInv, cf
    <3>2. AllReach(EventsTo(p)', p, cf)
      BY <2>14, <3>1, ReachWithoutFirst
    <3>3. AllReach(EventsTo(Other(p))', Other(p), cf)
      BY <1>2, <2>9, <2>11, <2>14, <3>1, ReachWithMore
    <3>4. \A q \in Player : AllReach(EventsTo(q)', q, cf)
      BY <1>2, <3>2, <3>3
    <3>. QED  BY <2>13, <3>4 DEF ReachInv
  <2>16. AckedInv'
    <3>1. Acknowledged' = Acknowledged
      BY <1>4, <2>5, <2>12 DEF Acknowledged
    <3>. SUFFICES ASSUME state[Master] = "kInGame"
                  PROVE  Counted(EventsTo(Master)', Acknowledged, cf)
      BY <2>5, <2>13, <3>1 DEF AckedInv
    <3>2. Counted(EventsTo(Master), Acknowledged, cf)
      BY <1>5 DEF AckedInv, cf
    <3>3. CASE p = Master
      BY <2>14, <3>2, <3>3, CountedWithoutFirst
    <3>4. CASE p = Follower
      <4>1. raised = << >>
        BY <1>4, <2>6, <2>9, <3>4
      <4>2. EventsTo(Master)' = EventsTo(Master)
        BY <1>4, <2>14, <3>4, <4>1, ConcatEmptySeq
      <4>. QED  BY <3>2, <4>2
    <3>. QED  BY <1>4, <3>3, <3>4
  <2>17. KeptInv'
    BY <1>4, <1>5, <2>5, <2>12, <2>13 DEF KeptInv, cf
  <2>18. InTurnInv'
    <3>1. /\ s.confirmed_frame <= s.last_remote_input_frame
          /\ s.last_remote_input_frame <= s.current_frame
      <4>1. CASE count = 0
        BY <1>4, <2>1, <2>2, <2>8, <4>1
      <4>2. CASE count # 0
        BY <2>1, <2>2, <2>6, <2>8, <2>10, <4>2
      <4>. QED  BY <4>1, <4>2
    <3>2. \A q \in Player :
             /\ rollback'[q].confirmed_frame <= rollback'[q].last_remote_input_frame
             /\ rollback'[q].last_remote_input_frame <= rollback'[q].current_frame
      BY <1>2, <1>5, <2>12, <3>1 DEF InTurnInv
    <3>3. cf <= rollback'[Master].confirmed_frame
      <4>1. CASE p = Master
        <5>1. rollback'[Master].confirmed_frame = cm + count
          BY <2>8, <2>12, <4>1 DEF cm
        <5>. QED  BY <1>4, <2>6, <5>1
      <4>2. CASE p = Follower
        BY <1>4, <2>12, <4>2 DEF cm
      <4>. QED  BY <1>4, <4>1, <4>2
    <3>. QED  BY <2>13, <3>2, <3>3 DEF InTurnInv
  <2>. QED  BY <1>5, <2>5, <2>15, <2>16, <2>17, <2>18 DEF PairingInv
<1>. QED  BY <1>6, <1>7

(* What the follower's manager is after a confirmation: it took the list,  *)
(* which reaches the frame confirmed.                                      *)
LEMMA ConfirmedWithTheList ==
    ASSUME TypeInv, InputsInv, ConfirmedInv, PairingInv, premature = {},
           Handling(Follower, "kFrameConfirmation")
    PROVE  LET packet == FrontPacket(Follower)
               r      == rollback[Follower]
               s      == ConfirmedByFollower(packet)
               next   == r.confirmed_frame + 1
           IN  /\ ConfirmedByFollowerDefined(packet)
               /\ next <= rollback[Master].confirmed_frame
               /\ next < SampledCount(Follower)
               /\ s.confirmed_frame = next
               /\ s.current_frame = r.current_frame
               /\ s.inputs[Follower] = r.inputs[Follower]
               /\ next <= s.last_remote_input_frame
               /\ s.last_remote_input_frame <= s.current_frame
<1>. DEFINE packet == FrontPacket(Follower)
            list   == packet.frames
            r      == rollback[Follower]
            s      == ConfirmedByFollower(packet)
            cf     == r.confirmed_frame
            next   == cf + 1
            cm     == rollback[Master].confirmed_frame
            t      == IF r.last_remote_input_frame < Last(list).frame_nbr
                      THEN SetOtherPlayerInput(r, list, Master)
                      ELSE r
<1>1. /\ Master \in Player /\ Follower \in Player /\ Other(Follower) = Master
      /\ cf \in Int /\ cf >= -1 /\ cm \in Int
      /\ r.frame_to_confirm = cf + 1
      /\ r.current_frame \in Int /\ r.last_remote_input_frame \in Int
      /\ r.last_remote_input_frame <= r.current_frame
      /\ SampledCount(Follower) \in Int
      /\ cm >= 0 => cm < SampledCount(Follower)
      /\ cm < GameFrameNbr /\ GameFrameNbr \in Int
  BY ConfirmedInTurn, GameFrameNbrAssumption
<1>2. /\ packet_queue[Follower] # << >> /\ packet.type = "kFrameConfirmation"
      /\ state[Follower] = "kInGame"
      /\ r \in RollbackState
  BY <1>1, PlayerTypes DEF Handling, TypeInv, FramesInv
<1>3. /\ list \in Seq(FrameInput) /\ list # << >>
      /\ Slice(list, SampledInputs(Master), SampledCount(Master))
      /\ RemoteInputsDefined(r, list)
      /\ SampledCount(Follower) = r.current_frame
  BY <1>1, FrontIsDefined
<1>4. next <= cm /\ next <= Last(list).frame_nbr
  <2>1. Untainted(next)
    BY DEF Untainted
  <2>. HIDE DEF packet, cm, next
  <2>2. /\ Announces(packet, next, rollback[Master].confirmed, premature)
        /\ next <= rollback[Master].confirmed_frame
    BY <1>2, <2>1, AnnouncedNext DEF packet, next
  <2>. QED  BY <1>3, <2>2 DEF Announces, cm
<1>5. next < SampledCount(Follower)
  BY <1>1, <1>4
<1>6. ConfirmedByFollowerDefined(packet)
  <2>1. r.frame_to_confirm + 1 <= GameFrameNbr
    BY <1>1, <1>4
  <2>. QED  BY <1>3, <2>1 DEF ConfirmedByFollowerDefined, ConfirmFramesDefined
<1>7. Last(list).frame_nbr \in Int
  <2>1. Last(list) \in FrameInput
    BY <1>3, LastType
  <2>. QED  BY <2>1 DEF FrameInput, Frame
<1>. HIDE DEF r, list, packet
<1>8. /\ t \in RollbackState
      /\ t.confirmed_frame = cf /\ t.current_frame = r.current_frame
  BY <1>1, <1>2, <1>3, SetOtherPlayerInputType, SetOtherPlayerInputLeaves
<1>9. /\ next <= t.last_remote_input_frame
      /\ t.last_remote_input_frame <= r.current_frame
      /\ t.inputs[Follower] = r.inputs[Follower]
  <2>1. CASE r.last_remote_input_frame < Last(list).frame_nbr
    <3>1. t = SetOtherPlayerInput(r, list, Master)
      BY <2>1
    <3>. HIDE DEF t, next
    <3>2. t.last_remote_input_frame <= r.current_frame
      BY <1>1, <1>2, <1>3, <3>1, TakesMore
    <3>3. next <= t.last_remote_input_frame
      <4>1. next \in Int
        BY <1>1 DEF next
      <4>2. next <= r.current_frame
        BY <1>1, <1>3, <1>5, <4>1
      <4>. QED  BY <1>1, <1>2, <1>3, <1>4, <3>1, <4>1, <4>2, ReceivedUpTo
    <3>4. t.inputs[Follower] = r.inputs[Follower]
      <4>1. \A f \in 0 .. r.last_remote_input_frame :
               /\ f < SampledCount(Master)
               /\ r.inputs[Master][f] = SampledInputs(Master)[f]
        BY <1>1 DEF InputsInv, ReceivedInv, r
      <4>2. SampledCount(Master) \in Int /\ Other(Master) = Follower
        BY <1>1, ConfirmedInTurn
      <4>. QED  BY <1>1, <1>2, <1>3, <3>1, <4>1, <4>2, SetOtherPlayerInputIsTrue
    <3>. QED  BY <3>2, <3>3, <3>4
  <2>2. CASE ~ (r.last_remote_input_frame < Last(list).frame_nbr)
    <3>. HIDE DEF cf
    <3>. QED  BY <1>1, <1>4, <1>7, <2>2
  <2>. QED  BY <2>1, <2>2
<1>10. s = ConfirmFrames(t, 1)
  BY DEF ConfirmedByFollower, ConfirmFrame, r, list
<1>. HIDE DEF t, s
<1>11. /\ s.confirmed_frame = next
       /\ s.current_frame = t.current_frame
       /\ s.inputs = t.inputs
       /\ s.last_remote_input_frame = t.last_remote_input_frame
  BY <1>8, <1>10 DEF ConfirmFrames, RollbackState
<1>. QED  BY <1>4, <1>5, <1>6, <1>8, <1>9, <1>11 DEF r, packet, s

(* The follower has an input to erase for each frame it confirms, and      *)
(* always acknowledges it.                                                 *)
LEMMA HandleConfirmationPairingInv ==
    ASSUME TypeInv, TypeInv', InputsInv, ConfirmedInv, ConfirmedInv', PairingInv,
           premature = {}, HandleConfirmation
    PROVE  PairingInv'
<1>. DEFINE packet == FrontPacket(Follower)
            r      == rollback[Follower]
            s      == ConfirmedByFollower(packet)
            equal  == CheckSum(s) = packet.checksum
            cf     == r.confirmed_frame
            cm     == rollback[Master].confirmed_frame
            events == EventsTo(Follower)
            list   == unacked[Follower]
            count  == SampledCount(Follower)
<1>1. /\ Master \in Player /\ Follower \in Player /\ Master # Follower
      /\ Other(Follower) = Master /\ Other(Master) = Follower
      /\ \A q \in Player : q = Master \/ q = Follower
      /\ cf \in Int /\ cm \in Int /\ count \in Int
      /\ list \in Seq(FrameInput) /\ Len(list) \in Nat
  BY ConfirmedInTurn
<1>2. /\ Handling(Follower, "kFrameConfirmation")
      /\ pc[Follower] = "packets" /\ packet_queue[Follower] # << >>
      /\ packet.type = "kFrameConfirmation"
      /\ state[Follower] = "kInGame"
  BY <1>1 DEF HandleConfirmation, Handling, TypeInv, FramesInv
<1>3. /\ ConfirmedByFollowerDefined(packet)
      /\ cf + 1 <= cm /\ cf + 1 < count
      /\ s.confirmed_frame = cf + 1
      /\ s.current_frame = r.current_frame
      /\ s.inputs[Follower] = r.inputs[Follower]
      /\ cf + 1 <= s.last_remote_input_frame
      /\ s.last_remote_input_frame <= s.current_frame
  BY <1>2, ConfirmedWithTheList
<1>4. InTurnInv /\ KeptInv /\ AckedInv /\ ReachInv /\ \A q \in Player : state[q] # "Undefined"
  BY DEF PairingInv
<1>5. Len(list) = count - 1 - cf
  BY <1>4 DEF KeptInv
<1>6. list # << >>
  <2>1. Len(list) # 0
    <3>. HIDE DEF list, count, cf, cm, s
    <3>. QED  BY <1>1, <1>3, <1>5
  <2>. QED  BY <2>1
<1>7. /\ events \in Seq(Packet) /\ events # << >>
      /\ Counts(events[1])
      /\ Tail(events) = Tail(packet_queue[Follower]) \o net[Follower]
  BY <1>1, <1>2, FrontOfEvents, PlayerTypes DEF Counts
<1>8. /\ rollback' = [rollback EXCEPT ![Follower] = s]
      /\ \/ /\ equal
            /\ RaiseEvents(Follower, <<AckPacket>>)
            /\ unacked' = [unacked EXCEPT ![Follower] = Tail(@)]
            /\ packet_queue' = [packet_queue EXCEPT ![Follower] = Tail(@)]
            /\ UNCHANGED pc
         \/ /\ ~ equal
            /\ UNCHANGED <<packet_queue, net>>
      /\ UNCHANGED <<state, premature>>
  BY <1>3, <1>6 DEF HandleConfirmation, PopPacket, EraseOldest
<1>. HIDE DEF packet, s, r, list, count, cf, cm, equal
<1>9. /\ rollback'[Follower] = s /\ rollback'[Master] = rollback[Master]
      /\ rollback'[Follower].confirmed_frame = cf + 1
  BY <1>1, <1>3, <1>8 DEF TypeInv, TypeOK
<1>10. equal
  <2>. SUFFICES ASSUME ~ equal PROVE FALSE
    OBVIOUS
  <2>1. EventsTo(Follower)' = events
    BY <1>8 DEF EventsTo
  <2>2. Paired(events, cf, cm, rollback[Master].confirmed, premature)
    BY <1>2 DEF ConfirmedInv, AnnouncedInv, Untainted, cf, cm, r
  <2>3. Paired(events, cf + 1, cm, rollback[Master].confirmed, premature)
    <3>1. state'[Follower] = "kInGame" /\ premature' = {}
      BY <1>2, <1>8
    <3>2. Paired(EventsTo(Follower)', rollback'[Follower].confirmed_frame,
                 rollback'[Master].confirmed_frame, rollback'[Master].confirmed, premature')
      BY <3>1 DEF ConfirmedInv, AnnouncedInv, Untainted
    <3>. HIDE DEF events
    <3>. QED  BY <1>8, <1>9, <2>1, <3>2 DEF cm
  <2>. DEFINE size == Cardinality({i \in DOMAIN events : Counts(events[i])})
  <2>4. size = cm - cf /\ size = cm - (cf + 1)
    <3>. HIDE DEF events
    <3>. QED  BY <1>7, <2>2, <2>3, CountedPackets DEF Paired
  <2>. HIDE DEF size
  <2>. QED  BY <1>1, <2>4
<1>11. /\ RaiseEvents(Follower, <<AckPacket>>)
       /\ unacked' = [unacked EXCEPT ![Follower] = Tail(@)]
       /\ packet_queue' = [packet_queue EXCEPT ![Follower] = Tail(@)]
       /\ UNCHANGED <<pc, state, premature>>
  BY <1>8, <1>10
<1>12. /\ \A q \in Player : SampledCount(q)' = SampledCount(q)
       /\ unacked'[Follower] = Tail(list) /\ unacked'[Master] = unacked[Master]
  <2>1. SampledCount(Follower)' = SampledCount(Follower)
    BY <1>3, <1>9, <1>11 DEF SampledCount, r
  <2>2. SampledCount(Master)' = SampledCount(Master)
    BY <1>9, <1>11 DEF SampledCount
  <2>. QED  BY <1>1, <1>11, <2>1, <2>2 DEF TypeInv, TypeOK, list
<1>13. AckPacket \in Packet /\ Counts(AckPacket) /\ AckPacket.type # "kInput"
       /\ <<AckPacket>> \in Seq(Packet)
  <2>1. AckPacket \in Packet
    BY EmptySeq DEF AckPacket, ConfirmationPacket, Packet, GameHistory
  <2>. QED  BY <2>1 DEF Counts, AckPacket, ConfirmationPacket
<1>14. /\ EventsTo(Follower)' = Tail(events)
       /\ state[Master] = "kInGame" =>
             EventsTo(Master)' = EventsTo(Master) \o <<AckPacket>>
       /\ state[Master] # "kInGame" => EventsTo(Master)' = EventsTo(Master)
       /\ EventsTo(Master) \in Seq(Packet)
  <2>1. net'[Follower] = net[Follower] /\ packet_queue'[Follower] = Tail(packet_queue[Follower])
        /\ packet_queue'[Master] = packet_queue[Master]
    BY <1>1, <1>11, RaiseEventsLeaves DEF TypeInv, TypeOK
  <2>2. EventsTo(Follower)' = Tail(events)
    BY <1>7, <2>1 DEF EventsTo
  <2>3. /\ state[Master] = "kInGame" =>
              EventsTo(Master)' = EventsTo(Master) \o <<AckPacket>>
        /\ state[Master] # "kInGame" => EventsTo(Master)' = EventsTo(Master)
    <3>. HIDE DEF events
    <3>. QED  BY <1>1, <1>11, <1>13, <2>1, RaisedLast
  <2>. QED  BY <1>1, <2>2, <2>3, PlayerTypes
<1>. HIDE DEF events
<1>15. KeptInv'
  <2>. DEFINE before == Len(list)
              after  == Len(Tail(list))
  <2>1. before \in Nat /\ after = before - 1 /\ before = count - 1 - cf
    BY <1>1, <1>5, <1>6, HeadTailProperties
  <2>2. Len(unacked'[Follower]) = after /\ SampledCount(Follower)' = count
    BY <1>1, <1>12 DEF count
  <2>. HIDE DEF before, after
  <2>3. after = count - 1 - (cf + 1)
    BY <1>1, <2>1
  <2>. QED  BY <1>9, <2>2, <2>3 DEF KeptInv
<1>16. AckedInv'
  <2>. SUFFICES ASSUME state[Master] = "kInGame"
                PROVE  Counted(EventsTo(Master)', Acknowledged', cf + 1)
    BY <1>9, <1>11 DEF AckedInv
  <2>1. Acknowledged' = Acknowledged
    BY <1>1, <1>12 DEF Acknowledged
  <2>2. Counted(EventsTo(Master), Acknowledged, cf)
    BY <1>4 DEF AckedInv, cf, r
  <2>3. Counted(<<AckPacket>>, cf, cf + 1)
    BY <1>1, <1>13, CountedOne
  <2>. QED  BY <1>13, <1>14, <2>1, <2>2, <2>3, CountedWithMore
<1>17. ReachInv'
  <2>1. \A q \in Player : AllReach(EventsTo(q), q, cf) /\ EventsTo(q) \in Seq(Packet)
    BY <1>4, PlayerTypes DEF ReachInv, cf, r
  <2>2. AllReach(Tail(events), Follower, cf)
    BY <1>1, <1>7, <2>1, ReachWithoutFirst DEF events
  <2>3. AllReach(<<AckPacket>>, Master, cf)
    <3>1. Len(<<AckPacket>>) = 1 /\ <<AckPacket>>[1] = AckPacket
      OBVIOUS
    <3>2. \A i \in 1 .. 1 : i = 1
      OBVIOUS
    <3>. QED  BY <1>1, <1>13, <3>1, <3>2 DEF AllReach
  <2>4. AllReach(EventsTo(Master)', Master, cf)
    BY <1>1, <1>13, <1>14, <2>1, <2>3, ReachWithMore
  <2>5. \A q \in Player : AllReach(EventsTo(q)', q, cf)
    BY <1>1, <1>14, <2>2, <2>4
  <2>6. ASSUME NEW q \in Player
        PROVE  AllReach(EventsTo(q)', q, cf + 1)
    <3>1. EventsTo(q)' \in Seq(Packet)
      <4>1. EventsTo(Follower)' \in Seq(Packet)
        BY <1>7, <1>14, HeadTailProperties
      <4>2. EventsTo(Master)' \in Seq(Packet)
        BY <1>13, <1>14, ConcatProperties
      <4>. QED  BY <1>1, <4>1, <4>2
    <3>2. cf \in Int /\ cf + 1 \in Int /\ cf <= cf + 1
      BY <1>1
    <3>. QED  BY <2>5, <3>1, <3>2, ReachLater
  <2>. QED  BY <1>9, <2>6 DEF ReachInv
<1>18. InTurnInv'
  BY <1>1, <1>3, <1>4, <1>9 DEF InTurnInv, cm
<1>. QED  BY <1>4, <1>11, <1>15, <1>16, <1>17, <1>18 DEF PairingInv

(* Every step.                                                             *)
LEMMA NextPairingInv ==
    ASSUME TypeInv, TypeInv', InputsInv, ConfirmedInv, ConfirmedInv', PairingInv, [Next]_vars
    PROVE  PairingInv'
<1>. SUFFICES ASSUME premature' = {}
              PROVE  PairingInv'
  BY DEF PairingInv
<1>1. premature = {}
  BY PrematureStays
<1>2. ASSUME NEW p \in Player, ReceiveEvent(p)
      PROVE  PairingInv'
  BY <1>1, <1>2, ReceiveEventPairingInv
<1>3. ASSUME NEW p \in Player, LoseEvent(p)
      PROVE  PairingInv'
  BY <1>1, <1>3, LoseEventPairingInv
<1>4. ASSUME NEW p \in Player, FrameStep(p)
      PROVE  PairingInv'
  <2>1. CASE BeginFrame(p)
    BY <1>1, <2>1, BeginFramePairingInv
  <2>2. CASE HandleInput(p)
    BY <1>1, <2>2, HandleInputPairingInv
  <2>3. CASE HandleAck
    BY <1>1, <2>3, HandleAckPairingInv
  <2>4. CASE HandleConfirmation
    BY <1>1, <2>4, HandleConfirmationPairingInv
  <2>5. CASE EndFrame(p)
    BY <1>1, <2>5, EndFramePairingInv
  <2>. QED  BY <1>4, <2>1, <2>2, <2>3, <2>4, <2>5 DEF FrameStep
<1>5. CASE UNCHANGED vars
  <2>1. UNCHANGED <<rollback, unacked, packet_queue, net, state, pc, premature>>
    BY <1>5 DEF vars
  <2>. QED  BY <2>1 DEF PairingInv, InTurnInv, KeptInv, AckedInv, ReachInv, Acknowledged,
                        SampledCount, EventsTo
<1>. QED  BY <1>2, <1>3, <1>4, <1>5 DEF Next, MatchOver

(* The invariant, for every behaviour.                                     *)
LEMMA PairingInvariant == Spec => [](TypeInv /\ InputsInv /\ ConfirmedInv /\ PairingInv)
<1>1. Init => TypeInv /\ InputsInv /\ ConfirmedInv /\ PairingInv
  BY InitTypeInv, InitInputsInv, InitConfirmedInv, InitPairingInv
<1>2. TypeInv /\ InputsInv /\ ConfirmedInv /\ PairingInv /\ [Next]_vars
        => (TypeInv /\ InputsInv /\ ConfirmedInv /\ PairingInv)'
  BY NextTypeInv, NextInputsInv, NextConfirmedInv, NextPairingInv
<1>. QED  BY <1>1, <1>2, PTL DEF Spec
-----------------------------------------------------------------------------
(* Before a premature confirmation, every iterator and index the players   *)
(* use points to an element: no lists too short, none empty when erased.   *)
THEOREM NoStepUndefined == Spec => []NoUndefinedStep
<1>1. PairingInv => NoUndefinedStep
  BY DEF PairingInv, NoUndefinedStep
<1>. QED  BY <1>1, PairingInvariant, PTL
-----------------------------------------------------------------------------
(* The frames of a list that ends with the last one sampled. *)
LEMMA FramesOfList ==
    ASSUME NEW list \in Seq(FrameInput), NEW inputs, NEW count \in Int,
           Slice(list, inputs, count), list # << >> => Last(list).frame_nbr = count - 1,
           NEW before \in Int, Len(list) = count - 1 - before
    PROVE  {list[i].frame_nbr : i \in DOMAIN list} = {f \in 0 .. count - 1 : f > before}
<1>. DEFINE frames == {list[i].frame_nbr : i \in DOMAIN list}
<1>1. Len(list) \in Nat /\ DOMAIN list = 1 .. Len(list)
  BY LenProperties
<1>2. ASSUME NEW i \in 1 .. Len(list)
      PROVE  list[i].frame_nbr = before + i /\ list[i].frame_nbr >= 0
  <2>1. 1 \in 1 .. Len(list)
    BY <1>1
  <2>2. list[1].frame_nbr \in Int /\ list[i].frame_nbr \in Frame
    BY <2>1, FrameOfElement
  <2>3. /\ list # << >>
        /\ Last(list).frame_nbr = list[1].frame_nbr + Len(list) - 1
        /\ list[i].frame_nbr = list[1].frame_nbr + i - 1
    BY SliceUpToLast
  <2>4. Last(list).frame_nbr = count - 1
    BY <2>3
  <2>5. list[i].frame_nbr >= 0
    BY <2>2, GameFrameNbrAssumption DEF Frame
  <2>. DEFINE first == list[1].frame_nbr
              size  == Len(list)
  <2>6. first \in Int /\ size \in Nat /\ count - 1 = first + size - 1
        /\ size = count - 1 - before
    BY <1>1, <2>2, <2>3, <2>4
  <2>7. list[i].frame_nbr = first + i - 1 /\ i \in Int
    BY <2>3
  <2>. HIDE DEF first, size
  <2>. QED  BY <2>5, <2>6, <2>7
<1>. DEFINE size == Len(list)
<1>3. size \in Nat /\ size = count - 1 - before
      /\ \A i \in 1 .. size : list[i].frame_nbr = before + i /\ list[i].frame_nbr >= 0
  BY <1>1, <1>2
<1>. HIDE DEF size
<1>4. \A i \in 1 .. size : list[i].frame_nbr \in {f \in 0 .. count - 1 : f > before}
  BY <1>3
<1>5. ASSUME NEW f \in 0 .. count - 1, f > before
      PROVE  f - before \in 1 .. size /\ list[f - before].frame_nbr = f
  BY <1>3, <1>5
<1>. QED  BY <1>1, <1>4, <1>5 DEF size

(* How many acknowledgements there are.                                    *)
LEMMA CountedInFlight ==
    ASSUME TypeInv, NEW p \in Player, NEW first \in Int, NEW last \in Int,
           Counted(EventsTo(p), first, last)
    PROVE  InFlight(p, "kFrameConfirmation") = last - first
<1>. DEFINE queue == packet_queue[p]
            way   == net[p]
<1>1. queue \in Seq(Packet) /\ way \in Seq(Packet)
  BY PlayerTypes
<1>2. Counted(queue \o way, first, last)
  BY DEF EventsTo
<1>. HIDE DEF queue, way
<1>3. PICK middle \in Int : Counted(queue, first, middle) /\ Counted(way, middle, last)
  BY <1>1, <1>2, CountedParts
<1>4. /\ Cardinality({i \in DOMAIN queue : Counts(queue[i])}) = middle - first
      /\ Cardinality({i \in DOMAIN way : Counts(way[i])}) = last - middle
  BY <1>1, <1>3, CountedPackets DEF Counted
<1>5. InFlight(p, "kFrameConfirmation") = (middle - first) + (last - middle)
  BY <1>4 DEF InFlight, Counts, queue, way
<1>. QED  BY <1>3, <1>5

(* A player keeps the inputs it sampled for the frames after the last one  *)
(* it knows confirmed by both, and no other: none is erased before its     *)
(* time or kept after it.                                                  *)
THEOREM UnackedExact == Spec => []UnackedAreTheUnconfirmed
<1>1. TypeInv /\ InputsInv /\ ConfirmedInv /\ PairingInv => UnackedAreTheUnconfirmed
  <2>. SUFFICES ASSUME TypeInv, InputsInv, ConfirmedInv, PairingInv, NEW p \in Player
                PROVE  /\ \A i \in DOMAIN unacked[p] :
                             unacked[p][i].input
                               = rollback[p].inputs[p][unacked[p][i].frame_nbr]
                       /\ premature = {} /\ state[Master] = "kInGame" =>
                            LET acknowledged ==
                                  IF p = Follower THEN rollback[Follower].confirmed_frame
                                  ELSE rollback[Follower].confirmed_frame
                                          - InFlight(Master, "kFrameConfirmation")
                            IN  {unacked[p][i].frame_nbr : i \in DOMAIN unacked[p]}
                                  = {f \in SampledFrames(p) : f > acknowledged}
    BY DEF UnackedAreTheUnconfirmed
  <2>. DEFINE list  == unacked[p]
              count == SampledCount(p)
  <2>1. /\ list \in Seq(FrameInput) /\ count \in Int
        /\ Slice(list, SampledInputs(p), count)
        /\ list # << >> => Last(list).frame_nbr = count - 1
    BY PlayerTypes DEF InputsInv, UnackedInv
  <2>2. \A i \in DOMAIN list : list[i].input = rollback[p].inputs[p][list[i].frame_nbr]
    <3>1. DOMAIN list = 1 .. Len(list)
      BY <2>1, LenProperties
    <3>. QED  BY <2>1, <3>1 DEF Slice, SampledInputs
  <2>3. ASSUME premature = {}, state[Master] = "kInGame", NEW before \in Int,
               Len(list) = count - 1 - before
        PROVE  {list[i].frame_nbr : i \in DOMAIN list} = {f \in SampledFrames(p) : f > before}
    <3>. HIDE DEF list, count
    <3>1. SampledFrames(p) = 0 .. count - 1
      BY DEF SampledFrames, count
    <3>. QED  BY <2>1, <2>3, <3>1, FramesOfList
  <2>4. ASSUME premature = {}, state[Master] = "kInGame", p = Follower
        PROVE  {list[i].frame_nbr : i \in DOMAIN list}
                  = {f \in SampledFrames(p) : f > rollback[Follower].confirmed_frame}
    <3>1. /\ rollback[Follower].confirmed_frame \in Int
          /\ Len(list) = count - 1 - rollback[Follower].confirmed_frame
      BY <2>4, ConfirmedInTurn DEF PairingInv, KeptInv
    <3>. HIDE DEF list, count
    <3>. QED  BY <2>3, <2>4, <3>1
  <2>5. ASSUME premature = {}, state[Master] = "kInGame", p # Follower
        PROVE  {list[i].frame_nbr : i \in DOMAIN list}
                  = {f \in SampledFrames(p) :
                        f > rollback[Follower].confirmed_frame
                              - InFlight(Master, "kFrameConfirmation")}
    <3>. DEFINE cf    == rollback[Follower].confirmed_frame
                under == InFlight(Master, "kFrameConfirmation")
                kept  == Len(list)
    <3>1. p = Master /\ Master \in Player /\ cf \in Int /\ Acknowledged \in Int
          /\ kept \in Nat
      BY <2>5, ConfirmedInTurn
    <3>2. Counted(EventsTo(Master), Acknowledged, cf)
      BY <2>5 DEF PairingInv, AckedInv
    <3>3. Acknowledged = count - 1 - kept
      BY <3>1 DEF Acknowledged
    <3>. HIDE DEF cf, under, kept, list, count
    <3>4. under = cf - Acknowledged
      BY <3>1, <3>2, CountedInFlight DEF under
    <3>5. kept = count - 1 - (cf - under) /\ cf - under \in Int
      BY <2>1, <3>1, <3>3, <3>4
    <3>. QED  BY <2>3, <2>5, <3>5 DEF kept, cf, under
  <2>. QED  BY <2>2, <2>4, <2>5
<1>. QED  BY <1>1, PairingInvariant, PTL
-----------------------------------------------------------------------------
(* The game on the screen. *)

(* The input of player q at a frame, as far as the manager of p knows: the *)
(* last remote input beyond those received.                                *)
KnownInput(r, p, q, f) ==
    IF q # p /\ f > r.last_remote_input_frame THEN r.last_inputs[q] ELSE r.inputs[q][f]

KnownAt(r, p, f) == <<KnownInput(r, p, 0, f), KnownInput(r, p, 1, f)>>

(* The shown game made its updates with them, and the last remote input is *)
(* the one of the last frame received.                                     *)
ShowsKnown(r, p, count) ==
    /\ r.last_remote_input_frame >= 0 =>
          r.last_inputs[Other(p)] = r.inputs[Other(p)][r.last_remote_input_frame]
    /\ Len(r.current) = count
    /\ \A f \in 0 .. count - 1 : r.current[f + 1] = KnownAt(r, p, f)

(* The confirmed game made its updates with the inputs the manager holds. *)
ConfirmsHeld(r) ==
    /\ Len(r.confirmed) = r.confirmed_frame + 1
    /\ \A f \in 0 .. r.confirmed_frame : r.confirmed[f + 1] = InputsAt(r, f)

(* DoRollback() makes all the updates before the current frame with the    *)
(* inputs it holds.                                                        *)
LEMMA RolledBack ==
    ASSUME NEW r \in RollbackState, ConfirmsHeld(r), r.confirmed_frame < r.current_frame
    PROVE  /\ Len(DoRollback(r).current) = r.current_frame
           /\ \A f \in 0 .. r.current_frame - 1 :
                 DoRollback(r).current[f + 1] = InputsAt(r, f)
<1>. DEFINE cf     == r.confirmed_frame
            cur    == r.current_frame
            n      == cur - cf - 1
            replay == Replay(r, cf + 1, n)
            game   == r.confirmed \o replay
<1>1. /\ cf \in Int /\ cf >= -1 /\ cur \in Int /\ cf < cur /\ n \in Nat
      /\ cf + 1 \in Nat /\ (cf + 1) + n <= GameFrameNbr
      /\ r.confirmed \in GameHistory /\ Len(r.confirmed) = cf + 1
  BY GameFrameNbrAssumption DEF RollbackState, ConfirmsHeld
<1>2. replay \in GameHistory /\ Len(replay) = n
  <2>. HIDE DEF n, cf
  <2>1. Len(replay) = IF n > 0 THEN n ELSE 0
    BY <1>1, ReplayType
  <2>. QED  BY <1>1, <2>1, ReplayType
<1>3. \A i \in 1 .. n : replay[i] = InputsAt(r, (cf + 1) + i - 1)
  BY DEF Replay
<1>4. DoRollback(r).current = game
  BY DEF DoRollback, RollbackState
<1>. HIDE DEF replay
<1>5. /\ Len(game) = Len(r.confirmed) + Len(replay)
      /\ \A i \in 1 .. Len(r.confirmed) + Len(replay) :
            game[i] = IF i <= Len(r.confirmed) THEN r.confirmed[i]
                      ELSE replay[i - Len(r.confirmed)]
  BY <1>1, <1>2, ConcatProperties DEF GameHistory
<1>. HIDE DEF game
<1>6. Len(game) = cur
  <2>1. Len(game) = (cf + 1) + n
    BY <1>1, <1>2, <1>5
  <2>. QED  BY <1>1, <2>1
<1>7. ASSUME NEW f \in 0 .. cur - 1
      PROVE  game[f + 1] = InputsAt(r, f)
  <2>1. f \in Int /\ f + 1 \in 1 .. Len(r.confirmed) + Len(replay)
    BY <1>1, <1>5, <1>6
  <2>2. CASE f <= cf
    <3>1. f \in 0 .. cf /\ f + 1 <= Len(r.confirmed)
      BY <1>1, <2>2
    <3>. QED  BY <1>5, <2>1, <3>1 DEF ConfirmsHeld
  <2>3. CASE ~ (f <= cf)
    <3>1. /\ ~ (f + 1 <= Len(r.confirmed))
          /\ (f + 1) - Len(r.confirmed) = f - cf
          /\ f - cf \in 1 .. n
          /\ (cf + 1) + (f - cf) - 1 = f
      <4>. HIDE DEF cf, cur
      <4>. QED  BY <1>1, <2>1, <2>3 DEF cur
    <3>2. game[f + 1] = replay[f - cf]
      BY <1>5, <2>1, <3>1
    <3>. HIDE DEF n, cf
    <3>. QED  BY <1>3, <3>1, <3>2
  <2>. QED  BY <2>2, <2>3
<1>. QED  BY <1>4, <1>6, <1>7

(* Taking remote inputs: either the game is run again on the inputs held   *)
(* now, or each one received is the one shown.                             *)
LEMMA TakesKnown ==
    ASSUME NEW r \in RollbackState, NEW list \in Seq(FrameInput), NEW p \in Player,
           RemoteInputsDefined(r, list),
           NEW inputs, NEW count \in Int, Slice(list, inputs, count),
           r.confirmed_frame <= r.last_remote_input_frame,
           r.last_remote_input_frame <= r.current_frame,
           r.confirmed_frame < r.current_frame, r.current_frame \in Frame,
           ConfirmsHeld(r), ShowsKnown(r, p, r.current_frame)
    PROVE  ShowsKnown(SetOtherPlayerInput(r, list, Other(p)), p, r.current_frame)
<1>. DEFINE q    == Other(p)
            s    == SetOtherPlayerInput(r, list, q)
            cur  == r.current_frame
            lrif == r.last_remote_input_frame
<1>1. /\ q \in Player /\ q # p /\ Other(q) = p
      /\ \A o \in Player : o = p \/ o = q
      /\ 0 \in Player /\ 1 \in Player
  BY OtherPlayer DEF Player
<1>2. cur \in Int /\ cur \in Frame /\ lrif \in Int /\ lrif <= cur
      /\ r.confirmed_frame \in Int
  BY FrameCountersAreInt
<1>3. CASE ~ IsNews(r, list)
  BY <1>3 DEF SetOtherPlayerInput
<1>4. CASE IsNews(r, list)
  <2>. DEFINE last   == NewLastInput(r, list)
              filled == FillInputs(r, list, q)
              shown  == IF MustRollback(r, list, q) THEN DoRollback(filled) ELSE filled
              ends   == last.frame_nbr
  <2>1. /\ last \in FrameInput /\ ends <= cur
        /\ ends \in Frame /\ ends \in Int
        /\ Last(list).frame_nbr \in Int /\ lrif < Last(list).frame_nbr
    <3>1. Last(list) \in FrameInput
      BY <1>2, LastType DEF RemoteInputsDefined
    <3>2. last \in FrameInput /\ ends <= cur
      BY <1>4, NewLastInputType
    <3>3. Last(list).frame_nbr \in Int /\ ends \in Frame /\ ends \in Int
      <4>. HIDE DEF last
      <4>. QED  BY <3>1, <3>2 DEF FrameInput, Frame
    <3>. QED  BY <1>2, <1>4, <3>2, <3>3 DEF IsNews
  <2>2. last.input = inputs[ends]
    <3>1. PICK i \in 1 .. Len(list) : last = list[i]
      BY <1>4, NewLastInputType
    <3>. QED  BY <3>1 DEF Slice
  <2>3. filled \in RollbackState
    BY <1>1, <1>4, FillInputsType
  <2>4. /\ filled.confirmed = r.confirmed /\ filled.confirmed_frame = r.confirmed_frame
        /\ filled.current_frame = cur /\ filled.current = r.current
        /\ filled.last_inputs = r.last_inputs
        /\ filled.inputs[p] = r.inputs[p]
        /\ filled.inputs[q] =
              [f \in Frame |->
                IF f \in ends .. cur THEN last.input
                ELSE IF f \in MissingFrames(r, last) THEN MissingInput(r, list, f)
                ELSE r.inputs[q][f]]
    BY <1>1 DEF FillInputs, RollbackState
  <2>5. /\ s.last_remote_input_frame = ends
        /\ s.inputs = filled.inputs
        /\ s.last_inputs[q] = last.input
        /\ s.current = IF MustRollback(r, list, q) THEN DoRollback(filled).current
                       ELSE r.current
    <3>1. /\ shown.inputs = filled.inputs
          /\ shown.last_inputs = r.last_inputs
          /\ shown.current = IF MustRollback(r, list, q) THEN DoRollback(filled).current
                             ELSE r.current
          /\ DOMAIN shown = DOMAIN r
      BY DEF FillInputs, DoRollback, RollbackState
    <3>2. s = [shown EXCEPT !.last_inputs[q]          = last.input,
                            !.last_remote_input_frame = ends]
      BY <1>4 DEF SetOtherPlayerInput
    <3>3. q \in DOMAIN r.last_inputs
      BY <1>1 DEF RollbackState
    <3>. HIDE DEF shown, filled, last, s, q
    <3>. QED  BY <3>1, <3>2, <3>3 DEF RollbackState
  <2>6. lrif <= ends
    <3>1. lrif <= s.last_remote_input_frame
      BY <1>1, TakesMore
    <3>. QED  BY <2>5, <3>1
  <2>7. lrif < cur => lrif < ends
    <3>. SUFFICES ASSUME lrif < cur PROVE lrif < ends
      OBVIOUS
    <3>1. lrif + 1 \in Int /\ lrif + 1 <= cur /\ lrif + 1 <= Last(list).frame_nbr
      BY <1>2, <2>1
    <3>2. lrif + 1 <= s.last_remote_input_frame
      <4>. HIDE DEF lrif, s, q
      <4>. QED  BY <1>1, <3>1, ReceivedUpTo DEF s
    <3>. HIDE DEF last, s
    <3>. QED  BY <1>2, <2>1, <2>5, <3>2
  <2>. HIDE DEF filled, last, s, ends
  <2>8. ASSUME NEW f \in Frame, ends <= f, f <= cur
        PROVE  filled.inputs[q][f] = last.input
    <3>1. f \in ends .. cur
      BY <1>2, <2>1, <2>8, GameFrameNbrAssumption DEF Frame
    <3>. QED  BY <2>4, <2>8, <3>1
  <2>9. ASSUME NEW f \in 0 .. cur - 1
        PROVE  f \in Frame /\ f \in Int /\ f < cur /\ 0 <= f
    BY <1>2, GameFrameNbrAssumption DEF Frame
  <2>10. ASSUME NEW f \in 0 .. cur - 1, f <= lrif
        PROVE  filled.inputs[q][f] = r.inputs[q][f]
    <3>1. f < ends
      BY <1>2, <2>1, <2>6, <2>7, <2>9, <2>10
    <3>2. f \notin ends .. cur /\ f \notin MissingFrames(r, last)
      BY <1>2, <2>1, <2>9, <2>10, <3>1 DEF MissingFrames, ends
    <3>. QED  BY <2>4, <2>9, <3>2
  <2>11. ASSUME NEW f \in 0 .. cur - 1
         PROVE  KnownAt(s, p, f) = InputsAt(filled, f)
    <3>1. KnownInput(s, p, p, f) = filled.inputs[p][f]
      BY <2>5 DEF KnownInput
    <3>2. KnownInput(s, p, q, f) = filled.inputs[q][f]
      <4>1. CASE f > ends
        <5>1. filled.inputs[q][f] = last.input
          <6>1. f \in Frame /\ ends <= f /\ f <= cur
            BY <1>2, <2>1, <2>9, <4>1
          <6>. QED  BY <2>8, <6>1
        <5>. QED  BY <1>1, <2>5, <4>1, <5>1 DEF KnownInput
      <4>2. CASE ~ (f > ends)
        BY <2>5, <4>2 DEF KnownInput
      <4>. QED  BY <4>1, <4>2
    <3>3. \A o \in Player : KnownInput(s, p, o, f) = filled.inputs[o][f]
      BY <1>1, <3>1, <3>2
    <3>. QED  BY <1>1, <3>3 DEF KnownAt, InputsAt
  <2>12. s.last_inputs[q] = s.inputs[q][ends]
    BY <2>1, <2>5, <2>8
  <2>13. CASE MustRollback(r, list, q)
    <3>1. ConfirmsHeld(filled)
      <4>1. ASSUME NEW f \in 0 .. r.confirmed_frame
            PROVE  InputsAt(filled, f) = InputsAt(r, f)
        <5>1. f \in 0 .. cur - 1 /\ f <= lrif
          BY <1>2
        <5>2. \A o \in Player : filled.inputs[o][f] = r.inputs[o][f]
          BY <1>1, <2>4, <2>10, <5>1
        <5>. QED  BY <1>1, <5>2 DEF InputsAt
      <4>. QED  BY <2>4, <4>1 DEF ConfirmsHeld
    <3>2. /\ Len(s.current) = cur
          /\ \A f \in 0 .. cur - 1 : s.current[f + 1] = InputsAt(filled, f)
      BY <2>3, <2>4, <2>5, <2>13, <3>1, RolledBack
    <3>3. ShowsKnown(s, p, cur)
      <4>. HIDE DEF cur
      <4>. QED  BY <2>5, <2>11, <2>12, <3>2 DEF ShowsKnown, q
    <3>. QED  BY <3>3 DEF s
  <2>14. CASE ~ MustRollback(r, list, q)
    <3>1. \A f \in MissingFrames(r, last) : MissingInput(r, list, f) = r.last_inputs[q]
      BY <2>14 DEF MustRollback, last
    <3>2. ASSUME NEW f \in 0 .. cur - 1, f > lrif
          PROVE  filled.inputs[q][f] = r.last_inputs[q]
      <4>1. lrif < ends
        BY <1>2, <2>7, <2>9, <3>2
      <4>2. CASE f < ends
        <5>1. f \in MissingFrames(r, last) /\ f \notin ends .. cur
          BY <1>2, <2>1, <2>9, <3>2, <4>2 DEF MissingFrames, ends
        <5>. QED  BY <2>4, <2>9, <3>1, <5>1
      <4>3. CASE ~ (f < ends)
        <5>1. ends \in MissingFrames(r, last)
          BY <1>2, <2>1, <4>1 DEF MissingFrames, ends
        <5>2. MissingInput(r, list, ends) = inputs[ends]
          BY <1>4, <5>1, MissingInputIsTrue DEF last
        <5>3. last.input = r.last_inputs[q]
          BY <2>2, <3>1, <5>1, <5>2
        <5>. QED  BY <1>2, <2>1, <2>8, <2>9, <4>3, <5>3
      <4>. QED  BY <4>2, <4>3
    <3>3. ASSUME NEW f \in 0 .. cur - 1
          PROVE  KnownAt(r, p, f) = InputsAt(filled, f)
      <4>1. KnownInput(r, p, p, f) = filled.inputs[p][f]
        BY <2>4 DEF KnownInput
      <4>2. KnownInput(r, p, q, f) = filled.inputs[q][f]
        <5>1. CASE f > lrif
          BY <1>1, <3>2, <5>1 DEF KnownInput
        <5>2. CASE ~ (f > lrif)
          <6>1. f <= lrif
            BY <1>2, <2>9, <5>2
          <6>. QED  BY <2>10, <5>2, <6>1 DEF KnownInput
        <5>. QED  BY <5>1, <5>2
      <4>3. \A o \in Player : KnownInput(r, p, o, f) = filled.inputs[o][f]
        BY <1>1, <4>1, <4>2
      <4>. QED  BY <1>1, <4>3 DEF KnownAt, InputsAt
    <3>4. /\ Len(s.current) = cur
          /\ \A f \in 0 .. cur - 1 : s.current[f + 1] = KnownAt(s, p, f)
      BY <2>5, <2>11, <2>14, <3>3 DEF ShowsKnown
    <3>5. ShowsKnown(s, p, cur)
      <4>. HIDE DEF cur
      <4>. QED  BY <2>5, <2>12, <3>4 DEF ShowsKnown, q
    <3>. QED  BY <3>5 DEF s
  <2>. QED  BY <2>13, <2>14 DEF s
<1>. QED  BY <1>3, <1>4

(* Taking remote inputs first, or not, and confirming frames then shows    *)
(* the same.                                                               *)
LEMMA ConfirmingShows ==
    ASSUME NEW r \in RollbackState, NEW n, NEW p, NEW count, ShowsKnown(r, p, count)
    PROVE  ShowsKnown(ConfirmFrames(r, n), p, count)
<1>. DEFINE s == ConfirmFrames(r, n)
<1>1. /\ s.current = r.current /\ s.inputs = r.inputs /\ s.last_inputs = r.last_inputs
      /\ s.last_remote_input_frame = r.last_remote_input_frame
  BY DEF ConfirmFrames, RollbackState
<1>. HIDE DEF s
<1>2. ShowsKnown(s, p, count)
  BY <1>1 DEF ShowsKnown, KnownAt, KnownInput
<1>. QED  BY <1>2 DEF s

(* The frame ends with an update on the inputs known for it.               *)
LEMMA UpdatingShows ==
    ASSUME NEW r \in RollbackState, NEW p \in Player, NEW input \in Input,
           r.current_frame \in Frame, r.last_remote_input_frame <= r.current_frame,
           ShowsKnown(r, p, r.current_frame)
    PROVE  ShowsKnown(UpdateGame(SetPlayerInput(r, p, input)), p, r.current_frame + 1)
<1>. DEFINE s    == UpdateGame(SetPlayerInput(r, p, input))
            q    == Other(p)
            cur  == r.current_frame
            lrif == r.last_remote_input_frame
            new  == <<s.last_inputs[0], s.last_inputs[1]>>
<1>1. /\ q \in Player /\ q # p
      /\ \A o \in Player : o = p \/ o = q
      /\ 0 \in Player /\ 1 \in Player
  BY OtherPlayer DEF Player
<1>2. cur \in Int /\ cur \in Frame /\ cur >= 0 /\ lrif \in Int
  BY FrameCountersAreInt DEF Frame
<1>3. /\ s.last_remote_input_frame = lrif
      /\ s.inputs[p] = [r.inputs[p] EXCEPT ![cur] = input]
      /\ s.inputs[q] = r.inputs[q]
      /\ s.last_inputs[p] = input
      /\ s.last_inputs[q] = r.last_inputs[q]
      /\ s.current = Append(r.current, new)
  BY <1>1 DEF UpdateGame, SetPlayerInput, RollbackState
<1>4. r.inputs[p] \in [Frame -> Input] /\ r.current \in Seq(Input \X Input)
  BY DEF RollbackState, GameHistory
<1>5. /\ lrif >= 0 => r.last_inputs[q] = r.inputs[q][lrif]
      /\ Len(r.current) = cur
      /\ \A f \in 0 .. cur - 1 : r.current[f + 1] = KnownAt(r, p, f)
  BY DEF ShowsKnown
<1>. HIDE DEF s, q, cur, lrif
<1>6. new \in Input \X Input
  <2>1. s.last_inputs[p] \in Input /\ s.last_inputs[q] \in Input
    BY <1>1, <1>3 DEF RollbackState
  <2>2. \A o \in Player : s.last_inputs[o] \in Input
    BY <1>1, <2>1
  <2>. QED  BY <1>1, <2>2
<1>. HIDE DEF new
<1>7. /\ Len(s.current) = cur + 1
      /\ \A i \in 1 .. cur : s.current[i] = r.current[i]
      /\ s.current[cur + 1] = new
  BY <1>3, <1>4, <1>5, <1>6, AppendProperties
<1>8. ASSUME NEW f \in 0 .. cur - 1
      PROVE  s.current[f + 1] = KnownAt(s, p, f)
  <2>1. f \in Frame /\ f \in Int /\ f # cur /\ f + 1 \in 1 .. cur
    BY <1>2, GameFrameNbrAssumption DEF Frame
  <2>2. KnownInput(s, p, p, f) = KnownInput(r, p, p, f)
    BY <1>3, <1>4, <2>1 DEF KnownInput
  <2>3. KnownInput(s, p, q, f) = KnownInput(r, p, q, f)
    BY <1>3 DEF KnownInput, lrif
  <2>4. \A o \in Player : KnownInput(s, p, o, f) = KnownInput(r, p, o, f)
    BY <1>1, <2>2, <2>3
  <2>. QED  BY <1>1, <1>5, <1>7, <2>1, <2>4 DEF KnownAt
<1>9. new = KnownAt(s, p, cur)
  <2>1. KnownInput(s, p, p, cur) = s.last_inputs[p]
    BY <1>2, <1>3, <1>4 DEF KnownInput
  <2>2. KnownInput(s, p, q, cur) = s.last_inputs[q]
    <3>1. CASE cur > lrif
      BY <1>1, <1>3, <3>1 DEF KnownInput
    <3>2. CASE ~ (cur > lrif)
      <4>1. cur = lrif
        BY <1>2, <3>2 DEF cur, lrif
      <4>. QED  BY <1>2, <1>3, <1>5, <3>2, <4>1 DEF KnownInput
    <3>. QED  BY <3>1, <3>2
  <2>3. \A o \in Player : KnownInput(s, p, o, cur) = s.last_inputs[o]
    BY <1>1, <2>1, <2>2
  <2>. QED  BY <1>1, <2>3 DEF KnownAt, new
<1>10. \A f \in 0 .. (cur + 1) - 1 : s.current[f + 1] = KnownAt(s, p, f)
  <2>1. \A f \in 0 .. (cur + 1) - 1 : f \in 0 .. cur - 1 \/ f = cur
    BY <1>2
  <2>. QED  BY <1>7, <1>8, <1>9, <2>1
<1>11. ShowsKnown(s, p, cur + 1)
  BY <1>3, <1>5, <1>7, <1>10 DEF ShowsKnown, q
<1>. QED  BY <1>11 DEF s, cur

SpeculationInv ==
    premature = {} => \A p \in Player : ShowsKnown(rollback[p], p, SampledCount(p))

(* Nothing is shown at first.                                              *)
LEMMA InitSpeculationInv == Init => SpeculationInv
<1>. SUFFICES ASSUME Init, NEW p \in Player
              PROVE  ShowsKnown(rollback[p], p, SampledCount(p))
  BY DEF SpeculationInv
<1>1. rollback[p] = RollbackInit /\ SampledCount(p) = 0 /\ Len(<< >>) = 0
  BY DEF Init, SampledCount, RollbackInit
<1>. QED  BY <1>1 DEF ShowsKnown, RollbackInit

(* While a player handles packets, its manager is one TakesKnown is about. *)
LEMMA ManagerInPackets ==
    ASSUME TypeInv, InputsInv, ConfirmedInv, PairingInv, SpeculationInv, premature = {},
           NEW p \in Player, pc[p] # "loop"
    PROVE  LET r == rollback[p]
           IN  /\ r \in RollbackState
               /\ SampledCount(p) = r.current_frame
               /\ r.confirmed_frame <= r.last_remote_input_frame
               /\ r.last_remote_input_frame <= r.current_frame
               /\ r.confirmed_frame < r.current_frame
               /\ r.current_frame \in Frame
               /\ ConfirmsHeld(r)
               /\ ShowsKnown(r, p, r.current_frame)
<1>. DEFINE r  == rollback[p]
            cf == r.confirmed_frame
<1>1. /\ r \in RollbackState /\ SampledCount(p) = r.current_frame
      /\ r.current_frame >= 0 /\ r.current_frame < GameFrameNbr /\ r.current_frame \in Int
      /\ r.last_remote_input_frame \in Int
  BY PlayerTypes, FrameCountersAreInt DEF SampledCount, TypeInv, FramesInv
<1>2. /\ cf <= r.last_remote_input_frame /\ r.last_remote_input_frame <= r.current_frame
      /\ cf \in Int /\ cf >= -1
  BY ConfirmedInTurn
<1>3. ASSUME NEW f \in 0 .. cf
      PROVE  /\ f < r.current_frame
             /\ r.confirmed[f + 1] = InputsAt(r, f)
  <2>1. /\ \A q \in Player : f < SampledCount(q)
        /\ r.confirmed[f + 1] = TrueInputs(f)
    BY DEF ConfirmedInv, TruthInv, Untainted
  <2>2. f \in 0 .. r.last_remote_input_frame
    BY <1>1, <1>2
  <2>3. r.inputs[Other(p)][f] = rollback[Other(p)].inputs[Other(p)][f]
    BY <2>2 DEF InputsInv, ReceivedInv, SampledInputs
  <2>4. \A q \in Player : q = p \/ q = Other(p)
    BY OtherPlayer
  <2>5. \A q \in Player : r.inputs[q][f] = rollback[q].inputs[q][f]
    BY <2>3, <2>4
  <2>6. TrueInputs(f) = InputsAt(r, f)
    BY <2>5 DEF TrueInputs, InputsAt, Player
  <2>. QED  BY <1>1, <2>1, <2>6
<1>4. cf < r.current_frame
  <2>1. cf >= 0 => cf \in 0 .. cf
    BY <1>2
  <2>. QED  BY <1>1, <1>2, <1>3, <2>1
<1>5. Len(r.confirmed) = cf + 1
  BY DEF ConfirmedInv, LengthInv
<1>6. r.current_frame \in Frame
  BY <1>1, GameFrameNbrAssumption DEF Frame
<1>. QED  BY <1>1, <1>2, <1>3, <1>4, <1>5, <1>6 DEF ConfirmsHeld, SpeculationInv

(* A step that leaves what is shown, or changes it in one manager only.    *)
LEMMA KeepsSpeculationInv ==
    ASSUME TypeInv, SpeculationInv, premature = {}, SamplesNothing,
           NEW p \in Player, NEW r, rollback' = [rollback EXCEPT ![p] = r],
           ShowsKnown(r, p, SampledCount(p))
    PROVE  SpeculationInv'
<1>1. rollback'[p] = r /\ \A q \in Player : q # p => rollback'[q] = rollback[q]
  BY DEF TypeInv, TypeOK
<1>. QED  BY <1>1 DEF SpeculationInv, SamplesNothing

(* A step that leaves the managers alone.                                  *)
LEMMA SameSpeculationInv ==
    ASSUME SpeculationInv, premature = {}, SamplesNothing, UNCHANGED rollback
    PROVE  SpeculationInv'
  BY DEF SpeculationInv, SamplesNothing

(* HandlePacket(), inputs.                                                 *)
LEMMA HandleInputSpeculationInv ==
    ASSUME TypeInv, InputsInv, ConfirmedInv, PairingInv, SpeculationInv, premature = {},
           NEW p \in Player, HandleInput(p)
    PROVE  SpeculationInv'
<1>. DEFINE list  == FrontPacket(p).frames
            r     == SetOtherPlayerInput(rollback[p], list, Other(p))
            count == IF p = Master THEN ConfirmCount(r, list) ELSE 0
<1>1. SamplesNothing
  BY HandleInputShows DEF ShowsNothing, MasterGoesOn
<1>2. \/ UNCHANGED rollback
      \/ rollback' = [rollback EXCEPT ![p] = ConfirmFrames(r, count)]
  BY DEF HandleInput, UndefinedStep
<1>3. Handling(p, "kInput") /\ pc[p] # "loop" /\ Other(p) \in Player
  BY OtherPlayer DEF HandleInput, Handling
<1>4. /\ list \in Seq(FrameInput)
      /\ Slice(list, SampledInputs(Other(p)), SampledCount(Other(p)))
      /\ RemoteInputsDefined(rollback[p], list)
      /\ SampledCount(Other(p)) \in Int
  BY <1>3, FrontIsDefined, PlayerTypes
<1>. HIDE DEF list
<1>5. SampledCount(p) = rollback[p].current_frame /\ rollback[p] \in RollbackState
  BY <1>3, ManagerInPackets
<1>6. ShowsKnown(r, p, rollback[p].current_frame)
  BY <1>3, <1>4, ManagerInPackets, TakesKnown
<1>7. r \in RollbackState
  BY <1>3, <1>4, <1>5, SetOtherPlayerInputType
<1>. HIDE DEF r, count
<1>8. ShowsKnown(ConfirmFrames(r, count), p, SampledCount(p))
  BY <1>5, <1>6, <1>7, ConfirmingShows
<1>. QED  BY <1>1, <1>2, <1>8, KeepsSpeculationInv, SameSpeculationInv

(* HandlePacket(), a confirmation.                                         *)
LEMMA HandleConfirmationSpeculationInv ==
    ASSUME TypeInv, InputsInv, ConfirmedInv, PairingInv, SpeculationInv, premature = {},
           HandleConfirmation
    PROVE  SpeculationInv'
<1>. DEFINE r    == rollback[Follower]
            list == FrontPacket(Follower).frames
            t    == IF r.last_remote_input_frame < Last(list).frame_nbr
                    THEN SetOtherPlayerInput(r, list, Master)
                    ELSE r
<1>1. SamplesNothing
  BY HandleConfirmationShows DEF ShowsNothing, FollowerGoesOn
<1>2. \/ UNCHANGED rollback
      \/ rollback' = [rollback EXCEPT ![Follower] = ConfirmFrames(t, 1)]
  BY DEF HandleConfirmation, UndefinedStep, ConfirmedByFollower, ConfirmFrame
<1>3. /\ Follower \in Player /\ Master \in Player /\ Other(Follower) = Master
      /\ Handling(Follower, "kFrameConfirmation") /\ pc[Follower] # "loop"
  BY DEF HandleConfirmation, Handling, Follower, Master, Player, Other
<1>4. /\ list \in Seq(FrameInput)
      /\ Slice(list, SampledInputs(Master), SampledCount(Master))
      /\ RemoteInputsDefined(r, list)
      /\ SampledCount(Master) \in Int
  BY <1>3, FrontIsDefined, PlayerTypes
<1>. HIDE DEF list
<1>5. /\ SampledCount(Follower) = r.current_frame /\ r \in RollbackState
      /\ ShowsKnown(r, Follower, r.current_frame)
  BY <1>3, ManagerInPackets
<1>6. ShowsKnown(SetOtherPlayerInput(r, list, Master), Follower, r.current_frame)
  BY <1>3, <1>4, ManagerInPackets, TakesKnown
<1>7. t \in RollbackState /\ ShowsKnown(t, Follower, r.current_frame)
  BY <1>3, <1>4, <1>5, <1>6, SetOtherPlayerInputType
<1>. HIDE DEF r, t
<1>8. ShowsKnown(ConfirmFrames(t, 1), Follower, SampledCount(Follower))
  BY <1>5, <1>7, ConfirmingShows
<1>. QED  BY <1>1, <1>2, <1>3, <1>8, KeepsSpeculationInv, SameSpeculationInv

(* The end of the frame.                                                   *)
LEMMA EndFrameSpeculationInv ==
    ASSUME TypeInv, InputsInv, ConfirmedInv, PairingInv, SpeculationInv, premature = {},
           NEW p \in Player, EndFrame(p)
    PROVE  SpeculationInv'
<1>1. PICK input \in Input :
         rollback' = [rollback EXCEPT ![p] =
                         UpdateGame(SetPlayerInput(rollback[p], p, input))]
  BY DEF EndFrame
<1>. DEFINE s == UpdateGame(SetPlayerInput(rollback[p], p, input))
<1>2. pc[p] # "loop"
  BY DEF EndFrame
<1>3. /\ SampledCount(p) = rollback[p].current_frame /\ rollback[p] \in RollbackState
      /\ ShowsKnown(s, p, rollback[p].current_frame + 1)
  BY <1>2, ManagerInPackets, UpdatingShows
<1>4. /\ SampledCount(p)' = SampledCount(p) + 1
      /\ SampledCount(Other(p))' = SampledCount(Other(p))
  BY EndFrameSamples DEF Samples
<1>. HIDE DEF s
<1>5. /\ \A q \in Player : q = p \/ q = Other(p)
      /\ Other(p) \in Player /\ Other(p) # p
  BY OtherPlayer
<1>6. rollback'[p] = s /\ rollback'[Other(p)] = rollback[Other(p)]
  BY <1>1, <1>5 DEF TypeInv, TypeOK, s
<1>7. ShowsKnown(rollback[Other(p)], Other(p), SampledCount(Other(p)))
  BY <1>5 DEF SpeculationInv
<1>8. ASSUME NEW q \in Player
      PROVE  ShowsKnown(rollback'[q], q, SampledCount(q)')
  BY <1>3, <1>4, <1>5, <1>6, <1>7
<1>. QED  BY <1>8 DEF SpeculationInv

(* Every step.                                                             *)
LEMMA NextSpeculationInv ==
    ASSUME TypeInv, InputsInv, ConfirmedInv, PairingInv, SpeculationInv, [Next]_vars
    PROVE  SpeculationInv'
<1>. SUFFICES ASSUME premature' = {}
              PROVE  SpeculationInv'
  BY DEF SpeculationInv
<1>1. premature = {}
  BY PrematureStays
<1>2. ASSUME NEW p \in Player, ReceiveEvent(p) \/ LoseEvent(p)
      PROVE  SpeculationInv'
  <2>1. UNCHANGED rollback
    BY <1>2, ReceiveEventStep, LoseEventStep
  <2>2. SamplesNothing
    BY <1>2, ServiceShowsNothing DEF ShowsNothing
  <2>. QED  BY <1>1, <2>1, <2>2, SameSpeculationInv
<1>3. ASSUME NEW p \in Player, BeginFrame(p)
      PROVE  SpeculationInv'
  <2>. DEFINE next == IncreaseCurrentFrame(rollback[p])
  <2>1. rollback' = [rollback EXCEPT ![p] = next]
    BY <1>3 DEF BeginFrame
  <2>2. SamplesNothing
    BY <1>3, BeginFrameShowsNothing DEF ShowsNothing
  <2>3. ShowsKnown(rollback[p], p, SampledCount(p))
    BY <1>1 DEF SpeculationInv
  <2>4. /\ next.current = rollback[p].current /\ next.inputs = rollback[p].inputs
        /\ next.last_inputs = rollback[p].last_inputs
        /\ next.last_remote_input_frame = rollback[p].last_remote_input_frame
    BY PlayerTypes DEF IncreaseCurrentFrame, RollbackState
  <2>. HIDE DEF next
  <2>5. ShowsKnown(next, p, SampledCount(p))
    BY <2>3, <2>4 DEF ShowsKnown, KnownAt, KnownInput
  <2>. QED  BY <1>1, <2>1, <2>2, <2>5, KeepsSpeculationInv
<1>4. ASSUME HandleAck
      PROVE  SpeculationInv'
  <2>1. UNCHANGED rollback
    BY <1>4 DEF HandleAck, UndefinedStep
  <2>2. SamplesNothing
    BY <1>4, HandleAckShowsNothing DEF ShowsNothing
  <2>. QED  BY <1>1, <2>1, <2>2, SameSpeculationInv
<1>5. ASSUME NEW p \in Player, FrameStep(p)
      PROVE  SpeculationInv'
  BY <1>1, <1>3, <1>4, <1>5, HandleInputSpeculationInv, HandleConfirmationSpeculationInv,
     EndFrameSpeculationInv DEF FrameStep
<1>6. CASE UNCHANGED vars
  <2>1. UNCHANGED rollback /\ SamplesNothing
    BY <1>6 DEF vars, SamplesNothing, SampledCount, SampledInputs
  <2>. QED  BY <1>1, <2>1, SameSpeculationInv
<1>. QED  BY <1>2, <1>5, <1>6 DEF Next, MatchOver

(* The game on the screen is always the run from the start on the inputs   *)
(* known and the last remote input beyond them: every rollback that is     *)
(* skipped was not needed, and every one done replays all it must.         *)
THEOREM SpeculationCorrect == Spec => []SpeculationExact
<1>1. TypeInv /\ SpeculationInv => SpeculationExact
  <2>. SUFFICES ASSUME TypeInv, SpeculationInv, premature = {}, NEW p \in Player
                PROVE  LET r == rollback[p]
                           known(q, f) == IF q # p /\ f > r.last_remote_input_frame
                                          THEN r.last_inputs[q] ELSE r.inputs[q][f]
                       IN  r.current = [i \in 1 .. SampledCount(p) |->
                                           <<known(0, i - 1), known(1, i - 1)>>]
    BY DEF SpeculationExact
  <2>. DEFINE game  == rollback[p].current
              count == SampledCount(p)
  <2>1. /\ game \in Seq(Input \X Input) /\ Len(game) = count /\ count \in Int
        /\ \A f \in 0 .. count - 1 : game[f + 1] = KnownAt(rollback[p], p, f)
    BY PlayerTypes DEF SpeculationInv, ShowsKnown, RollbackState, GameHistory
  <2>2. game = [i \in 1 .. count |-> game[i]]
    BY <2>1, LenProperties
  <2>3. ASSUME NEW i \in 1 .. count
        PROVE  game[i] = KnownAt(rollback[p], p, i - 1)
    <3>1. i - 1 \in 0 .. count - 1 /\ (i - 1) + 1 = i
      BY <2>1
    <3>. QED  BY <2>1, <3>1
  <2>4. game = [i \in 1 .. count |-> KnownAt(rollback[p], p, i - 1)]
    <3>. HIDE DEF game, count
    <3>. QED  BY <2>2, <2>3
  <2>. QED  BY <2>4 DEF KnownAt, KnownInput
<1>2. Init => SpeculationInv
  BY InitSpeculationInv
<1>3. TypeInv /\ InputsInv /\ ConfirmedInv /\ PairingInv /\ SpeculationInv /\ [Next]_vars
        => SpeculationInv'
  BY NextSpeculationInv
<1>. QED  BY <1>1, <1>2, <1>3, PairingInvariant, PTL DEF Spec
=============================================================================
