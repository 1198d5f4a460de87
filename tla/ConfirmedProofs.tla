--------------------------- MODULE ConfirmedProofs ---------------------------
(***************************************************************************)
(* Both players confirm the frames with the inputs both sampled for them,  *)
(* no confirmation is lost on the way, and the match is one of Lockstep's: *)
(* the proofs of ConfirmedInputsAreTrue, of ConfirmationsAreDelivered and  *)
(* of ImplementsLockstep, for every length of a match and every set of     *)
(* inputs.                                                                 *)
(*                                                                         *)
(* Neither a confirmation nor an acknowledgement names its frame.  What    *)
(* pairs them is their number: number[i] is the frame that is settled once *)
(* the first i packets under way are handled.                              *)
(***************************************************************************)
EXTENDS InputsProofs

Counts(packet) == packet.type = "kFrameConfirmation"

Numbered(number, packets, first, last) ==
    /\ number \in [0 .. Len(packets) -> Int]
    /\ number[0] = first
    /\ number[Len(packets)] = last
    /\ \A i \in 1 .. Len(packets) :
          number[i] = IF Counts(packets[i]) THEN number[i - 1] + 1 ELSE number[i - 1]

(* A packet that counts announces its frame: as the checksum of the game   *)
(* up to it and, before a bad frame, with inputs that reach it.            *)
Announces(packet, frame, game, bad) ==
    /\ frame + 1 <= Len(game)
    /\ Len(packet.checksum) = frame + 1
    /\ \A i \in 1 .. frame + 1 : packet.checksum[i] = game[i]
    /\ (\A f \in bad : frame < f) /\ packet.frames # << >> =>
          frame <= Last(packet.frames).frame_nbr

Announced(number, packets, game, bad) ==
    \A i \in 1 .. Len(packets) :
        Counts(packets[i]) => Announces(packets[i], number[i], game, bad)

(* Packets announce the frames after the first, in turn, up to the last. *)
Paired(packets, first, last, game, bad) ==
    \E number \in [0 .. Len(packets) -> Int] :
        /\ Numbered(number, packets, first, last)
        /\ Announced(number, packets, game, bad)

-----------------------------------------------------------------------------
(* The numbers of the packets, as these come and go. *)

(* Without the first packet. *)
LEMMA NumberedWithoutFirst ==
    ASSUME NEW packets \in Seq(Packet), packets # << >>,
           NEW number, NEW first, NEW last, Numbered(number, packets, first, last)
    PROVE  LET later == [i \in 0 .. Len(packets) - 1 |-> number[i + 1]]
           IN  /\ Numbered(later, Tail(packets), number[1], last)
               /\ number[1] = IF Counts(packets[1]) THEN first + 1 ELSE first
<1>. DEFINE later == [i \in 0 .. Len(packets) - 1 |-> number[i + 1]]
            rest  == Tail(packets)
<1>1. /\ Len(packets) \in Nat \ {0}
      /\ Len(rest) = Len(packets) - 1
      /\ \A i \in 1 .. Len(rest) : rest[i] = packets[i + 1]
  BY EmptySeq, HeadTailProperties
<1>. HIDE DEF rest
<1>2. /\ later \in [0 .. Len(rest) -> Int]
      /\ later[0] = number[1]
      /\ later[Len(rest)] = last
  BY <1>1 DEF Numbered
<1>3. ASSUME NEW i \in 1 .. Len(rest)
      PROVE  later[i] = IF Counts(rest[i]) THEN later[i - 1] + 1 ELSE later[i - 1]
  <2>1. /\ later[i] = number[i + 1]
        /\ later[i - 1] = number[i]
        /\ i + 1 \in 1 .. Len(packets)
        /\ (i + 1) - 1 = i
        /\ rest[i] = packets[i + 1]
    BY <1>1
  <2>2. number[i + 1] = IF Counts(packets[i + 1]) THEN number[(i + 1) - 1] + 1
                                                  ELSE number[(i + 1) - 1]
    BY <2>1 DEF Numbered
  <2>. QED  BY <2>1, <2>2
<1>4. number[1] = IF Counts(packets[1]) THEN first + 1 ELSE first
  <2>1. 1 \in 1 .. Len(packets) /\ 1 - 1 = 0
    BY <1>1
  <2>. QED  BY <2>1 DEF Numbered
<1>. QED  BY <1>2, <1>3, <1>4 DEF Numbered, rest

(* With more packets after them, the numbers of these go on from the last. *)
LEMMA NumberedWithMore ==
    ASSUME NEW packets \in Seq(Packet), NEW raised \in Seq(Packet),
           NEW number, NEW first, NEW middle,
           Numbered(number, packets, first, middle),
           NEW more, NEW last, Numbered(more, raised, middle, last)
    PROVE  LET all == [i \in 0 .. Len(packets) + Len(raised) |->
                          IF i <= Len(packets) THEN number[i] ELSE more[i - Len(packets)]]
           IN  Numbered(all, packets \o raised, first, last)
<1>. DEFINE all    == [i \in 0 .. Len(packets) + Len(raised) |->
                          IF i <= Len(packets) THEN number[i] ELSE more[i - Len(packets)]]
            longer == packets \o raised
<1>1. /\ Len(packets) \in Nat /\ Len(raised) \in Nat
      /\ Len(longer) = Len(packets) + Len(raised)
      /\ \A i \in 1 .. Len(packets) + Len(raised) :
            longer[i] = IF i <= Len(packets) THEN packets[i] ELSE raised[i - Len(packets)]
  BY ConcatProperties, LenProperties
<1>. HIDE DEF longer
<1>2. /\ number \in [0 .. Len(packets) -> Int] /\ number[0] = first
      /\ number[Len(packets)] = middle
      /\ more \in [0 .. Len(raised) -> Int] /\ more[0] = middle
      /\ more[Len(raised)] = last
  BY DEF Numbered
<1>3. all \in [0 .. Len(longer) -> Int]
  <2>1. ASSUME NEW i \in 0 .. Len(packets) + Len(raised)
        PROVE  (IF i <= Len(packets) THEN number[i] ELSE more[i - Len(packets)]) \in Int
    <3>1. CASE i <= Len(packets)
      BY <1>1, <1>2, <3>1
    <3>2. CASE ~ (i <= Len(packets))
      <4>1. i - Len(packets) \in 0 .. Len(raised)
        BY <1>1, <3>2
      <4>. QED  BY <1>2, <3>2, <4>1
    <3>. QED  BY <3>1, <3>2
  <2>. QED  BY <1>1, <2>1
<1>4. all[0] = first /\ all[Len(longer)] = last
  <2>1. all[0] = first
    BY <1>1, <1>2
  <2>2. CASE Len(raised) = 0
    BY <1>1, <1>2, <2>2
  <2>3. CASE Len(raised) # 0
    <3>1. /\ Len(longer) \in 0 .. Len(packets) + Len(raised)
          /\ ~ (Len(longer) <= Len(packets))
          /\ Len(longer) - Len(packets) = Len(raised)
      BY <1>1, <2>3
    <3>. QED  BY <1>2, <2>1, <3>1
  <2>. QED  BY <2>1, <2>2, <2>3
<1>5. ASSUME NEW i \in 1 .. Len(longer)
      PROVE  all[i] = IF Counts(longer[i]) THEN all[i - 1] + 1 ELSE all[i - 1]
  <2>1. CASE i <= Len(packets)
    <3>1. /\ all[i] = number[i] /\ all[i - 1] = number[i - 1]
          /\ longer[i] = packets[i] /\ i \in 1 .. Len(packets)
      BY <1>1, <2>1
    <3>. QED  BY <3>1 DEF Numbered
  <2>2. CASE i > Len(packets)
    <3>. DEFINE k == i - Len(packets)
    <3>1. /\ k \in 1 .. Len(raised)
          /\ all[i] = more[k]
          /\ longer[i] = raised[k]
      BY <1>1, <2>2
    <3>2. all[i - 1] = more[k - 1]
      <4>1. CASE i - 1 = Len(packets)
        <5>1. all[i - 1] = number[i - 1] /\ k - 1 = 0
          BY <1>1, <4>1
        <5>. QED  BY <1>2, <4>1, <5>1
      <4>2. CASE i - 1 # Len(packets)
        <5>1. /\ i - 1 \in 0 .. Len(packets) + Len(raised)
              /\ ~ (i - 1 <= Len(packets))
              /\ (i - 1) - Len(packets) = k - 1
          BY <1>1, <2>2, <4>2
        <5>. QED  BY <5>1
      <4>. QED  BY <4>1, <4>2
    <3>3. more[k] = IF Counts(raised[k]) THEN more[k - 1] + 1 ELSE more[k - 1]
      BY <3>1 DEF Numbered
    <3>. QED  BY <3>1, <3>2, <3>3
  <2>. QED  BY <1>1, <2>1, <2>2
<1>. QED  BY <1>3, <1>4, <1>5 DEF Numbered, longer

(* The numbers of the two parts of a list of packets. *)
LEMMA NumberedParts ==
    ASSUME NEW packets \in Seq(Packet), NEW others \in Seq(Packet),
           NEW number, NEW first, NEW last,
           Numbered(number, packets \o others, first, last)
    PROVE  /\ Numbered([i \in 0 .. Len(packets) |-> number[i]],
                       packets, first, number[Len(packets)])
           /\ Numbered([i \in 0 .. Len(others) |-> number[Len(packets) + i]],
                       others, number[Len(packets)], last)
<1>. DEFINE all   == packets \o others
            left  == [i \in 0 .. Len(packets) |-> number[i]]
            right == [i \in 0 .. Len(others) |-> number[Len(packets) + i]]
<1>1. /\ Len(packets) \in Nat /\ Len(others) \in Nat
      /\ Len(all) = Len(packets) + Len(others)
      /\ \A i \in 1 .. Len(packets) + Len(others) :
            all[i] = IF i <= Len(packets) THEN packets[i] ELSE others[i - Len(packets)]
  BY ConcatProperties, LenProperties
<1>2. /\ number \in [0 .. Len(packets) + Len(others) -> Int]
      /\ number[0] = first
      /\ number[Len(packets) + Len(others)] = last
      /\ \A i \in 1 .. Len(packets) + Len(others) :
            number[i] = IF Counts(all[i]) THEN number[i - 1] + 1 ELSE number[i - 1]
  BY <1>1 DEF Numbered
<1>. HIDE DEF all
<1>3. Numbered(left, packets, first, number[Len(packets)])
  <2>1. left \in [0 .. Len(packets) -> Int] /\ left[0] = first
        /\ left[Len(packets)] = number[Len(packets)]
    BY <1>1, <1>2
  <2>2. ASSUME NEW i \in 1 .. Len(packets)
        PROVE  left[i] = IF Counts(packets[i]) THEN left[i - 1] + 1 ELSE left[i - 1]
    BY <1>1, <1>2
  <2>. QED  BY <2>1, <2>2 DEF Numbered
<1>4. Numbered(right, others, number[Len(packets)], last)
  <2>1. right \in [0 .. Len(others) -> Int] /\ right[0] = number[Len(packets)]
        /\ right[Len(others)] = last
    BY <1>1, <1>2
  <2>2. ASSUME NEW i \in 1 .. Len(others)
        PROVE  right[i] = IF Counts(others[i]) THEN right[i - 1] + 1 ELSE right[i - 1]
    <3>. DEFINE k == Len(packets) + i
    <3>1. /\ k \in 1 .. Len(packets) + Len(others) /\ ~ (k <= Len(packets))
          /\ k - Len(packets) = i /\ k - 1 = Len(packets) + (i - 1)
          /\ i - 1 \in 0 .. Len(others)
      BY <1>1
    <3>2. /\ right[i] = number[k]
          /\ right[i - 1] = number[k - 1]
          /\ all[k] = others[i]
      BY <1>1, <3>1
    <3>. QED  BY <1>2, <3>1, <3>2
  <2>. QED  BY <2>1, <2>2 DEF Numbered
<1>. QED  BY <1>3, <1>4

(* The same of packets that announce. *)
LEMMA PairedWithoutFirst ==
    ASSUME NEW packets \in Seq(Packet), packets # << >>,
           NEW first, NEW last, NEW game, NEW bad,
           Paired(packets, first, last, game, bad)
    PROVE  LET next == IF Counts(packets[1]) THEN first + 1 ELSE first
           IN  /\ Paired(Tail(packets), next, last, game, bad)
               /\ Counts(packets[1]) => Announces(packets[1], next, game, bad)
<1>1. PICK number \in [0 .. Len(packets) -> Int] :
         /\ Numbered(number, packets, first, last)
         /\ Announced(number, packets, game, bad)
  BY DEF Paired
<1>. DEFINE later == [i \in 0 .. Len(packets) - 1 |-> number[i + 1]]
            rest  == Tail(packets)
<1>2. /\ Numbered(later, rest, number[1], last)
      /\ number[1] = IF Counts(packets[1]) THEN first + 1 ELSE first
  BY <1>1, NumberedWithoutFirst
<1>3. /\ Len(packets) \in Nat \ {0} /\ 1 \in 1 .. Len(packets)
      /\ Len(rest) = Len(packets) - 1
      /\ \A i \in 1 .. Len(rest) : rest[i] = packets[i + 1]
  BY EmptySeq, HeadTailProperties
<1>. HIDE DEF rest
<1>4. Announced(later, rest, game, bad)
  <2>. SUFFICES ASSUME NEW i \in 1 .. Len(rest), Counts(rest[i])
                PROVE  Announces(rest[i], later[i], game, bad)
    BY DEF Announced
  <2>1. later[i] = number[i + 1] /\ rest[i] = packets[i + 1] /\ i + 1 \in 1 .. Len(packets)
    BY <1>3
  <2>. QED  BY <1>1, <2>1 DEF Announced
<1>5. later \in [0 .. Len(rest) -> Int]
  BY <1>2 DEF Numbered
<1>. HIDE DEF later
<1>6. Paired(rest, number[1], last, game, bad)
  BY <1>2, <1>4, <1>5 DEF Paired
<1>7. Counts(packets[1]) => Announces(packets[1], number[1], game, bad)
  BY <1>1, <1>3 DEF Announced
<1>. QED  BY <1>2, <1>6, <1>7 DEF rest

(* With more packets raised behind them. *)
LEMMA PairedWithMore ==
    ASSUME NEW packets \in Seq(Packet), NEW raised \in Seq(Packet),
           NEW first, NEW middle, NEW last, NEW game, NEW bad,
           Paired(packets, first, middle, game, bad),
           Paired(raised, middle, last, game, bad)
    PROVE  Paired(packets \o raised, first, last, game, bad)
<1>1. PICK number \in [0 .. Len(packets) -> Int] :
         /\ Numbered(number, packets, first, middle)
         /\ Announced(number, packets, game, bad)
  BY DEF Paired
<1>2. PICK more \in [0 .. Len(raised) -> Int] :
         /\ Numbered(more, raised, middle, last)
         /\ Announced(more, raised, game, bad)
  BY DEF Paired
<1>. DEFINE all    == [i \in 0 .. Len(packets) + Len(raised) |->
                          IF i <= Len(packets) THEN number[i] ELSE more[i - Len(packets)]]
            longer == packets \o raised
<1>3. Numbered(all, longer, first, last)
  BY <1>1, <1>2, NumberedWithMore
<1>4. /\ Len(packets) \in Nat /\ Len(raised) \in Nat
      /\ Len(longer) = Len(packets) + Len(raised)
      /\ \A i \in 1 .. Len(packets) + Len(raised) :
            longer[i] = IF i <= Len(packets) THEN packets[i] ELSE raised[i - Len(packets)]
  BY ConcatProperties, LenProperties
<1>. HIDE DEF longer
<1>5. Announced(all, longer, game, bad)
  <2>. SUFFICES ASSUME NEW i \in 1 .. Len(longer), Counts(longer[i])
                PROVE  Announces(longer[i], all[i], game, bad)
    BY DEF Announced
  <2>1. CASE i <= Len(packets)
    <3>1. all[i] = number[i] /\ longer[i] = packets[i] /\ i \in 1 .. Len(packets)
      BY <1>4, <2>1
    <3>. QED  BY <1>1, <3>1 DEF Announced
  <2>2. CASE ~ (i <= Len(packets))
    <3>1. /\ i - Len(packets) \in 1 .. Len(raised)
          /\ all[i] = more[i - Len(packets)]
          /\ longer[i] = raised[i - Len(packets)]
      BY <1>4, <2>2
    <3>. QED  BY <1>2, <3>1 DEF Announced
  <2>. QED  BY <2>1, <2>2
<1>6. all \in [0 .. Len(longer) -> Int]
  BY <1>3 DEF Numbered
<1>. HIDE DEF all
<1>7. Paired(longer, first, last, game, bad)
  BY <1>3, <1>5, <1>6 DEF Paired
<1>. QED  BY <1>7 DEF longer

(* A queue and what follows it. *)
LEMMA PairedParts ==
    ASSUME NEW packets \in Seq(Packet), NEW others \in Seq(Packet),
           NEW first, NEW last, NEW game, NEW bad,
           Paired(packets \o others, first, last, game, bad)
    PROVE  \E middle \in Int :
              /\ Paired(packets, first, middle, game, bad)
              /\ Paired(others, middle, last, game, bad)
<1>. DEFINE all == packets \o others
<1>1. PICK number \in [0 .. Len(all) -> Int] :
         /\ Numbered(number, all, first, last)
         /\ Announced(number, all, game, bad)
  BY DEF Paired
<1>. DEFINE left   == [i \in 0 .. Len(packets) |-> number[i]]
            right  == [i \in 0 .. Len(others) |-> number[Len(packets) + i]]
            middle == number[Len(packets)]
<1>2. Numbered(left, packets, first, middle) /\ Numbered(right, others, middle, last)
  BY <1>1, NumberedParts
<1>3. /\ Len(packets) \in Nat /\ Len(others) \in Nat
      /\ Len(all) = Len(packets) + Len(others)
      /\ \A i \in 1 .. Len(packets) + Len(others) :
            all[i] = IF i <= Len(packets) THEN packets[i] ELSE others[i - Len(packets)]
  BY ConcatProperties, LenProperties
<1>. HIDE DEF all
<1>4. Announced(left, packets, game, bad)
  <2>. SUFFICES ASSUME NEW i \in 1 .. Len(packets), Counts(packets[i])
                PROVE  Announces(packets[i], left[i], game, bad)
    BY DEF Announced
  <2>1. left[i] = number[i] /\ all[i] = packets[i] /\ i \in 1 .. Len(all)
    BY <1>3
  <2>. QED  BY <1>1, <2>1 DEF Announced
<1>5. Announced(right, others, game, bad)
  <2>. SUFFICES ASSUME NEW i \in 1 .. Len(others), Counts(others[i])
                PROVE  Announces(others[i], right[i], game, bad)
    BY DEF Announced
  <2>1. /\ Len(packets) + i \in 1 .. Len(all)
        /\ ~ (Len(packets) + i <= Len(packets))
        /\ (Len(packets) + i) - Len(packets) = i
    BY <1>3
  <2>2. right[i] = number[Len(packets) + i] /\ all[Len(packets) + i] = others[i]
    BY <1>3, <2>1
  <2>. QED  BY <1>1, <2>1, <2>2 DEF Announced
<1>6. left \in [0 .. Len(packets) -> Int] /\ right \in [0 .. Len(others) -> Int]
  BY <1>2 DEF Numbered
<1>7. middle \in Int
  BY <1>1, <1>3
<1>. HIDE DEF left, right, middle
<1>. QED  BY <1>2, <1>4, <1>5, <1>6, <1>7 DEF Paired

(* A packet that does not count, alone. *)
LEMMA PairedUncounted ==
    ASSUME NEW packet \in Packet, ~ Counts(packet), NEW last \in Int, NEW game, NEW bad
    PROVE  Paired(<<packet>>, last, last, game, bad)
<1>. DEFINE number == [i \in 0 .. 1 |-> last]
<1>1. Len(<<packet>>) = 1 /\ <<packet>>[1] = packet
  OBVIOUS
<1>2. Numbered(number, <<packet>>, last, last)
  BY <1>1 DEF Numbered
<1>3. Announced(number, <<packet>>, game, bad)
  BY <1>1 DEF Announced
<1>4. number \in [0 .. 1 -> Int]
  OBVIOUS
<1>. HIDE DEF number
<1>. QED  BY <1>1, <1>2, <1>3, <1>4 DEF Paired

(* No packet. *)
LEMMA PairedNothing ==
    ASSUME NEW last \in Int, NEW game, NEW bad
    PROVE  Paired(<< >>, last, last, game, bad)
<1>. DEFINE number == [i \in 0 .. 0 |-> last]
<1>1. Len(<< >>) = 0
  OBVIOUS
<1>2. Numbered(number, << >>, last, last) /\ number \in [0 .. 0 -> Int]
  BY <1>1 DEF Numbered
<1>3. Announced(number, << >>, game, bad)
  BY <1>1 DEF Announced
<1>. HIDE DEF number
<1>. QED  BY <1>1, <1>2, <1>3 DEF Paired

(* A loss among the packets that do not count. *)
LEMMA PairedWithLoss ==
    ASSUME NEW queue \in Seq(Packet), NEW way \in Seq(Packet), way # << >>,
           ~ Counts(Head(way)),
           NEW first, NEW last, NEW game, NEW bad,
           Paired(queue \o way, first, last, game, bad)
    PROVE  Paired(queue \o Tail(way), first, last, game, bad)
<1>1. PICK middle \in Int : /\ Paired(queue, first, middle, game, bad)
                            /\ Paired(way, middle, last, game, bad)
  BY PairedParts
<1>2. Tail(way) \in Seq(Packet) /\ Head(way) = way[1]
  BY HeadTailProperties
<1>3. Paired(Tail(way), middle, last, game, bad)
  BY <1>1, <1>2, PairedWithoutFirst
<1>. QED  BY <1>1, <1>2, <1>3, PairedWithMore

(* Announcements hold while the game grows and more frames turn bad. *)
LEMMA PairedGrows ==
    ASSUME NEW packets, NEW first, NEW last,
           NEW T, NEW game \in Seq(T), NEW longer \in Seq(T), Len(game) <= Len(longer),
           \A i \in 1 .. Len(game) : longer[i] = game[i],
           NEW bad, NEW more, bad \subseteq more,
           Paired(packets, first, last, game, bad)
    PROVE  Paired(packets, first, last, longer, more)
<1>1. PICK number \in [0 .. Len(packets) -> Int] :
         /\ Numbered(number, packets, first, last)
         /\ Announced(number, packets, game, bad)
  BY DEF Paired
<1>2. Len(game) \in Nat /\ Len(longer) \in Nat
  BY LenProperties
<1>3. ASSUME NEW i \in 1 .. Len(packets), Counts(packets[i])
      PROVE  Announces(packets[i], number[i], longer, more)
  <2>1. Announces(packets[i], number[i], game, bad)
    BY <1>1, <1>3 DEF Announced
  <2>2. number[i] \in Int
    BY <1>1, <1>3
  <2>3. number[i] + 1 <= Len(longer)
    BY <1>2, <2>1, <2>2 DEF Announces
  <2>4. \A j \in 1 .. number[i] + 1 : packets[i].checksum[j] = longer[j]
    BY <1>2, <2>1, <2>2 DEF Announces
  <2>. QED  BY <2>1, <2>3, <2>4 DEF Announces
<1>4. Announced(number, packets, longer, more)
  BY <1>3 DEF Announced
<1>. QED  BY <1>1, <1>4 DEF Paired

-----------------------------------------------------------------------------
(* Confirming. *)

(* What the games confirmed by n calls of ConfirmFrame() are made of. *)
LEMMA ConfirmedGame ==
    ASSUME NEW r \in RollbackState, CountersAgree(r), NEW n \in Nat,
           ConfirmFramesDefined(r, n), Len(r.confirmed) = r.confirmed_frame + 1
    PROVE  LET game == ConfirmFrames(r, n).confirmed
           IN  /\ game \in GameHistory
               /\ Len(game) = r.confirmed_frame + 1 + n
               /\ \A i \in 1 .. Len(game) :
                     game[i] = IF i <= r.confirmed_frame + 1 THEN r.confirmed[i]
                               ELSE InputsAt(r, i - 1)
<1>. DEFINE game == ConfirmFrames(r, n).confirmed
            new  == Replay(r, r.frame_to_confirm, n)
<1>1. /\ r.frame_to_confirm \in Nat /\ r.confirmed_frame \in Int
      /\ r.frame_to_confirm = r.confirmed_frame + 1
      /\ r.frame_to_confirm + n <= GameFrameNbr
  BY FrameCountersAreInt DEF CountersAgree, ConfirmFramesDefined
<1>2. new \in GameHistory /\ Len(new) = n
  <2>1. IF n > 0 THEN n = n ELSE n = 0
    OBVIOUS
  <2>. QED  BY <1>1, <2>1, ReplayType
<1>3. game = r.confirmed \o new
  BY DEF ConfirmFrames, RollbackState
<1>4. \A k \in 1 .. n : new[k] = InputsAt(r, r.frame_to_confirm + k - 1)
  BY DEF Replay
<1>5. /\ r.confirmed \in GameHistory
      /\ game \in GameHistory
      /\ Len(game) = Len(r.confirmed) + n
      /\ \A i \in 1 .. Len(r.confirmed) + n :
            game[i] = IF i <= Len(r.confirmed) THEN r.confirmed[i]
                      ELSE new[i - Len(r.confirmed)]
  <2>. HIDE DEF new, game
  <2>1. r.confirmed \in GameHistory
    BY DEF RollbackState
  <2>. QED  BY <1>2, <1>3, <2>1, ConcatProperties DEF GameHistory
<1>. HIDE DEF game, new
<1>6. ASSUME NEW i \in 1 .. Len(game), ~ (i <= r.confirmed_frame + 1)
      PROVE  game[i] = InputsAt(r, i - 1)
  <2>. DEFINE k == i - Len(r.confirmed)
  <2>1. /\ k \in 1 .. n /\ r.frame_to_confirm + k - 1 = i - 1
        /\ i \in 1 .. Len(r.confirmed) + n /\ ~ (i <= Len(r.confirmed))
    <3>1. /\ Len(r.confirmed) \in Nat /\ r.frame_to_confirm = Len(r.confirmed)
          /\ i \in 1 .. Len(r.confirmed) + n
          /\ ~ (i <= Len(r.confirmed))
      BY <1>1, <1>5, <1>6
    <3>. QED  BY <3>1
  <2>. QED  BY <1>4, <1>5, <2>1
<1>7. ASSUME NEW i \in 1 .. Len(game), i <= r.confirmed_frame + 1
      PROVE  game[i] = r.confirmed[i]
  BY <1>1, <1>5, <1>7
<1>. QED  BY <1>1, <1>5, <1>6, <1>7 DEF game

(* SetOtherPlayerInput() takes all the inputs of a list up to the current  *)
(* frame.                                                                  *)
LEMMA ReceivedUpTo ==
    ASSUME NEW r \in RollbackState, NEW list \in Seq(FrameInput), NEW p \in Player,
           RemoteInputsDefined(r, list), NEW f \in Int,
           f <= r.current_frame, f <= Last(list).frame_nbr
    PROVE  f <= SetOtherPlayerInput(r, list, p).last_remote_input_frame
<1>. DEFINE s == SetOtherPlayerInput(r, list, p)
<1>1. /\ Last(list).frame_nbr \in Int
      /\ r.last_remote_input_frame \in Int /\ r.current_frame \in Int
  <2>1. Last(list) \in FrameInput
    BY LastType DEF RemoteInputsDefined
  <2>. QED  BY <2>1, FrameCountersAreInt DEF FrameInput, Frame
<1>2. CASE ~ IsNews(r, list)
  <2>1. s = r
    BY <1>2 DEF SetOtherPlayerInput
  <2>. QED  BY <1>1, <1>2, <2>1 DEF IsNews
<1>3. CASE IsNews(r, list)
  <2>. DEFINE last   == NewLastInput(r, list)
              filled == FillInputs(r, list, p)
              shown  == IF MustRollback(r, list, p) THEN DoRollback(filled) ELSE filled
  <2>1. s = [shown EXCEPT !.last_inputs[p]          = last.input,
                          !.last_remote_input_frame = last.frame_nbr]
    BY <1>3 DEF SetOtherPlayerInput
  <2>2. DOMAIN shown = DOMAIN r
    BY DEF FillInputs, DoRollback, RollbackState
  <2>3. s.last_remote_input_frame = last.frame_nbr
    <3>. HIDE DEF shown, last
    <3>. QED  BY <2>1, <2>2 DEF RollbackState
  <2>4. CASE Last(list).frame_nbr > r.current_frame
    <3>. DEFINE at == FindFrame(list, r.current_frame)
    <3>1. last = list[at]
      BY <2>4 DEF NewLastInput
    <3>2. at <= Len(list)
      BY <1>3, <2>4 DEF RemoteInputsDefined
    <3>3. list[at].frame_nbr = r.current_frame
      BY <1>1, <3>2, FindFrameProperties
    <3>. HIDE DEF last, at
    <3>. QED  BY <1>1, <2>3, <3>1, <3>3
  <2>5. CASE ~ (Last(list).frame_nbr > r.current_frame)
    <3>1. last = Last(list)
      BY <2>5 DEF NewLastInput
    <3>. QED  BY <2>3, <3>1
  <2>. QED  BY <2>4, <2>5
<1>. QED  BY <1>2, <1>3

(* The last element of a slice has the newest frame. *)
LEMMA SliceUpToLast ==
    ASSUME NEW list \in Seq(FrameInput), NEW inputs, NEW count, Slice(list, inputs, count),
           NEW i \in 1 .. Len(list)
    PROVE  /\ list # << >>
           /\ list[i].frame_nbr <= Last(list).frame_nbr
           /\ Last(list).frame_nbr = list[1].frame_nbr + Len(list) - 1
           /\ list[i].frame_nbr = list[1].frame_nbr + i - 1
<1>1. Len(list) \in Nat \ {0} /\ list # << >>
  BY LenProperties, EmptySeq
<1>2. /\ Len(list) \in 1 .. Len(list) /\ 1 \in 1 .. Len(list)
      /\ Last(list) = list[Len(list)]
  BY <1>1 DEF Last
<1>3. list[1].frame_nbr \in Int
  BY <1>2, FrameOfElement
<1>4. /\ list[i].frame_nbr = list[1].frame_nbr + i - 1
      /\ list[Len(list)].frame_nbr = list[1].frame_nbr + Len(list) - 1
  BY <1>2 DEF Slice
<1>. QED  BY <1>1, <1>2, <1>3, <1>4

(* SendFrameConfirmation() confirms no frame beyond the current one, nor   *)
(* one that it has not received.                                           *)
LEMMA ConfirmsReceived ==
    ASSUME NEW before \in RollbackState, NEW list \in Seq(FrameInput), NEW p \in Player,
           RemoteInputsDefined(before, list),
           NEW inputs, NEW count, Slice(list, inputs, count),
           NEW r \in RollbackState, r = SetOtherPlayerInput(before, list, p),
           ConfirmStops(r, list) # {},
           NEW f \in r.frame_to_confirm ..
                     r.frame_to_confirm + ConfirmCount(r, list) - 1
    PROVE  f <= r.current_frame /\ f <= r.last_remote_input_frame
<1>. DEFINE first == ConfirmFrom(r, list)
            stops == ConfirmStops(r, list)
            stop  == Min(stops)
            i     == first + f - r.frame_to_confirm
<1>1. /\ r.frame_to_confirm \in Nat /\ r.current_frame \in Int
      /\ before.current_frame = r.current_frame
      /\ Len(list) \in Nat
  BY FrameCountersAreInt, SetOtherPlayerInputLeaves, LenProperties
<1>2. /\ first \in 1 .. Len(list) + 1
      /\ first <= Len(list) => list[first].frame_nbr = r.frame_to_confirm
  <2>1. r.frame_to_confirm \in Int
    BY <1>1
  <2>. QED  BY <2>1, FindFrameProperties DEF ConfirmFrom
<1>3. stops \subseteq first .. Len(list) + 1
  BY DEF ConfirmStops
<1>4. /\ stop \in first .. Len(list) + 1
      /\ \A j \in stops : stop <= j
  <2>1. stops \in SUBSET Nat
    BY <1>2, <1>3
  <2>. QED  BY <1>3, <2>1, MinProperties
<1>5. /\ i \in first .. Len(list)
      /\ i < stop
      /\ first <= Len(list)
      /\ f \in Int
  <2>1. ConfirmCount(r, list) = stop - first
    BY DEF ConfirmCount
  <2>. HIDE DEF first, stop, stops
  <2>. QED  BY <1>1, <1>2, <1>4, <2>1
<1>6. i \notin stops
  <2>. HIDE DEF i, stops, stop, first
  <2>. QED  BY <1>2, <1>4, <1>5
<1>7. /\ list[first].frame_nbr = list[1].frame_nbr + first - 1
      /\ list[i].frame_nbr = list[1].frame_nbr + i - 1
      /\ list[i].frame_nbr <= Last(list).frame_nbr
      /\ list[1].frame_nbr \in Int
  <2>1. first \in 1 .. Len(list) /\ i \in 1 .. Len(list) /\ 1 \in 1 .. Len(list)
    <3>. HIDE DEF i, first
    <3>. QED  BY <1>2, <1>5
  <2>. HIDE DEF i, first
  <2>. QED  BY <2>1, SliceUpToLast, FrameOfElement
<1>8. list[i].frame_nbr = f
  <2>1. list[1].frame_nbr + first - 1 = r.frame_to_confirm
    BY <1>2, <1>5, <1>7
  <2>2. i = first + f - r.frame_to_confirm
    OBVIOUS
  <2>. HIDE DEF i, first
  <2>3. first \in Int /\ i \in Int
    BY <1>2, <1>5
  <2>4. \A a \in Int : a + first - 1 = r.frame_to_confirm => a + i - 1 = f
    BY <1>1, <1>5, <2>2, <2>3
  <2>. QED  BY <1>7, <2>1, <2>4
<1>9. f <= r.current_frame
  <2>1. ~ (i <= Len(list) /\ list[i].frame_nbr > r.current_frame)
    <3>1. i \in ConfirmFrom(r, list) .. Len(list) + 1
      <4>. HIDE DEF i
      <4>. QED  BY <1>2, <1>5
    <3>. HIDE DEF i
    <3>. QED  BY <1>6, <3>1 DEF ConfirmStops
  <2>2. i <= Len(list)
    <3>. HIDE DEF i
    <3>. QED  BY <1>2, <1>5
  <2>. QED  BY <1>1, <1>5, <1>8, <2>1, <2>2
<1>. QED  BY <1>1, <1>5, <1>7, <1>8, <1>9, ReceivedUpTo

-----------------------------------------------------------------------------
(* The inductive invariant. *)

(* A player's confirmed game has made the updates of the frames before     *)
(* confirmed_frame, with the inputs sampled, up to a premature one.        *)
LengthInv(p) == Len(rollback[p].confirmed) = rollback[p].confirmed_frame + 1

TruthInv(p) ==
    \A f \in 0 .. rollback[p].confirmed_frame : Untainted(f) =>
        /\ \A q \in Player : f < SampledCount(q)
        /\ rollback[p].confirmed[f + 1] = TrueInputs(f)

(* As long as the follower took each confirmation for the frame it was     *)
(* meant for, those under way announce the frames it has still to confirm. *)
AnnouncedInv ==
    state[Follower] = "kInGame" /\ Untainted(rollback[Follower].confirmed_frame) =>
        Paired(EventsTo(Follower), rollback[Follower].confirmed_frame,
               rollback[Master].confirmed_frame, rollback[Master].confirmed, premature)

ConfirmedInv == (\A p \in Player : LengthInv(p) /\ TruthInv(p)) /\ AnnouncedInv

(* Nothing is confirmed or announced at first.                             *)
LEMMA InitConfirmedInv == Init => ConfirmedInv
<1>. SUFFICES ASSUME Init PROVE ConfirmedInv
  OBVIOUS
<1>1. Master \in Player /\ Follower \in Player
  BY DEF Master, Follower, Player
<1>2. ASSUME NEW p \in Player
      PROVE  /\ rollback[p].confirmed = << >> /\ rollback[p].confirmed_frame = -1
             /\ EventsTo(p) = << >>
  BY EmptySeq, ConcatEmptySeq DEF Init, RollbackInit, EventsTo
<1>3. \A p \in Player : LengthInv(p) /\ TruthInv(p)
  BY <1>2, EmptySeq DEF LengthInv, TruthInv
<1>4. AnnouncedInv
  BY <1>1, <1>2, PairedNothing DEF AnnouncedInv
<1>. QED  BY <1>3, <1>4 DEF ConfirmedInv

(* What was sampled stays; a step only adds to it. *)
SampledGrows ==
    \A q \in Player :
        /\ SampledCount(q) <= SampledCount(q)'
        /\ \A f \in Frame : f < SampledCount(q) =>
              SampledInputs(q)'[f] = SampledInputs(q)[f]

(* A step that samples nothing. *)
LEMMA SampledStays ==
    ASSUME TypeInv,
           \A q \in Player : SampledCount(q)' = SampledCount(q),
           \A q \in Player : SampledInputs(q)' = SampledInputs(q)
    PROVE  SampledGrows
<1>1. \A q \in Player : SampledCount(q) \in Int
  BY PlayerTypes
<1>. QED  BY <1>1 DEF SampledGrows

(* The frames a player confirmed are frames of the match. *)
LEMMA ConfirmedFrames ==
    ASSUME TypeInv, NEW p \in Player
    PROVE  /\ rollback[p].confirmed_frame \in Int
           /\ rollback[p].confirmed_frame >= -1
           /\ rollback[p].frame_to_confirm = rollback[p].confirmed_frame + 1
           /\ rollback[p].confirmed \in GameHistory
           /\ 0 .. rollback[p].confirmed_frame \subseteq Frame
           /\ \A f \in 0 .. rollback[p].confirmed_frame : f \in Int
<1>1. rollback[p] \in RollbackState /\ CountersAgree(rollback[p])
  BY PlayerTypes DEF TypeInv, FramesInv
<1>2. rollback[p].confirmed_frame \in -1 .. GameFrameNbr - 1
  BY <1>1 DEF RollbackState
<1>3. rollback[p].confirmed \in GameHistory
  BY <1>1 DEF RollbackState
<1>. QED  BY <1>1, <1>2, <1>3, GameFrameNbrAssumption DEF CountersAgree, Frame

(* What is true of a frame stays so. *)
LEMMA TrueInputsStay ==
    ASSUME TypeInv, SampledGrows, NEW f \in Frame, \A q \in Player : f < SampledCount(q),
           \A q \in Player : SampledCount(q)' \in Int
    PROVE  /\ \A q \in Player : f < SampledCount(q)'
           /\ TrueInputs(f)' = TrueInputs(f)
<1>1. ASSUME NEW q \in Player
      PROVE  /\ f < SampledCount(q)'
             /\ rollback'[q].inputs[q][f] = rollback[q].inputs[q][f]
  <2>1. /\ SampledCount(q) \in Int /\ SampledCount(q)' \in Int /\ f \in Int
        /\ SampledCount(q) <= SampledCount(q)' /\ f < SampledCount(q)
    BY PlayerTypes DEF SampledGrows, Frame
  <2>2. SampledInputs(q)'[f] = SampledInputs(q)[f]
    BY <2>1 DEF SampledGrows
  <2>. QED  BY <2>1, <2>2 DEF SampledInputs
<1>2. 0 \in Player /\ 1 \in Player
  BY DEF Player
<1>. QED  BY <1>1, <1>2 DEF TrueInputs

(* The frames sampled are counted after a step too. *)
LEMMA SampledCountLater ==
    ASSUME TypeInv', NEW p \in Player
    PROVE  SampledCount(p)' \in Int
<1>1. rollback'[p] \in RollbackState
  BY DEF TypeInv, TypeOK
<1>2. rollback'[p].current_frame \in Int
  BY <1>1, FrameCountersAreInt
<1>. QED  BY <1>2 DEF SampledCount

(* A step that does not confirm. *)
LEMMA TruthStays ==
    ASSUME TypeInv, TypeInv', SampledGrows, premature \subseteq premature',
           NEW p \in Player, LengthInv(p), TruthInv(p),
           rollback'[p].confirmed = rollback[p].confirmed,
           rollback'[p].confirmed_frame = rollback[p].confirmed_frame
    PROVE  LengthInv(p)' /\ TruthInv(p)'
<1>1. LengthInv(p)'
  BY DEF LengthInv
<1>2. ASSUME NEW f \in 0 .. rollback'[p].confirmed_frame, Untainted(f)'
      PROVE  /\ \A q \in Player : f < SampledCount(q)'
             /\ rollback'[p].confirmed[f + 1] = TrueInputs(f)'
  <2>1. f \in 0 .. rollback[p].confirmed_frame /\ f \in Frame /\ Untainted(f)
    BY <1>2, ConfirmedFrames DEF Untainted
  <2>2. /\ \A q \in Player : f < SampledCount(q)
        /\ rollback[p].confirmed[f + 1] = TrueInputs(f)
    BY <2>1 DEF TruthInv
  <2>3. \A q \in Player : SampledCount(q)' \in Int
    BY SampledCountLater
  <2>. QED  BY <2>1, <2>2, <2>3, TrueInputsStay
<1>. QED  BY <1>1, <1>2 DEF TruthInv

(* A step that confirms nothing and leaves the follower's events paired. *)
LEMMA KeepsConfirmedInv ==
    ASSUME TypeInv, TypeInv', ConfirmedInv, SampledGrows, UNCHANGED premature,
           \A q \in Player :
              /\ rollback'[q].confirmed = rollback[q].confirmed
              /\ rollback'[q].confirmed_frame = rollback[q].confirmed_frame,
           state'[Follower] = "kInGame" => state[Follower] = "kInGame",
           state'[Follower] = "kInGame"
             /\ Paired(EventsTo(Follower), rollback[Follower].confirmed_frame,
                       rollback[Master].confirmed_frame, rollback[Master].confirmed,
                       premature)
           => Paired(EventsTo(Follower)', rollback[Follower].confirmed_frame,
                     rollback[Master].confirmed_frame, rollback[Master].confirmed,
                     premature)
    PROVE  ConfirmedInv'
<1>1. ASSUME NEW q \in Player
      PROVE  LengthInv(q)' /\ TruthInv(q)'
  BY TruthStays DEF ConfirmedInv
<1>2. AnnouncedInv'
  <2>1. Master \in Player /\ Follower \in Player
    BY DEF Master, Follower, Player
  <2>2. AnnouncedInv
    BY DEF ConfirmedInv
  <2>3. Untainted(rollback[Follower].confirmed_frame)'
          => Untainted(rollback[Follower].confirmed_frame)
    BY <2>1 DEF Untainted
  <2>. QED  BY <2>1, <2>2, <2>3 DEF AnnouncedInv
<1>. QED  BY <1>1, <1>2 DEF ConfirmedInv

(* The events raised come last, if the other player is there. *)
LEMMA RaisedLast ==
    ASSUME TypeInv, NEW p \in Player, NEW raised \in Seq(Packet),
           RaiseEvents(p, raised),
           packet_queue'[Other(p)] = packet_queue[Other(p)]
    PROVE  /\ state[Other(p)] = "kInGame" =>
                EventsTo(Other(p))' = EventsTo(Other(p)) \o raised
           /\ state[Other(p)] # "kInGame" => EventsTo(Other(p))' = EventsTo(Other(p))
<1>1. /\ Other(p) \in Player
      /\ packet_queue[Other(p)] \in Seq(Packet)
      /\ net[Other(p)] \in Seq(Packet)
  BY OtherPlayer, PlayerTypes
<1>2. CASE state[Other(p)] = "kInGame"
  <2>1. net'[Other(p)] = net[Other(p)] \o raised
    BY <1>1, <1>2 DEF RaiseEvents, TypeInv, TypeOK
  <2>2. (packet_queue[Other(p)] \o net[Other(p)]) \o raised
          = packet_queue[Other(p)] \o (net[Other(p)] \o raised)
    BY <1>1, ConcatPackets
  <2>. QED  BY <1>2, <2>1, <2>2 DEF EventsTo
<1>3. CASE state[Other(p)] # "kInGame"
  BY <1>3 DEF RaiseEvents, EventsTo
<1>. QED  BY <1>2, <1>3

(* A player that confirms the frames before which all is untainted with    *)
(* the inputs sampled. *)
LEMMA TruthWithMore ==
    ASSUME TypeInv, TypeInv', SampledGrows, premature \subseteq premature',
           NEW p \in Player, LengthInv(p), TruthInv(p),
           NEW r \in RollbackState, CountersAgree(r),
           r.confirmed = rollback[p].confirmed,
           r.confirmed_frame = rollback[p].confirmed_frame,
           NEW n \in Nat, ConfirmFramesDefined(r, n),
           rollback'[p] = ConfirmFrames(r, n),
           \A f \in r.confirmed_frame + 1 .. r.confirmed_frame + n :
              Untainted(f)' => /\ \A q \in Player : f < SampledCount(q)
                               /\ InputsAt(r, f) = TrueInputs(f)
    PROVE  LengthInv(p)' /\ TruthInv(p)'
<1>. DEFINE s  == ConfirmFrames(r, n)
            cf == r.confirmed_frame
<1>1. /\ Len(s.confirmed) = cf + 1 + n
      /\ \A i \in 1 .. Len(s.confirmed) :
            s.confirmed[i] = IF i <= cf + 1 THEN r.confirmed[i] ELSE InputsAt(r, i - 1)
  BY ConfirmedGame DEF LengthInv
<1>2. s.confirmed_frame = cf + n
  BY DEF ConfirmFrames, RollbackState
<1>3. cf \in Int /\ cf >= -1 /\ cf + n <= GameFrameNbr - 1
  BY ConfirmedFrames, FrameCountersAreInt, GameFrameNbrAssumption
     DEF CountersAgree, ConfirmFramesDefined
<1>. HIDE DEF s, cf
<1>4. LengthInv(p)'
  BY <1>1, <1>2, <1>3 DEF LengthInv, s
<1>5. ASSUME NEW f \in 0 .. cf + n, Untainted(f)'
      PROVE  /\ \A q \in Player : f < SampledCount(q)'
             /\ s.confirmed[f + 1] = TrueInputs(f)'
  <2>1. f \in Frame /\ f + 1 \in 1 .. Len(s.confirmed) /\ f \in Int
    BY <1>1, <1>3, GameFrameNbrAssumption DEF Frame
  <2>2. /\ \A q \in Player : f < SampledCount(q)
        /\ s.confirmed[f + 1] = TrueInputs(f)
    <3>1. CASE f <= cf
      <4>1. f \in 0 .. rollback[p].confirmed_frame /\ Untainted(f)
        BY <1>3, <1>5, <3>1 DEF Untainted, cf
      <4>2. s.confirmed[f + 1] = rollback[p].confirmed[f + 1]
        BY <1>1, <1>3, <2>1, <3>1
      <4>. QED  BY <4>1, <4>2 DEF TruthInv
    <3>2. CASE ~ (f <= cf)
      <4>1. f \in cf + 1 .. cf + n
        BY <1>3, <3>2
      <4>2. /\ \A q \in Player : f < SampledCount(q)
            /\ InputsAt(r, f) = TrueInputs(f)
        BY <1>5, <4>1 DEF cf
      <4>3. s.confirmed[f + 1] = InputsAt(r, f)
        <5>1. ~ (f + 1 <= cf + 1) /\ (f + 1) - 1 = f
          BY <1>3, <2>1, <3>2
        <5>. QED  BY <1>1, <2>1, <5>1
      <4>. QED  BY <4>2, <4>3
    <3>. QED  BY <3>1, <3>2
  <2>3. \A q \in Player : SampledCount(q)' \in Int
    BY SampledCountLater
  <2>. QED  BY <2>1, <2>2, <2>3, TrueInputsStay
<1>6. TruthInv(p)'
  BY <1>2, <1>5 DEF TruthInv, s
<1>. QED  BY <1>4, <1>6

(* The confirmations of the master announce the frames it confirms.        *)
LEMMA PairedConfirmations ==
    ASSUME TypeInv, NEW r \in RollbackState, CountersAgree(r),
           Len(r.confirmed) = r.confirmed_frame + 1,
           NEW n \in Nat, ConfirmFramesDefined(r, n), NEW bad,
           \A f \in r.confirmed_frame + 1 .. r.confirmed_frame + n :
              (\A g \in bad : f < g) /\ unacked[Master] # << >> =>
                  f <= Last(unacked[Master]).frame_nbr
    PROVE  Paired(Confirmations(r, n), r.confirmed_frame, r.confirmed_frame + n,
                  ConfirmFrames(r, n).confirmed, bad)
<1>. DEFINE raised == Confirmations(r, n)
            cf     == r.confirmed_frame
            game   == ConfirmFrames(r, n).confirmed
            number == [i \in 0 .. n |-> cf + i]
<1>1. /\ Len(raised) = n
      /\ \A i \in 1 .. n :
            /\ Counts(raised[i])
            /\ raised[i].frames = unacked[Master]
            /\ raised[i].checksum = ConfirmFrames(r, i).confirmed
  BY LenProperties, ConfirmationsType DEF Confirmations, ConfirmationPacket, Counts, CheckSum,
     TypeInv
<1>2. cf \in Int
  BY FrameCountersAreInt
<1>3. ConfirmFramesDefined(r, n) /\ r.frame_to_confirm \in Nat
  BY FrameCountersAreInt
<1>. HIDE DEF raised
<1>4. Numbered(number, raised, cf, cf + n)
  BY <1>1, <1>2 DEF Numbered
<1>5. ASSUME NEW i \in 1 .. n
      PROVE  Announces(raised[i], cf + i, game, bad)
  <2>1. i \in Nat /\ ConfirmFramesDefined(r, i)
    BY <1>3, GameFrameNbrAssumption DEF ConfirmFramesDefined
  <2>. DEFINE sum == ConfirmFrames(r, i).confirmed
  <2>2. /\ Len(sum) = cf + 1 + i
        /\ \A j \in 1 .. Len(sum) :
              sum[j] = IF j <= cf + 1 THEN r.confirmed[j] ELSE InputsAt(r, j - 1)
    BY <2>1, ConfirmedGame
  <2>3. /\ Len(game) = cf + 1 + n
        /\ \A j \in 1 .. Len(game) :
              game[j] = IF j <= cf + 1 THEN r.confirmed[j] ELSE InputsAt(r, j - 1)
    BY ConfirmedGame
  <2>4. /\ cf + i \in cf + 1 .. cf + n
        /\ raised[i].checksum = sum
        /\ cf + i + 1 = cf + 1 + i /\ cf + 1 + i <= cf + 1 + n
    BY <1>1, <1>2
  <2>5. (\A g \in bad : cf + i < g) /\ raised[i].frames # << >> =>
           cf + i <= Last(raised[i].frames).frame_nbr
    BY <1>1, <2>4
  <2>. HIDE DEF game, cf, sum
  <2>6. /\ cf + i + 1 <= Len(game)
        /\ Len(raised[i].checksum) = cf + i + 1
    BY <1>2, <2>2, <2>3, <2>4
  <2>7. ASSUME NEW j \in 1 .. cf + i + 1
        PROVE  raised[i].checksum[j] = game[j]
    <3>1. j \in 1 .. Len(sum) /\ j \in 1 .. Len(game)
      BY <1>2, <2>2, <2>3, <2>4
    <3>. QED  BY <2>2, <2>3, <2>4, <3>1
  <2>. QED  BY <1>2, <2>5, <2>6, <2>7 DEF Announces
<1>6. Announced(number, raised, game, bad)
  <2>. HIDE DEF game, cf
  <2>. QED  BY <1>1, <1>5 DEF Announced
<1>7. number \in [0 .. Len(raised) -> Int]
  BY <1>1, <1>2
<1>. HIDE DEF number, game, cf
<1>8. Paired(raised, cf, cf + n, game, bad)
  BY <1>4, <1>6, <1>7 DEF Paired
<1>. QED  BY <1>8 DEF raised, game, cf

-----------------------------------------------------------------------------
(* Every step keeps the invariant. *)

(* Service() leaves the order of the events alone.                         *)
LEMMA ReceiveEventStep ==
    ASSUME TypeInv, NEW p \in Player, ReceiveEvent(p)
    PROVE  /\ UNCHANGED <<rollback, unacked, state, pc, premature>>
           /\ SampledGrows
           /\ \A q \in Player : EventsTo(q)' = EventsTo(q)
<1>1. /\ UNCHANGED <<rollback, unacked, state, pc, premature>>
      /\ net[p] # << >>
      /\ packet_queue' = [packet_queue EXCEPT ![p] = Append(@, Head(net[p]))]
      /\ net' = [net EXCEPT ![p] = Tail(@)]
  BY DEF ReceiveEvent, Push
<1>2. SampledGrows
  <2>1. /\ \A q \in Player : SampledCount(q)' = SampledCount(q)
        /\ \A q \in Player : SampledInputs(q)' = SampledInputs(q)
    BY <1>1 DEF SampledCount, SampledInputs
  <2>. QED  BY <2>1, SampledStays
<1>3. ASSUME NEW q \in Player
      PROVE  EventsTo(q)' = EventsTo(q)
  <2>1. CASE q = p
    <3>1. /\ packet_queue'[p] = Append(packet_queue[p], Head(net[p]))
          /\ net'[p] = Tail(net[p])
      BY <1>1 DEF TypeInv, TypeOK
    <3>2. Append(packet_queue[p], Head(net[p])) \o Tail(net[p])
            = packet_queue[p] \o net[p]
      BY <1>1, PlayerTypes, ReceivedInTurn
    <3>. QED  BY <2>1, <3>1, <3>2 DEF EventsTo
  <2>2. CASE q # p
    BY <1>1, <2>2 DEF EventsTo, TypeInv, TypeOK
  <2>. QED  BY <2>1, <2>2
<1>. QED  BY <1>1, <1>2, <1>3

(* Nor does it change what was confirmed. *)
LEMMA ReceiveEventConfirmedInv ==
    ASSUME TypeInv, TypeInv', ConfirmedInv, NEW p \in Player, ReceiveEvent(p)
    PROVE  ConfirmedInv'
<1>1. Follower \in Player
  BY DEF Follower, Player
<1>. QED  BY <1>1, ReceiveEventStep, KeepsConfirmedInv

(* Only inputs are lost.                                                   *)
LEMMA LoseEventStep ==
    ASSUME TypeInv, NEW p \in Player, LoseEvent(p)
    PROVE  /\ UNCHANGED <<rollback, unacked, packet_queue, state, pc, premature>>
           /\ SampledGrows
           /\ net[p] # << >> /\ Head(net[p]).type = "kInput"
           /\ EventsTo(p)' = packet_queue[p] \o Tail(net[p])
           /\ EventsTo(Other(p))' = EventsTo(Other(p))
<1>1. /\ UNCHANGED <<rollback, unacked, packet_queue, state, pc, premature>>
      /\ net[p] # << >> /\ Head(net[p]).type = "kInput"
      /\ net' = [net EXCEPT ![p] = Tail(@)]
  BY DEF LoseEvent
<1>2. SampledGrows
  <2>1. /\ \A q \in Player : SampledCount(q)' = SampledCount(q)
        /\ \A q \in Player : SampledInputs(q)' = SampledInputs(q)
    BY <1>1 DEF SampledCount, SampledInputs
  <2>. QED  BY <2>1, SampledStays
<1>3. net'[p] = Tail(net[p]) /\ net'[Other(p)] = net[Other(p)]
  BY <1>1, OtherPlayer DEF TypeInv, TypeOK
<1>. QED  BY <1>1, <1>2, <1>3 DEF EventsTo

(* No announcement is among them. *)
LEMMA LoseEventConfirmedInv ==
    ASSUME TypeInv, TypeInv', ConfirmedInv, NEW p \in Player, LoseEvent(p)
    PROVE  ConfirmedInv'
<1>1. /\ Follower \in Player /\ Other(Master) = Follower
      /\ p = Follower \/ p = Master
  BY DEF Follower, Master, Other, Player
<1>2. ASSUME NEW first, NEW last, NEW game, NEW bad,
             Paired(EventsTo(Follower), first, last, game, bad)
      PROVE  Paired(EventsTo(Follower)', first, last, game, bad)
  <2>1. CASE p = Follower
    <3>1. ~ Counts(Head(net[p]))
      BY LoseEventStep DEF Counts
    <3>2. Paired(packet_queue[p] \o Tail(net[p]), first, last, game, bad)
      BY <1>2, <2>1, <3>1, LoseEventStep, PlayerTypes, PairedWithLoss DEF EventsTo
    <3>. QED  BY <2>1, <3>2, LoseEventStep
  <2>2. CASE p = Master
    BY <1>1, <1>2, <2>2, LoseEventStep
  <2>. QED  BY <1>1, <2>1, <2>2
<1>. QED  BY <1>1, <1>2, LoseEventStep, KeepsConfirmedInv

(* A frame begins with nothing sampled or confirmed; a follower that       *)
(* leaves has nothing announced any more.                                  *)
LEMMA BeginFrameConfirmedInv ==
    ASSUME TypeInv, TypeInv', ConfirmedInv, NEW p \in Player, BeginFrame(p)
    PROVE  ConfirmedInv'
<1>. DEFINE next == IncreaseCurrentFrame(rollback[p])
<1>1. /\ rollback' = [rollback EXCEPT ![p] = next]
      /\ UNCHANGED <<unacked, packet_queue, premature>>
      /\ pc[p] = "loop" /\ state[p] = "kInGame"
      /\ \/ /\ state' = [state EXCEPT ![p] = "kGameFinished"]
            /\ net' = [net EXCEPT ![p] = << >>]
            /\ UNCHANGED pc
         \/ /\ pc' = [pc EXCEPT ![p] = "packets"]
            /\ UNCHANGED <<state, net>>
  BY DEF BeginFrame, BetweenFrames
<1>2. /\ next.current_frame = rollback[p].current_frame + 1
      /\ next.inputs = rollback[p].inputs
      /\ next.confirmed = rollback[p].confirmed
      /\ next.confirmed_frame = rollback[p].confirmed_frame
  BY PlayerTypes DEF IncreaseCurrentFrame, RollbackState
<1>. HIDE DEF next
<1>3. ASSUME NEW q \in Player
      PROVE  /\ rollback'[q].inputs = rollback[q].inputs
             /\ rollback'[q].confirmed = rollback[q].confirmed
             /\ rollback'[q].confirmed_frame = rollback[q].confirmed_frame
  BY <1>1, <1>2 DEF TypeInv, TypeOK
<1>4. ASSUME NEW q \in Player
      PROVE  /\ SampledCount(q)' = SampledCount(q)
             /\ SampledInputs(q)' = SampledInputs(q)
  <2>1. SampledInputs(q)' = SampledInputs(q)
    BY <1>3 DEF SampledInputs
  <2>2. CASE q = p
    <3>1. /\ rollback'[p].current_frame = rollback[p].current_frame + 1
          /\ SampledCount(p) = rollback[p].current_frame + 1
      BY <1>1, <1>2 DEF SampledCount, TypeInv, TypeOK
    <3>2. ~ (pc'[p] = "loop" /\ state'[p] = "kInGame")
      BY <1>1 DEF TypeInv, TypeOK
    <3>3. SampledCount(p)' = rollback'[p].current_frame
      BY <3>2 DEF SampledCount
    <3>. QED  BY <2>1, <2>2, <3>1, <3>3
  <2>3. CASE q # p
    BY <1>1, <2>1, <2>3 DEF SampledCount, TypeInv, TypeOK
  <2>. QED  BY <2>2, <2>3
<1>5. SampledGrows
  BY <1>4, SampledStays
<1>6. Follower \in Player
  BY DEF Follower, Player
<1>7. state'[Follower] = "kInGame" =>
         state[Follower] = "kInGame" /\ EventsTo(Follower)' = EventsTo(Follower)
  <2>1. state'[Follower] = "kInGame" =>
           state[Follower] = "kInGame" /\ net'[Follower] = net[Follower]
    BY <1>1, <1>6 DEF TypeInv, TypeOK
  <2>. QED  BY <1>1, <2>1 DEF EventsTo
<1>. QED  BY <1>1, <1>3, <1>5, <1>7, KeepsConfirmedInv

(* A player that is gone confirms nothing any more.                        *)
LEMMA UndefinedStepConfirmedInv ==
    ASSUME TypeInv, TypeInv', ConfirmedInv, NEW p \in Player, pc[p] # "loop",
           UndefinedStep(p)
    PROVE  ConfirmedInv'
<1>1. /\ UNCHANGED <<rollback, unacked, packet_queue, net, premature>>
      /\ state' = [state EXCEPT ![p] = "Undefined"]
      /\ pc' = [pc EXCEPT ![p] = "loop"]
  BY DEF UndefinedStep
<1>2. /\ \A q \in Player : SampledCount(q)' = SampledCount(q)
      /\ \A q \in Player : SampledInputs(q)' = SampledInputs(q)
      /\ EventsTo(Follower)' = EventsTo(Follower)
  BY <1>1 DEF SampledCount, SampledInputs, EventsTo, TypeInv, TypeOK
<1>3. SampledGrows
  BY <1>2, SampledStays
<1>4. Follower \in Player /\ (state'[Follower] = "kInGame" => state[Follower] = "kInGame")
  BY <1>1 DEF Follower, Player, TypeInv, TypeOK
<1>. QED  BY <1>1, <1>2, <1>3, <1>4, KeepsConfirmedInv

(* An acknowledgement takes nothing from the follower.                     *)
LEMMA HandleAckConfirmedInv ==
    ASSUME TypeInv, TypeInv', ConfirmedInv, HandleAck
    PROVE  ConfirmedInv'
<1>1. /\ Master \in Player /\ Follower \in Player /\ Follower # Master
      /\ pc[Master] # "loop"
  BY DEF Master, Follower, Player, HandleAck, Handling
<1>2. CASE unacked[Master] = << >>
  <2>1. UndefinedStep(Master)
    BY <1>2 DEF HandleAck
  <2>. QED  BY <1>1, <2>1, UndefinedStepConfirmedInv
<1>3. CASE unacked[Master] # << >>
  <2>1. /\ packet_queue' = [packet_queue EXCEPT ![Master] = Tail(@)]
        /\ UNCHANGED <<rollback, net, state, pc, premature>>
    BY <1>3 DEF HandleAck, PopPacket
  <2>2. /\ \A q \in Player : SampledCount(q)' = SampledCount(q)
        /\ \A q \in Player : SampledInputs(q)' = SampledInputs(q)
        /\ EventsTo(Follower)' = EventsTo(Follower)
    BY <1>1, <2>1 DEF SampledCount, SampledInputs, EventsTo, TypeInv, TypeOK
  <2>3. SampledGrows
    BY <2>2, SampledStays
  <2>. QED  BY <2>1, <2>2, <2>3, KeepsConfirmedInv
<1>. QED  BY <1>2, <1>3

(* The player samples one more input: the events it raises announce        *)
(* nothing.                                                                *)
LEMMA EndFrameConfirmedInv ==
    ASSUME TypeInv, TypeInv', ConfirmedInv, NEW p \in Player, EndFrame(p)
    PROVE  ConfirmedInv'
<1>. DEFINE frame == rollback[p].current_frame
<1>1. PICK input \in Input :
          LET sampled == SetPlayerInput(rollback[p], p, input)
              list    == Append(unacked[p], [input |-> input, frame_nbr |-> frame])
          IN  /\ rollback' = [rollback EXCEPT ![p] = UpdateGame(sampled)]
              /\ unacked' = [unacked EXCEPT ![p] = list]
              /\ RaiseEvents(p, <<InputPacket(list)>>)
  BY DEF EndFrame
<1>. DEFINE r    == UpdateGame(SetPlayerInput(rollback[p], p, input))
            list == Append(unacked[p], [input |-> input, frame_nbr |-> frame])
<1>2. /\ rollback' = [rollback EXCEPT ![p] = r]
      /\ RaiseEvents(p, <<InputPacket(list)>>)
      /\ pc' = [pc EXCEPT ![p] = "loop"]
      /\ UNCHANGED <<packet_queue, state, premature>>
      /\ pc[p] # "loop"
      /\ state[p] = "kInGame"
  BY <1>1 DEF EndFrame, TypeInv, FramesInv
<1>3. /\ Other(p) \in Player /\ Other(p) # p /\ Other(Other(p)) = p
      /\ \A q \in Player : q = p \/ q = Other(p)
      /\ rollback[p] \in RollbackState
      /\ unacked[p] \in Seq(FrameInput)
  BY OtherPlayer, PlayerTypes
<1>4. /\ SampledCount(p) = frame
      /\ frame \in Frame /\ frame \in Int
  <2>1. rollback[p].current_frame >= 0 /\ rollback[p].current_frame < GameFrameNbr
        /\ rollback[p].current_frame \in Int
    BY <1>2, <1>3, FrameCountersAreInt DEF TypeInv, FramesInv
  <2>. QED  BY <1>2, <2>1, GameFrameNbrAssumption DEF SampledCount, Frame
<1>5. /\ r.current_frame = frame
      /\ r.confirmed = rollback[p].confirmed
      /\ r.confirmed_frame = rollback[p].confirmed_frame
      /\ r.inputs[p] = [rollback[p].inputs[p] EXCEPT ![frame] = input]
  BY <1>3 DEF UpdateGame, SetPlayerInput, RollbackState
<1>. HIDE DEF r
<1>6. /\ rollback'[p] = r /\ rollback'[Other(p)] = rollback[Other(p)]
      /\ pc'[p] = "loop" /\ pc'[Other(p)] = pc[Other(p)]
  BY <1>2, <1>3 DEF TypeInv, TypeOK
<1>7. /\ SampledCount(p)' = frame + 1
      /\ SampledCount(Other(p))' = SampledCount(Other(p))
      /\ SampledInputs(Other(p))' = SampledInputs(Other(p))
  BY <1>2, <1>3, <1>5, <1>6 DEF SampledCount, SampledInputs
<1>8. \A f \in Frame : f < frame => SampledInputs(p)'[f] = SampledInputs(p)[f]
  BY <1>3, <1>4, <1>5, <1>6 DEF SampledInputs, RollbackState
<1>9. SampledGrows
  <2>1. SampledCount(Other(p)) \in Int
    BY <1>3, PlayerTypes
  <2>. HIDE DEF frame
  <2>2. ASSUME NEW q \in Player
        PROVE  /\ SampledCount(q) <= SampledCount(q)'
               /\ \A f \in Frame : f < SampledCount(q) =>
                     SampledInputs(q)'[f] = SampledInputs(q)[f]
    <3>1. CASE q = p
      BY <1>4, <1>7, <1>8, <3>1
    <3>2. CASE q = Other(p)
      BY <1>7, <2>1, <3>2
    <3>. QED  BY <1>3, <3>1, <3>2
  <2>. QED  BY <2>2 DEF SampledGrows
<1>10. ASSUME NEW q \in Player
       PROVE  /\ rollback'[q].confirmed = rollback[q].confirmed
              /\ rollback'[q].confirmed_frame = rollback[q].confirmed_frame
  BY <1>3, <1>5, <1>6
<1>11. ASSUME state[Follower] = "kInGame", NEW first \in Int, NEW last \in Int,
              NEW game, NEW bad, Paired(EventsTo(Follower), first, last, game, bad)
       PROVE  Paired(EventsTo(Follower)', first, last, game, bad)
  <2>1. CASE p = Follower
    <3>1. net'[p] = net[p]
      BY <1>2, RaiseEventsLeaves
    <3>2. EventsTo(p)' = EventsTo(p)
      BY <1>2, <3>1 DEF EventsTo
    <3>. QED  BY <1>11, <2>1, <3>2
  <2>2. CASE Other(p) = Follower
    <3>. DEFINE packet == InputPacket(list)
    <3>1. packet \in Packet /\ ~ Counts(packet)
      <4>1. [input |-> input, frame_nbr |-> frame] \in FrameInput
        BY <1>4 DEF FrameInput
      <4>2. list \in Seq(FrameInput)
        BY <1>3, <4>1, AppendProperties
      <4>. HIDE DEF list
      <4>. QED  BY <4>2, EmptySeq DEF InputPacket, Packet, GameHistory, Counts
    <3>2. RaiseEvents(p, <<packet>>) /\ packet_queue'[Other(p)] = packet_queue[Other(p)]
      BY <1>2
    <3>. HIDE DEF packet
    <3>3. <<packet>> \in Seq(Packet)
      BY <3>1
    <3>4. EventsTo(Follower)' = EventsTo(Follower) \o <<packet>>
      BY <1>11, <2>2, <3>2, <3>3, RaisedLast
    <3>5. Paired(<<packet>>, last, last, game, bad)
      BY <1>11, <3>1, PairedUncounted
    <3>6. EventsTo(Follower) \in Seq(Packet)
      BY <1>3, <2>2, PlayerTypes
    <3>. QED  BY <1>11, <3>3, <3>4, <3>5, <3>6, PairedWithMore
  <2>. QED  BY <1>3, <2>1, <2>2 DEF Follower, Player
<1>12. /\ rollback[Follower].confirmed_frame \in Int
       /\ rollback[Master].confirmed_frame \in Int
  <2>1. Follower \in Player /\ Master \in Player
    BY DEF Follower, Master, Player
  <2>. QED  BY <2>1, ConfirmedFrames
<1>. QED  BY <1>2, <1>9, <1>10, <1>11, <1>12, KeepsConfirmedInv

(* HandlePacket(), an input packet: the follower confirms nothing, and the *)
(* master announces each frame it confirms.                                *)
LEMMA HandleInputConfirmedInv ==
    ASSUME TypeInv, TypeInv', InputsInv, ConfirmedInv, NEW p \in Player, HandleInput(p)
    PROVE  ConfirmedInv'
<1>. DEFINE list  == FrontPacket(p).frames
            r     == SetOtherPlayerInput(rollback[p], list, Other(p))
            count == IF p = Master THEN ConfirmCount(r, list) ELSE 0
            s     == ConfirmFrames(r, count)
<1>1. /\ pc[p] = "packets" /\ packet_queue[p] # << >>
      /\ FrontPacket(p).type = "kInput"
      /\ list \in Seq(FrameInput)
  BY FrontPacketType DEF HandleInput, Handling
<1>2. /\ Other(p) \in Player /\ Other(p) # p /\ Other(Other(p)) = p
      /\ \A q \in Player : q = p \/ q = Other(p)
      /\ rollback[p] \in RollbackState
      /\ CountersAgree(rollback[p])
  BY OtherPlayer, PlayerTypes DEF TypeInv, FramesInv
<1>3. CASE IsOld(rollback[p], list)
  <2>1. /\ pc' = [pc EXCEPT ![p] = "sample"]
        /\ UNCHANGED <<rollback, unacked, packet_queue, net, state, premature>>
    BY <1>3 DEF HandleInput, ReturnFromHandlePacket
  <2>2. /\ \A q \in Player : SampledCount(q)' = SampledCount(q)
        /\ \A q \in Player : SampledInputs(q)' = SampledInputs(q)
        /\ EventsTo(Follower)' = EventsTo(Follower)
    BY <1>1, <2>1 DEF SampledCount, SampledInputs, EventsTo, TypeInv, TypeOK
  <2>3. SampledGrows
    BY <2>2, SampledStays
  <2>. QED  BY <2>1, <2>2, <2>3, KeepsConfirmedInv
<1>4. CASE /\ ~ IsOld(rollback[p], list)
           /\ ~ (/\ RemoteInputsDefined(rollback[p], list)
                 /\ p = Master => ConfirmationDefined(r, list))
  <2>1. UndefinedStep(p)
    BY <1>4 DEF HandleInput
  <2>. QED  BY <1>1, <2>1, UndefinedStepConfirmedInv
<1>5. CASE /\ ~ IsOld(rollback[p], list)
           /\ RemoteInputsDefined(rollback[p], list)
           /\ p = Master => ConfirmationDefined(r, list)
  <2>1. /\ rollback' = [rollback EXCEPT ![p] = s]
        /\ RaiseEvents(p, Confirmations(r, count))
        /\ premature' = premature \cup PrematureFrames(r, count)
        /\ packet_queue' = [packet_queue EXCEPT ![p] = Tail(@)]
        /\ UNCHANGED <<unacked, state, pc>>
    BY <1>5 DEF HandleInput, PopPacket
  <2>2. /\ r \in RollbackState
        /\ CountersAgree(r)
        /\ r.current_frame = rollback[p].current_frame
        /\ r.confirmed = rollback[p].confirmed
        /\ r.confirmed_frame = rollback[p].confirmed_frame
    BY <1>1, <1>2, <1>5, SetOtherPlayerInputType, SetOtherPlayerInputLeaves
  <2>3. Slice(list, SampledInputs(Other(p)), SampledCount(Other(p)))
    BY <1>1, FrontOfEvents DEF InputsInv, EventsInv, InOrder
  <2>4. /\ \A f \in 0 .. r.last_remote_input_frame :
              /\ f < SampledCount(Other(p))
              /\ r.inputs[Other(p)][f] = SampledInputs(Other(p))[f]
        /\ r.inputs[p] = rollback[p].inputs[p]
    <3>1. /\ \A f \in 0 .. rollback[p].last_remote_input_frame :
                /\ f < SampledCount(Other(p))
                /\ rollback[p].inputs[Other(p)][f] = SampledInputs(Other(p))[f]
      BY DEF InputsInv, ReceivedInv
    <3>2. SampledCount(Other(p)) \in Int
      BY <1>2, PlayerTypes
    <3>. HIDE DEF list
    <3>. QED  BY <1>1, <1>2, <1>5, <2>3, <3>1, <3>2, SetOtherPlayerInputIsTrue
  <2>5. count \in Nat /\ ConfirmFramesDefined(r, count)
    <3>. HIDE DEF list, r
    <3>1. CASE p = Master
      BY <1>1, <1>5, <2>2, <3>1, ConfirmCountType DEF ConfirmationDefined
    <3>2. CASE p # Master
      BY <2>2, <3>2, GameFrameNbrAssumption DEF ConfirmFramesDefined, RollbackState
    <3>. QED  BY <3>1, <3>2
  <2>6. ASSUME NEW f \in r.frame_to_confirm .. r.frame_to_confirm + count - 1
        PROVE  p = Master /\ f <= r.current_frame /\ f <= r.last_remote_input_frame
    <3>1. p = Master
      <4>. HIDE DEF r, list
      <4>. QED  BY <2>2, <2>6, FrameCountersAreInt DEF count
    <3>2. f \in r.frame_to_confirm .. r.frame_to_confirm + ConfirmCount(r, list) - 1
      BY <2>6, <3>1
    <3>3. ConfirmStops(r, list) # {}
      BY <1>5, <3>1 DEF ConfirmationDefined
    <3>4. f <= r.current_frame /\ f <= r.last_remote_input_frame
      <4>. HIDE DEF list
      <4>. QED  BY <1>1, <1>2, <1>5, <2>2, <2>3, <3>2, <3>3, ConfirmsReceived
    <3>. QED  BY <3>1, <3>4
  <2>. HIDE DEF r, count
  <2>7. /\ s.current_frame = rollback[p].current_frame
        /\ s.inputs = r.inputs
        /\ s.confirmed_frame = rollback[p].confirmed_frame + count
    BY <2>2, <2>5, ConfirmFramesType DEF ConfirmFrames, RollbackState
  <2>. HIDE DEF s, list
  <2>8. /\ \A q \in Player : SampledCount(q)' = SampledCount(q)
        /\ \A q \in Player : SampledInputs(q)' = SampledInputs(q)
        /\ rollback'[p] = s
        /\ rollback'[Other(p)] = rollback[Other(p)]
    BY <1>1, <2>1, <2>4, <2>7, HandlerKeepsSampled
  <2>9. SampledGrows
    BY <2>8, SampledStays
  <2>10. /\ r.frame_to_confirm = r.confirmed_frame + 1
         /\ r.confirmed_frame \in Int /\ r.confirmed_frame >= -1
         /\ r.current_frame \in Int /\ r.last_remote_input_frame \in Int
         /\ SampledCount(p) = r.current_frame
    <3>1. SampledCount(p) = rollback[p].current_frame
      BY <1>1 DEF SampledCount
    <3>. QED  BY <2>2, <3>1, ConfirmedFrames, FrameCountersAreInt DEF CountersAgree
  <2>11. ASSUME NEW f \in r.confirmed_frame + 1 .. r.confirmed_frame + count
         PROVE  /\ p = Master /\ f <= r.current_frame /\ f <= r.last_remote_input_frame
                /\ f \in Int /\ f >= 0
                /\ Untainted(f)' => f < r.current_frame
    <3>1. f \in r.frame_to_confirm .. r.frame_to_confirm + count - 1
      BY <2>5, <2>10
    <3>2. f = r.current_frame => f \in premature'
      BY <2>1, <3>1 DEF PrematureFrames
    <3>3. f \in Int /\ f >= 0
      BY <2>10
    <3>4. Untainted(f)' => f # r.current_frame
      BY <3>2, <3>3 DEF Untainted
    <3>5. p = Master /\ f <= r.current_frame /\ f <= r.last_remote_input_frame
      BY <2>6, <3>1
    <3>. QED  BY <2>10, <3>3, <3>4, <3>5
  <2>12. ASSUME NEW f \in r.confirmed_frame + 1 .. r.confirmed_frame + count, Untainted(f)'
         PROVE  /\ \A q \in Player : f < SampledCount(q)
                /\ InputsAt(r, f) = TrueInputs(f)
    <3>1. p = Master /\ f < SampledCount(p) /\ f \in 0 .. r.last_remote_input_frame
      BY <2>10, <2>11, <2>12
    <3>2. /\ f < SampledCount(Other(p))
          /\ r.inputs[Other(p)][f] = rollback[Other(p)].inputs[Other(p)][f]
          /\ r.inputs[p][f] = rollback[p].inputs[p][f]
      BY <2>4, <3>1 DEF SampledInputs
    <3>. QED  BY <1>2, <3>1, <3>2 DEF InputsAt, TrueInputs, Master, Other
  <2>13. premature \subseteq premature'
    BY <2>1
  <2>14. /\ LengthInv(p) /\ TruthInv(p)
         /\ LengthInv(Other(p)) /\ TruthInv(Other(p))
         /\ AnnouncedInv
    BY <1>2 DEF ConfirmedInv
  <2>15. LengthInv(p)' /\ TruthInv(p)'
    BY <2>2, <2>5, <2>8, <2>9, <2>12, <2>13, <2>14, TruthWithMore DEF s
  <2>16. LengthInv(Other(p))' /\ TruthInv(Other(p))'
    BY <1>2, <2>8, <2>9, <2>13, <2>14, TruthStays
  <2>17. AnnouncedInv'
    <3>1. CASE p = Follower
      <4>1. Other(p) = Master /\ count = 0
        BY <3>1 DEF count, Master, Follower, Other
      <4>2. s.confirmed = rollback[p].confirmed
        <5>1. /\ s.confirmed \in GameHistory
              /\ Len(s.confirmed) = Len(rollback[p].confirmed)
              /\ \A i \in 1 .. Len(s.confirmed) :
                    s.confirmed[i] = IF i <= r.confirmed_frame + 1 THEN r.confirmed[i]
                                     ELSE InputsAt(r, i - 1)
          BY <2>2, <2>5, <2>10, <2>14, <4>1, ConfirmedGame DEF LengthInv, s
        <5>2. rollback[p].confirmed \in GameHistory
          BY ConfirmedFrames
        <5>3. \A i \in 1 .. Len(s.confirmed) : s.confirmed[i] = rollback[p].confirmed[i]
          BY <2>2, <2>10, <2>14, <5>1 DEF LengthInv
        <5>. QED  BY <5>1, <5>2, <5>3, SeqEqual DEF GameHistory
      <4>3. s.confirmed_frame = rollback[p].confirmed_frame
        BY <2>2, <2>7, <2>10, <4>1
      <4>4. PrematureFrames(r, count) = {}
        BY <2>10, <4>1 DEF PrematureFrames
      <4>5. EventsTo(p)' = Tail(EventsTo(p)) /\ EventsTo(p) # << >>
            /\ ~ Counts(EventsTo(p)[1])
        <5>1. net'[p] = net[p]
          BY <2>1, RaiseEventsLeaves
        <5>2. packet_queue'[p] = Tail(packet_queue[p])
          BY <2>1 DEF TypeInv, TypeOK
        <5>. QED  BY <1>1, <5>1, <5>2, FrontOfEvents DEF EventsTo, Counts
      <4>6. EventsTo(p) \in Seq(Packet)
        BY PlayerTypes
      <4>7. AnnouncedInv'
        <5>1. ASSUME state'[Follower] = "kInGame",
                     Untainted(rollback[Follower].confirmed_frame)'
              PROVE  Paired(EventsTo(Follower)', rollback'[Follower].confirmed_frame,
                            rollback'[Master].confirmed_frame, rollback'[Master].confirmed,
                            premature')
          <6>1. Paired(EventsTo(p), rollback[p].confirmed_frame,
                       rollback[Master].confirmed_frame, rollback[Master].confirmed, premature)
            BY <2>1, <2>8, <2>13, <2>14, <3>1, <4>3, <5>1 DEF AnnouncedInv, Untainted
          <6>2. Paired(Tail(EventsTo(p)), rollback[p].confirmed_frame,
                       rollback[Master].confirmed_frame, rollback[Master].confirmed, premature)
            BY <4>5, <4>6, <6>1, PairedWithoutFirst
          <6>3. premature' = premature
            BY <2>1, <4>4
          <6>. QED  BY <2>8, <3>1, <4>1, <4>3, <4>5, <6>2, <6>3
        <5>. QED  BY <5>1 DEF AnnouncedInv
      <4>. QED  BY <4>7
    <3>2. CASE p = Master
      <4>1. Other(p) = Follower
        BY <3>2 DEF Master, Follower, Other
      <4>. DEFINE raised == Confirmations(r, count)
      <4>2. raised \in Seq(Packet)
        BY <2>2, <2>5, ConfirmationsType DEF TypeInv
      <4>3. Paired(raised, r.confirmed_frame, r.confirmed_frame + count, s.confirmed, premature')
        <5>1. ASSUME NEW f \in r.confirmed_frame + 1 .. r.confirmed_frame + count,
                     \A g \in premature' : f < g, unacked[Master] # << >>
              PROVE  f <= Last(unacked[Master]).frame_nbr
          <6>1. f < r.current_frame /\ f \in Int
            BY <2>11, <5>1 DEF Untainted
          <6>2. Last(unacked[Master]).frame_nbr = SampledCount(Master) - 1
            BY <1>2, <3>2, <5>1 DEF InputsInv, UnackedInv
          <6>. QED  BY <2>10, <3>2, <6>1, <6>2
        <5>2. Len(r.confirmed) = r.confirmed_frame + 1
          BY <2>2, <2>14 DEF LengthInv
        <5>. QED  BY <2>2, <2>5, <5>1, <5>2, PairedConfirmations DEF s
      <4>4. ASSUME state'[Follower] = "kInGame",
                   Untainted(rollback[Follower].confirmed_frame)'
            PROVE  Paired(EventsTo(Follower)', rollback'[Follower].confirmed_frame,
                          rollback'[Master].confirmed_frame, rollback'[Master].confirmed,
                          premature')
        <5>1. Paired(EventsTo(Follower), rollback[Follower].confirmed_frame,
                     r.confirmed_frame, r.confirmed, premature)
          BY <2>1, <2>2, <2>8, <2>13, <2>14, <3>2, <4>1, <4>4 DEF AnnouncedInv, Untainted
        <5>2. /\ r.confirmed \in Seq(Input \X Input) /\ s.confirmed \in Seq(Input \X Input)
              /\ Len(r.confirmed) <= Len(s.confirmed)
              /\ \A i \in 1 .. Len(r.confirmed) : s.confirmed[i] = r.confirmed[i]
          <6>1. /\ s.confirmed \in GameHistory
                /\ Len(s.confirmed) = r.confirmed_frame + 1 + count
                /\ \A i \in 1 .. Len(s.confirmed) :
                      s.confirmed[i] = IF i <= r.confirmed_frame + 1 THEN r.confirmed[i]
                                       ELSE InputsAt(r, i - 1)
                /\ Len(r.confirmed) = r.confirmed_frame + 1
            BY <2>2, <2>5, <2>14, ConfirmedGame DEF LengthInv, s
          <6>2. r.confirmed \in GameHistory
            BY <2>2 DEF RollbackState
          <6>3. Len(r.confirmed) <= Len(s.confirmed)
            BY <2>5, <2>10, <6>1
          <6>4. ASSUME NEW j \in 1 .. Len(r.confirmed)
                PROVE  s.confirmed[j] = r.confirmed[j]
            <7>1. j \in 1 .. Len(s.confirmed) /\ j <= r.confirmed_frame + 1
              BY <2>5, <2>10, <6>1
            <7>. QED  BY <6>1, <7>1
          <6>. QED  BY <6>1, <6>2, <6>3, <6>4 DEF GameHistory
        <5>3. Paired(EventsTo(Follower), rollback[Follower].confirmed_frame,
                     r.confirmed_frame, s.confirmed, premature')
          BY <2>13, <5>1, <5>2, PairedGrows
        <5>4. EventsTo(Follower) \in Seq(Packet)
          BY <1>2, <4>1, PlayerTypes
        <5>5. Paired(EventsTo(Follower) \o raised, rollback[Follower].confirmed_frame,
                     r.confirmed_frame + count, s.confirmed, premature')
          BY <4>2, <4>3, <5>3, <5>4, PairedWithMore
        <5>6. EventsTo(Follower)' = EventsTo(Follower) \o raised
          <6>1. state[Other(p)] = "kInGame" /\ packet_queue'[Other(p)] = packet_queue[Other(p)]
            BY <1>2, <2>1, <4>1, <4>4
          <6>2. RaiseEvents(p, raised)
            BY <2>1
          <6>. HIDE DEF raised
          <6>. QED  BY <4>1, <4>2, <6>1, <6>2, RaisedLast
        <5>. QED  BY <2>2, <2>7, <2>8, <3>2, <4>1, <5>5, <5>6
      <4>. QED  BY <4>4 DEF AnnouncedInv
    <3>. QED  BY <3>1, <3>2 DEF Player, Master, Follower
  <2>. QED  BY <1>2, <2>15, <2>16, <2>17 DEF ConfirmedInv
<1>. QED  BY <1>3, <1>4, <1>5

(* The follower's manager between taking the inputs of a confirmation and  *)
(* confirming: it holds inputs of the table, those of the packet among     *)
(* them.                                                                   *)
Took(t, packet, inputs) ==
    /\ ConfirmedByFollower(packet) = ConfirmFrames(t, 1)
    /\ CountersAgree(t) /\ ConfirmFramesDefined(t, 1)
    /\ t.confirmed = rollback[Follower].confirmed
    /\ t.confirmed_frame = rollback[Follower].confirmed_frame
    /\ t.current_frame = rollback[Follower].current_frame
    /\ \A f \in 0 .. t.last_remote_input_frame : t.inputs[Master][f] = inputs[f]
    /\ t.inputs[Follower] = rollback[Follower].inputs[Follower]
    /\ \A f \in Int : f <= t.current_frame /\ f <= Last(packet.frames).frame_nbr =>
          f <= t.last_remote_input_frame

(* There is one.                                                           *)
LEMMA TakenByFollower ==
    ASSUME TypeInv, NEW packet \in Packet, ConfirmedByFollowerDefined(packet),
           NEW inputs, NEW count \in Int, Slice(packet.frames, inputs, count),
           \A f \in 0 .. rollback[Follower].last_remote_input_frame :
              f < count /\ rollback[Follower].inputs[Master][f] = inputs[f]
    PROVE  \E t \in RollbackState : Took(t, packet, inputs)
<1>. DEFINE r == rollback[Follower]
            t == IF r.last_remote_input_frame < Last(packet.frames).frame_nbr
                 THEN SetOtherPlayerInput(r, packet.frames, Master)
                 ELSE r
<1>1. /\ r \in RollbackState /\ CountersAgree(r)
      /\ packet.frames \in Seq(FrameInput)
      /\ Master \in Player /\ Other(Master) = Follower
      /\ RemoteInputsDefined(r, packet.frames)
      /\ ConfirmFramesDefined(r, 1)
  BY PlayerTypes DEF Follower, Master, Other, Player, Packet, ConfirmedByFollowerDefined,
     TypeInv, FramesInv
<1>2. \A f \in 0 .. r.last_remote_input_frame :
         f < count /\ r.inputs[Master][f] = inputs[f]
  OBVIOUS
<1>3. /\ Last(packet.frames).frame_nbr \in Int
      /\ r.last_remote_input_frame \in Int /\ r.current_frame \in Int
  <2>1. Last(packet.frames) \in FrameInput
    BY <1>1, LastType DEF RemoteInputsDefined
  <2>. QED  BY <1>1, <2>1, FrameCountersAreInt DEF FrameInput, Frame
<1>. HIDE DEF r
<1>4. /\ t \in RollbackState /\ CountersAgree(t)
      /\ t.confirmed = r.confirmed
      /\ t.confirmed_frame = r.confirmed_frame
      /\ t.frame_to_confirm = r.frame_to_confirm
      /\ t.current_frame = r.current_frame
  BY <1>1, SetOtherPlayerInputType, SetOtherPlayerInputLeaves
<1>5. /\ \A f \in 0 .. t.last_remote_input_frame : t.inputs[Master][f] = inputs[f]
      /\ t.inputs[Follower] = r.inputs[Follower]
      /\ \A f \in Int : f <= t.current_frame /\ f <= Last(packet.frames).frame_nbr =>
            f <= t.last_remote_input_frame
  <2>1. CASE r.last_remote_input_frame < Last(packet.frames).frame_nbr
    <3>1. t = SetOtherPlayerInput(r, packet.frames, Master)
      BY <2>1
    <3>. HIDE DEF t
    <3>2. /\ \A f \in 0 .. t.last_remote_input_frame : t.inputs[Master][f] = inputs[f]
          /\ t.inputs[Follower] = r.inputs[Follower]
      BY <1>1, <1>2, <3>1, SetOtherPlayerInputIsTrue
    <3>3. \A f \in Int : f <= t.current_frame /\ f <= Last(packet.frames).frame_nbr =>
             f <= t.last_remote_input_frame
      BY <1>1, <1>4, <3>1, ReceivedUpTo
    <3>. QED  BY <3>2, <3>3
  <2>2. CASE ~ (r.last_remote_input_frame < Last(packet.frames).frame_nbr)
    BY <1>2, <1>3, <2>2
  <2>. QED  BY <2>1, <2>2
<1>. HIDE DEF t
<1>6. ConfirmFramesDefined(t, 1)
  BY <1>1, <1>4 DEF ConfirmFramesDefined
<1>7. ConfirmedByFollower(packet) = ConfirmFrames(t, 1)
  BY DEF ConfirmedByFollower, ConfirmFrame, r, t
<1>8. Took(t, packet, inputs)
  BY <1>4, <1>5, <1>6, <1>7 DEF Took, r
<1>. QED  BY <1>4, <1>8

(* Before a premature frame, a confirmation in front of the follower's     *)
(* queue announces the next frame.                                         *)
LEMMA AnnouncedNext ==
    ASSUME TypeInv, ConfirmedInv, state[Follower] = "kInGame",
           packet_queue[Follower] # << >>,
           FrontPacket(Follower).type = "kFrameConfirmation",
           NEW next, next = rollback[Follower].confirmed_frame + 1, Untainted(next)
    PROVE  /\ Paired(Tail(EventsTo(Follower)), next, rollback[Master].confirmed_frame,
                     rollback[Master].confirmed, premature)
           /\ Announces(FrontPacket(Follower), next, rollback[Master].confirmed, premature)
           /\ next <= rollback[Master].confirmed_frame
           /\ \A f \in 0 .. next : Untainted(f)
<1>. DEFINE events == EventsTo(Follower)
            cf     == rollback[Follower].confirmed_frame
            cm     == rollback[Master].confirmed_frame
            game   == rollback[Master].confirmed
<1>1. Follower \in Player /\ Master \in Player
  BY DEF Follower, Master, Player
<1>2. cf \in Int /\ cm \in Int /\ premature \subseteq Int /\ next = cf + 1
  BY <1>1, ConfirmedFrames DEF TypeInv, TypeOK, Frame
<1>3. /\ events \in Seq(Packet) /\ events # << >>
      /\ events[1] = FrontPacket(Follower)
      /\ Counts(events[1])
  BY <1>1, FrontOfEvents, PlayerTypes DEF Counts
<1>4. Untainted(cf) /\ \A f \in 0 .. next : Untainted(f)
  <2>. HIDE DEF cf, cm
  <2>1. \A b \in premature : next < b /\ b \in Int
    BY <1>2 DEF Untainted
  <2>2. \A b \in premature : cf < b /\ \A f \in 0 .. next : f < b
    BY <1>2, <2>1
  <2>. QED  BY <2>2 DEF Untainted
<1>5. Paired(events, cf, cm, game, premature)
  BY <1>4 DEF ConfirmedInv, AnnouncedInv
<1>6. LengthInv(Master)
  BY <1>1 DEF ConfirmedInv
<1>. HIDE DEF events, game
<1>7. /\ Paired(Tail(events), next, cm, game, premature)
      /\ Announces(events[1], next, game, premature)
  <2>. HIDE DEF cf, cm
  <2>. QED  BY <1>3, <1>5, PairedWithoutFirst DEF cf
<1>8. next + 1 <= Len(game)
  BY <1>7 DEF Announces
<1>9. next <= cm
  BY <1>2, <1>6, <1>8 DEF LengthInv, game
<1>. QED  BY <1>3, <1>4, <1>7, <1>9 DEF events, game

(* HandlePacket() of the follower, a confirmation: before a premature      *)
(* frame it is the one for the next frame, the inputs are there and the    *)
(* checksums agree.                                                        *)
LEMMA HandleConfirmationConfirmedInv ==
    ASSUME TypeInv, TypeInv', InputsInv, ConfirmedInv, HandleConfirmation
    PROVE  ConfirmedInv'
<1>. DEFINE packet == FrontPacket(Follower)
            s      == ConfirmedByFollower(packet)
            equal  == CheckSum(s) = packet.checksum
            cf     == rollback[Follower].confirmed_frame
            g      == cf + 1
            cm     == rollback[Master].confirmed_frame
            game   == rollback[Master].confirmed
            events == EventsTo(Follower)
<1>1. /\ Follower \in Player /\ Other(Follower) = Master /\ Other(Master) = Follower
      /\ Master \in Player
      /\ Master # Follower
      /\ \A q \in Player : q = Follower \/ q = Master
  BY DEF Follower, Master, Other, Player
<1>2. /\ packet \in Packet /\ packet.type = "kFrameConfirmation"
      /\ packet.checksum \in GameHistory
      /\ pc[Follower] = "packets" /\ packet_queue[Follower] # << >>
      /\ state[Follower] = "kInGame"
  <2>1. pc[Follower] = "packets"
    BY DEF HandleConfirmation, Handling
  <2>. QED  BY <1>1, <2>1, FrontPacketType
            DEF HandleConfirmation, Handling, TypeInv, FramesInv
<1>3. CASE ~ (/\ ConfirmedByFollowerDefined(packet)
              /\ equal => unacked[Follower] # << >>)
  <2>1. UndefinedStep(Follower)
    BY <1>3 DEF HandleConfirmation
  <2>. QED  BY <1>1, <1>2, <2>1, UndefinedStepConfirmedInv
<1>4. CASE /\ ConfirmedByFollowerDefined(packet)
           /\ equal => unacked[Follower] # << >>
  <2>1. /\ rollback' = [rollback EXCEPT ![Follower] = s]
        /\ \/ /\ equal
              /\ RaiseEvents(Follower, <<AckPacket>>)
              /\ packet_queue' = [packet_queue EXCEPT ![Follower] = Tail(@)]
              /\ UNCHANGED pc
           \/ /\ ~ equal
              /\ pc' = [pc EXCEPT ![Follower] = "sample"]
              /\ UNCHANGED <<packet_queue, net>>
        /\ UNCHANGED <<state, premature>>
    BY <1>4 DEF HandleConfirmation, ReturnFromHandlePacket, PopPacket
  <2>2. PICK t \in RollbackState :
          /\ s = ConfirmFrames(t, 1)
          /\ CountersAgree(t) /\ ConfirmFramesDefined(t, 1)
          /\ t.confirmed = rollback[Follower].confirmed
          /\ t.confirmed_frame = cf
          /\ t.current_frame = rollback[Follower].current_frame
          /\ \A f \in 0 .. t.last_remote_input_frame :
                t.inputs[Master][f] = SampledInputs(Master)[f]
          /\ t.inputs[Follower] = rollback[Follower].inputs[Follower]
          /\ \A f \in Int : f <= t.current_frame /\ f <= Last(packet.frames).frame_nbr =>
                f <= t.last_remote_input_frame
    <3>1. \A f \in 0 .. rollback[Follower].last_remote_input_frame :
              /\ f < SampledCount(Master)
              /\ rollback[Follower].inputs[Master][f] = SampledInputs(Master)[f]
      BY <1>1 DEF InputsInv, ReceivedInv
    <3>2. Slice(packet.frames, SampledInputs(Master), SampledCount(Master))
      BY <1>1, <1>2, FrontOfEvents DEF InputsInv, EventsInv, InOrder
    <3>3. SampledCount(Master) \in Int
      BY <1>1, PlayerTypes
    <3>. DEFINE inputs == SampledInputs(Master)
                count  == SampledCount(Master)
    <3>. HIDE DEF packet, inputs, count, s, cf
    <3>4. /\ packet \in Packet /\ ConfirmedByFollowerDefined(packet)
          /\ Slice(packet.frames, inputs, count)
          /\ count \in Int
          /\ \A f \in 0 .. rollback[Follower].last_remote_input_frame :
                f < count /\ rollback[Follower].inputs[Master][f] = inputs[f]
      BY <1>2, <1>4, <3>1, <3>2, <3>3 DEF inputs, count
    <3>5. \E t \in RollbackState : Took(t, packet, inputs)
      BY <3>4, TakenByFollower
    <3>. QED  BY <3>5 DEF Took, inputs, s, cf
  <2>3. packet.frames # << >>
    BY <1>4 DEF ConfirmedByFollowerDefined, RemoteInputsDefined
  <2>4. /\ cf \in Int /\ cf >= -1 /\ cm \in Int
        /\ t.current_frame \in Int /\ t.last_remote_input_frame \in Int
        /\ SampledCount(Follower) = t.current_frame
        /\ premature \subseteq Int
    <3>1. SampledCount(Follower) = rollback[Follower].current_frame
      BY <1>2 DEF SampledCount
    <3>2. premature \subseteq Frame
      BY DEF TypeInv, TypeOK
    <3>. QED  BY <1>1, <2>2, <3>1, <3>2, ConfirmedFrames, FrameCountersAreInt DEF Frame
  <2>. HIDE DEF s, packet, equal
  <2>6. /\ s.current_frame = rollback[Follower].current_frame
        /\ s.inputs[Follower] = rollback[Follower].inputs[Follower]
        /\ s.confirmed_frame = g
    BY <2>2 DEF ConfirmFrames, RollbackState
  <2>7. /\ \A q \in Player : SampledCount(q)' = SampledCount(q)
        /\ \A q \in Player : SampledInputs(q)' = SampledInputs(q)
        /\ rollback'[Follower] = s
        /\ rollback'[Master] = rollback[Master]
    BY <1>1, <1>2, <2>1, <2>6, HandlerKeepsSampled
  <2>8. SampledGrows
    BY <2>7, SampledStays
  <2>9. LengthInv(Follower) /\ TruthInv(Follower) /\ LengthInv(Master) /\ TruthInv(Master)
        /\ AnnouncedInv
    BY <1>1 DEF ConfirmedInv
  <2>10. ASSUME Untainted(g)
         PROVE  /\ Paired(Tail(events), g, cm, game, premature)
                /\ Announces(packet, g, game, premature)
                /\ g <= cm
                /\ \A f \in 0 .. g : Untainted(f)
    <3>1. g = cf + 1
      OBVIOUS
    <3>. HIDE DEF g
    <3>. QED  BY <1>2, <2>10, <3>1, AnnouncedNext DEF packet
  <2>11. ASSUME Untainted(g)
         PROVE  /\ g <= cm /\ g + 1 <= Len(game)
                /\ \A q \in Player : g < SampledCount(q)
                /\ InputsAt(t, g) = TrueInputs(g)
    <3>1. g + 1 <= Len(game) /\ g <= cm
      BY <2>10, <2>11 DEF Announces
    <3>2. g \in 0 .. cm
      BY <2>4, <3>1
    <3>3. \A q \in Player : g < SampledCount(q)
      BY <2>9, <2>11, <3>2 DEF TruthInv
    <3>4. g <= Last(packet.frames).frame_nbr
      BY <2>3, <2>10, <2>11 DEF Announces, Untainted
    <3>5. g \in Int /\ g <= t.current_frame
      BY <1>1, <2>4, <3>3
    <3>6. g \in 0 .. t.last_remote_input_frame
      BY <2>2, <2>4, <3>4, <3>5
    <3>7. InputsAt(t, g) = TrueInputs(g)
      BY <2>2, <3>6 DEF InputsAt, TrueInputs, Master, Follower, SampledInputs
    <3>. QED  BY <3>1, <3>3, <3>7
  <2>12. LengthInv(Follower)' /\ TruthInv(Follower)'
    <3>1. ASSUME NEW f \in t.confirmed_frame + 1 .. t.confirmed_frame + 1, Untainted(f)'
          PROVE  /\ \A q \in Player : f < SampledCount(q)
                 /\ InputsAt(t, f) = TrueInputs(f)
      <4>1. f = g /\ Untainted(g)
        BY <2>1, <2>2, <2>4, <3>1 DEF Untainted
      <4>. QED  BY <2>11, <4>1
    <3>2. premature \subseteq premature' /\ 1 \in Nat
      BY <2>1
    <3>. HIDE DEF g, cf
    <3>. QED  BY <1>1, <2>2, <2>7, <2>8, <2>9, <3>1, <3>2, TruthWithMore DEF cf
  <2>13. LengthInv(Master)' /\ TruthInv(Master)'
    BY <1>1, <2>1, <2>7, <2>8, <2>9, TruthStays
  <2>14. ASSUME Untainted(g)
         PROVE  EventsTo(Follower)' = Tail(events)
    <3>1. s.confirmed = packet.checksum
      <4>1. /\ s.confirmed \in GameHistory
            /\ Len(s.confirmed) = cf + 1 + 1
            /\ \A i \in 1 .. Len(s.confirmed) :
                  s.confirmed[i] = IF i <= cf + 1 THEN t.confirmed[i] ELSE InputsAt(t, i - 1)
        BY <2>2, <2>9, ConfirmedGame DEF LengthInv
      <4>2. /\ Len(packet.checksum) = g + 1
            /\ \A i \in 1 .. g + 1 : packet.checksum[i] = game[i]
        BY <2>10, <2>14 DEF Announces
      <4>3. ASSUME NEW i \in 1 .. g + 1
            PROVE  s.confirmed[i] = packet.checksum[i]
        <5>. DEFINE f == i - 1
        <5>1. f \in 0 .. cm /\ Untainted(f) /\ f + 1 = i
          BY <2>4, <2>10, <2>11, <2>14
        <5>2. game[i] = TrueInputs(f)
          BY <2>9, <5>1 DEF TruthInv
        <5>3. s.confirmed[i] = TrueInputs(f)
          <6>1. CASE i <= cf + 1
            <7>1. f \in 0 .. cf
              BY <2>4, <6>1
            <7>2. t.confirmed[f + 1] = TrueInputs(f)
              BY <2>2, <2>9, <5>1, <7>1 DEF TruthInv
            <7>3. i \in 1 .. Len(s.confirmed)
              BY <2>4, <4>1
            <7>. QED  BY <4>1, <5>1, <6>1, <7>2, <7>3
          <6>2. CASE ~ (i <= cf + 1)
            <7>1. i \in 1 .. Len(s.confirmed) /\ f = g
              BY <2>4, <4>1, <6>2
            <7>. QED  BY <2>11, <2>14, <4>1, <6>2, <7>1
          <6>. QED  BY <6>1, <6>2
        <5>. QED  BY <4>2, <5>2, <5>3
      <4>4. Len(s.confirmed) = g + 1 /\ Len(packet.checksum) = Len(s.confirmed)
        BY <2>4, <4>1, <4>2
      <4>. HIDE DEF g, cf
      <4>. QED  BY <1>2, <4>1, <4>3, <4>4, SeqEqual DEF GameHistory
    <3>2. equal
      BY <3>1 DEF equal, CheckSum
    <3>3. net'[Follower] = net[Follower]
      BY <1>1, <2>1, <3>2, RaiseEventsLeaves
    <3>4. packet_queue'[Follower] = Tail(packet_queue[Follower])
      BY <1>1, <2>1, <3>2 DEF TypeInv, TypeOK
    <3>. QED  BY <1>1, <1>2, <3>3, <3>4, FrontOfEvents DEF EventsTo
  <2>15. AnnouncedInv'
    <3>1. ASSUME Untainted(rollback[Follower].confirmed_frame)'
          PROVE  Paired(EventsTo(Follower)', rollback'[Follower].confirmed_frame,
                        rollback'[Master].confirmed_frame, rollback'[Master].confirmed,
                        premature')
      <4>1. Untainted(g)
        BY <2>1, <2>6, <2>7, <3>1 DEF Untainted
      <4>2. /\ Paired(Tail(events), g, cm, game, premature)
            /\ EventsTo(Follower)' = Tail(events)
        BY <2>10, <2>14, <4>1
      <4>. QED  BY <2>1, <2>6, <2>7, <4>2
    <3>. QED  BY <3>1 DEF AnnouncedInv
  <2>. QED  BY <1>1, <2>12, <2>13, <2>15 DEF ConfirmedInv
<1>. QED  BY <1>3, <1>4
-----------------------------------------------------------------------------
(* All the steps together.                                                 *)
LEMMA NextConfirmedInv ==
    ASSUME TypeInv, TypeInv', InputsInv, ConfirmedInv, [Next]_vars
    PROVE  ConfirmedInv'
<1>1. ASSUME NEW p \in Player, ReceiveEvent(p)
      PROVE  ConfirmedInv'
  BY <1>1, ReceiveEventConfirmedInv
<1>2. ASSUME NEW p \in Player, LoseEvent(p)
      PROVE  ConfirmedInv'
  BY <1>2, LoseEventConfirmedInv
<1>3. ASSUME NEW p \in Player, BeginFrame(p)
      PROVE  ConfirmedInv'
  BY <1>3, BeginFrameConfirmedInv
<1>4. ASSUME NEW p \in Player, HandleInput(p)
      PROVE  ConfirmedInv'
  BY <1>4, HandleInputConfirmedInv
<1>5. CASE HandleAck
  BY <1>5, HandleAckConfirmedInv
<1>6. CASE HandleConfirmation
  BY <1>6, HandleConfirmationConfirmedInv
<1>7. ASSUME NEW p \in Player, EndFrame(p)
      PROVE  ConfirmedInv'
  BY <1>7, EndFrameConfirmedInv
<1>8. CASE UNCHANGED vars
  BY <1>8 DEF vars, ConfirmedInv, LengthInv, TruthInv, AnnouncedInv, Untainted,
              EventsTo, SampledCount, TrueInputs
<1>. QED  BY <1>1, <1>2, <1>3, <1>4, <1>5, <1>6, <1>7, <1>8
          DEF Next, FrameStep, MatchOver

(* ConfirmedInv, with the invariants it needs, holds in every match.       *)
LEMMA ConfirmedInvariant == Spec => [](TypeInv /\ InputsInv /\ ConfirmedInv)
<1>1. Init => TypeInv /\ InputsInv /\ ConfirmedInv
  BY InitTypeInv, InitInputsInv, InitConfirmedInv
<1>2. TypeInv /\ InputsInv /\ ConfirmedInv /\ [Next]_vars
        => (TypeInv /\ InputsInv /\ ConfirmedInv)'
  BY NextTypeInv, NextInputsInv, NextConfirmedInv
<1>. QED  BY <1>1, <1>2, PTL DEF Spec
-----------------------------------------------------------------------------
(* A frame is confirmed, by either player, with the inputs both sampled    *)
(* for it, after both sampled them, up to a premature confirmation: the    *)
(* master confirms what it holds of the remote list and the follower never *)
(* takes a confirmation for another frame.                                 *)
THEOREM ConfirmedInputsCorrect == Spec => []ConfirmedInputsAreTrue
<1>1. TypeInv /\ ConfirmedInv => ConfirmedInputsAreTrue
  <2>. SUFFICES ASSUME TypeInv, ConfirmedInv, NEW p \in Player,
                       NEW f \in 0 .. rollback[p].confirmed_frame, Untainted(f)
                PROVE  /\ \A q \in Player : f \in SampledFrames(q)
                       /\ rollback[p].confirmed[f + 1] = TrueInputs(f)
    BY DEF ConfirmedInputsAreTrue
  <2>1. /\ \A q \in Player : f < SampledCount(q)
        /\ rollback[p].confirmed[f + 1] = TrueInputs(f)
    BY DEF ConfirmedInv, TruthInv
  <2>2. f \in Int /\ f >= 0 /\ \A q \in Player : SampledCount(q) \in Int
    BY ConfirmedFrames, PlayerTypes
  <2>. QED  BY <2>1, <2>2 DEF SampledFrames
<1>. QED  BY <1>1, ConfirmedInvariant, PTL
-----------------------------------------------------------------------------
(* Packets numbered from one frame to another count the frames between.    *)
LEMMA CountedPackets ==
    ASSUME NEW packets \in Seq(Packet), NEW number, NEW first, NEW last,
           Numbered(number, packets, first, last)
    PROVE  Cardinality({i \in DOMAIN packets : Counts(packets[i])}) = last - first
<1>. DEFINE counted(k) == {i \in 1 .. k : Counts(packets[i])}
            agrees(k)  == /\ IsFiniteSet(counted(k))
                          /\ Cardinality(counted(k)) = number[k] - first
            wrong      == {k \in 0 .. Len(packets) : ~ agrees(k)}
<1>1. /\ Len(packets) \in Nat
      /\ DOMAIN packets = 1 .. Len(packets)
      /\ number \in [0 .. Len(packets) -> Int]
      /\ number[0] = first /\ number[Len(packets)] = last
  BY LenProperties DEF Numbered
<1>2. agrees(0)
  <2>1. counted(0) = {}
    OBVIOUS
  <2>. QED  BY <1>1, <2>1, FS_EmptySet
<1>3. ASSUME NEW k \in 1 .. Len(packets), agrees(k - 1)
      PROVE  agrees(k)
  <2>. DEFINE before == counted(k - 1)
              now    == counted(k)
  <2>1. /\ IsFiniteSet(before) /\ Cardinality(before) = number[k - 1] - first
        /\ k \notin before
        /\ number[k] \in Int /\ number[k - 1] \in Int /\ first \in Int
    BY <1>1, <1>3
  <2>2. number[k] = IF Counts(packets[k]) THEN number[k - 1] + 1 ELSE number[k - 1]
    BY DEF Numbered
  <2>3. CASE Counts(packets[k])
    <3>1. now = before \cup {k}
      BY <1>1, <2>3
    <3>. HIDE DEF now, before
    <3>2. IsFiniteSet(now) /\ Cardinality(now) = Cardinality(before) + 1
      BY <2>1, <3>1, FS_AddElement
    <3>3. Cardinality(now) = number[k] - first
      BY <2>1, <2>2, <2>3, <3>2
    <3>. QED  BY <3>2, <3>3 DEF now
  <2>4. CASE ~ Counts(packets[k])
    <3>1. now = before
      BY <1>1, <2>4
    <3>. HIDE DEF now, before
    <3>. QED  BY <2>1, <2>2, <2>4, <3>1 DEF now
  <2>. QED  BY <2>3, <2>4
<1>. HIDE DEF agrees
<1>4. wrong = {}
  <2>. SUFFICES ASSUME wrong # {} PROVE FALSE
    OBVIOUS
  <2>. DEFINE k == Min(wrong)
  <2>1. k \in wrong /\ \A j \in wrong : k <= j
    <3>1. wrong \in SUBSET Nat
      BY <1>1
    <3>. HIDE DEF wrong
    <3>. QED  BY <3>1, MinProperties
  <2>. HIDE DEF k
  <2>2. k \in 1 .. Len(packets) /\ k - 1 \in 0 .. Len(packets) /\ ~ (k <= k - 1)
    BY <1>1, <1>2, <2>1
  <2>3. agrees(k - 1)
    BY <2>1, <2>2
  <2>. QED  BY <1>3, <2>1, <2>2, <2>3
<1>5. agrees(Len(packets))
  BY <1>1, <1>4
<1>. QED  BY <1>1, <1>5 DEF agrees

(* Every frame the master confirmed is confirmed by the follower, or its   *)
(* confirmation is on its way: none is lost, repeated or overtaken.        *)
THEOREM ConfirmationsDelivered == Spec => []ConfirmationsAreDelivered
<1>1. TypeInv /\ ConfirmedInv => ConfirmationsAreDelivered
  <2>. SUFFICES ASSUME TypeInv, ConfirmedInv, premature = {}, state[Follower] = "kInGame"
                PROVE  rollback[Master].confirmed_frame =
                          rollback[Follower].confirmed_frame
                              + InFlight(Follower, "kFrameConfirmation")
    BY DEF ConfirmationsAreDelivered
  <2>. DEFINE queue == packet_queue[Follower]
              way   == net[Follower]
              cf    == rollback[Follower].confirmed_frame
              cm    == rollback[Master].confirmed_frame
  <2>1. /\ queue \in Seq(Packet) /\ way \in Seq(Packet) /\ Len(queue) \in Nat
        /\ cf \in Int /\ cm \in Int
    <3>1. Follower \in Player /\ Master \in Player
      BY DEF Follower, Master, Player
    <3>. QED  BY <3>1, PlayerTypes, ConfirmedFrames, LenProperties
  <2>2. PICK number \in [0 .. Len(queue \o way) -> Int] : Numbered(number, queue \o way, cf, cm)
    BY DEF ConfirmedInv, AnnouncedInv, Untainted, EventsTo, Paired
  <2>. HIDE DEF queue, way
  <2>. DEFINE middle == number[Len(queue)]
  <2>3. /\ Numbered([i \in 0 .. Len(queue) |-> number[i]], queue, cf, middle)
        /\ Numbered([i \in 0 .. Len(way) |-> number[Len(queue) + i]], way, middle, cm)
    <3>. HIDE DEF cf, cm
    <3>. QED  BY <2>1, <2>2, NumberedParts
  <2>4. /\ Cardinality({i \in DOMAIN queue : Counts(queue[i])}) = middle - cf
        /\ Cardinality({i \in DOMAIN way : Counts(way[i])}) = cm - middle
    <3>. HIDE DEF cf, cm, middle
    <3>. QED  BY <2>1, <2>3, CountedPackets
  <2>5. middle \in Int
    <3>1. Len(queue) \in 0 .. Len(queue \o way)
      BY <2>1, ConcatProperties, LenProperties
    <3>. QED  BY <2>2, <3>1
  <2>6. InFlight(Follower, "kFrameConfirmation") = (middle - cf) + (cm - middle)
    BY <2>4 DEF InFlight, Counts, queue, way
  <2>. HIDE DEF cf, cm, middle
  <2>7. cm = cf + InFlight(Follower, "kFrameConfirmation")
    BY <2>1, <2>5, <2>6
  <2>. QED  BY <2>7 DEF cf, cm
<1>. QED  BY <1>1, ConfirmedInvariant, PTL
-----------------------------------------------------------------------------
(* With nothing tainted, the confirmed games are the inputs sampled. *)
PlayedInv ==
    premature = {} => \A p \in Player :
        LET game == rollback[p].confirmed
        IN  /\ game \in Seq(Input \X Input)
            /\ Len(game) = rollback[p].confirmed_frame + 1
            /\ rollback[p].confirmed_frame \in Int
            /\ \A q \in Player : Len(game) > 0 => Len(game) <= SampledCount(q)
            /\ \A i \in 1 .. Len(game) :
                  game[i] = <<SampledInputs(0)[i - 1], SampledInputs(1)[i - 1]>>

(* It follows from the invariant.                                          *)
LEMMA ConfirmedIsPlayed == TypeInv /\ ConfirmedInv => PlayedInv
<1>. SUFFICES ASSUME TypeInv, ConfirmedInv, premature = {}, NEW p \in Player
              PROVE  LET game == rollback[p].confirmed
                     IN  /\ game \in Seq(Input \X Input)
                         /\ Len(game) = rollback[p].confirmed_frame + 1
                         /\ rollback[p].confirmed_frame \in Int
                         /\ \A q \in Player : Len(game) > 0 => Len(game) <= SampledCount(q)
                         /\ \A i \in 1 .. Len(game) :
                               game[i] = <<SampledInputs(0)[i - 1], SampledInputs(1)[i - 1]>>
  BY DEF PlayedInv
<1>. DEFINE cf   == rollback[p].confirmed_frame
            game == rollback[p].confirmed
<1>1. /\ game \in Seq(Input \X Input)
      /\ Len(game) = cf + 1
      /\ cf \in Int /\ cf >= -1
  BY ConfirmedFrames DEF ConfirmedInv, LengthInv, GameHistory
<1>2. \A f \in 0 .. cf : /\ \A q \in Player : f < SampledCount(q)
                         /\ game[f + 1] = TrueInputs(f)
  BY DEF ConfirmedInv, TruthInv, Untainted
<1>. HIDE DEF cf, game
<1>3. ASSUME NEW q \in Player, Len(game) > 0
      PROVE  Len(game) <= SampledCount(q)
  <2>1. SampledCount(q) \in Int
    BY PlayerTypes
  <2>2. cf \in 0 .. cf
    BY <1>1, <1>3
  <2>. QED  BY <1>1, <1>2, <2>1, <2>2
<1>4. ASSUME NEW i \in 1 .. Len(game)
      PROVE  game[i] = <<SampledInputs(0)[i - 1], SampledInputs(1)[i - 1]>>
  <2>1. i - 1 \in 0 .. cf /\ (i - 1) + 1 = i
    BY <1>1
  <2>. QED  BY <1>2, <2>1 DEF TrueInputs, SampledInputs
<1>. QED  BY <1>1, <1>3, <1>4 DEF cf, game

(* A step that samples nothing, and a player that confirms nothing in it.  *)
SamplesNothing ==
    \A q \in Player : /\ SampledCount(q)' = SampledCount(q)
                      /\ SampledInputs(q)' = SampledInputs(q)

ConfirmsNothing(q) == rollback'[q].confirmed_frame = rollback[q].confirmed_frame

SampledList(q) == [i \in 1 .. SampledCount(q) |-> SampledInputs(q)[i - 1]]

(* The two variables of Lockstep. *)
LEMMA LockstepVariables ==
    ASSUME SamplesNothing
    PROVE  \A q \in Player : SampledList(q)' = SampledList(q)
  BY DEF SamplesNothing, SampledList

(* A player that confirms nothing keeps its game.                          *)
LEMMA SameGame ==
    ASSUME PlayedInv, PlayedInv', premature = {}, premature' = {},
           NEW p \in Player, ConfirmsNothing(p), SamplesNothing
    PROVE  rollback'[p].confirmed = rollback[p].confirmed
<1>. DEFINE game == rollback[p].confirmed
            now  == rollback'[p].confirmed
<1>1. /\ game \in Seq(Input \X Input)
      /\ Len(game) = rollback[p].confirmed_frame + 1
      /\ \A i \in 1 .. Len(game) :
            game[i] = <<SampledInputs(0)[i - 1], SampledInputs(1)[i - 1]>>
  BY DEF PlayedInv
<1>2. /\ now \in Seq(Input \X Input)
      /\ Len(now) = rollback'[p].confirmed_frame + 1
      /\ \A i \in 1 .. Len(now) :
            now[i] = <<SampledInputs(0)'[i - 1], SampledInputs(1)'[i - 1]>>
  BY DEF PlayedInv
<1>3. SampledInputs(0)' = SampledInputs(0) /\ SampledInputs(1)' = SampledInputs(1)
  BY DEF SamplesNothing, Player
<1>4. Len(now) = Len(game)
  BY <1>1, <1>2 DEF ConfirmsNothing
<1>. HIDE DEF game, now
<1>5. \A i \in 1 .. Len(game) : now[i] = game[i]
  BY <1>1, <1>2, <1>3, <1>4
<1>6. now = game
  BY <1>1, <1>2, <1>4, <1>5, SeqEqual
<1>. QED  BY <1>6 DEF game, now

(* A step without either is invisible in Lockstep.                         *)
LEMMA Invisible ==
    ASSUME SamplesNothing, \A q \in Player : rollback'[q].confirmed = rollback[q].confirmed
    PROVE  UNCHANGED (Abstract!lockstepVars)
<1>1. \A q \in Player : [i \in 1 .. SampledCount(q) |-> rollback[q].inputs[q][i - 1]]'
                          = [i \in 1 .. SampledCount(q) |-> rollback[q].inputs[q][i - 1]]
  BY LockstepVariables DEF SampledList, SampledInputs
<1>. QED  BY <1>1 DEF Abstract!lockstepVars

(* The length and the elements of the inputs a player sampled.             *)
LEMMA SampledListType ==
    ASSUME NEW q \in Player, SampledCount(q) \in Nat
    PROVE  /\ Len(SampledList(q)) = SampledCount(q)
           /\ \A i \in 1 .. SampledCount(q) : SampledList(q)[i] = SampledInputs(q)[i - 1]
  BY LenProperties DEF SampledList

(* When the master confirms more, Lockstep's does.                         *)
LEMMA MasterConfirmsMore ==
    ASSUME TypeInv, PlayedInv, PlayedInv', premature = {}, premature' = {}, SamplesNothing,
           ConfirmsNothing(Follower),
           rollback'[Master].confirmed_frame > rollback[Master].confirmed_frame
    PROVE  Abstract!MasterConfirms
<1>. DEFINE sampled   == [q \in Player |-> SampledList(q)]
            confirmed == [q \in Player |-> rollback[q].confirmed]
            old       == rollback[Master].confirmed
            now       == rollback'[Master].confirmed
            played    == [i \in 1 .. Len(now) |-> <<sampled[0][i], sampled[1][i]>>]
<1>1. Master = 0 /\ Follower = 1 /\ 0 \in Player /\ 1 \in Player
      /\ \A q \in Player : q = 0 \/ q = 1
  BY DEF Master, Follower, Player
<1>2. /\ old \in Seq(Input \X Input) /\ now \in Seq(Input \X Input)
      /\ Len(old) = rollback[Master].confirmed_frame + 1
      /\ Len(now) = rollback'[Master].confirmed_frame + 1
      /\ rollback[Master].confirmed_frame \in Int
      /\ rollback'[Master].confirmed_frame \in Int
      /\ \A q \in Player : Len(now) > 0 => Len(now) <= SampledCount(q)'
      /\ \A i \in 1 .. Len(now) :
            now[i] = <<SampledInputs(0)'[i - 1], SampledInputs(1)'[i - 1]>>
  BY <1>1 DEF PlayedInv
<1>3. rollback'[Follower].confirmed = rollback[Follower].confirmed
  BY <1>1, SameGame
<1>4. /\ Len(now) \in Nat /\ Len(old) \in Nat /\ Len(now) > Len(old)
      /\ Len(now) > 0
  <2>. HIDE DEF now, old
  <2>. QED  BY <1>2, LenProperties
<1>5. \A q \in Player : SampledCount(q) \in Nat /\ Len(now) <= SampledCount(q)
  <2>1. \A q \in Player : SampledCount(q) \in Int
    BY PlayerTypes
  <2>. HIDE DEF now
  <2>. QED  BY <1>2, <1>4, <2>1 DEF SamplesNothing
<1>6. /\ Len(sampled[0]) = SampledCount(0)
      /\ Len(sampled[1]) = SampledCount(1)
      /\ \A i \in 1 .. SampledCount(0) : sampled[0][i] = SampledInputs(0)[i - 1]
      /\ \A i \in 1 .. SampledCount(1) : sampled[1][i] = SampledInputs(1)[i - 1]
  BY <1>1, <1>5, SampledListType
<1>. HIDE DEF sampled
<1>7. now = played
  <2>. HIDE DEF now
  <2>1. ASSUME NEW i \in 1 .. Len(now)
        PROVE  now[i] = <<sampled[0][i], sampled[1][i]>>
    <3>1. i \in 1 .. SampledCount(0) /\ i \in 1 .. SampledCount(1)
      BY <1>1, <1>4, <1>5
    <3>. QED  BY <1>1, <1>2, <1>6, <3>1 DEF SamplesNothing
  <2>2. now = [i \in 1 .. Len(now) |-> now[i]]
    BY <1>2, LenProperties
  <2>. QED  BY <2>1, <2>2
<1>8. /\ Len(now) \in Len(confirmed[0]) + 1 .. Len(sampled[0])
      /\ Len(now) <= Len(sampled[1])
  <2>1. confirmed[0] = old
    BY <1>1
  <2>. HIDE DEF now, old, confirmed
  <2>. QED  BY <1>1, <1>4, <1>5, <1>6, <2>1
<1>9. confirmed' = [confirmed EXCEPT ![0] = played]
  <2>1. confirmed'[0] = played /\ confirmed'[1] = confirmed[1]
    BY <1>1, <1>3, <1>7
  <2>. HIDE DEF played
  <2>. QED  BY <1>1, <2>1
<1>10. sampled' = sampled
  BY LockstepVariables DEF sampled
<1>11. \E n \in Len(confirmed[0]) + 1 .. Len(sampled[0]) :
          /\ n <= Len(sampled[1])
          /\ confirmed' = [confirmed EXCEPT ![0] =
                              [i \in 1 .. n |-> <<sampled[0][i], sampled[1][i]>>]]
  <2>. HIDE DEF now, confirmed
  <2>. QED  BY <1>8, <1>9
<1>. QED  BY <1>10, <1>11 DEF Abstract!MasterConfirms, Abstract!Played, sampled, Player,
                                SampledList, SampledInputs

(* When the follower confirms its next frame, it repeats the master.       *)
LEMMA FollowerConfirmsNext ==
    ASSUME TypeInv, PlayedInv, PlayedInv', premature = {}, premature' = {}, SamplesNothing,
           ConfirmsNothing(Master),
           rollback'[Follower].confirmed_frame = rollback[Follower].confirmed_frame + 1,
           rollback[Follower].confirmed_frame < rollback[Master].confirmed_frame
    PROVE  Abstract!FollowerConfirms
<1>. DEFINE sampled   == [q \in Player |-> SampledList(q)]
            confirmed == [q \in Player |-> rollback[q].confirmed]
            old       == rollback[Follower].confirmed
            now       == rollback'[Follower].confirmed
            game      == rollback[Master].confirmed
            next      == game[Len(old) + 1]
<1>1. Master = 0 /\ Follower = 1 /\ 0 \in Player /\ 1 \in Player
      /\ \A q \in Player : q = 0 \/ q = 1
  BY DEF Master, Follower, Player
<1>2. /\ old \in Seq(Input \X Input) /\ game \in Seq(Input \X Input)
      /\ Len(old) = rollback[Follower].confirmed_frame + 1
      /\ Len(game) = rollback[Master].confirmed_frame + 1
      /\ rollback[Follower].confirmed_frame \in Int
      /\ rollback[Master].confirmed_frame \in Int
      /\ \A i \in 1 .. Len(old) :
            old[i] = <<SampledInputs(0)[i - 1], SampledInputs(1)[i - 1]>>
      /\ \A i \in 1 .. Len(game) :
            game[i] = <<SampledInputs(0)[i - 1], SampledInputs(1)[i - 1]>>
  BY <1>1 DEF PlayedInv
<1>3. /\ now \in Seq(Input \X Input)
      /\ Len(now) = rollback'[Follower].confirmed_frame + 1
      /\ \A i \in 1 .. Len(now) :
            now[i] = <<SampledInputs(0)'[i - 1], SampledInputs(1)'[i - 1]>>
  BY <1>1 DEF PlayedInv
<1>4. rollback'[Master].confirmed = rollback[Master].confirmed
  BY <1>1, SameGame
<1>5. SampledInputs(0)' = SampledInputs(0) /\ SampledInputs(1)' = SampledInputs(1)
  BY <1>1 DEF SamplesNothing
<1>. HIDE DEF now, old, game
<1>6. Len(now) = Len(old) + 1 /\ Len(old) < Len(game) /\ Len(old) \in Nat
  BY <1>2, <1>3, LenProperties
<1>7. now = Append(old, next)
  <2>1. next \in Input \X Input
    <3>1. Len(old) + 1 \in 1 .. Len(game)
      BY <1>2, <1>6, LenProperties
    <3>. QED  BY <1>2, <3>1, ElementOfSeq
  <2>2. /\ Append(old, next) \in Seq(Input \X Input)
        /\ Len(Append(old, next)) = Len(old) + 1
        /\ \A i \in 1 .. Len(old) : Append(old, next)[i] = old[i]
        /\ Append(old, next)[Len(old) + 1] = next
    BY <1>2, <2>1, AppendProperties
  <2>3. ASSUME NEW i \in 1 .. Len(now)
        PROVE  now[i] = Append(old, next)[i]
    <3>1. CASE i \in 1 .. Len(old)
      BY <1>2, <1>3, <1>5, <2>2, <3>1
    <3>2. CASE i = Len(old) + 1
      <4>1. i \in 1 .. Len(game)
        BY <1>6, <3>2
      <4>. QED  BY <1>2, <1>3, <1>5, <2>2, <3>2, <4>1
    <3>. QED  BY <1>6, <3>1, <3>2
  <2>. HIDE DEF next
  <2>. QED  BY <1>3, <1>6, <2>2, <2>3, SeqEqual
<1>8. /\ confirmed[1] = old /\ confirmed[0] = game
      /\ Len(confirmed[1]) < Len(confirmed[0])
      /\ confirmed' = [confirmed EXCEPT ![1] = Append(@, confirmed[0][Len(@) + 1])]
  <2>1. /\ confirmed[1] = old /\ confirmed[0] = game
        /\ confirmed'[1] = now /\ confirmed'[0] = game
    BY <1>1, <1>4 DEF old, game, now
  <2>2. confirmed' = [confirmed EXCEPT ![1] = now]
    BY <1>1, <2>1
  <2>. HIDE DEF confirmed
  <2>. QED  BY <1>6, <1>7, <2>1, <2>2
<1>9. sampled' = sampled
  BY LockstepVariables DEF sampled
<1>. QED  BY <1>8, <1>9 DEF Abstract!FollowerConfirms, sampled, Player,
                             SampledList, SampledInputs

(* A player that ends its frame samples one more input; it confirms        *)
(* nothing.                                                                *)
Samples(p, input) ==
    /\ SampledCount(p) \in Frame
    /\ SampledCount(p)' = SampledCount(p) + 1
    /\ SampledInputs(p)' = [SampledInputs(p) EXCEPT ![SampledCount(p)] = input]
    /\ SampledCount(Other(p))' = SampledCount(Other(p))
    /\ SampledInputs(Other(p))' = SampledInputs(Other(p))
    /\ \A q \in Player : rollback'[q].confirmed = rollback[q].confirmed

(* There is such an input. *)
LEMMA EndFrameSamples ==
    ASSUME TypeInv, NEW p \in Player, EndFrame(p)
    PROVE  \E input \in Input : Samples(p, input)
<1>. DEFINE frame == rollback[p].current_frame
<1>1. PICK input \in Input :
          LET sampled == SetPlayerInput(rollback[p], p, input)
          IN  rollback' = [rollback EXCEPT ![p] = UpdateGame(sampled)]
  BY DEF EndFrame
<1>. DEFINE r == UpdateGame(SetPlayerInput(rollback[p], p, input))
<1>2. /\ rollback' = [rollback EXCEPT ![p] = r]
      /\ pc' = [pc EXCEPT ![p] = "loop"]
      /\ UNCHANGED state
      /\ pc[p] # "loop"
      /\ state[p] = "kInGame"
  BY <1>1 DEF EndFrame, TypeInv, FramesInv
<1>3. /\ Other(p) \in Player /\ Other(p) # p
      /\ \A q \in Player : q = p \/ q = Other(p)
      /\ rollback[p] \in RollbackState
  BY OtherPlayer, PlayerTypes
<1>4. SampledCount(p) = frame /\ frame \in Frame
  <2>1. rollback[p].current_frame >= 0 /\ rollback[p].current_frame < GameFrameNbr
        /\ rollback[p].current_frame \in Int
    BY <1>2, <1>3, FrameCountersAreInt DEF TypeInv, FramesInv
  <2>. QED  BY <1>2, <2>1, GameFrameNbrAssumption DEF SampledCount, Frame
<1>5. /\ r.current_frame = frame
      /\ r.confirmed = rollback[p].confirmed
      /\ r.inputs[p] = [rollback[p].inputs[p] EXCEPT ![frame] = input]
  BY <1>3 DEF UpdateGame, SetPlayerInput, RollbackState
<1>. HIDE DEF r
<1>6. /\ rollback'[p] = r /\ rollback'[Other(p)] = rollback[Other(p)]
      /\ pc'[p] = "loop" /\ pc'[Other(p)] = pc[Other(p)]
  BY <1>2, <1>3 DEF TypeInv, TypeOK
<1>7. /\ SampledCount(p)' = frame + 1
      /\ SampledInputs(p)' = [SampledInputs(p) EXCEPT ![frame] = input]
      /\ SampledCount(Other(p))' = SampledCount(Other(p))
      /\ SampledInputs(Other(p))' = SampledInputs(Other(p))
  BY <1>2, <1>3, <1>5, <1>6 DEF SampledCount, SampledInputs
<1>8. \A q \in Player : rollback'[q].confirmed = rollback[q].confirmed
  BY <1>3, <1>5, <1>6
<1>. QED  BY <1>4, <1>7, <1>8 DEF Samples

(* Lockstep's player samples then too.                                     *)
LEMMA SamplesOne ==
    ASSUME TypeInv, NEW p \in Player, NEW input \in Input, Samples(p, input)
    PROVE  Abstract!Sample(p)
<1>. DEFINE n       == SampledCount(p)
            old     == SampledList(p)
            now     == SampledList(p)'
            sampled == [q \in Player |-> SampledList(q)]
<1>1. /\ n \in Frame /\ n \in Nat
      /\ SampledInputs(p) \in [Frame -> Input]
      /\ SampledCount(p)' = n + 1
      /\ SampledInputs(p)' = [SampledInputs(p) EXCEPT ![n] = input]
      /\ \A i \in 1 .. n : i - 1 \in Frame /\ i - 1 # n
  BY PlayerTypes, GameFrameNbrAssumption DEF Samples, Frame
<1>2. old = [i \in 1 .. n |-> SampledInputs(p)[i - 1]]
  BY DEF SampledList
<1>3. now = [i \in 1 .. n + 1 |-> SampledInputs(p)'[i - 1]]
  BY <1>1 DEF SampledList
<1>. HIDE DEF n, old, now
<1>4. /\ old \in Seq(Input) /\ Len(old) = n
      /\ now \in Seq(Input) /\ Len(now) = n + 1
  <2>1. \A i \in 1 .. n : SampledInputs(p)[i - 1] \in Input
    BY <1>1
  <2>2. \A i \in 1 .. n + 1 : SampledInputs(p)'[i - 1] \in Input
    <3>1. \A i \in 1 .. n + 1 : i - 1 \in Frame
      BY <1>1
    <3>2. SampledInputs(p)' \in [Frame -> Input]
      BY <1>1
    <3>. QED  BY <3>1, <3>2
  <2>. QED  BY <1>1, <1>2, <1>3, <2>1, <2>2, LenProperties
<1>5. now = Append(old, input)
  <2>1. /\ Append(old, input) \in Seq(Input)
        /\ Len(Append(old, input)) = n + 1
        /\ \A i \in 1 .. n : Append(old, input)[i] = old[i]
        /\ Append(old, input)[n + 1] = input
    BY <1>4, AppendProperties
  <2>2. ASSUME NEW i \in 1 .. n + 1
        PROVE  now[i] = Append(old, input)[i]
    <3>1. CASE i \in 1 .. n
      <4>1. SampledInputs(p)'[i - 1] = SampledInputs(p)[i - 1]
        BY <1>1, <3>1
      <4>. QED  BY <1>2, <1>3, <2>1, <3>1, <4>1
    <3>2. CASE i = n + 1
      <4>1. SampledInputs(p)'[n] = input /\ i - 1 = n
        BY <1>1, <3>2
      <4>. QED  BY <1>3, <2>1, <3>2, <4>1
    <3>3. n \in Nat
      BY <1>1
    <3>4. i \in 1 .. n \/ i = n + 1
      BY <2>2, <3>3
    <3>. QED  BY <3>1, <3>2, <3>4
  <2>. QED  BY <1>4, <2>1, <2>2, SeqEqual
<1>6. sampled' = [sampled EXCEPT ![p] = Append(@, input)]
  <2>1. /\ Other(p) \in Player /\ Other(p) # p
        /\ \A q \in Player : q = p \/ q = Other(p)
    BY OtherPlayer
  <2>2. SampledList(Other(p))' = SampledList(Other(p))
    BY DEF Samples, SampledList
  <2>3. sampled[p] = old /\ sampled'[p] = Append(old, input)
        /\ sampled'[Other(p)] = sampled[Other(p)]
    BY <1>5, <2>1, <2>2 DEF old, now
  <2>. QED  BY <2>1, <2>3
<1>7. UNCHANGED [q \in Player |-> rollback[q].confirmed]
  BY DEF Samples
<1>. QED  BY <1>6, <1>7 DEF Abstract!Sample, sampled, SampledList, SampledInputs

(* Each step of a match before a premature confirmation is one of these,   *)
(* as far as the inputs sampled and the frames confirmed go.               *)
ShowsNothing == SamplesNothing /\ \A q \in Player : ConfirmsNothing(q)

MasterGoesOn ==
    /\ SamplesNothing
    /\ ConfirmsNothing(Follower)
    /\ rollback'[Master].confirmed_frame >= rollback[Master].confirmed_frame

FollowerGoesOn ==
    /\ SamplesNothing
    /\ ConfirmsNothing(Master)
    /\ rollback'[Follower].confirmed_frame = rollback[Follower].confirmed_frame + 1
    /\ rollback[Follower].confirmed_frame < rollback[Master].confirmed_frame

(* The steps that show nothing.                                            *)
LEMMA ServiceShowsNothing ==
    ASSUME TypeInv, NEW p \in Player, ReceiveEvent(p) \/ LoseEvent(p)
    PROVE  ShowsNothing
<1>1. UNCHANGED <<rollback, state, pc>>
  BY ReceiveEventStep, LoseEventStep
<1>. QED  BY <1>1 DEF ShowsNothing, SamplesNothing, ConfirmsNothing, SampledCount,
                      SampledInputs

(* A frame begins: the input of the new one is not sampled yet. *)
LEMMA BeginFrameShowsNothing ==
    ASSUME TypeInv, NEW p \in Player, BeginFrame(p)
    PROVE  ShowsNothing
<1>. DEFINE next == IncreaseCurrentFrame(rollback[p])
<1>1. /\ rollback' = [rollback EXCEPT ![p] = next]
      /\ pc[p] = "loop" /\ state[p] = "kInGame"
      /\ \/ state' = [state EXCEPT ![p] = "kGameFinished"] /\ UNCHANGED pc
         \/ pc' = [pc EXCEPT ![p] = "packets"] /\ UNCHANGED state
  BY DEF BeginFrame, BetweenFrames
<1>2. /\ next.current_frame = rollback[p].current_frame + 1
      /\ next.inputs = rollback[p].inputs
      /\ next.confirmed_frame = rollback[p].confirmed_frame
  BY PlayerTypes DEF IncreaseCurrentFrame, RollbackState
<1>. HIDE DEF next
<1>3. ASSUME NEW q \in Player
      PROVE  /\ rollback'[q].inputs = rollback[q].inputs
             /\ rollback'[q].confirmed_frame = rollback[q].confirmed_frame
  BY <1>1, <1>2 DEF TypeInv, TypeOK
<1>4. ASSUME NEW q \in Player
      PROVE  SampledCount(q)' = SampledCount(q)
  <2>1. CASE q = p
    <3>1. ~ (pc'[p] = "loop" /\ state'[p] = "kInGame")
      BY <1>1 DEF TypeInv, TypeOK
    <3>2. rollback'[p].current_frame = rollback[p].current_frame + 1
      BY <1>1, <1>2 DEF TypeInv, TypeOK
    <3>. QED  BY <1>1, <2>1, <3>1, <3>2 DEF SampledCount
  <2>2. CASE q # p
    BY <1>1, <2>2 DEF SampledCount, TypeInv, TypeOK
  <2>. QED  BY <2>1, <2>2
<1>. QED  BY <1>3, <1>4 DEF ShowsNothing, SamplesNothing, ConfirmsNothing, SampledInputs

(* A player that is gone leaves its inputs and its game as they were. *)
LEMMA UndefinedStepShowsNothing ==
    ASSUME TypeInv, NEW p \in Player, pc[p] # "loop", UndefinedStep(p)
    PROVE  ShowsNothing
  BY DEF UndefinedStep, ShowsNothing, SamplesNothing, ConfirmsNothing, SampledCount,
         SampledInputs, TypeInv, TypeOK

(* An acknowledgement only erases an unconfirmed input. *)
LEMMA HandleAckShowsNothing ==
    ASSUME TypeInv, HandleAck
    PROVE  ShowsNothing
<1>1. Master \in Player /\ pc[Master] # "loop"
  BY DEF Master, Player, HandleAck, Handling
<1>2. UNCHANGED <<rollback, state, pc>> \/ UndefinedStep(Master)
  BY DEF HandleAck
<1>3. CASE UNCHANGED <<rollback, state, pc>>
  BY <1>3 DEF ShowsNothing, SamplesNothing, ConfirmsNothing, SampledCount, SampledInputs
<1>. QED  BY <1>1, <1>2, <1>3, UndefinedStepShowsNothing

(* An input packet: the master confirms what it can.                       *)
LEMMA HandleInputShows ==
    ASSUME TypeInv, InputsInv, NEW p \in Player, HandleInput(p)
    PROVE  ShowsNothing \/ MasterGoesOn
<1>. DEFINE list  == FrontPacket(p).frames
            r     == SetOtherPlayerInput(rollback[p], list, Other(p))
            count == IF p = Master THEN ConfirmCount(r, list) ELSE 0
            s     == ConfirmFrames(r, count)
<1>1. /\ pc[p] = "packets" /\ packet_queue[p] # << >>
      /\ list \in Seq(FrameInput)
  BY FrontPacketType DEF HandleInput, Handling
<1>2. /\ Other(p) \in Player /\ Other(p) # p /\ Other(Other(p)) = p
      /\ \A q \in Player : q = p \/ q = Other(p)
      /\ rollback[p] \in RollbackState
      /\ CountersAgree(rollback[p])
  BY OtherPlayer, PlayerTypes DEF TypeInv, FramesInv
<1>3. CASE IsOld(rollback[p], list)
  <2>1. /\ pc' = [pc EXCEPT ![p] = "sample"]
        /\ UNCHANGED <<rollback, state>>
    BY <1>3 DEF HandleInput, ReturnFromHandlePacket
  <2>. QED  BY <1>1, <2>1 DEF ShowsNothing, SamplesNothing, ConfirmsNothing, SampledCount,
                              SampledInputs, TypeInv, TypeOK
<1>4. CASE /\ ~ IsOld(rollback[p], list)
           /\ ~ (/\ RemoteInputsDefined(rollback[p], list)
                 /\ p = Master => ConfirmationDefined(r, list))
  <2>1. UndefinedStep(p)
    BY <1>4 DEF HandleInput
  <2>. QED  BY <1>1, <2>1, UndefinedStepShowsNothing
<1>5. CASE /\ ~ IsOld(rollback[p], list)
           /\ RemoteInputsDefined(rollback[p], list)
           /\ p = Master => ConfirmationDefined(r, list)
  <2>1. /\ rollback' = [rollback EXCEPT ![p] = s]
        /\ UNCHANGED <<state, pc>>
    BY <1>5 DEF HandleInput
  <2>2. /\ r \in RollbackState
        /\ CountersAgree(r)
        /\ r.current_frame = rollback[p].current_frame
        /\ r.confirmed_frame = rollback[p].confirmed_frame
    BY <1>1, <1>2, <1>5, SetOtherPlayerInputType, SetOtherPlayerInputLeaves
  <2>3. Slice(list, SampledInputs(Other(p)), SampledCount(Other(p)))
    BY <1>1, FrontOfEvents DEF HandleInput, Handling, InputsInv, EventsInv, InOrder
  <2>4. r.inputs[p] = rollback[p].inputs[p]
    <3>1. \A f \in 0 .. rollback[p].last_remote_input_frame :
             /\ f < SampledCount(Other(p))
             /\ rollback[p].inputs[Other(p)][f] = SampledInputs(Other(p))[f]
      BY DEF InputsInv, ReceivedInv
    <3>2. SampledCount(Other(p)) \in Int
      BY <1>2, PlayerTypes
    <3>. HIDE DEF list
    <3>. QED  BY <1>1, <1>2, <1>5, <2>3, <3>1, <3>2, SetOtherPlayerInputIsTrue
  <2>5. count \in Nat
    <3>. HIDE DEF list, r
    <3>. QED  BY <1>1, <1>5, <2>2, ConfirmCountType DEF ConfirmationDefined
  <2>6. /\ rollback[p].confirmed_frame \in Int
        /\ p # Master => count = 0
    BY ConfirmedFrames
  <2>. HIDE DEF r, count
  <2>7. /\ s.current_frame = rollback[p].current_frame
        /\ s.inputs = r.inputs
        /\ s.confirmed_frame = rollback[p].confirmed_frame + count
    BY <2>2 DEF ConfirmFrames, RollbackState
  <2>. HIDE DEF s, list
  <2>8. /\ SamplesNothing
        /\ rollback'[p] = s
        /\ rollback'[Other(p)] = rollback[Other(p)]
    BY <1>1, <2>1, <2>4, <2>7, HandlerKeepsSampled DEF SamplesNothing
  <2>9. CASE p = Master
    <3>1. Other(p) = Follower
      BY <2>9 DEF Other, Master, Follower
    <3>. QED  BY <2>5, <2>6, <2>7, <2>8, <2>9, <3>1 DEF MasterGoesOn, ConfirmsNothing
  <2>10. CASE p # Master
    BY <1>2, <2>6, <2>7, <2>8, <2>10 DEF ShowsNothing, ConfirmsNothing
  <2>. QED  BY <2>9, <2>10
<1>. QED  BY <1>3, <1>4, <1>5

(* A confirmation: the follower confirms the frame after its last one,     *)
(* which the master confirmed before.                                      *)
LEMMA HandleConfirmationShows ==
    ASSUME TypeInv, InputsInv, ConfirmedInv, premature = {}, HandleConfirmation
    PROVE  ShowsNothing \/ FollowerGoesOn
<1>. DEFINE packet == FrontPacket(Follower)
            s      == ConfirmedByFollower(packet)
            inputs == SampledInputs(Master)
            count  == SampledCount(Master)
<1>1. /\ Follower \in Player /\ Other(Follower) = Master
      /\ Master \in Player
  BY DEF Follower, Master, Other, Player
<1>2. /\ packet \in Packet /\ packet.type = "kFrameConfirmation"
      /\ pc[Follower] = "packets" /\ packet_queue[Follower] # << >>
      /\ state[Follower] = "kInGame"
  <2>1. pc[Follower] = "packets"
    BY DEF HandleConfirmation, Handling
  <2>. QED  BY <1>1, <2>1, FrontPacketType
            DEF HandleConfirmation, Handling, TypeInv, FramesInv
<1>3. CASE UndefinedStep(Follower)
  BY <1>1, <1>2, <1>3, UndefinedStepShowsNothing
<1>4. CASE ~ UndefinedStep(Follower)
  <2>1. /\ ConfirmedByFollowerDefined(packet)
        /\ rollback' = [rollback EXCEPT ![Follower] = s]
        /\ UNCHANGED pc \/ pc' = [pc EXCEPT ![Follower] = "sample"]
        /\ UNCHANGED <<state, premature>>
    BY <1>4 DEF HandleConfirmation, ReturnFromHandlePacket
  <2>2. /\ s.current_frame = rollback[Follower].current_frame
        /\ s.inputs[Follower] = rollback[Follower].inputs[Follower]
        /\ s.confirmed_frame = rollback[Follower].confirmed_frame + 1
    <3>1. /\ Slice(packet.frames, inputs, count)
          /\ count \in Int
          /\ \A f \in 0 .. rollback[Follower].last_remote_input_frame :
                f < count /\ rollback[Follower].inputs[Master][f] = inputs[f]
      BY <1>1, <1>2, FrontOfEvents, PlayerTypes
         DEF InputsInv, ReceivedInv, EventsInv, InOrder
    <3>. HIDE DEF packet, inputs, count, s
    <3>2. PICK t \in RollbackState : Took(t, packet, inputs)
      BY <1>2, <2>1, <3>1, TakenByFollower
    <3>3. /\ s = ConfirmFrames(t, 1)
          /\ t.confirmed_frame = rollback[Follower].confirmed_frame
          /\ t.current_frame = rollback[Follower].current_frame
          /\ t.inputs[Follower] = rollback[Follower].inputs[Follower]
      BY <3>2 DEF Took, s
    <3>. QED  BY <3>3 DEF ConfirmFrames, RollbackState
  <2>. HIDE DEF s
  <2>3. /\ SamplesNothing
        /\ rollback'[Follower] = s
        /\ rollback'[Master] = rollback[Master]
    BY <1>1, <1>2, <2>1, <2>2, HandlerKeepsSampled DEF SamplesNothing
  <2>4. rollback[Follower].confirmed_frame + 1 <= rollback[Master].confirmed_frame
    <3>1. \A f : Untainted(f)
      BY DEF Untainted
    <3>. QED  BY <1>2, <3>1, AnnouncedNext
  <2>5. /\ rollback[Follower].confirmed_frame \in Int
        /\ rollback[Master].confirmed_frame \in Int
    BY <1>1, ConfirmedFrames
  <2>. QED  BY <2>2, <2>3, <2>4, <2>5 DEF FollowerGoesOn, ConfirmsNothing
<1>. QED  BY <1>3, <1>4

(* At first nothing is sampled or confirmed.                               *)
LEMMA LockstepStarts == Init => Abstract!LockstepInit
<1>. SUFFICES ASSUME Init PROVE Abstract!LockstepInit
  OBVIOUS
<1>1. ASSUME NEW q \in Player
      PROVE  SampledCount(q) = 0 /\ rollback[q].confirmed = << >>
  BY <1>1 DEF Init, RollbackInit, SampledCount
<1>2. ASSUME NEW q \in Player
      PROVE  [i \in 1 .. SampledCount(q) |-> rollback[q].inputs[q][i - 1]] = << >>
  BY <1>1, <1>2
<1>. QED  BY <1>1, <1>2 DEF Abstract!LockstepInit, Player

(* Premature confirmations stay.                                           *)
LEMMA PrematureStays ==
    ASSUME [Next]_vars
    PROVE  premature \subseteq premature'
<1>1. ASSUME NEW p \in Player, ReceiveEvent(p) \/ LoseEvent(p)
      PROVE  premature \subseteq premature'
  BY <1>1 DEF ReceiveEvent, LoseEvent
<1>2. ASSUME NEW p \in Player, FrameStep(p)
      PROVE  premature \subseteq premature'
  <2>1. CASE BeginFrame(p)
    BY <2>1 DEF BeginFrame
  <2>2. CASE HandleInput(p)
    <3>. HIDE DEF PrematureFrames
    <3>. QED  BY <2>2 DEF HandleInput, UndefinedStep
  <2>3. CASE HandleAck
    BY <2>3 DEF HandleAck, UndefinedStep
  <2>4. CASE HandleConfirmation
    BY <2>4 DEF HandleConfirmation, UndefinedStep
  <2>5. CASE EndFrame(p)
    BY <2>5 DEF EndFrame
  <2>. QED  BY <1>2, <2>1, <2>2, <2>3, <2>4, <2>5 DEF FrameStep
<1>3. CASE UNCHANGED vars
  BY <1>3 DEF vars
<1>. QED  BY <1>1, <1>2, <1>3 DEF Next, MatchOver

(* Up to a premature confirmation, each step is one of Lockstep's or shows *)
(* nothing there.                                                          *)
LEMMA StepOfLockstep ==
    ASSUME TypeInv, InputsInv, ConfirmedInv, PlayedInv, PlayedInv',
           [Next]_vars, premature' = {}
    PROVE  Abstract!LockstepNext \/ UNCHANGED (Abstract!lockstepVars)
<1>1. premature = {}
  BY PrematureStays
<1>2. /\ Master \in Player /\ Follower \in Player
      /\ \A q \in Player : q = Master \/ q = Follower
  BY DEF Master, Follower, Player
<1>3. CASE ShowsNothing
  <2>1. SamplesNothing /\ \A q \in Player : ConfirmsNothing(q)
    BY <1>3 DEF ShowsNothing
  <2>2. \A q \in Player : rollback'[q].confirmed = rollback[q].confirmed
    BY <1>1, <2>1, SameGame
  <2>. QED  BY <2>1, <2>2, Invisible
<1>4. CASE MasterGoesOn
  <2>1. CASE rollback'[Master].confirmed_frame > rollback[Master].confirmed_frame
    <3>1. Abstract!MasterConfirms
      BY <1>1, <1>4, <2>1, MasterConfirmsMore DEF MasterGoesOn
    <3>. QED  BY <3>1 DEF Abstract!LockstepNext
  <2>2. CASE ~ (rollback'[Master].confirmed_frame > rollback[Master].confirmed_frame)
    <3>1. /\ rollback[Master].confirmed_frame \in Int
          /\ rollback'[Master].confirmed_frame \in Int
      BY <1>1, <1>2 DEF PlayedInv
    <3>2. ShowsNothing
      BY <1>2, <1>4, <2>2, <3>1 DEF MasterGoesOn, ShowsNothing, ConfirmsNothing
    <3>. QED  BY <1>3, <3>2
  <2>. QED  BY <2>1, <2>2
<1>5. CASE FollowerGoesOn
  <2>1. Abstract!FollowerConfirms
    BY <1>1, <1>5, FollowerConfirmsNext DEF FollowerGoesOn
  <2>. QED  BY <2>1 DEF Abstract!LockstepNext
<1>6. ASSUME NEW p \in Player, EndFrame(p)
      PROVE  Abstract!LockstepNext
  <2>1. Abstract!Sample(p)
    BY <1>6, EndFrameSamples, SamplesOne
  <2>. QED  BY <2>1 DEF Abstract!LockstepNext, Player
<1>7. ASSUME NEW p \in Player, ReceiveEvent(p) \/ LoseEvent(p)
      PROVE  ShowsNothing
  BY <1>7, ServiceShowsNothing
<1>8. ASSUME NEW p \in Player, FrameStep(p)
      PROVE  ShowsNothing \/ MasterGoesOn \/ FollowerGoesOn \/ EndFrame(p)
  BY <1>1, <1>8, BeginFrameShowsNothing, HandleInputShows, HandleAckShowsNothing,
     HandleConfirmationShows DEF FrameStep
<1>9. ASSUME UNCHANGED vars
      PROVE  ShowsNothing
  BY <1>9 DEF vars, ShowsNothing, SamplesNothing, ConfirmsNothing, SampledCount,
              SampledInputs
<1>. QED  BY <1>3, <1>4, <1>5, <1>6, <1>7, <1>8, <1>9 DEF Next, MatchOver

(* Up to a premature confirmation the match is a lockstep match: frames    *)
(* are confirmed in order, with the inputs sampled for them, first by the  *)
(* master and one by one by the follower.                                  *)
THEOREM LockstepImplemented == Spec => ImplementsLockstep
<1>1. Init => Abstract!LockstepInit
  BY LockstepStarts
<1>2. TypeInv /\ InputsInv /\ ConfirmedInv /\ PlayedInv /\ PlayedInv' /\ [Next]_vars
        => [premature' = {} => Abstract!LockstepNext]_(Abstract!lockstepVars)
  BY StepOfLockstep
<1>3. TypeInv /\ ConfirmedInv => PlayedInv
  BY ConfirmedIsPlayed
<1>. QED  BY <1>1, <1>2, <1>3, ConfirmedInvariant, PTL DEF Spec, ImplementsLockstep
=============================================================================
