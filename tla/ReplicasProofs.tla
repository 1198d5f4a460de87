----------------------------- MODULE ReplicasProofs -----------------------------
(***************************************************************************)
(* Proofs about the games of module Replicas, for every delay between      *)
(* kicks, match length, number of matches, set of keys and of contacts.    *)
(*                                                                         *)
(* An update is taken apart into the steps of FixedUpdate(): what each of  *)
(* them makes of a game is said field by field, in terms that mention no   *)
(* point of view.  Two games that agree hence agree after an update.       *)
(***************************************************************************)
EXTENDS Replicas, TLAPS

Keys == [Side -> SUBSET Key]

(* The fields no step of an update but SetInputs() writes. *)
SamePlayer(g, h) ==
    /\ h.state = g.state
    /\ h.player_nbr = g.player_nbr
    /\ h.input = g.input
    /\ h.other_player_input = g.other_player_input

(* The forces of the keys of one player. *)
DriveForces(g, s, keys) ==
    {<<k, s>> : k \in keys \cap {"right", "left"}}
      \cup (IF Jumps(g, s, keys) THEN {<<"jump", s>>} ELSE {})
      \cup (IF Kicks(g, s, keys) THEN {<<"kick", s>>} ELSE {})

(* The game w after World::Update(), in terms of g.                        *)
WorldUpdated(g, w, contact) ==
    /\ w \in Game
    /\ SamePlayer(g, w)
    /\ w.kick_time = g.kick_time
    /\ w.forces = {}
    /\ w.score = [s \in Side |->
          IF Opponent(s) \in contact.goal \ g.pairs.goal
          THEN g.score[s] + 1 ELSE g.score[s]]
    /\ w.can_kick = [s \in Side |->
                       CanKick(g, FeetSeen(g, contact), s)]
    /\ w.grounded = [s \in Side |->
                       s \in GroundSeen(g, contact) \/ g.grounded[s]]
    /\ w.pairs = [feet |-> FeetSeen(g, contact), goal |-> contact.goal]
    /\ w.in_air = IF contact.goal \ g.pairs.goal # {} THEN Side
                  ELSE g.in_air \ GroundSeen(g, contact)

(* The world of a game after World::Update(). *)
LEMMA WorldUpdateFields ==
    ASSUME NEW g \in Game, NEW contact \in Contact
    PROVE  WorldUpdated(g, WorldUpdate(g, contact), contact)
<1> DEFINE w == WorldUpdate(g, contact)
<1>1. contact.feet \subseteq Side /\ contact.goal \subseteq Side
         /\ contact.ground \subseteq Side
  BY DEF Contact
<1>2. FeetSeen(g, contact) \subseteq Side /\ GroundSeen(g, contact) \subseteq Side
  BY <1>1 DEF FeetSeen, GroundSeen
<1>3. /\ w.state = g.state /\ w.player_nbr = g.player_nbr /\ w.input = g.input
      /\ w.other_player_input = g.other_player_input
      /\ w.kick_time = g.kick_time /\ w.forces = {}
  BY DEF Game, WorldUpdate
<1>4. w.score = [s \in Side |-> IF Opponent(s) \in contact.goal \ g.pairs.goal
                                THEN g.score[s] + 1 ELSE g.score[s]]
  BY DEF Game, WorldUpdate, Entered, Score
<1>5. w.can_kick = [s \in Side |-> CanKick(g, FeetSeen(g, contact), s)]
  BY DEF Game, WorldUpdate
<1>6. w.grounded = [s \in Side |-> s \in GroundSeen(g, contact) \/ g.grounded[s]]
  BY DEF Game, WorldUpdate
<1>7. /\ w.pairs = [feet |-> FeetSeen(g, contact), goal |-> contact.goal]
      /\ w.in_air = IF contact.goal \ g.pairs.goal # {} THEN Side
                    ELSE g.in_air \ GroundSeen(g, contact)
  BY DEF Game, WorldUpdate, Entered
<1>8. w \in Game
  <2>1. w.score \in [Side -> Nat]
    BY <1>4 DEF Game
  <2>2. w.can_kick \in [Side -> BOOLEAN]
    BY <1>5 DEF Game, CanKick
  <2>3. w.grounded \in [Side -> BOOLEAN]
    BY <1>6 DEF Game
  <2>4. w.pairs \in [feet : SUBSET Side, goal : SUBSET Side]
    BY <1>1, <1>2, <1>7
  <2>5. w.in_air \in SUBSET Side
    BY <1>7 DEF Game
  <2> QED
    BY <1>3, <2>1, <2>2, <2>3, <2>4, <2>5 DEF Game, WorldUpdate
<1> QED
  BY <1>3, <1>4, <1>5, <1>6, <1>7, <1>8 DEF SamePlayer, WorldUpdated

(* The game t after the kick times advanced, in terms of g.                *)
TimesAdvanced(g, t) ==
    /\ t \in Game
    /\ SamePlayer(g, t)
    /\ t.grounded = g.grounded /\ t.can_kick = g.can_kick
    /\ t.score = g.score /\ t.pairs = g.pairs
    /\ t.forces = g.forces /\ t.in_air = g.in_air
    /\ t.kick_time = [s \in Side |->
           IF g.kick_time[s] < KickDelay
           THEN g.kick_time[s] + 1 ELSE g.kick_time[s]]

(* The kick times advance. *)
LEMMA KickTimesFields ==
    ASSUME NEW g \in Game
    PROVE  TimesAdvanced(g, KickTimes(g))
<1> DEFINE t == KickTimes(g)
<1>1. /\ t.grounded = g.grounded /\ t.can_kick = g.can_kick
      /\ t.score = g.score /\ t.pairs = g.pairs
      /\ t.forces = g.forces /\ t.in_air = g.in_air
      /\ SamePlayer(g, t)
  BY DEF Game, KickTimes, SamePlayer
<1>2. t.kick_time = [s \in Side |->
         IF g.kick_time[s] < KickDelay THEN g.kick_time[s] + 1 ELSE g.kick_time[s]]
  BY DEF Game, KickTimes
<1>3. t.kick_time \in [Side -> 0 .. KickDelay]
  BY <1>2, KickDelayAssumption DEF Game
<1>4. t \in Game
  BY <1>3 DEF Game, KickTimes
<1> QED
  BY <1>1, <1>2, <1>4 DEF TimesAdvanced

(* The game d after the keys of side s, in terms of g.                     *)
DrivenBy(g, d, s, keys) ==
    /\ d \in Game
    /\ SamePlayer(g, d)
    /\ d.can_kick = g.can_kick /\ d.score = g.score
    /\ d.pairs = g.pairs /\ d.in_air = g.in_air
    /\ d.forces = g.forces \cup DriveForces(g, s, keys)
    /\ d.grounded = [g.grounded EXCEPT ![s] = StillGrounded(g, s, keys)]
    /\ d.kick_time = [g.kick_time EXCEPT ![s] =
                         IF Kicks(g, s, keys) THEN 0 ELSE @]

(* The keys of one player. *)
LEMMA DriveFields ==
    ASSUME NEW g \in Game, NEW s \in Side, NEW keys \in SUBSET Key
    PROVE  DrivenBy(g, Drive(g, s, keys), s, keys)
<1> DEFINE d == Drive(g, s, keys)
<1>1. /\ SamePlayer(g, d)
      /\ d.can_kick = g.can_kick /\ d.score = g.score
      /\ d.pairs = g.pairs /\ d.in_air = g.in_air
  BY DEF Game, Drive, SamePlayer
<1>2. d.forces = g.forces \cup DriveForces(g, s, keys)
  BY DEF Game, Drive, DriveForces
<1>3. d.grounded = [g.grounded EXCEPT ![s] = StillGrounded(g, s, keys)]
  BY DEF Game, Drive
<1>4. d.kick_time = [g.kick_time EXCEPT ![s] = IF Kicks(g, s, keys) THEN 0 ELSE @]
  BY DEF Game, Drive
<1>5. DriveForces(g, s, keys) \subseteq PlayerForce
  BY DEF DriveForces, PlayerForce
<1>6. StillGrounded(g, s, keys) \in BOOLEAN
  BY DEF StillGrounded, Game
<1>7. d.forces \in SUBSET PlayerForce
  BY <1>2, <1>5 DEF Game
<1>8. d.grounded \in [Side -> BOOLEAN]
  BY <1>3, <1>6 DEF Game
<1>9. d.kick_time \in [Side -> 0 .. KickDelay]
  BY <1>4, KickDelayAssumption DEF Game
<1>10. d \in Game
  BY <1>7, <1>8, <1>9 DEF Game, Drive
<1> QED
  BY <1>1, <1>2, <1>3, <1>4, <1>10 DEF DrivenBy

(* The game p after the keys of side s, then of side t, in terms of g.     *)
Driven(g, p, s, ks, t, kt) ==
    /\ p \in Game
    /\ SamePlayer(g, p)
    /\ p.can_kick = g.can_kick /\ p.score = g.score
    /\ p.pairs = g.pairs /\ p.in_air = g.in_air
    /\ p.forces = g.forces \cup DriveForces(g, s, ks) \cup DriveForces(g, t, kt)
    /\ p.grounded = [[g.grounded EXCEPT ![s] = StillGrounded(g, s, ks)]
                        EXCEPT ![t] = StillGrounded(g, t, kt)]
    /\ p.kick_time = [[g.kick_time EXCEPT
                         ![s] = IF Kicks(g, s, ks) THEN 0 ELSE @]
                         EXCEPT
                         ![t] = IF Kicks(g, t, kt) THEN 0 ELSE @]

(* The keys of one player do not change what those of the other one do. *)
LEMMA TwoDrives ==
    ASSUME NEW g \in Game, NEW s \in Side, NEW t \in Side, s # t,
           NEW ks \in SUBSET Key, NEW kt \in SUBSET Key
    PROVE  Driven(g, Drive(Drive(g, s, ks), t, kt), s, ks, t, kt)
<1> DEFINE d == Drive(g, s, ks)
           p == Drive(d, t, kt)
<1>1. d \in Game /\ DrivenBy(g, d, s, ks)
  BY DriveFields DEF DrivenBy
<1>2. DrivenBy(d, p, t, kt)
  BY <1>1, DriveFields
<1>3. /\ d.grounded[t] = g.grounded[t] /\ d.kick_time[t] = g.kick_time[t]
      /\ d.can_kick[t] = g.can_kick[t]
  <2> HIDE DEF d
  <2> QED
    BY <1>1 DEF Game, DrivenBy
<1>4. /\ Jumps(d, t, kt) <=> Jumps(g, t, kt)
      /\ Kicks(d, t, kt) <=> Kicks(g, t, kt)
      /\ StillGrounded(d, t, kt) = StillGrounded(g, t, kt)
  <2> HIDE DEF d
  <2> QED
    BY <1>3 DEF Jumps, Kicks, StillGrounded
<1>5. DriveForces(d, t, kt) = DriveForces(g, t, kt)
  <2> HIDE DEF d
  <2> QED
    BY <1>4 DEF DriveForces
<1> HIDE DEF d, p
<1>6. SamePlayer(g, p)
  BY <1>1, <1>2 DEF SamePlayer, DrivenBy
<1>7. /\ p.grounded = [[g.grounded EXCEPT ![s] = StillGrounded(g, s, ks)]
                         EXCEPT ![t] = StillGrounded(g, t, kt)]
      /\ p.kick_time = [[g.kick_time EXCEPT
                           ![s] = IF Kicks(g, s, ks) THEN 0 ELSE @]
                           EXCEPT
                           ![t] = IF Kicks(g, t, kt) THEN 0 ELSE @]
  BY <1>1, <1>2, <1>4 DEF DrivenBy
<1> QED
  BY <1>1, <1>2, <1>5, <1>6, <1>7 DEF p, d, Driven, DrivenBy

(* The game p after ProcessInput(), in terms of the keys of each side.     *)
InputProcessed(g, p) ==
    /\ p \in Game
    /\ SamePlayer(g, p)
    /\ p.can_kick = g.can_kick /\ p.score = g.score
    /\ p.pairs = g.pairs /\ p.in_air = g.in_air
    /\ p.forces = g.forces \cup DriveForces(g, "blue", InputOf(g, "blue"))
                           \cup DriveForces(g, "red", InputOf(g, "red"))
    /\ p.grounded = [s \in Side |-> StillGrounded(g, s, InputOf(g, s))]
    /\ p.kick_time = [s \in Side |->
          IF Kicks(g, s, InputOf(g, s)) THEN 0 ELSE g.kick_time[s]]

(* ProcessInput() in terms of the keys of each side: the order of the two  *)
(* players does not matter, nor which of them is at this client.           *)
LEMMA ProcessInputFields ==
    ASSUME NEW g \in Game, g.player_nbr \in {0, 1}
    PROVE  InputProcessed(g, ProcessInput(g))
<1> DEFINE kb == InputOf(g, "blue")
           kr == InputOf(g, "red")
<1>1. kb \in SUBSET Key /\ kr \in SUBSET Key
  BY DEF InputOf, Game
<1>2. "blue" \in Side /\ "red" \in Side
  BY DEF Side
<1>3. /\ g.grounded \in [Side -> BOOLEAN]
      /\ \A s \in Side : StillGrounded(g, s, InputOf(g, s)) \in BOOLEAN
  BY DEF Game, StillGrounded
<1>4. /\ Side = {"blue", "red"}
      /\ g.kick_time \in [Side -> 0 .. KickDelay]
  BY DEF Game, Side
<1>5. CASE g.player_nbr = 0
  <2>1. ProcessInput(g) = Drive(Drive(g, "blue", kb), "red", kr)
    BY <1>5 DEF ProcessInput, InputOf, PlayerNbr
  <2>2. Driven(g, ProcessInput(g), "blue", kb, "red", kr)
    BY <1>1, <1>2, <2>1, TwoDrives
  <2> HIDE DEF kb, kr
  <2>3. ProcessInput(g).grounded = [s \in Side |-> StillGrounded(g, s, InputOf(g, s))]
    BY <1>3, <1>4, <2>2 DEF Driven, kb, kr
  <2>4. ProcessInput(g).kick_time =
          [s \in Side |-> IF Kicks(g, s, InputOf(g, s)) THEN 0 ELSE g.kick_time[s]]
    BY <1>4, <2>2 DEF Driven, kb, kr
  <2> QED
    BY <2>2, <2>3, <2>4 DEF Driven, InputProcessed, kb, kr
<1>6. CASE g.player_nbr = 1
  <2>1. ProcessInput(g) = Drive(Drive(g, "red", kr), "blue", kb)
    BY <1>6 DEF ProcessInput, InputOf, PlayerNbr
  <2>2. Driven(g, ProcessInput(g), "red", kr, "blue", kb)
    BY <1>1, <1>2, <2>1, TwoDrives
  <2> HIDE DEF kb, kr
  <2>3. ProcessInput(g).grounded = [s \in Side |-> StillGrounded(g, s, InputOf(g, s))]
    BY <1>3, <1>4, <2>2 DEF Driven, kb, kr
  <2>4. ProcessInput(g).kick_time =
          [s \in Side |-> IF Kicks(g, s, InputOf(g, s)) THEN 0 ELSE g.kick_time[s]]
    BY <1>4, <2>2 DEF Driven, kb, kr
  <2> QED
    BY <2>2, <2>3, <2>4 DEF Driven, InputProcessed, kb, kr
<1> QED
  BY <1>5, <1>6

(* The game f after friction, in terms of g.                               *)
Slowed(g, f) ==
    /\ f \in Game
    /\ SamePlayer(g, f)
    /\ f.grounded = g.grounded /\ f.can_kick = g.can_kick
    /\ f.kick_time = g.kick_time /\ f.score = g.score
    /\ f.pairs = g.pairs /\ f.in_air = g.in_air
    /\ f.forces = g.forces \cup {<<"friction", s>> : s \in
          {t \in Side : /\ g.grounded[t]
                        /\ InputOf(g, t) \cap {"right", "left"} = {}}}

(* Friction adds forces and changes nothing else. *)
LEMMA FrictionFields ==
    ASSUME NEW g \in Game
    PROVE  Slowed(g, Friction(g))
<1> DEFINE f == Friction(g)
           braked == {t \in Side : /\ g.grounded[t]
                                   /\ InputOf(g, t) \cap {"right", "left"} = {}}
<1>1. f = [g EXCEPT !.forces = @ \cup {<<"friction", s>> : s \in braked}]
  BY DEF Friction, FrictionKeys, InputOf
<1>2. {<<"friction", s>> : s \in braked} \subseteq PlayerForce
  BY DEF PlayerForce
<1> HIDE DEF f, braked
<1>3. /\ SamePlayer(g, f)
      /\ f.grounded = g.grounded /\ f.can_kick = g.can_kick
      /\ f.kick_time = g.kick_time /\ f.score = g.score
      /\ f.pairs = g.pairs /\ f.in_air = g.in_air
      /\ f.forces = g.forces \cup {<<"friction", s>> : s \in braked}
  BY <1>1 DEF Game, SamePlayer
<1>4. f \in Game
  BY <1>1, <1>2, <1>3 DEF Game
<1> QED
  BY <1>3, <1>4 DEF f, braked, Slowed

(* The inputs a game is given are those of the sides. *)
LEMMA SetInputsFields ==
    ASSUME NEW g \in Game, g.player_nbr \in {0, 1}, NEW keys \in Keys
    PROVE  LET i == SetInputs(g, keys)
           IN  /\ i \in Game
               /\ i.state = g.state /\ i.player_nbr = g.player_nbr
               /\ i.grounded = g.grounded /\ i.can_kick = g.can_kick
               /\ i.kick_time = g.kick_time /\ i.score = g.score
               /\ i.pairs = g.pairs /\ i.forces = g.forces /\ i.in_air = g.in_air
               /\ \A s \in Side : InputOf(i, s) = keys[s]
<1> DEFINE i == SetInputs(g, keys)
<1>1. keys["blue"] \in SUBSET Key /\ keys["red"] \in SUBSET Key
  BY DEF Keys, Side
<1>2. /\ i \in Game
      /\ i.state = g.state /\ i.player_nbr = g.player_nbr
      /\ i.grounded = g.grounded /\ i.can_kick = g.can_kick
      /\ i.kick_time = g.kick_time /\ i.score = g.score
      /\ i.pairs = g.pairs /\ i.forces = g.forces /\ i.in_air = g.in_air
  BY <1>1 DEF SetInputs, Game
<1>3. i.player_nbr = 0 => i.input = keys["blue"] /\ i.other_player_input = keys["red"]
  BY DEF SetInputs, Game
<1>4. i.player_nbr = 1 => i.input = keys["red"] /\ i.other_player_input = keys["blue"]
  BY DEF SetInputs, Game
<1> HIDE DEF i
<1>5. \A s \in Side : InputOf(i, s) = keys[s]
  BY <1>2, <1>3, <1>4 DEF InputOf, PlayerNbr, Side
<1> QED
  BY <1>2, <1>5 DEF i

(* A game during a match, seen by one of its two players. *)
Running(g) ==
    /\ g \in Game
    /\ g.state = "kInGame"
    /\ g.player_nbr \in {0, 1}

(* Two games that agree still do after World::Update(). *)
LEMMA WorldUpdateAgrees ==
    ASSUME NEW g, NEW h, Running(g), Running(h), SameGame(g, h),
           NEW contact \in Contact
    PROVE  /\ SameGame(WorldUpdate(g, contact), WorldUpdate(h, contact))
           /\ Running(WorldUpdate(g, contact)) /\ Running(WorldUpdate(h, contact))
<1> DEFINE v == WorldUpdate(g, contact)
           w == WorldUpdate(h, contact)
<1>1. g \in Game /\ h \in Game
  BY DEF Running
<1>2. /\ FeetSeen(g, contact) = FeetSeen(h, contact)
      /\ GroundSeen(g, contact) = GroundSeen(h, contact)
  BY DEF SameGame, FeetSeen, GroundSeen, Entered
<1>3. \A s \in Side : CanKick(g, FeetSeen(g, contact), s)
                       = CanKick(h, FeetSeen(h, contact), s)
  BY <1>2 DEF SameGame, CanKick
<1>4. WorldUpdated(g, v, contact) /\ WorldUpdated(h, w, contact)
  BY <1>1, WorldUpdateFields
<1> HIDE DEF v, w
<1>5. g.pairs = h.pairs /\ g.grounded = h.grounded /\ g.score = h.score
         /\ g.in_air = h.in_air /\ g.kick_time = h.kick_time
  BY DEF SameGame
<1>6. v.score = w.score /\ v.kick_time = w.kick_time /\ v.forces = w.forces
  BY <1>4, <1>5, Zenon DEF WorldUpdated
<1>7. v.can_kick = w.can_kick
  <2>1. /\ v.can_kick = [s \in Side |-> CanKick(g, FeetSeen(g, contact), s)]
        /\ w.can_kick = [s \in Side |-> CanKick(h, FeetSeen(h, contact), s)]
    BY <1>4 DEF WorldUpdated
  <2> QED
    BY <1>3, <2>1
<1>8. v.grounded = w.grounded
  BY <1>2, <1>4, <1>5, Zenon DEF WorldUpdated
<1>9. v.pairs = w.pairs /\ v.in_air = w.in_air
  BY <1>2, <1>4, <1>5, Zenon DEF WorldUpdated
<1>10. \A s \in Side : InputOf(v, s) = InputOf(w, s)
  BY <1>4 DEF WorldUpdated, SamePlayer, InputOf, SameGame
<1>11. SameGame(v, w)
  BY <1>6, <1>7, <1>8, <1>9, <1>10 DEF SameGame
<1>12. Running(v) /\ Running(w)
  BY <1>4 DEF WorldUpdated, SamePlayer, Running
<1> QED
  BY <1>11, <1>12 DEF v, w

(* Two games that agree still do after the kick times advanced. *)
LEMMA KickTimesAgree ==
    ASSUME NEW g, NEW h, Running(g), Running(h), SameGame(g, h)
    PROVE  /\ SameGame(KickTimes(g), KickTimes(h))
           /\ Running(KickTimes(g)) /\ Running(KickTimes(h))
<1> DEFINE v == KickTimes(g)
           w == KickTimes(h)
<1>1. g \in Game /\ h \in Game
  BY DEF Running
<1>2. TimesAdvanced(g, v) /\ TimesAdvanced(h, w)
  BY <1>1, KickTimesFields
<1> HIDE DEF v, w
<1>3. v.forces = w.forces /\ v.score = w.score
      /\ v.grounded = w.grounded /\ v.pairs = w.pairs /\ v.in_air = w.in_air
      /\ v.can_kick = w.can_kick
  BY <1>2 DEF TimesAdvanced, SameGame
<1>4. v.kick_time = w.kick_time
  <2>1. g.kick_time = h.kick_time
    BY DEF SameGame
  <2> QED
    BY <1>2, <2>1, Zenon DEF TimesAdvanced
<1>5. \A s \in Side : InputOf(v, s) = InputOf(w, s)
  BY <1>2 DEF TimesAdvanced, SamePlayer, InputOf, SameGame
<1>6. SameGame(v, w)
  BY <1>3, <1>4, <1>5 DEF SameGame
<1>7. Running(v) /\ Running(w)
  BY <1>2 DEF TimesAdvanced, SamePlayer, Running
<1> QED
  BY <1>6, <1>7 DEF v, w

(* Two games that agree still do after ProcessInput(), even when they run  *)
(* different branches of it.                                               *)
LEMMA ProcessInputAgrees ==
    ASSUME NEW g, NEW h, Running(g), Running(h), SameGame(g, h)
    PROVE  /\ SameGame(ProcessInput(g), ProcessInput(h))
           /\ Running(ProcessInput(g)) /\ Running(ProcessInput(h))
<1> DEFINE v == ProcessInput(g)
           w == ProcessInput(h)
<1>1. /\ g \in Game /\ h \in Game
      /\ g.player_nbr \in {0, 1} /\ h.player_nbr \in {0, 1}
  BY DEF Running
<1>2. InputProcessed(g, v) /\ InputProcessed(h, w)
  BY <1>1, ProcessInputFields
<1> HIDE DEF v, w
<1>3. \A s \in Side :
         /\ Jumps(g, s, InputOf(g, s)) <=> Jumps(h, s, InputOf(h, s))
         /\ Kicks(g, s, InputOf(g, s)) <=> Kicks(h, s, InputOf(h, s))
         /\ StillGrounded(g, s, InputOf(g, s)) = StillGrounded(h, s, InputOf(h, s))
  BY DEF SameGame, Jumps, Kicks, StillGrounded
<1>4. \A s \in Side : DriveForces(g, s, InputOf(g, s)) = DriveForces(h, s, InputOf(h, s))
  BY <1>3 DEF DriveForces, SameGame
<1>5. v.grounded = w.grounded
  BY <1>2, <1>3, Zenon DEF InputProcessed
<1>6. v.kick_time = w.kick_time
  <2>1. g.kick_time = h.kick_time
    BY DEF SameGame
  <2>2. \A s \in Side :
           (IF Kicks(g, s, InputOf(g, s)) THEN 0 ELSE g.kick_time[s])
             = (IF Kicks(h, s, InputOf(h, s)) THEN 0 ELSE h.kick_time[s])
    BY <1>3, <2>1
  <2> QED
    BY <1>2, <2>2, Zenon DEF InputProcessed
<1>7. v.forces = w.forces
  <2>1. g.forces = h.forces /\ "blue" \in Side /\ "red" \in Side
    BY DEF SameGame, Side
  <2> QED
    BY <1>2, <1>4, <2>1, Zenon DEF InputProcessed
<1>8. /\ v.score = w.score /\ v.pairs = w.pairs /\ v.in_air = w.in_air
      /\ v.can_kick = w.can_kick
  BY <1>2 DEF InputProcessed, SameGame
<1>9. \A s \in Side : InputOf(v, s) = InputOf(w, s)
  BY <1>2 DEF InputProcessed, SamePlayer, InputOf, SameGame
<1>10. SameGame(v, w)
  BY <1>5, <1>6, <1>7, <1>8, <1>9 DEF SameGame
<1>11. Running(v) /\ Running(w)
  BY <1>2 DEF InputProcessed, SamePlayer, Running
<1> QED
  BY <1>10, <1>11 DEF v, w

(* Two games that agree still do after friction. *)
LEMMA FrictionAgrees ==
    ASSUME NEW g, NEW h, Running(g), Running(h), SameGame(g, h)
    PROVE  /\ SameGame(Friction(g), Friction(h))
           /\ Running(Friction(g)) /\ Running(Friction(h))
<1> DEFINE v == Friction(g)
           w == Friction(h)
           Braked(x) == {t \in Side : /\ x.grounded[t]
                                      /\ InputOf(x, t) \cap {"right", "left"} = {}}
<1>1. g \in Game /\ h \in Game
  BY DEF Running
<1>2. Slowed(g, v) /\ Slowed(h, w)
  BY <1>1, FrictionFields
<1> HIDE DEF v, w
<1>3. Braked(g) = Braked(h)
  BY DEF SameGame
<1>4. v.forces = w.forces
  <2>1. /\ v.forces = g.forces \cup {<<"friction", s>> : s \in Braked(g)}
        /\ w.forces = h.forces \cup {<<"friction", s>> : s \in Braked(h)}
    BY <1>2 DEF Slowed
  <2> HIDE DEF Braked
  <2> QED
    BY <1>3, <2>1 DEF SameGame
<1>5. /\ v.kick_time = w.kick_time /\ v.score = w.score
      /\ v.grounded = w.grounded /\ v.pairs = w.pairs /\ v.in_air = w.in_air
      /\ v.can_kick = w.can_kick
  BY <1>2 DEF Slowed, SameGame
<1>6. \A s \in Side : InputOf(v, s) = InputOf(w, s)
  BY <1>2 DEF Slowed, SamePlayer, InputOf, SameGame
<1>7. SameGame(v, w)
  BY <1>4, <1>5, <1>6 DEF SameGame
<1>8. Running(v) /\ Running(w)
  BY <1>2 DEF Slowed, SamePlayer, Running
<1> QED
  BY <1>7, <1>8 DEF v, w

(* Two games that agree still do after a frame with the same keys and the  *)
(* same contacts.                                                          *)
LEMMA PlayFrameAgrees ==
    ASSUME NEW g, NEW h, Running(g), Running(h), SameGame(g, h),
           NEW keys \in Keys, NEW contact \in Contact
    PROVE  /\ SameGame(PlayFrame(g, keys, contact), PlayFrame(h, keys, contact))
           /\ Running(PlayFrame(g, keys, contact))
           /\ Running(PlayFrame(h, keys, contact))
<1> DEFINE gi == SetInputs(g, keys)
           hi == SetInputs(h, keys)
<1>1. g \in Game /\ h \in Game /\ g.player_nbr \in {0, 1} /\ h.player_nbr \in {0, 1}
  BY DEF Running
<1>2. SameGame(gi, hi) /\ Running(gi) /\ Running(hi)
  BY <1>1, SetInputsFields DEF SameGame, Running
<1>3. /\ PlayFrame(g, keys, contact)
            = Friction(ProcessInput(KickTimes(WorldUpdate(gi, contact))))
      /\ PlayFrame(h, keys, contact)
            = Friction(ProcessInput(KickTimes(WorldUpdate(hi, contact))))
  BY <1>2 DEF PlayFrame, FixedUpdate, Running
<1> HIDE DEF gi, hi
<1> QED
  BY <1>2, <1>3, WorldUpdateAgrees, KickTimesAgree, ProcessInputAgrees,
     FrictionAgrees

-----------------------------------------------------------------------------
(* The inductive invariant. *)

(* A client in a match. *)
InMatch(c) ==
    /\ Running(shown[c])
    /\ Running(confirmed[c])
    /\ confirmed[c].player_nbr = shown[c].player_nbr
    /\ confirmed_frame[c] <= shown_frame[c]
    /\ shown_frame[c] <= Len(log)
    /\ Len(truth) = Len(log) + 1
    /\ SameGame(confirmed[c], truth[confirmed_frame[c] + 1])
    /\ exact[c] => SameGame(shown[c], truth[shown_frame[c] + 1])

(* The games a match may start with. *)
Fresh(c) ==
    /\ confirmed[c].state = "kMenu" => confirmed[c] = NewGame
    /\ matches = 0 => shown[c] = NewGame

(* The true games, each one the frame after the one before. *)
TruthInv ==
    /\ log # << >> => Len(truth) = Len(log) + 1
    /\ \A i \in 1 .. Len(truth) : Running(truth[i])
    /\ \A i \in 1 .. Len(truth) - 1 :
          truth[i + 1] = PlayFrame(truth[i], log[i].keys, log[i].contact)

AgreementInv ==
    /\ TypeOK
    /\ TruthInv
    /\ \A c \in Client : Fresh(c) /\ (shown[c].state = "kInGame" => InMatch(c))

(* A constructed game is a game, and so is a started one. *)
LEMMA NewGameType ==
    /\ NewGame \in Game
    /\ NewGame.state = "kMenu"
    /\ \A n \in {0, 1} : \A g \in Game :
          /\ Running(StartGame(Numbered(g, n)))
          /\ Running(Numbered(StartGame(g), n))
          /\ StartGame(Numbered(g, n)).player_nbr = n
          /\ Numbered(StartGame(g), n).player_nbr = n
<1>1. NewGame \in Game /\ NewGame.state = "kMenu"
  BY KickDelayAssumption DEF NewGame, Game, GameState, NoPairs
<1>2. ASSUME NEW n \in {0, 1}, NEW g \in Game
      PROVE  /\ Running(StartGame(Numbered(g, n)))
             /\ Running(Numbered(StartGame(g), n))
             /\ StartGame(Numbered(g, n)).player_nbr = n
             /\ Numbered(StartGame(g), n).player_nbr = n
  <2>1. \A h \in Game : /\ Numbered(h, n) \in Game
                        /\ Numbered(h, n).state = h.state
                        /\ Numbered(h, n).player_nbr = n
    BY DEF Numbered, Game
  <2>2. \A h \in Game : /\ StartGame(h) \in Game
                        /\ StartGame(h).state = "kInGame"
                        /\ StartGame(h).player_nbr = h.player_nbr
    BY DEF StartGame, Game, GameState
  <2> QED
    BY <2>1, <2>2 DEF Running
<1> QED
  BY <1>1, <1>2

(* New games agree once started, whatever their numbers. *)
LEMMA NewGamesAgree ==
    ASSUME NEW n \in {0, 1}
    PROVE  LET t == StartGame(Numbered(NewGame, 0))
           IN  /\ SameGame(StartGame(Numbered(NewGame, n)), t)
               /\ SameGame(Numbered(StartGame(NewGame), n), t)
  BY DEF NewGame, StartGame, Numbered, SameGame, InputOf

(* A copy agrees with what it was copied from, seen by the same player. *)
LEMMA CopyAgrees ==
    ASSUME NEW g, NEW h, Running(g), Running(h), g.player_nbr = h.player_nbr
    PROVE  /\ Running(Copy(g, h))
           /\ Copy(g, h).player_nbr = g.player_nbr
           /\ SameGame(Copy(g, h), h)
<1> DEFINE d == Copy(g, h)
<1>1. /\ d \in Game /\ d.state = g.state /\ d.player_nbr = g.player_nbr
      /\ d.input = h.input /\ d.other_player_input = h.other_player_input
      /\ d.grounded = h.grounded /\ d.can_kick = h.can_kick
      /\ d.kick_time = h.kick_time /\ d.score = h.score
      /\ d.pairs = h.pairs /\ d.forces = h.forces /\ d.in_air = h.in_air
  BY DEF Copy, Running, Game
<1> HIDE DEF d
<1>2. Running(d) /\ SameGame(d, h)
  BY <1>1 DEF Running, SameGame, InputOf
<1> QED
  BY <1>1, <1>2 DEF d

(* A frame keeps the point of view. *)
LEMMA PlayFrameKeepsPlayer ==
    ASSUME NEW g, Running(g), NEW keys \in Keys, NEW contact \in Contact
    PROVE  /\ Running(PlayFrame(g, keys, contact))
           /\ PlayFrame(g, keys, contact).player_nbr = g.player_nbr
<1> DEFINE i == SetInputs(g, keys)
           w == WorldUpdate(i, contact)
           t == KickTimes(w)
           p == ProcessInput(t)
<1>1. g \in Game /\ g.player_nbr \in {0, 1} /\ g.state = "kInGame"
  BY DEF Running
<1>2. i \in Game /\ i.state = "kInGame" /\ i.player_nbr = g.player_nbr
  BY <1>1, SetInputsFields
<1>3. PlayFrame(g, keys, contact) = Friction(p)
  BY <1>2 DEF PlayFrame, FixedUpdate
<1> HIDE DEF i
<1>4. w \in Game /\ SamePlayer(i, w)
  BY <1>2, WorldUpdateFields DEF WorldUpdated
<1> HIDE DEF w
<1>5. t \in Game /\ SamePlayer(w, t)
  BY <1>4, KickTimesFields DEF TimesAdvanced
<1> HIDE DEF t
<1>6. t.player_nbr \in {0, 1}
  BY <1>1, <1>2, <1>4, <1>5 DEF SamePlayer
<1>7. p \in Game /\ SamePlayer(t, p)
  BY <1>5, <1>6, ProcessInputFields DEF InputProcessed
<1> HIDE DEF p
<1>8. Friction(p) \in Game /\ SamePlayer(p, Friction(p))
  BY <1>7, FrictionFields DEF Slowed
<1> QED
  BY <1>1, <1>2, <1>3, <1>4, <1>5, <1>7, <1>8 DEF SamePlayer, Running

(* The keys and contacts of the log are fit for a frame. *)
LEMMA LogEntryType ==
    ASSUME NEW entry \in LogEntry
    PROVE  entry.keys \in Keys /\ entry.contact \in Contact
  BY KeySetsAssumption, ContactsAssumption DEF LogEntry, Keys

(* All games are new in the initial state. *)
LEMMA InitAgreement == Init => AgreementInv
<1> SUFFICES ASSUME Init PROVE AgreementInv
  OBVIOUS
<1>1. TypeOK
  BY NewGameType DEF Init, TypeOK
<1>2. TruthInv
  BY DEF Init, TruthInv
<1> QED
  BY <1>1, <1>2, NewGameType DEF Init, AgreementInv, Fresh

(* A match starts with a true game and games that agree with it. *)
LEMMA StartMatchAgreement ==
    ASSUME AgreementInv, NEW nbr \in Numbering, StartMatch(nbr)
    PROVE  AgreementInv'
<1>1. \A c \in Client :
         /\ nbr[c] \in {0, 1}
         /\ shown[c] \in Game /\ confirmed[c] = NewGame
         /\ matches = 0 => shown[c] = NewGame
  BY DEF Numbering, AgreementInv, TypeOK, Fresh, StartMatch
<1>2. \A c \in Client :
         /\ shown'[c] = StartGame(Numbered(shown[c], nbr[c]))
         /\ confirmed'[c] = Numbered(StartGame(NewGame), nbr[c])
         /\ shown_frame'[c] = 0 /\ confirmed_frame'[c] = 0
         /\ exact'[c] = (matches = 0)
  BY <1>1 DEF StartMatch
<1>3. \A c \in Client : Running(shown'[c]) /\ Running(confirmed'[c])
                         /\ confirmed'[c].player_nbr = shown'[c].player_nbr
  BY <1>1, <1>2, NewGameType
<1>4. Running(truth'[1]) /\ Len(truth') = 1 /\ Len(log') = 0
         /\ truth'[1] = StartGame(Numbered(NewGame, 0))
  BY NewGameType DEF StartMatch
<1>5. TypeOK'
  BY <1>1, <1>2, <1>3, <1>4 DEF AgreementInv, TypeOK, StartMatch, Running
<1>6. TruthInv'
  BY <1>4 DEF TruthInv, StartMatch
<1>7. \A c \in Client :
         /\ SameGame(confirmed'[c], truth'[1])
         /\ exact'[c] => SameGame(shown'[c], truth'[1])
  <2> TAKE c \in Client
  <2>1. /\ SameGame(StartGame(Numbered(NewGame, nbr[c])),
                    StartGame(Numbered(NewGame, 0)))
        /\ SameGame(Numbered(StartGame(NewGame), nbr[c]),
                    StartGame(Numbered(NewGame, 0)))
    BY <1>1, NewGamesAgree
  <2> QED
    BY <1>1, <1>2, <1>4, <2>1
<1>8. matches' # 0
  BY DEF StartMatch, AgreementInv, TypeOK
<1> QED
  BY <1>2, <1>3, <1>4, <1>5, <1>6, <1>7, <1>8
     DEF AgreementInv, Fresh, InMatch, Running

(* A decided frame prolongs the true games. *)
LEMMA DecideFrameAgreement ==
    ASSUME AgreementInv, DecideFrame
    PROVE  AgreementInv'
<1>1. PICK entry \in LogEntry :
         /\ log' = Append(log, entry)
         /\ truth' = Append(truth, PlayFrame(truth[Len(truth)], entry.keys,
                                             entry.contact))
  BY DEF DecideFrame
<1>2. PICK c \in Client : shown[c].state = "kInGame"
  BY DEF DecideFrame
<1>3. /\ log \in Seq(LogEntry) /\ truth \in Seq(Game)
      /\ Len(truth) = Len(log) + 1
      /\ Running(truth[Len(truth)])
  BY <1>2 DEF AgreementInv, InMatch, TypeOK, TruthInv
<1> DEFINE next == PlayFrame(truth[Len(truth)], entry.keys, entry.contact)
<1>4. Running(next)
  BY <1>3, LogEntryType, PlayFrameKeepsPlayer
<1> HIDE DEF next
<1>5. truth' = Append(truth, next)
  BY <1>1 DEF next
<1>6. /\ log' \in Seq(LogEntry) /\ truth' \in Seq(Game)
      /\ Len(log') = Len(log) + 1 /\ Len(truth') = Len(truth) + 1
      /\ \A i \in 1 .. Len(truth) : truth'[i] = truth[i]
      /\ truth'[Len(truth) + 1] = next
      /\ \A i \in 1 .. Len(log) : log'[i] = log[i]
      /\ log'[Len(log) + 1] = entry
  BY <1>1, <1>3, <1>4, <1>5 DEF Running
<1>7. TruthInv'
  <2>1. \A i \in 1 .. Len(truth') : Running(truth'[i])
    BY <1>4, <1>6 DEF TruthInv, AgreementInv
  <2>2. ASSUME NEW i \in 1 .. Len(truth') - 1
        PROVE  truth'[i + 1] = PlayFrame(truth'[i], log'[i].keys, log'[i].contact)
    <3>1. CASE i \in 1 .. Len(truth) - 1
      <4>1. /\ i \in 1 .. Len(truth) /\ i + 1 \in 1 .. Len(truth)
            /\ i \in 1 .. Len(log)
        BY <1>3, <3>1
      <4> QED
        BY <1>6, <3>1, <4>1 DEF TruthInv, AgreementInv
    <3>2. CASE i = Len(truth)
      <4>1. i \in 1 .. Len(truth) /\ i = Len(log) + 1
        BY <1>3, <3>2
      <4> QED
        BY <1>6, <3>2, <4>1 DEF next
    <3> QED
      BY <1>3, <1>6, <3>1, <3>2
  <2> QED
    BY <1>3, <1>6, <2>1, <2>2 DEF TruthInv
<1>8. UNCHANGED <<shown, shown_frame, confirmed, confirmed_frame, exact, matches>>
  BY DEF DecideFrame
<1>9. TypeOK'
  BY <1>6, <1>8 DEF AgreementInv, TypeOK
<1>10. ASSUME NEW d \in Client, shown'[d].state = "kInGame" PROVE InMatch(d)'
  <2>1. /\ InMatch(d)
        /\ shown_frame[d] \in Nat /\ confirmed_frame[d] \in Nat
        /\ Len(log) \in Nat
    BY <1>3, <1>8, <1>10 DEF AgreementInv, TypeOK
  <2>2. /\ truth'[confirmed_frame[d] + 1] = truth[confirmed_frame[d] + 1]
        /\ truth'[shown_frame[d] + 1] = truth[shown_frame[d] + 1]
    BY <1>6, <2>1 DEF InMatch
  <2> QED
    BY <1>6, <1>8, <2>1, <2>2 DEF InMatch
<1> QED
  BY <1>7, <1>8, <1>9, <1>10 DEF AgreementInv, Fresh

(* The next true game of a client in a match. *)
LEMMA NextTruth ==
    ASSUME AgreementInv, NEW f \in Nat, f < Len(log), Len(truth) = Len(log) + 1
    PROVE  /\ log[f + 1] \in LogEntry
           /\ Running(truth[f + 1])
           /\ truth[f + 2] = PlayFrame(truth[f + 1], log[f + 1].keys,
                                       log[f + 1].contact)
<1>1. log \in Seq(LogEntry) /\ Len(log) \in Nat
  BY DEF AgreementInv, TypeOK
<1>2. /\ f + 1 \in 1 .. Len(log) /\ f + 1 \in 1 .. Len(truth)
      /\ f + 1 \in 1 .. Len(truth) - 1 /\ (f + 1) + 1 = f + 2
  BY <1>1
<1>3. log[f + 1] \in LogEntry
  BY <1>1, <1>2
<1> QED
  BY <1>2, <1>3 DEF AgreementInv, TruthInv

(* An update of the shown game: it stays exact only on the true keys. *)
LEMMA ShowFrameAgreement ==
    ASSUME AgreementInv, NEW c \in Client, ShowFrame(c)
    PROVE  AgreementInv'
<1> DEFINE entry == log[shown_frame[c] + 1]
           side == RemoteSide(c)
           keys(k) == [entry.keys EXCEPT ![side] = k]
<1>1. PICK prediction \in KeySets, contact \in Contacts :
         /\ exact[c] => contact = entry.contact
         /\ shown' = [shown EXCEPT ![c] = PlayFrame(@, keys(prediction), contact)]
         /\ exact' = [exact EXCEPT ![c] = @ /\ prediction = entry.keys[side]]
  BY DEF ShowFrame
<1>2. /\ InMatch(c) /\ shown_frame[c] \in Nat /\ shown_frame[c] < Len(log)
      /\ log \in Seq(LogEntry) /\ truth \in Seq(Game)
  BY DEF ShowFrame, AgreementInv, TypeOK
<1>3. /\ entry \in LogEntry
      /\ Running(truth[shown_frame[c] + 1])
      /\ truth[shown_frame[c] + 2] = PlayFrame(truth[shown_frame[c] + 1],
                                               entry.keys, entry.contact)
  BY <1>2, NextTruth DEF InMatch
<1>4. side \in Side
  BY DEF RemoteSide, Side
<1> HIDE DEF entry, side
<1>5. entry.keys \in [Side -> KeySets] /\ entry.keys \in Keys
         /\ entry.contact \in Contact
  BY <1>3, LogEntryType DEF LogEntry
<1>6. keys(prediction) \in Keys /\ contact \in Contact
  BY <1>5, KeySetsAssumption, ContactsAssumption DEF Keys
<1>7. prediction = entry.keys[side] => keys(prediction) = entry.keys
  BY <1>4, <1>5
<1> HIDE DEF keys
<1> DEFINE next == PlayFrame(shown[c], keys(prediction), contact)
<1>8. Running(next) /\ next.player_nbr = shown[c].player_nbr
  BY <1>2, <1>6, PlayFrameKeepsPlayer DEF InMatch
<1>9. /\ shown' = [shown EXCEPT ![c] = next]
      /\ shown_frame' = [shown_frame EXCEPT ![c] = @ + 1]
      /\ UNCHANGED <<log, truth, confirmed, confirmed_frame, matches>>
  BY <1>1 DEF ShowFrame
<1>10. exact'[c] => /\ exact[c]
                    /\ next = PlayFrame(shown[c], entry.keys, entry.contact)
  BY <1>1, <1>7 DEF AgreementInv, TypeOK
<1>11. exact'[c] => SameGame(next, truth[shown_frame[c] + 2])
  BY <1>2, <1>3, <1>5, <1>10, PlayFrameAgrees DEF InMatch
<1> HIDE DEF next
<1>12. /\ shown' \in [Client -> Game] /\ shown_frame' \in [Client -> Nat]
       /\ exact' \in [Client -> BOOLEAN]
       /\ shown'[c] = next /\ shown_frame'[c] = shown_frame[c] + 1
       /\ \A d \in Client \ {c} : /\ shown'[d] = shown[d]
                                  /\ shown_frame'[d] = shown_frame[d]
                                  /\ exact'[d] = exact[d]
  BY <1>1, <1>8, <1>9 DEF AgreementInv, TypeOK, Running
<1>13. TypeOK' /\ TruthInv'
  BY <1>9, <1>12 DEF AgreementInv, TypeOK, TruthInv
<1>14. InMatch(c)'
  <2>1. shown_frame[c] + 1 + 1 = shown_frame[c] + 2 /\ confirmed_frame[c] \in Nat
    BY <1>2 DEF AgreementInv, TypeOK
  <2>2. exact'[c] => SameGame(shown'[c], truth'[shown_frame'[c] + 1])
    BY <1>9, <1>11, <1>12, <2>1
  <2> QED
    BY <1>2, <1>8, <1>9, <1>12, <2>1, <2>2 DEF InMatch
<1>15. \A d \in Client : Fresh(d)'
  <2>1. matches # 0
    BY NewGameType DEF AgreementInv, Fresh, ShowFrame
  <2> QED
    BY <1>9, <2>1 DEF AgreementInv, Fresh
<1>16. ASSUME NEW d \in Client \ {c}, shown'[d].state = "kInGame" PROVE InMatch(d)'
  <2>1. InMatch(d)
    BY <1>12, <1>16 DEF AgreementInv
  <2> QED
    BY <1>9, <1>12, <2>1 DEF InMatch
<1> QED
  BY <1>13, <1>14, <1>15, <1>16 DEF AgreementInv

(* A confirmed frame is played on the true keys. *)
LEMMA ConfirmFrameAgreement ==
    ASSUME AgreementInv, NEW c \in Client, ConfirmFrame(c)
    PROVE  AgreementInv'
<1> DEFINE entry == log[confirmed_frame[c] + 1]
<1>1. /\ InMatch(c) /\ shown_frame[c] \in Nat /\ confirmed_frame[c] \in Nat
      /\ confirmed_frame[c] < shown_frame[c] /\ Len(log) \in Nat
  BY DEF ConfirmFrame, AgreementInv, TypeOK
<1>2. confirmed_frame[c] < Len(log) /\ Len(truth) = Len(log) + 1
  BY <1>1 DEF InMatch
<1>3. /\ entry \in LogEntry
      /\ Running(truth[confirmed_frame[c] + 1])
      /\ truth[confirmed_frame[c] + 2] = PlayFrame(truth[confirmed_frame[c] + 1],
                                                   entry.keys, entry.contact)
  BY <1>1, <1>2, NextTruth
<1> HIDE DEF entry
<1>4. entry.keys \in Keys /\ entry.contact \in Contact
  BY <1>3, LogEntryType
<1> DEFINE next == PlayFrame(confirmed[c], entry.keys, entry.contact)
<1>5. Running(next) /\ next.player_nbr = confirmed[c].player_nbr
  BY <1>1, <1>4, PlayFrameKeepsPlayer DEF InMatch
<1>6. SameGame(next, truth[confirmed_frame[c] + 2])
  BY <1>1, <1>3, <1>4, PlayFrameAgrees DEF InMatch
<1>7. /\ confirmed' = [confirmed EXCEPT ![c] = next]
      /\ confirmed_frame' = [confirmed_frame EXCEPT ![c] = @ + 1]
      /\ UNCHANGED <<log, truth, shown, shown_frame, exact, matches>>
  BY DEF ConfirmFrame, entry
<1> HIDE DEF next
<1>8. /\ confirmed' \in [Client -> Game] /\ confirmed_frame' \in [Client -> Nat]
      /\ confirmed'[c] = next /\ confirmed_frame'[c] = confirmed_frame[c] + 1
      /\ \A d \in Client \ {c} : /\ confirmed'[d] = confirmed[d]
                                 /\ confirmed_frame'[d] = confirmed_frame[d]
  BY <1>5, <1>7 DEF AgreementInv, TypeOK, Running
<1>9. TypeOK' /\ TruthInv'
  BY <1>7, <1>8 DEF AgreementInv, TypeOK, TruthInv
<1>10. InMatch(c)'
  <2>1. confirmed_frame[c] + 1 + 1 = confirmed_frame[c] + 2
    BY <1>1
  <2>2. SameGame(confirmed'[c], truth'[confirmed_frame'[c] + 1])
    BY <1>6, <1>7, <1>8, <2>1
  <2>3. confirmed_frame'[c] <= shown_frame'[c]
    BY <1>1, <1>7, <1>8
  <2> QED
    BY <1>1, <1>5, <1>7, <1>8, <2>2, <2>3 DEF InMatch
<1>11. \A d \in Client : Fresh(d)'
  BY <1>5, <1>7, <1>8 DEF AgreementInv, Fresh, Running
<1>12. ASSUME NEW d \in Client \ {c}, shown'[d].state = "kInGame" PROVE InMatch(d)'
  <2>1. InMatch(d)
    BY <1>7, <1>12 DEF AgreementInv
  <2> QED
    BY <1>7, <1>8, <2>1 DEF InMatch
<1> QED
  BY <1>9, <1>10, <1>11, <1>12 DEF AgreementInv

(* A rollback takes over the confirmed game, which is true. *)
LEMMA DoRollbackAgreement ==
    ASSUME AgreementInv, NEW c \in Client, DoRollback(c)
    PROVE  AgreementInv'
<1> DEFINE copy == Copy(shown[c], confirmed[c])
<1>1. InMatch(c) /\ confirmed_frame[c] \in Nat /\ shown_frame[c] \in Nat
      /\ Len(log) \in Nat
  BY DEF DoRollback, AgreementInv, TypeOK
<1>2. /\ Running(copy) /\ copy.player_nbr = shown[c].player_nbr
      /\ SameGame(copy, confirmed[c])
  BY <1>1, CopyAgrees DEF InMatch
<1>3. SameGame(copy, truth[confirmed_frame[c] + 1])
  BY <1>1, <1>2 DEF InMatch, SameGame
<1>4. /\ shown' = [shown EXCEPT ![c] = copy]
      /\ shown_frame' = [shown_frame EXCEPT ![c] = confirmed_frame[c]]
      /\ exact' = [exact EXCEPT ![c] = TRUE]
      /\ UNCHANGED <<log, truth, confirmed, confirmed_frame, matches>>
  BY DEF DoRollback
<1> HIDE DEF copy
<1>5. /\ shown' \in [Client -> Game] /\ shown_frame' \in [Client -> Nat]
      /\ exact' \in [Client -> BOOLEAN]
      /\ shown'[c] = copy /\ shown_frame'[c] = confirmed_frame[c]
      /\ \A d \in Client \ {c} : /\ shown'[d] = shown[d]
                                 /\ shown_frame'[d] = shown_frame[d]
                                 /\ exact'[d] = exact[d]
  BY <1>1, <1>2, <1>4 DEF AgreementInv, TypeOK, Running
<1>6. TypeOK' /\ TruthInv'
  BY <1>4, <1>5 DEF AgreementInv, TypeOK, TruthInv
<1>7. InMatch(c)'
  BY <1>1, <1>2, <1>3, <1>4, <1>5 DEF InMatch
<1>8. \A d \in Client : Fresh(d)'
  <2>1. matches # 0
    BY NewGameType DEF AgreementInv, Fresh, DoRollback
  <2> QED
    BY <1>4, <2>1 DEF AgreementInv, Fresh
<1>9. ASSUME NEW d \in Client \ {c}, shown'[d].state = "kInGame" PROVE InMatch(d)'
  <2>1. InMatch(d)
    BY <1>5, <1>9 DEF AgreementInv
  <2> QED
    BY <1>4, <1>5, <2>1 DEF InMatch
<1> QED
  BY <1>6, <1>7, <1>8, <1>9 DEF AgreementInv

(* EndGame() and Restart() only write values of the members' types. *)
LEMMA LeavingType ==
    ASSUME NEW g \in Game
    PROVE  /\ EndGame(g) \in Game /\ EndGame(g).state = "kGameFinished"
           /\ Restart(g) \in Game /\ Restart(g).state = "kMenu"
<1>1. EndGame(g) \in Game /\ EndGame(g).state = "kGameFinished"
  BY DEF EndGame, Game, GameState
<1>2. Restart(g) \in Game /\ Restart(g).state = "kMenu"
  BY DEF Restart, Game, GameState, NoPairs
<1> QED
  BY <1>1, <1>2

(* A game leaves the match at its end, and stays out until a new match. *)
LEMMA AfterMatchAgreement ==
    ASSUME AgreementInv, NEW c \in Client,
           EndGameOf(c) \/ Reset(c) \/ RestartOf(c)
    PROVE  AgreementInv'
<1>1. /\ shown \in [Client -> Game] /\ confirmed \in [Client -> Game]
      /\ confirmed_frame \in [Client -> Nat] /\ matches \in Nat
  BY DEF AgreementInv, TypeOK
<1>2. /\ UNCHANGED <<log, truth, shown_frame, exact, matches>>
      /\ \A d \in Client \ {c} : /\ shown'[d] = shown[d]
                                 /\ confirmed'[d] = confirmed[d]
                                 /\ confirmed_frame'[d] = confirmed_frame[d]
  BY <1>1 DEF EndGameOf, Reset, RestartOf
<1>3. /\ shown' \in [Client -> Game]
      /\ shown'[c].state # "kInGame"
      /\ shown'[c] # shown[c] => shown[c].state # "kMenu"
  <2>1. CASE EndGameOf(c)
    <3>1. EndGame(shown[c]) \in Game /\ EndGame(shown[c]).state = "kGameFinished"
      BY <1>1, LeavingType
    <3>2. shown' = [shown EXCEPT ![c] = EndGame(shown[c])]
             /\ shown[c].state = "kInGame"
      BY <2>1 DEF EndGameOf
    <3> QED
      BY <1>1, <3>1, <3>2
  <2>2. CASE Reset(c)
    BY <1>1, <2>2 DEF Reset
  <2>3. CASE RestartOf(c)
    <3>1. Restart(shown[c]) \in Game /\ Restart(shown[c]).state = "kMenu"
      BY <1>1, LeavingType
    <3>2. shown' = [shown EXCEPT ![c] = Restart(shown[c])]
             /\ shown[c].state = "kGameFinished"
      BY <2>3 DEF RestartOf
    <3> QED
      BY <1>1, <3>1, <3>2
  <2> QED
    BY <2>1, <2>2, <2>3
<1>4. /\ confirmed' \in [Client -> Game] /\ confirmed_frame' \in [Client -> Nat]
      /\ confirmed'[c] = confirmed[c] \/ confirmed'[c] = NewGame
  BY <1>1, NewGameType DEF EndGameOf, Reset, RestartOf, ResetGame
<1>5. TypeOK' /\ TruthInv'
  BY <1>2, <1>3, <1>4 DEF AgreementInv, TypeOK, TruthInv
<1>6. \A d \in Client : Fresh(d)'
  <2>1. Fresh(c)'
    BY <1>2, <1>3, <1>4, NewGameType DEF AgreementInv, Fresh
  <2> QED
    BY <1>2, <2>1 DEF AgreementInv, Fresh
<1>7. ASSUME NEW d \in Client, shown'[d].state = "kInGame" PROVE InMatch(d)'
  <2>1. d \in Client \ {c} /\ InMatch(d)
    BY <1>2, <1>3, <1>7 DEF AgreementInv
  <2> QED
    BY <1>2, <2>1 DEF InMatch
<1> QED
  BY <1>5, <1>6, <1>7 DEF AgreementInv

(* Every step keeps the games in agreement. *)
LEMMA StepAgreement == AgreementInv /\ [Next]_vars => AgreementInv'
<1> SUFFICES ASSUME AgreementInv, [Next]_vars PROVE AgreementInv'
  OBVIOUS
<1>1. CASE \E nbr \in Numbering : StartMatch(nbr)
  BY <1>1, StartMatchAgreement
<1>2. CASE DecideFrame
  BY <1>2, DecideFrameAgreement
<1>3. CASE \E c \in Client : ShowFrame(c)
  BY <1>3, ShowFrameAgreement
<1>4. CASE \E c \in Client : ConfirmFrame(c)
  BY <1>4, ConfirmFrameAgreement
<1>5. CASE \E c \in Client : DoRollback(c)
  BY <1>5, DoRollbackAgreement
<1>6. CASE \E c \in Client : EndGameOf(c) \/ Reset(c) \/ RestartOf(c)
  BY <1>6, AfterMatchAgreement
<1>7. CASE UNCHANGED vars
  BY <1>7 DEF vars, AgreementInv, TypeOK, TruthInv, Fresh, InMatch
<1> QED
  BY <1>1, <1>2, <1>3, <1>4, <1>5, <1>6, <1>7 DEF Next

(* The invariant every theorem about agreement rests on. *)
LEMMA AgreementInvariant == Spec => []AgreementInv
BY InitAgreement, StepAgreement, PTL DEF Spec

(* Every game keeps its type: no update leaves a kick time out of range or *)
(* a flag of somebody who does not play.                                   *)
THEOREM TypeCorrect == Spec => []TypeOK
<1>1. AgreementInv => TypeOK
  BY DEF AgreementInv
<1> QED
  BY <1>1, AgreementInvariant, PTL

(* The confirmed games, and the shown ones that were given no wrong        *)
(* prediction, are the game of the inputs really held, whatever their      *)
(* point of view: Copy(), ConfirmFrame() and both branches of              *)
(* ProcessInput() leave nothing that would set the clients apart.          *)
THEOREM GamesAlwaysAgree == Spec => []GamesAgree
<1>1. AgreementInv => GamesAgree
  BY DEF AgreementInv, InMatch, GamesAgree
<1> QED
  BY <1>1, AgreementInvariant, PTL

-----------------------------------------------------------------------------
(* The rules of the game hold in every frame of every match.               *)
(*                                                                         *)
(* What one frame does to the flags and times of a player is said once, in *)
(* FrameRules.  The invariant relates the flags of every true game to the  *)
(* kicks and jumps of the frames before it.                                *)

Kicked(g, s) == <<"kick", s>> \in g.forces
Jumped(g, s) == <<"jump", s>> \in g.forces

(* The game n, one frame after g, for the player on side s. *)
RulesOf(g, n, contact, s) ==
    /\ n.can_kick[s] => \/ s \in n.pairs.feet
                        \/ g.can_kick[s] /\ s \notin g.pairs.feet
    /\ s \in n.pairs.feet => s \in contact.feet /\ n.score = g.score
    /\ Kicked(n, s) => /\ n.can_kick[s]
                       /\ n.kick_time[s] = 0
                       /\ g.kick_time[s] + 1 >= KickDelay
    /\ n.kick_time[s] <= g.kick_time[s] + 1
    /\ Jumped(n, s) => /\ ~n.grounded[s]
                       /\ g.grounded[s] \/ s \in contact.ground
    /\ n.grounded[s] => g.grounded[s] \/ s \in contact.ground

(* The keys put a kick or a jump among the forces only by the rules. *)
LEMMA DriveForcesOf ==
    ASSUME NEW g, NEW ks, NEW kt, NEW s \in Side
    PROVE  LET forces == {} \cup DriveForces(g, "blue", ks)
                            \cup DriveForces(g, "red", kt)
               keys == IF s = "blue" THEN ks ELSE kt
           IN  /\ <<"kick", s>> \in forces <=> Kicks(g, s, keys)
               /\ <<"jump", s>> \in forces <=> Jumps(g, s, keys)
<1>1. \A u, v \in Side : \A keys :
         /\ <<"kick", u>> \in DriveForces(g, v, keys) <=> u = v /\ Kicks(g, u, keys)
         /\ <<"jump", u>> \in DriveForces(g, v, keys) <=> u = v /\ Jumps(g, u, keys)
  BY DEF DriveForces
<1>2. "blue" \in Side /\ "red" \in Side /\ (s = "blue" \/ s = "red")
  BY DEF Side
<1> QED
  BY <1>1, <1>2

(* Every frame keeps the rules. *)
LEMMA FrameRules ==
    ASSUME NEW g, Running(g), NEW keys \in Keys, NEW contact \in Contact,
           NEW s \in Side
    PROVE  RulesOf(g, PlayFrame(g, keys, contact), contact, s)
<1> DEFINE i == SetInputs(g, keys)
           w == WorldUpdate(i, contact)
           t == KickTimes(w)
           p == ProcessInput(t)
           n == Friction(p)
           ks == InputOf(t, s)
<1>1. g \in Game /\ g.player_nbr \in {0, 1} /\ g.state = "kInGame"
  BY DEF Running
<1>2. /\ i \in Game /\ i.state = "kInGame" /\ i.player_nbr = g.player_nbr
      /\ i.grounded = g.grounded /\ i.can_kick = g.can_kick
      /\ i.kick_time = g.kick_time /\ i.score = g.score /\ i.pairs = g.pairs
  BY <1>1, SetInputsFields
<1>3. PlayFrame(g, keys, contact) = n
  BY <1>2 DEF PlayFrame, FixedUpdate
<1> HIDE DEF i
<1>4. WorldUpdated(i, w, contact) /\ w \in Game
  BY <1>2, WorldUpdateFields DEF WorldUpdated
<1> HIDE DEF w
<1>5. TimesAdvanced(w, t) /\ t \in Game
  BY <1>4, KickTimesFields DEF TimesAdvanced
<1> HIDE DEF t
<1>6. t.player_nbr \in {0, 1}
  BY <1>1, <1>2, <1>4, <1>5 DEF WorldUpdated, TimesAdvanced, SamePlayer
<1>7. InputProcessed(t, p) /\ p \in Game
  BY <1>5, <1>6, ProcessInputFields DEF InputProcessed
<1> HIDE DEF p
<1>8. Slowed(p, n)
  BY <1>7, FrictionFields
<1> HIDE DEF n
<1>9. /\ n.can_kick[s] <=> CanKick(i, FeetSeen(i, contact), s)
      /\ t.can_kick[s] <=> n.can_kick[s]
      /\ n.pairs.feet = FeetSeen(i, contact)
  BY <1>4, <1>5, <1>7, <1>8
     DEF WorldUpdated, TimesAdvanced, InputProcessed, Slowed
<1>10. /\ n.can_kick[s] => \/ s \in n.pairs.feet
                           \/ g.can_kick[s] /\ s \notin g.pairs.feet
  BY <1>2, <1>9 DEF CanKick
<1>11. s \in n.pairs.feet => s \in contact.feet /\ n.score = g.score
  <2> SUFFICES ASSUME s \in n.pairs.feet
               PROVE  s \in contact.feet /\ n.score = g.score
    OBVIOUS
  <2>1. contact.goal \ i.pairs.goal = {} /\ s \in contact.feet
    BY <1>9 DEF FeetSeen, Entered
  <2>2. w.score = [r \in Side |-> i.score[r]]
    BY <1>4, <2>1 DEF WorldUpdated
  <2>3. w.score = g.score
    BY <1>2, <2>2 DEF Game
  <2> QED
    BY <1>5, <1>7, <1>8, <2>1, <2>3 DEF TimesAdvanced, InputProcessed, Slowed
<1>12. /\ Kicked(n, s) <=> Kicks(t, s, ks)
       /\ Jumped(n, s) <=> Jumps(t, s, ks)
  <2>1. t.forces = {}
    BY <1>4, <1>5 DEF WorldUpdated, TimesAdvanced
  <2>2. /\ <<"kick", s>> \in p.forces <=> Kicks(t, s, ks)
        /\ <<"jump", s>> \in p.forces <=> Jumps(t, s, ks)
    <3>1. p.forces = {} \cup DriveForces(t, "blue", InputOf(t, "blue"))
                        \cup DriveForces(t, "red", InputOf(t, "red"))
      BY <1>7, <2>1 DEF InputProcessed
    <3>2. s = "blue" \/ s = "red"
      BY DEF Side
    <3>3. ks = IF s = "blue" THEN InputOf(t, "blue") ELSE InputOf(t, "red")
      BY <3>2
    <3> HIDE DEF ks
    <3> QED
      BY <3>1, <3>3, DriveForcesOf
  <2>3. /\ <<"kick", s>> \in n.forces <=> <<"kick", s>> \in p.forces
        /\ <<"jump", s>> \in n.forces <=> <<"jump", s>> \in p.forces
    BY <1>8 DEF Slowed
  <2> QED
    BY <2>2, <2>3 DEF Kicked, Jumped
<1>13. /\ t.kick_time[s] <= g.kick_time[s] + 1
       /\ t.kick_time[s] \in Nat /\ g.kick_time[s] \in Nat
       /\ n.kick_time[s] = IF Kicks(t, s, ks) THEN 0 ELSE t.kick_time[s]
  <2>1. t.kick_time[s] = IF g.kick_time[s] < KickDelay
                         THEN g.kick_time[s] + 1 ELSE g.kick_time[s]
    BY <1>2, <1>4, <1>5 DEF WorldUpdated, TimesAdvanced
  <2>2. g.kick_time[s] \in Nat
    BY <1>1, KickDelayAssumption DEF Game
  <2>3. n.kick_time[s] = IF Kicks(t, s, ks) THEN 0 ELSE t.kick_time[s]
    BY <1>7, <1>8 DEF InputProcessed, Slowed
  <2> QED
    BY <2>1, <2>2, <2>3
<1>14. Kicked(n, s) => /\ n.can_kick[s]
                       /\ n.kick_time[s] = 0
                       /\ g.kick_time[s] + 1 >= KickDelay
  <2> SUFFICES ASSUME Kicks(t, s, ks)
               PROVE  /\ n.can_kick[s] /\ n.kick_time[s] = 0
                      /\ g.kick_time[s] + 1 >= KickDelay
    BY <1>12
  <2>1. t.can_kick[s] /\ t.kick_time[s] >= KickDelay
    BY DEF Kicks
  <2> QED
    BY <1>9, <1>13, <2>1, KickDelayAssumption
<1>15. n.kick_time[s] <= g.kick_time[s] + 1
  BY <1>13
<1>16. n.grounded[s] = StillGrounded(t, s, ks)
  BY <1>7, <1>8 DEF InputProcessed, Slowed
<1>17. t.grounded[s] => g.grounded[s] \/ s \in contact.ground
  <2>1. t.grounded[s] = (s \in GroundSeen(i, contact) \/ g.grounded[s])
    <3>1. t.grounded = w.grounded
      BY <1>5 DEF TimesAdvanced
    <3>2. w.grounded[s] = (s \in GroundSeen(i, contact) \/ i.grounded[s])
      BY <1>4 DEF WorldUpdated
    <3> QED
      BY <1>2, <3>1, <3>2
  <2> QED
    BY <2>1 DEF GroundSeen
<1>18. /\ Jumped(n, s) => /\ ~n.grounded[s]
                          /\ g.grounded[s] \/ s \in contact.ground
       /\ n.grounded[s] => g.grounded[s] \/ s \in contact.ground
  BY <1>12, <1>16, <1>17 DEF StillGrounded, Jumps
<1> HIDE DEF ks
<1> QED
  BY <1>3, <1>10, <1>11, <1>14, <1>15, <1>18 DEF RulesOf

-----------------------------------------------------------------------------
(* The inductive invariant: what the flags and times of a true game say of *)
(* the frames before it.                                                   *)

(* The can-kick flag does not outlive the contact. *)
FlagsFollowContacts ==
    \A i \in 1 .. Len(truth) : \A s \in Side :
        truth[i].can_kick[s] => s \in truth[i].pairs.feet

(* The kick time is no more than the frames since a kick. *)
TimesFollowKicks ==
    \A s \in Side : \A j \in KicksAt(s) : \A i \in j .. Len(log) :
        truth[i + 1].kick_time[s] <= i - j

(* A player on the ground has landed since a jump. *)
LandedSince(s, j, i) == \E k \in j + 1 .. i : s \in log[k].contact.ground
GroundedSinceJumps ==
    \A s \in Side : \A j \in JumpsAt(s) : \A i \in j .. Len(log) :
        truth[i + 1].grounded[s] => LandedSince(s, j, i)

RulesInv ==
    /\ AgreementInv
    /\ FlagsFollowContacts
    /\ TimesFollowKicks
    /\ GroundedSinceJumps

(* The frame between two true games. *)
LEMMA TrueFrame ==
    ASSUME AgreementInv, NEW i \in 1 .. Len(log), NEW s \in Side
    PROVE  /\ Running(truth[i])
           /\ Running(truth[i + 1])
           /\ RulesOf(truth[i], truth[i + 1], log[i].contact, s)
<1>1. /\ log \in Seq(LogEntry) /\ truth \in Seq(Game)
      /\ Len(log) \in Nat /\ Len(truth) \in Nat
  BY DEF AgreementInv, TypeOK
<1>2. Len(truth) = Len(log) + 1
  BY <1>1 DEF AgreementInv, TruthInv
<1>3. /\ i \in 1 .. Len(truth) /\ i + 1 \in 1 .. Len(truth)
      /\ i \in 1 .. Len(truth) - 1
  BY <1>1, <1>2
<1>4. /\ Running(truth[i]) /\ Running(truth[i + 1])
      /\ truth[i + 1] = PlayFrame(truth[i], log[i].keys, log[i].contact)
  BY <1>3 DEF AgreementInv, TruthInv
<1>5. log[i].keys \in Keys /\ log[i].contact \in Contact
  BY <1>1, LogEntryType
<1> QED
  BY <1>4, <1>5, FrameRules

(* A new frame keeps to what the flags say of the frames before. *)
LEMMA DecideFrameRules ==
    ASSUME RulesInv, DecideFrame
    PROVE  RulesInv'
<1>1. /\ log \in Seq(LogEntry) /\ truth \in Seq(Game)
      /\ Len(log) \in Nat /\ Len(truth) = Len(log) + 1
      /\ Running(truth[Len(truth)])
  BY DEF DecideFrame, RulesInv, AgreementInv, InMatch, TypeOK, TruthInv
<1>2. PICK entry \in LogEntry :
         /\ log' = Append(log, entry)
         /\ truth' = Append(truth, PlayFrame(truth[Len(truth)], entry.keys,
                                             entry.contact))
  BY DEF DecideFrame
<1> DEFINE l == Len(log)
           last == truth[l + 1]
           next == PlayFrame(last, entry.keys, entry.contact)
<1>3. Running(last) /\ truth' = Append(truth, next)
  BY <1>1, <1>2
<1>4. /\ Running(next)
      /\ \A s \in Side : RulesOf(last, next, entry.contact, s)
  BY <1>3, LogEntryType, PlayFrameKeepsPlayer, FrameRules
<1> HIDE DEF next
<1>5. /\ Len(log') = l + 1 /\ Len(truth') = l + 2
      /\ \A i \in 1 .. l + 1 : truth'[i] = truth[i]
      /\ \A i \in 1 .. l : log'[i] = log[i]
      /\ truth'[l + 2] = next /\ log'[l + 1] = entry
  <2>1. next \in Game
    BY <1>4 DEF Running
  <2> QED
    BY <1>1, <1>2, <1>3, <2>1
<1>6. AgreementInv'
  BY DecideFrameAgreement DEF RulesInv
<1>7. FlagsFollowContacts'
  <2>1. ASSUME NEW i \in 1 .. l + 2, NEW s \in Side, truth'[i].can_kick[s]
        PROVE  s \in truth'[i].pairs.feet
    <3>1. CASE i \in 1 .. l + 1
      BY <1>1, <1>5, <2>1, <3>1 DEF RulesInv, FlagsFollowContacts
    <3>2. CASE i = l + 2
      <4>1. last.can_kick[s] => s \in last.pairs.feet
        <5>1. l + 1 \in 1 .. Len(truth)
          BY <1>1
        <5> QED
          BY <5>1 DEF RulesInv, FlagsFollowContacts
      <4> QED
        BY <1>4, <1>5, <2>1, <3>2, <4>1 DEF RulesOf
    <3> QED
      BY <1>1, <3>1, <3>2
  <2> QED
    BY <1>5, <2>1 DEF FlagsFollowContacts
<1>8. ASSUME NEW s \in Side
      PROVE  /\ KicksAt(s)' \subseteq KicksAt(s) \cup {l + 1}
             /\ l + 1 \in KicksAt(s)' => Kicked(next, s)
             /\ JumpsAt(s)' \subseteq JumpsAt(s) \cup {l + 1}
             /\ l + 1 \in JumpsAt(s)' => Jumped(next, s)
  <2>1. \A i \in 1 .. l : i + 1 \in 1 .. l + 1 /\ truth'[i + 1] = truth[i + 1]
    BY <1>1, <1>5
  <2>2. l + 1 + 1 = l + 2 /\ truth'[l + 1 + 1] = next
    BY <1>1, <1>5
  <2>3. 1 .. Len(log') = 1 .. l \cup {l + 1}
    BY <1>1, <1>5
  <2> QED
    BY <2>1, <2>2, <2>3 DEF KicksAt, JumpsAt, Kicked, Jumped
<1>9. TimesFollowKicks'
  <2>1. ASSUME NEW s \in Side, NEW j \in KicksAt(s)', NEW i \in j .. l + 1
        PROVE  truth'[i + 1].kick_time[s] <= i - j
    <3>0. /\ j \in 1 .. l + 1 /\ i \in 1 .. l + 1
          /\ j = l + 1 \/ j \in KicksAt(s)
      BY <1>1, <1>5, <1>8 DEF KicksAt
    <3>1. CASE j = l + 1
      <4>1. i = l + 1 /\ i - j = 0 /\ i + 1 = l + 2
        BY <1>1, <3>1
      <4>2. next.kick_time[s] = 0
        BY <1>4, <1>8, <3>1 DEF RulesOf
      <4> QED
        BY <1>5, <4>1, <4>2
    <3>2. CASE j # l + 1 /\ i # l + 1
      <4>1. j \in KicksAt(s) /\ i \in j .. Len(log) /\ i + 1 \in 1 .. l + 1
        BY <1>1, <3>0, <3>2
      <4>2. truth[i + 1].kick_time[s] <= i - j
        BY <4>1 DEF RulesInv, TimesFollowKicks
      <4> QED
        BY <1>5, <4>1, <4>2
    <3>3. CASE j # l + 1 /\ i = l + 1
      <4>1. j \in KicksAt(s) /\ l \in j .. Len(log)
        BY <1>1, <3>0, <3>3
      <4>2. last.kick_time[s] <= l - j
        BY <4>1 DEF RulesInv, TimesFollowKicks
      <4>3. next.kick_time[s] <= last.kick_time[s] + 1
        BY <1>4 DEF RulesOf
      <4>4. next.kick_time[s] \in Nat /\ last.kick_time[s] \in Nat
        BY <1>3, <1>4, KickDelayAssumption DEF Running, Game
      <4>5. i + 1 = l + 2 /\ i - j = l - j + 1 /\ l - j \in Int
        BY <1>1, <3>0, <3>3
      <4> HIDE DEF last
      <4>6. next.kick_time[s] <= i - j
        BY <4>2, <4>3, <4>4, <4>5
      <4> QED
        BY <1>5, <4>5, <4>6
    <3> QED
      BY <3>1, <3>2, <3>3
  <2> QED
    BY <1>5, <2>1 DEF TimesFollowKicks
<1>10. GroundedSinceJumps'
  <2>1. ASSUME NEW s \in Side, NEW j \in JumpsAt(s)', NEW i \in j .. l + 1,
               truth'[i + 1].grounded[s]
        PROVE  \E k \in j + 1 .. i : s \in log'[k].contact.ground
    <3>0. /\ j \in 1 .. l + 1 /\ i \in 1 .. l + 1
          /\ j = l + 1 \/ j \in JumpsAt(s)
      BY <1>1, <1>5, <1>8 DEF JumpsAt
    <3>1. CASE j = l + 1
      <4>1. i = l + 1 /\ i + 1 = l + 2
        BY <1>1, <3>1
      <4>2. ~next.grounded[s]
        BY <1>4, <1>8, <3>1 DEF RulesOf
      <4> QED
        BY <1>5, <2>1, <4>1, <4>2
    <3>2. ASSUME j \in JumpsAt(s), NEW m \in j .. l, truth[m + 1].grounded[s]
          PROVE  \E k \in j + 1 .. m : s \in log'[k].contact.ground
      <4>1. PICK k \in j + 1 .. m : s \in log[k].contact.ground
        BY <3>2 DEF RulesInv, GroundedSinceJumps, LandedSince
      <4>2. k \in 1 .. l
        BY <1>1, <3>0, <4>1
      <4> QED
        BY <1>5, <4>1, <4>2
    <3>3. CASE j # l + 1 /\ i # l + 1
      <4>1. j \in JumpsAt(s) /\ i \in j .. l /\ i + 1 \in 1 .. l + 1
        BY <1>1, <3>0, <3>3
      <4>2. truth[i + 1].grounded[s]
        BY <1>5, <2>1, <4>1
      <4> QED
        BY <3>2, <4>1, <4>2
    <3>4. CASE j # l + 1 /\ i = l + 1
      <4>1. j \in JumpsAt(s) /\ l \in j .. l /\ i + 1 = l + 2
        BY <1>1, <3>0, <3>4
      <4>2. last.grounded[s] \/ s \in entry.contact.ground
        BY <1>4, <1>5, <2>1, <4>1 DEF RulesOf
      <4>3. CASE last.grounded[s]
        <5>1. PICK k \in j + 1 .. l : s \in log'[k].contact.ground
          BY <3>2, <4>1, <4>3
        <5>2. k \in j + 1 .. i
          BY <1>1, <3>0, <3>4, <5>1
        <5> QED
          BY <5>1, <5>2
      <4>4. CASE s \in entry.contact.ground
        <5>1. l + 1 \in j + 1 .. i /\ s \in log'[l + 1].contact.ground
          BY <1>1, <1>5, <3>0, <3>4, <4>4
        <5> QED
          BY <5>1
      <4> QED
        BY <4>2, <4>3, <4>4
    <3> QED
      BY <3>1, <3>3, <3>4
  <2> QED
    BY <1>5, <2>1 DEF GroundedSinceJumps, LandedSince
<1> QED
  BY <1>6, <1>7, <1>9, <1>10 DEF RulesInv

(* The rules hold of every true game. *)
LEMMA RulesHold == Spec => []RulesInv
<1>1. Init => RulesInv
  <2>1. Init => /\ FlagsFollowContacts
                /\ \A s \in Side : KicksAt(s) = {} /\ JumpsAt(s) = {}
    BY DEF Init, FlagsFollowContacts, KicksAt, JumpsAt
  <2> QED
    BY <2>1, InitAgreement DEF RulesInv, TimesFollowKicks, GroundedSinceJumps
<1>2. RulesInv /\ [Next]_vars => RulesInv'
  <2> SUFFICES ASSUME RulesInv, [Next]_vars PROVE RulesInv'
    OBVIOUS
  <2>1. AgreementInv'
    BY StepAgreement DEF RulesInv
  <2>2. CASE \E nbr \in Numbering : StartMatch(nbr)
    <3>1. /\ truth' = <<StartGame(Numbered(NewGame, 0))>> /\ log' = << >>
          /\ Len(truth') = 1 /\ Len(log') = 0
      BY <2>2 DEF StartMatch
    <3>2. \A s \in Side : ~truth'[1].can_kick[s]
      BY <3>1 DEF StartGame, Numbered, NewGame
    <3>3. FlagsFollowContacts'
      BY <3>1, <3>2 DEF FlagsFollowContacts
    <3>4. \A s \in Side : KicksAt(s)' = {} /\ JumpsAt(s)' = {}
      BY <3>1 DEF KicksAt, JumpsAt
    <3> QED
      BY <2>1, <3>3, <3>4 DEF RulesInv, TimesFollowKicks, GroundedSinceJumps
  <2>3. CASE DecideFrame
    BY <2>3, DecideFrameRules
  <2>4. CASE UNCHANGED <<log, truth>>
    BY <2>1, <2>4 DEF RulesInv, FlagsFollowContacts, TimesFollowKicks,
       GroundedSinceJumps, KicksAt, JumpsAt, LandedSince
  <2> QED
    BY <2>2, <2>3, <2>4
       DEF Next, ShowFrame, ConfirmFrame, DoRollback, EndGameOf, Reset,
           RestartOf, vars
<1> QED
  BY <1>1, <1>2, PTL DEF Spec

-----------------------------------------------------------------------------
(* A player kicks only a ball at its feet, and not one that a goal has     *)
(* just taken away: OnTriggerExit() clears the flag in the very frame in   *)
(* which the contact ends.                                                 *)
THEOREM KicksAlwaysReachTheBall == Spec => []KicksReachTheBall
<1>1. RulesInv => KicksReachTheBall
  <2> SUFFICES ASSUME RulesInv, NEW s \in Side, NEW i \in KicksAt(s)
               PROVE  /\ s \in log[i].contact.feet
                      /\ truth[i + 1].score = truth[i].score
    BY DEF KicksReachTheBall
  <2>1. i \in 1 .. Len(log) /\ Kicked(truth[i + 1], s)
    BY DEF KicksAt, Kicked
  <2>2. RulesOf(truth[i], truth[i + 1], log[i].contact, s)
    BY <2>1, TrueFrame DEF RulesInv
  <2>3. truth[i].can_kick[s] => s \in truth[i].pairs.feet
    <3>1. i \in 1 .. Len(truth)
      BY <2>1 DEF RulesInv, AgreementInv, TruthInv, TypeOK
    <3> QED
      BY <3>1 DEF RulesInv, FlagsFollowContacts
  <2> QED
    BY <2>1, <2>2, <2>3 DEF RulesOf
<1> QED
  BY <1>1, RulesHold, PTL

(* A second passes between two kicks of a player: the kick time, which     *)
(* every update advances by at most one, starts again with every kick.     *)
THEOREM KicksAlwaysSpaced == Spec => []KicksAreSpaced
<1>1. RulesInv => KicksAreSpaced
  <2> SUFFICES ASSUME RulesInv, NEW s \in Side,
                      NEW i \in KicksAt(s), NEW j \in KicksAt(s), i < j
               PROVE  j - i >= KickDelay
    BY DEF KicksAreSpaced
  <2>1. /\ i \in 1 .. Len(log) /\ j \in 1 .. Len(log)
        /\ Kicked(truth[j + 1], s)
    BY DEF KicksAt, Kicked
  <2>2. /\ RulesOf(truth[j], truth[j + 1], log[j].contact, s) /\ Running(truth[j])
    BY <2>1, TrueFrame DEF RulesInv
  <2>3. truth[j].kick_time[s] + 1 >= KickDelay
    BY <2>1, <2>2 DEF RulesOf
  <2>4. truth[j].kick_time[s] <= j - 1 - i
    <3>1. j - 1 \in i .. Len(log) /\ j - 1 + 1 = j
      BY <2>1 DEF RulesInv, AgreementInv, TypeOK
    <3> QED
      BY <3>1 DEF RulesInv, TimesFollowKicks
  <2>5. truth[j].kick_time[s] \in Nat
    BY <2>2, KickDelayAssumption DEF Running, Game
  <2> QED
    BY <2>1, <2>3, <2>4, <2>5, KickDelayAssumption
<1> QED
  BY <1>1, RulesHold, PTL

(* Between two jumps of a player it has touched the ground: a jump clears  *)
(* the grounded flag, which only the ground sets again.                    *)
THEOREM JumpsAlwaysNeedALanding == Spec => []JumpsNeedALanding
<1>1. RulesInv => JumpsNeedALanding
  <2> SUFFICES ASSUME RulesInv, NEW s \in Side,
                      NEW i \in JumpsAt(s), NEW j \in JumpsAt(s), i < j
               PROVE  \E k \in i + 1 .. j : s \in log[k].contact.ground
    BY DEF JumpsNeedALanding
  <2>1. /\ i \in 1 .. Len(log) /\ j \in 1 .. Len(log)
        /\ Jumped(truth[j + 1], s)
    BY DEF JumpsAt, Jumped
  <2>2. RulesOf(truth[j], truth[j + 1], log[j].contact, s)
    BY <2>1, TrueFrame DEF RulesInv
  <2>3. CASE s \in log[j].contact.ground
    <3>1. j \in i + 1 .. j
      BY <2>1
    <3> QED
      BY <2>3, <3>1
  <2>4. CASE truth[j].grounded[s]
    <3>1. j - 1 \in i .. Len(log) /\ j - 1 + 1 = j
      BY <2>1 DEF RulesInv, AgreementInv, TypeOK
    <3>2. LandedSince(s, i, j - 1)
      BY <2>4, <3>1 DEF RulesInv, GroundedSinceJumps
    <3>3. PICK k \in i + 1 .. j - 1 : s \in log[k].contact.ground
      BY <3>2 DEF LandedSince
    <3>4. k \in i + 1 .. j
      BY <2>1, <3>3
    <3> QED
      BY <3>3, <3>4
  <2> QED
    BY <2>1, <2>2, <2>3, <2>4 DEF RulesOf
<1> QED
  BY <1>1, RulesHold, PTL
=============================================================================
