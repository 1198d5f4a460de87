------------------------------- MODULE GameRules -------------------------------
(***************************************************************************)
(* The rules of the game: class Game of common/include/Game.h and          *)
(* common/src/Game.cpp, called by the collision loop of                    *)
(* engine/src/World.cpp.                                                   *)
(*                                                                         *)
(* A client holds two such games: the one it shows and the confirmed one.  *)
(* Positions, velocities and shapes are abstracted to the contacts of each *)
(* update, which the user of this module chooses, and to the forces the    *)
(* rules apply in it.  An update is one call of FixedUpdate().             *)
(***************************************************************************)
EXTENDS Integers

CONSTANT
    KickDelay       \* updates that make a second: those between two kicks

ASSUME KickDelayAssumption == KickDelay \in Nat \ {0}

Side == {"blue", "red"}
Opponent(s) == IF s = "blue" THEN "red" ELSE "blue"

(* Player 0, the master client, plays blue. *)
PlayerNbr(s) == IF s = "blue" THEN 0 ELSE 1

Key == {"right", "left", "jump", "kick"}

GameState == {"kMenu", "kInGame", "kGameFinished"}

(* The contacts of one update, as far as the callbacks of Game tell them   *)
(* apart: whose feet the ball overlaps, whose goal it is in (left is       *)
(* blue's), whose body rests on the ground.  It fits in one goal only.     *)
Contact ==
    {c \in [feet : SUBSET Side, goal : SUBSET Side, ground : SUBSET Side] :
        c.goal # Side}

PlayerForce == {"right", "left", "jump", "kick", "friction"} \X Side

(* The members of Game.  "pairs" is _colRefPairs of its world, the trigger *)
(* contacts seen by the last update; "forces" are those applied since; and *)
(* "in_air" are the players put at their starting position, above the      *)
(* ground, that have not touched the ground yet.                           *)
Game ==
    [state              : GameState,
     player_nbr         : {-1} \cup Nat,
     input              : SUBSET Key,
     other_player_input : SUBSET Key,
     grounded           : [Side -> BOOLEAN],
     can_kick           : [Side -> BOOLEAN],
     kick_time          : [Side -> 0 .. KickDelay],
     score              : [Side -> Nat],
     pairs              : [feet : SUBSET Side, goal : SUBSET Side],
     forces             : SUBSET PlayerForce,
     in_air             : SUBSET Side]

NoPairs == [feet |-> {}, goal |-> {}]

(* A Game as constructed. *)
NewGame ==
    [state              |-> "kMenu",
     player_nbr         |-> -1,
     input              |-> {},
     other_player_input |-> {},
     grounded           |-> [s \in Side |-> FALSE],
     can_kick           |-> [s \in Side |-> FALSE],
     kick_time          |-> [s \in Side |-> KickDelay],
     score              |-> [s \in Side |-> 0],
     pairs              |-> NoPairs,
     forces             |-> {},
     in_air             |-> {}]

-----------------------------------------------------------------------------
(* One update of a game, piece by piece. *)

(* The goals the ball enters: a contact that lasts is reported once. *)
Entered(g, contact) == contact.goal \ g.pairs.goal

(* ResetPositions(), called in the middle of the loop by the pair of ball  *)
(* and goal, moves everybody away: the pairs that follow, those with feet  *)
(* and ground among them, no longer overlap.                               *)
FeetSeen(g, contact) ==
    IF Entered(g, contact) = {} THEN contact.feet ELSE {}
GroundSeen(g, contact) ==
    IF Entered(g, contact) = {} THEN contact.ground ELSE {}

(* OnTriggerEnter() and OnTriggerExit() of the ball and the feet of s. *)
CanKickOnEnterOnly(g, feet, s) ==   \* variant: no OnTriggerExit()
    s \in feet \/ g.can_kick[s]
CanKick(g, feet, s) ==
    \/ s \in feet /\ s \notin g.pairs.feet
    \/ g.can_kick[s] /\ ~(s \in g.pairs.feet /\ s \notin feet)

(* The score of s after the callbacks: the opponent's goal counts. *)
ScoreTaken(g, contact, s) ==    \* variant: the goal is taken off the other's score
    IF s \in Entered(g, contact) THEN g.score[s] - 1 ELSE g.score[s]
Score(g, contact, s) ==
    IF Opponent(s) \in Entered(g, contact) THEN g.score[s] + 1 ELSE g.score[s]

(* World::Update() with its callbacks.  The 13 colliders of a game set up  *)
(* once fit in the root of its quad tree, which is not divided before 17:  *)
(* every pair is looked at in every update.                                *)
WorldUpdate(g, contact) ==
    LET feet   == FeetSeen(g, contact)
        ground == GroundSeen(g, contact)
    IN  [g EXCEPT
          !.score    = [s \in Side |-> Score(g, contact, s)],
          !.can_kick = [s \in Side |-> CanKick(g, feet, s)],
          !.grounded = [s \in Side |-> s \in ground \/ g.grounded[s]],
          !.pairs    = [feet |-> feet, goal |-> contact.goal],
          !.forces   = {},
          !.in_air   = IF Entered(g, contact) # {} THEN Side ELSE @ \ ground]

(* The kick times advance.  They are only compared with a second: the      *)
(* model stops counting there.                                             *)
KickTimes(g) ==
    [g EXCEPT !.kick_time =
        [s \in Side |-> IF @[s] < KickDelay THEN @[s] + 1 ELSE @[s]]]

Jumps(g, s, keys) == "jump" \in keys /\ g.grounded[s]

KicksAnyTime(g, s, keys) ==    \* variant: without a delay
    "kick" \in keys /\ g.can_kick[s]
Kicks(g, s, keys) ==
    "kick" \in keys /\ g.can_kick[s] /\ g.kick_time[s] >= KickDelay

(* Whether the player is taken to be on the ground after its keys. *)
GroundedAfterJump(g, s, keys) == g.grounded[s]    \* variant: a jump leaves the flag
StillGrounded(g, s, keys) == g.grounded[s] /\ ~Jumps(g, s, keys)

(* What the keys of the player on side s do. *)
Drive(g, s, keys) ==
    [g EXCEPT
      !.forces = @ \cup {<<k, s>> : k \in keys \cap {"right", "left"}}
                   \cup (IF Jumps(g, s, keys) THEN {<<"jump", s>>} ELSE {})
                   \cup (IF Kicks(g, s, keys) THEN {<<"kick", s>>} ELSE {}),
      !.grounded[s]  = StillGrounded(g, s, keys),
      !.kick_time[s] = IF Kicks(g, s, keys) THEN 0 ELSE @]

(* ProcessInput(): input_ drives the blue player on the client with        *)
(* player_nbr 0 and the red one on the other.                              *)
ProcessInputAsBlue(g) ==    \* variant: the point of view is forgotten
    Drive(Drive(g, "blue", g.input), "red", g.other_player_input)
ProcessInput(g) ==
    IF g.player_nbr = 0
    THEN Drive(Drive(g, "blue", g.input), "red", g.other_player_input)
    ELSE Drive(Drive(g, "red", g.input), "blue", g.other_player_input)

(* The keys the friction of a player depends on. *)
FrictionKeys(g, s) ==
    IF g.player_nbr = PlayerNbr(s) THEN g.input ELSE g.other_player_input

Friction(g) ==
    [g EXCEPT !.forces = @ \cup
        {<<"friction", s>> : s \in
            {t \in Side : /\ g.grounded[t]
                          /\ FrictionKeys(g, t) \cap {"right", "left"} = {}}}]

FixedUpdate(g, contact) ==
    IF g.state = "kInGame"
    THEN Friction(ProcessInput(KickTimes(WorldUpdate(g, contact))))
    ELSE g

-----------------------------------------------------------------------------
(* The other operations. *)

(* The inputs of both players, as Application::Run(), DoRollback() and     *)
(* ConfirmFrame() hand them out: each game has its own point of view.      *)
SetInputs(g, keys) ==
    IF g.player_nbr = 0
    THEN [g EXCEPT !.input = keys["blue"], !.other_player_input = keys["red"]]
    ELSE [g EXCEPT !.input = keys["red"], !.other_player_input = keys["blue"]]

(* A frame: the inputs, then the update. *)
PlayFrame(g, keys, contact) == FixedUpdate(SetInputs(g, keys), contact)

(* Setup() builds a new world with everybody at the starting positions. *)
StartGame(g) == [g EXCEPT !.state = "kInGame", !.in_air = Side]

(* Everything but the state and the point of view. *)
Copy(g, other) ==
    [other EXCEPT !.state = g.state, !.player_nbr = g.player_nbr]

EndGame(g) == [g EXCEPT !.state = "kGameFinished"]

(* TearDown() empties the world and forgets the player number.  The flags  *)
(* and the kick times stay.                                                *)
Restart(g) ==
    [g EXCEPT !.state = "kMenu", !.player_nbr = -1,
              !.input = {}, !.other_player_input = {},
              !.score = [s \in Side |-> 0],
              !.pairs = NoPairs, !.forces = {}, !.in_air = {}]

(* Rollback::Reset() makes a new game. *)
RestartGame(g) == Restart(g)    \* variant: it restarts the old one
ResetGame(g) == NewGame
=============================================================================
