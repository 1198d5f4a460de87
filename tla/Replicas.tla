-------------------------------- MODULE Replicas --------------------------------
(***************************************************************************)
(* The games of the clients of a match: each one shows a game and keeps a  *)
(* confirmed one (Application::game_, Rollback::confirmed_), from its own  *)
(* point of view.  They are only worth something if a game depends on      *)
(* nothing but the inputs of its frames, which is what module Rollback     *)
(* takes a game to be.                                                     *)
(*                                                                         *)
(* "truth" is the game that the inputs really held give, frame by frame,   *)
(* from the point of view of player 0; the physics decides the contacts of *)
(* each frame.  A game that made the same updates sees the same contacts,  *)
(* whichever client it runs on; one that was given a wrong prediction may  *)
(* see any.  How inputs reach a client is the subject of module Session.   *)
(***************************************************************************)
EXTENDS GameRules, Sequences

CONSTANTS
    Client,         \* the clients: two, or one of them
    MatchLength,    \* frames of a match
    MaxMatches,     \* bound: matches played by the clients
    KeySets,        \* the combinations of keys players hold
    Contacts        \* the contacts the physics makes

ASSUME MatchLengthAssumption == MatchLength \in Nat
ASSUME MaxMatchesAssumption == MaxMatches \in Nat
ASSUME KeySetsAssumption == KeySets \subseteq SUBSET Key
ASSUME ContactsAssumption == Contacts \subseteq Contact

VARIABLES
    log,            \* the keys held and the contacts of each frame
    truth,          \* the game before the first frame and after each
    shown,          \* Application::game_ of each client
    shown_frame,    \* how many frames it has made
    confirmed,      \* Rollback::confirmed_ of each client
    confirmed_frame,    \* how many frames it has made
    exact,          \* ghost: the shown game made the updates of truth so far
    matches         \* matches started

vars == <<log, truth, shown, shown_frame, confirmed, confirmed_frame, exact,
          matches>>

LogEntry == [keys : [Side -> KeySets], contact : Contacts]

TypeOK ==
    /\ log \in Seq(LogEntry)
    /\ truth \in Seq(Game)
    /\ shown \in [Client -> Game]
    /\ shown_frame \in [Client -> Nat]
    /\ confirmed \in [Client -> Game]
    /\ confirmed_frame \in [Client -> Nat]
    /\ exact \in [Client -> BOOLEAN]
    /\ matches \in Nat

Init ==
    /\ log = << >>
    /\ truth = << >>
    /\ shown = [c \in Client |-> NewGame]
    /\ shown_frame = [c \in Client |-> 0]
    /\ confirmed = [c \in Client |-> NewGame]
    /\ confirmed_frame = [c \in Client |-> 0]
    /\ exact = [c \in Client |-> FALSE]
    /\ matches = 0

(* Each client has a player number of its own. *)
Numbering ==
    {nbr \in [Client -> {0, 1}] : \A c, d \in Client : nbr[c] = nbr[d] => c = d}

Numbered(g, nbr) == [g EXCEPT !.player_nbr = nbr]

(* The second player joins: joinRoomEventAction() and RegisterGame() on    *)
(* each client.  A game started for the first time is exact.               *)
StartMatch(nbr) ==
    /\ matches < MaxMatches
    /\ \A c \in Client :
          shown[c].state = "kMenu" /\ confirmed[c].state = "kMenu"
    /\ log' = << >>
    /\ truth' = <<StartGame(Numbered(NewGame, 0))>>
    /\ shown' = [c \in Client |-> StartGame(Numbered(shown[c], nbr[c]))]
    /\ confirmed' = [c \in Client |-> Numbered(StartGame(confirmed[c]), nbr[c])]
    /\ shown_frame' = [c \in Client |-> 0]
    /\ confirmed_frame' = [c \in Client |-> 0]
    /\ exact' = [c \in Client |-> matches = 0]
    /\ matches' = matches + 1

(* A client is about to play a new frame: its true keys and contacts. *)
DecideFrame ==
    /\ Len(log) < MatchLength
    /\ \E c \in Client :
          shown[c].state = "kInGame" /\ shown_frame[c] = Len(log)
    /\ \E entry \in LogEntry :
          /\ log' = Append(log, entry)
          /\ truth' = Append(truth, PlayFrame(truth[Len(truth)], entry.keys,
                                              entry.contact))
    /\ UNCHANGED <<shown, shown_frame, confirmed, confirmed_frame, exact, matches>>

RemoteSide(c) == IF shown[c].player_nbr = 0 THEN "red" ELSE "blue"

(* One update of the shown game, in a frame of Run() or in the loop of     *)
(* DoRollback(): the own keys are known, the remote ones may be predicted. *)
ShowFrame(c) ==
    /\ shown[c].state = "kInGame"
    /\ shown_frame[c] < Len(log)
    /\ \E prediction \in KeySets, contact \in Contacts :
          LET entry == log[shown_frame[c] + 1]
          IN  /\ exact[c] => contact = entry.contact
              /\ shown' = [shown EXCEPT ![c] =
                    PlayFrame(@, [entry.keys EXCEPT ![RemoteSide(c)] = prediction],
                              contact)]
              /\ exact' = [exact EXCEPT ![c] =
                    @ /\ prediction = entry.keys[RemoteSide(c)]]
    /\ shown_frame' = [shown_frame EXCEPT ![c] = @ + 1]
    /\ UNCHANGED <<log, truth, confirmed, confirmed_frame, matches>>

(* ConfirmFrame(): the keys of both players are known. *)
ConfirmFrame(c) ==
    /\ shown[c].state = "kInGame"
    /\ confirmed_frame[c] < shown_frame[c]
    /\ LET entry == log[confirmed_frame[c] + 1]
       IN  confirmed' = [confirmed EXCEPT ![c] =
                            PlayFrame(@, entry.keys, entry.contact)]
    /\ confirmed_frame' = [confirmed_frame EXCEPT ![c] = @ + 1]
    /\ UNCHANGED <<log, truth, shown, shown_frame, exact, matches>>

(* DoRollback() copies the confirmed game; the ShowFrame steps that follow *)
(* are the iterations of its loop.                                         *)
DoRollback(c) ==
    /\ shown[c].state = "kInGame"
    /\ shown' = [shown EXCEPT ![c] = Copy(@, confirmed[c])]
    /\ shown_frame' = [shown_frame EXCEPT ![c] = confirmed_frame[c]]
    /\ exact' = [exact EXCEPT ![c] = TRUE]
    /\ UNCHANGED <<log, truth, confirmed, confirmed_frame, matches>>

(* The last frame is over. *)
EndGameOf(c) ==
    /\ shown[c].state = "kInGame"
    /\ shown_frame[c] = MatchLength
    /\ shown' = [shown EXCEPT ![c] = EndGame(@)]
    /\ UNCHANGED <<log, truth, shown_frame, confirmed, confirmed_frame, exact,
                   matches>>

(* The kGameFinished branch of Run(): Rollback::Reset(). *)
Reset(c) ==
    /\ shown[c].state = "kGameFinished"
    /\ confirmed' = [confirmed EXCEPT ![c] = ResetGame(@)]
    /\ confirmed_frame' = [confirmed_frame EXCEPT ![c] = 0]
    /\ UNCHANGED <<log, truth, shown, shown_frame, exact, matches>>

(* The "Main menu" button, clicked after a Reset(). *)
RestartOf(c) ==
    /\ shown[c].state = "kGameFinished"
    /\ confirmed[c].state = "kMenu"
    /\ shown' = [shown EXCEPT ![c] = Restart(@)]
    /\ UNCHANGED <<log, truth, shown_frame, confirmed, confirmed_frame, exact,
                   matches>>

Next ==
    \/ \E nbr \in Numbering : StartMatch(nbr)
    \/ DecideFrame
    \/ \E c \in Client :
          \/ ShowFrame(c)
          \/ ConfirmFrame(c)
          \/ DoRollback(c)
          \/ EndGameOf(c)
          \/ Reset(c)
          \/ RestartOf(c)

Spec == Init /\ [][Next]_vars

-----------------------------------------------------------------------------
(* Two games that agree, whatever their points of view. *)
InputOf(g, s) ==
    IF g.player_nbr = PlayerNbr(s) THEN g.input ELSE g.other_player_input

SameGame(g, h) ==
    /\ \A s \in Side : InputOf(g, s) = InputOf(h, s)
    /\ g.grounded = h.grounded
    /\ g.can_kick = h.can_kick
    /\ g.kick_time = h.kick_time
    /\ g.score = h.score
    /\ g.pairs = h.pairs
    /\ g.forces = h.forces
    /\ g.in_air = h.in_air

(* The confirmed games, and each shown game that was given no wrong        *)
(* prediction since it was first started or last copied, are the true one: *)
(* the two branches of ProcessInput() drive the same players, and Copy()   *)
(* leaves nothing of a wrong prediction behind.                            *)
GamesAgree ==
    \A c \in Client : shown[c].state = "kInGame" =>
        /\ SameGame(confirmed[c], truth[confirmed_frame[c] + 1])
        /\ exact[c] => SameGame(shown[c], truth[shown_frame[c] + 1])

KicksAt(s) == {i \in 1 .. Len(log) : <<"kick", s>> \in truth[i + 1].forces}
JumpsAt(s) == {i \in 1 .. Len(log) : <<"jump", s>> \in truth[i + 1].forces}

(* A player kicks only a ball at its feet in that very frame, and not one  *)
(* that a goal has just taken away: the can-kick flag, changed by enter    *)
(* and exit events only, never outlives the contact.                       *)
KicksReachTheBall ==
    \A s \in Side : \A i \in KicksAt(s) :
        s \in log[i].contact.feet /\ truth[i + 1].score = truth[i].score

(* A second passes between two kicks of a player. *)
KicksAreSpaced ==
    \A s \in Side : \A i, j \in KicksAt(s) : i < j => j - i >= KickDelay

(* Between two jumps, a player has touched the ground. *)
JumpsNeedALanding ==
    \A s \in Side : \A i, j \in JumpsAt(s) :
        i < j => \E k \in i + 1 .. j : s \in log[k].contact.ground

(* Game.h:49-50 of the kick times: "initially set to 1 second so the       *)
(* player can kick from the start".  Restart() leaves them alone, and a    *)
(* second match is started with those of the first.                        *)
KickFromTheStart ==
    \A c \in Client : \A s \in Side :
        shown[c].state = "kInGame" /\ log = << >> =>
            shown[c].kick_time[s] >= KickDelay

(* Game.h:46 of the grounded flags: "Indicates whether the blue player is  *)
(* currently on the ground."  A goal puts the players into the air and     *)
(* leaves the flags alone, so that they may jump from there.               *)
GroundedOnTheGround ==
    \A i \in DOMAIN truth : \A s \in truth[i].in_air : ~truth[i].grounded[s]
=============================================================================
