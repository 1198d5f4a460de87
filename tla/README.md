# Head Shot in TLA+

Head Shot is a two-player football game over the network. Each client runs the
whole game locally, sixty frames per second. A client never waits for the other:
it plays on with a prediction of the remote input (the last one it received) and,
when a received input differs, recomputes the shown game from the last confirmed
frame. The player with number 0, the *master*, confirms frames and sends a
checksum for each; the other one, the *follower*, confirms the same frames and
compares. This directory models that protocol, the rules of the game it plays, the
rooms and menus around it and the engine below it, checks the models with TLC and
proves theorems about them with TLAPS.

## The system

| Component | Code | State | Operations |
|---|---|---|---|
| Rollback manager | `common/{include,src}/rollback.*` | inputs of both players by frame, confirmed and shown game, five counters | `SetPlayerInput`, `SetOtherPlayerInput`, `DoRollback`, `ConfirmFrame`, `IncreaseCurrentFrame`, `Reset`, `RegisterGame` |
| Match session (Application) | `common/{include,src}/application.*`, `packet.h` | `packet_queue`, the unconfirmed inputs `inputs_`/`frames_`, `game_time_` | `Run`, `HandlePacket`, `SendFrameConfirmation`, `TearDown` |
| Network adapter | `common/{include,src}/network.*` | `is_connected_`, the Photon client | `Service`, `RaiseEvent`, `customEventAction`, `ReceiveEvent`, join and leave callbacks |
| Game rules | `common/{include,src}/Game.*` | `GameState`, both inputs, grounded and can-kick flags, kick times, scores | `StartGame`, `FixedUpdate`, `ProcessInput`, `Copy`, `CheckSum`, `EndGame`, `Restart`, contact callbacks |
| Physics world | `engine/{include,src}/{World,Body,Collider}.*`, `Refs.h` | bodies and colliders in slots with a generation each, the pairs in contact | create, get, destroy, `Update` |
| Quad tree | `engine/{include,src}/QuadTree.*` | five nodes at the maximum depth of 1, an index of the next free one | `SetUpRoot`, `Insert`, `SubdivideNode` |
| Contact | `engine/{include,src}/Contact.*` | none | impulses and interpenetration |
| Allocators | `engine/include/Allocators.h` | linear, stack, free-list and pool arenas | `Allocate`, `Deallocate`, `Reset` |
| Renderer and menu | `common/{include,src}/{Renderer,Image2D,raylib_wrapper}.*` | `isWaitingOtherPlayer`, sprites | drawing, the start and main-menu buttons |
| Timer, Audio, Math, Tracy, Photon | `engine/src/Timer.cpp`, `common/src/Audio.cpp`, `libs/` | clock, music, none, none, sockets | -- |

How they interact: `Application::Run` is one loop. Each iteration calls
`Network::Service`, which dispatches the events that arrived; `customEventAction`
pushes each on `packet_queue`. The loop then runs as many frames as the time
elapsed asks for. A frame increments the frame counter, handles the queued
packets (`HandlePacket`, which calls into the rollback manager and raises
confirmations), samples the keys, raises one unreliable event with *all* the
unconfirmed inputs, and updates the game. After 5400 frames the client leaves the
room. The contact callbacks of the world call back into the game, in the middle
of the collision loop. The renderer's two buttons join a room and restart; a button acts
while it is drawn, after the rest of the iteration of `Run`. The world finds its
pairs of colliders with the quad tree, and all of it draws on a heap allocator.

What is hard: two clients interleave; one may be any number of frames ahead;
unreliable events disappear; a received list may reach beyond the receiver's
current frame; confirmations and acknowledgements carry no frame number, so
positions in two lists on two machines must stay paired; a client may leave while
the other plays on; undefined behaviour (`back()` or `erase(begin())` of an empty
vector, an iterator walked past the end) is one lost pairing away. Around a match,
joining, leaving and their answers are asynchronous while the buttons act at once,
and each of five objects must be reset by somebody before the next match.

What makes each component correct:

* *session and rollback*: received inputs are the ones the other player sampled;
  a frame is confirmed with both sampled inputs; both players confirm the same
  game; skipping a rollback never leaves a wrong game on the screen; no packet
  blocks the queue; no step is undefined; the match ends;
* *network adapter and menu*: the players of a room have different numbers and both
  start; a match begins with fresh counters and only ever sees packets of its own
  room; the menu says "Waiting" only to somebody who waits;
* *game rules*: the two points of view run the same update; flags follow contacts;
* *world*: a slot has one owner at a time; contacts begin and end when overlaps do;
* *quad tree*: every overlapping pair shares a leaf, and no pair is looked at twice
  as long as the root is not divided;
* *allocators*: blocks in use are disjoint, inside the arena, and none is lost.

## Modules

| Module | What it is |
|---|---|
| `Rollback` | class `Rollback` as operators on a record with the members of the class. No variables: it is the data type both players use. |
| `Session` | the match: two players, their rollback managers, queues and lists, the events in flight. All the actions and properties. |
| `Lockstep` | what a match promises: inputs are sampled frame by frame, the master decides frames in order, the follower repeats its decisions. |
| `SessionProofs` | lemmas about the operators of `Rollback`, and about `Min` and `FindFrame`; the type invariant of `Session`, proved. |
| `InputsProofs` | the proofs that inputs arrive true and in order. |
| `ConfirmedProofs` | the proofs that frames are confirmed with the true inputs, that no confirmation is lost, and that `Session` implements `Lockstep`. |
| `DefinedProofs` | the proofs that, before a premature confirmation, no step is undefined, each player keeps exactly the unconfirmed inputs, and the game on the screen is the one a run from the start would show. |
| `GameRules` | class `Game` as operators on a record: keys, flags, kick times, scores, contact callbacks, copy, restart. |
| `Replicas` | the shown and the confirmed game of each client over several matches, against the game of the inputs really held. |
| `MCReplicas` | key sets and contacts for TLC. |
| `ReplicasProofs` | what each step of an update does to a game, field by field, and the proofs that the games agree and that kicks and jumps keep the rules. |
| `Lifecycle` | from the menu to a match and back: connection, rooms, buttons, the end of a match, the resets between two. |
| `MCLifecycle` | symmetry of the clients for TLC. |
| `LifecycleProofs` | the proofs of all properties of the life cycle. |
| `Rematch` | `Session` started with the lists an earlier match left. |
| `QuadTree` | class `QuadTree` as operators on a record, with the comparison of rectangles. |
| `World` | class `World`: slots of bodies and colliders, the update and its pass over the pairs, on `QuadTree`. |
| `MCWorld` | a small plane for TLC. |
| `WorldProofs` | lemmas about lists, loops and the quad tree, and the proofs of all properties of the world. |
| `Allocators` | the linear, the stack and the pool arena. |
| `AllocatorsProofs` | the proofs of all properties of the arenas. |

### From the code to `Rollback` and `Session`

* `rollback[p]` has one field per member of the class, with its name. `confirmed`
  and `current` stand for the two `Game` objects: a game is the history of the
  inputs its updates were given. `FixedUpdate` draws on nothing else and
  `Game::Copy` copies everything it reads, so equal histories give equal games
  within one match, and different histories are told apart even where the real
  games happen to coincide (that equal histories give equal games is what `Replicas` is about). `CheckSum` is the history itself: that two different
  games may have the same sum in the code is left out.
* `inputs_` and `frames_` are always changed together; `unacked[p]` is the list of
  their pairs. `packet_queue[p]` is the queue; `net[p]` the events under way to
  player `p`.
* A frame of the code is `BeginFrame` (or the end of the match), then one
  `HandleInput`, `HandleAck` or `HandleConfirmation` per queued packet, then
  `EndFrame`. A frame neither blocks nor reads the network, hence no other action
  runs while `pc[p] # "loop"`; between two frames everything interleaves. This is
  without loss: what a player does inside a frame touches its own state, and the
  events it raises are only appended to the other's channel. Several frames in one
  iteration of the loop, and an iteration without a frame, are both covered
  because an arrival is never forced between two frames.
* `std::find_if` is `FindFrame`, with the position after the last one as `end()`.
  Wherever the code dereferences an iterator, indexes an array or erases the
  first element, a `...Defined` operator says when that is allowed. When it is
  not, C++ leaves the step undefined and the player's `state` becomes
  `"Undefined"`: it never acts again. What such a build would go on to do is not
  modelled, and no property speaks of it; `NoUndefinedStep` says when it cannot happen.
* `kGameFinished` ends a player's part; the room drops the events meant for it
  (`LeaveRoom`). The ghost variable `premature` records the frames that the master
  confirmed before it sampled its own input (see *What the code gets wrong*).
* The transport is Photon, external: per sender, events arrive in the order they
  were raised, reliable ones always and unreliable ones (inputs) possibly never.
  Photon drops an unreliable event that arrives late, so there is neither
  reordering nor duplication (`opRaiseEvent` in `LoadBalancing-cpp/src/Client.cpp` under
  `libs/PhotonNetwork`). How many frames an event takes is unbounded.

### From the code to `GameRules` and `Replicas`

* A game record has the members of `Game` that rules read or write, per side
  instead of per colour-named member. Positions, velocities and shapes are
  abstracted in two ways. What the physics decides, the *contacts* of an update
  (whose feet the ball overlaps, whose goal it is in, who rests on the ground), is
  chosen freely. What the rules do to the physics is the set of *forces* of the
  update, friction included. `pairs` is `_colRefPairs`. `in_air` is a ghost: the
  players put at their starting positions that have not touched the ground since.
* `FixedUpdate` composes the same steps in the order of the code: the world with
  its callbacks, the kick times, the keys, friction. `WorldUpdate` stands for one
  pass over the pairs of colliders. The ball is collider 0, hence its pairs with the
  goals come first, then those with the feet (also of collider 0), then ground and
  players: a goal moves everybody before feet and ground are looked at
  (`FeetSeen`, `GroundSeen`). The 13 colliders of a game set up once fit in the root
  of the quad tree (16), so no pair is missed. No frame updates a game set up twice
  (`WorldsAreSetUpOnce` of `Lifecycle`).
* A kick time is a count of updates that stops at a second (`KickDelay`): the code
  lets the float grow but only compares it with 1.
* `Replicas` gives each client the two games it has in the code. A step of the
  model is one update of one of them (`ShowFrame`, `ConfirmFrame`), a copy
  (`DoRollback`), the end of a match, `Rollback::Reset`, the main-menu button, or the
  start of a match. When a frame is confirmed and which prediction a shown frame
  gets is left open, so every schedule of `Session` is among those of `Replicas`,
  and `Session`'s abstraction of a game to the history of its inputs rests on
  `GamesAgree`. `exact` is a ghost: the shown game has made the updates of the true
  one. As long as that holds, the physics makes the same contacts in both; the
  arithmetic is deterministic, which is assumed of two builds on two machines.

### From the code to `Lifecycle` and `Rematch`

* One action is one step of an iteration of `Run` (`application.cpp:24-108`): an event
  dispatched by `Network::Service`, and then what the state of the game asks for
  together with the button drawn at the end of the iteration. `EndOfMatch` and
  `GameFinished` therefore each have two disjuncts: without a click, and with one
  (`Restart`). A frame (`RunFrame`) advances the counter, keeps any part of the queue
  (`HandlePacket` may return early) and raises an event; what it means is the subject
  of `Session`.
* `current_frame`, `packet_queue`, `player_nbr`, `isWaitingOtherPlayer` and
  `is_connected` are the members of these names. A packet is the room it was raised in.
  `shown_world` and `confirmed_world` count how often `StartGame` and
  `RegisterGame` set up the world of a game that was not cleared in between: a
  world set up twice holds twice its colliders.
* The server is external: `ServeJoin`, `RefuseJoin` and `ServeLeave` say when Photon answers,
  `link` what the client library is doing. Rooms have two seats and number their
  players upwards, never reusing a number (the code looks for number 2 only).
* A connection may be lost in every state (`DisconnectReturn`): `disconnectReturn` and
  `connectionErrorReturn` only print, so `is_connected_` and the text of the menu stay as
  they are, the events under way are gone, and no other connection is made (`CutOff`).
  The game itself goes on, alone. The server notices at any later time and takes the
  client out of its room (`ServeLeave`), as it does after `TearDown`.
* Two ghosts: `hasty` holds the clients that clicked "main menu" before the
  iteration that cleans up, or before their departure was answered; `stranded`
  those that wait for nothing, since their join failed or their connection was lost
  as they waited. Properties with such an exception name it.
* `Rematch` is `Session` with another `Init`: `unacked` starts with any list of
  consecutive frames up to the last one. `UnackedInv` (proved in `InputsProofs`) says
  that a match leaves such a list, and at least one entry is left since the last
  frame's input is appended after the last `HandlePacket`.

### From the code to `World` and `QuadTree`

* `bodies` and `colliders` are the vectors, with an element per slot. The
  first free slot is taken, or the vector is doubled. A destroyed object leaves its
  flags to the next owner of its slot (`LiveBody`, `LiveCollider`). No generation index ever
  changes in the code, so a reference is an index and "No body found !" cannot happen.
* `Update` is `UpdateBodies` and `SetUpQuadTree`; then `SkipPair`, `Collide` and
  `Trigger` each look at one pair of a leaf, in the order of the code. What
  moves a body (forces before the pass; the resolution of a collision or the
  listener in the middle of it) may move it anywhere. The listener is always set,
  as the game does. `ContactsAfter` is the comparison with `_colRefPairs`.
* Shapes are rectangles, so a pair overlaps when its bounding boxes do. The
  coordinates are integers; the hull of all boxes starts, as in the code, at the
  smallest positive float (0 here) for its maxima.
* `settled` is a ghost: since the last pass began nobody moved and no collider was
  created, and the tree was not crowded (more than `MaxColNbr` colliders).

### From the code to `Allocators`

`top` is `_offset` or `_top`, `list` the `_poolList`, `live` a ghost with the blocks in
use. Addresses count from the start of the arena. A request that does not fit throws
and is no step. Callers return a block once, and those of a stack arena the newest
first: `StackAllocator::Deallocate` takes the size off the top, whichever block it is
given. Alignment is not in the model since the code adds none.

A definition commented *Variant* sits before the one it varies. Nothing uses it:
it is a plausible mistake in that piece of code, kept to see that the property
aimed at it does fail when it takes the other's place.

## Runs

| Run | Configuration | Checks |
|---|---|---|
| `session_safety` | 3 frames, 2 inputs | `TypeOK`, `ReceivedInputsAreTrue`, `ConfirmedInputsAreTrue`, `SpeculationExact`, `NoPacketBlocksTheQueue`, `UnackedAreTheUnconfirmed`, `ConfirmationsAreDelivered`, `NoUndefinedStep`, `ImplementsLockstep` |
| `session_liveness` | 2 frames, 2 inputs | `MatchEnds` |
| `replicas_agreement` | 1 client, 3 frames, 1 match | `TypeOK`, `GamesAgree`, `KicksReachTheBall`, `KicksAreSpaced`, `JumpsNeedALanding` |
| `replicas_rematch` | 1 client, 2 frames, 2 matches | `GamesAgree` |
| `replicas_kick` | 1 client, 1 frame, 2 matches | `KickFromTheStart`, which the code violates |
| `replicas_grounded` | 1 client, 2 frames, 1 match | `GroundedOnTheGround`, which the code violates |
| `session_divergence` | 3 frames, 2 inputs | `ChecksumsAgree`, which the code violates |
| `session_rematch` | 2 frames, 2 inputs, any leftover lists | `OnlyConfirmedInputsAreErased`, which the code violates |
| `lifecycle` | 3 clients, 2 rooms, 4 joins, 1 frame, no loss | `TypeOK`, `PlayersAreNumbered`, `WorldsAreSetUpOnce`, `NobodyIsLeftBehind`, `PacketsAreOfTheRoom`, `MatchesStartFresh` |
| `lifecycle_losses` | 3 clients, 2 rooms, 3 joins, 1 frame, 3 losses | `PlayersAreNumbered`, `WaitingMeansJoining`, `NobodyIsLeftBehind` |
| `world` | 2 bodies, 3 colliders, 2 per node, 2 positions | `TypeOK`, `LiveRefsAreDistinct`, `OverlapsShareALeaf`, `EveryPairOnce`, `ContactsFollowOverlaps` |
| `allocators` | arena of 8, header of 2, requests of 1 and 3, pool of 4 blocks | `TypeOK`, `BlocksAreDisjoint`, `OverrunIsAtMostAHeader`, `NothingIsLost` |

Bounds. In `Session`, `GameFrameNbr` is the only one: the length of a match (5400 in the code)
bounds every counter, list and channel; nothing else is cut off. Three frames are
enough for a player to be two frames ahead, for a list to have a first, a middle
and a last element, to lose an event between two delivered ones, to cap a list at
the current frame, to confirm several frames at once and to have two
confirmations in flight. Two inputs tell a right prediction from a wrong one. A
match of four frames with at most two events in flight per direction (4.7 million
states) was checked with the same result. Liveness is checked with two frames, as
the temporal check grows much faster than the state space.

In `Replicas` clients share nothing but the true game, so one client, with either
number, is enough. Two sets of keys (none; right, jump and kick at once) and three
contacts (none; all on the ground with the ball at both players' feet; a goal with the
ball at a foot) let every flag be set, kept and cleared, and three frames with a
`KickDelay` of 2 let a player kick, be refused and kick again. The proofs cover
every other value.

In `Lifecycle` two clients play and the third takes the seat one of them leaves. Two
rooms let a client be in one while packets of the other are under way. Four joins let both
players of a room leave and come back, and a third one join. `GameFrameNbr` is 1: a match
has one frame before the one that ends it, which is all that the queue and the counter need.
`MaxLosses` bounds the clients without a connection at a time. Losses and second
matches multiply each other, so they have a run each: in `lifecycle_losses` every
client may lose its connection anywhere, with one join less. Four joins and one loss
together (5.5 million states) were checked too, with the same result for all properties,
and the proofs have no such bound.

In `World` three colliders are one more than a node holds, so the root is divided; an
initial size of 1 makes both vectors grow; two positions make a square touch the
bar of another body or not, with boxes that lie on the borders of quarters. In
`Allocators` the linear and the stack arena take several mixes of the two requests,
up to the last byte and beyond; the proofs cover every other size.

Fairness. `Spec` of `Session` has weak fairness of `FrameStep(p)` for each player and of
nothing else: `Run` loops until the window closes and a frame is due whenever
1/60 s of real time has passed, whatever the network does. No event has to
arrive. `MatchEnds` therefore says that losing everything does not keep a player
in the match.

`Lifecycle` states no fairness: a window may close, a connection may be lost and a server
may never answer, so
nothing has to happen. What must not happen is stated as safety:
`NobodyIsLeftBehind` says that a player whose partner arrived is playing, done, cut off,
or has the event that starts it on its way.

Deadlock is checked for `Session`, where `MatchOver` is the only state with no step but
stuttering, and for `World` and `Allocators`. It is not for `Replicas`, where the bound on
the number of matches leaves the clients in the menu, nor for `Lifecycle`, where all
the windows may be closed; nothing there waits for anything else.

## What the code gets wrong

`SendFrameConfirmation` means to stop at the local current frame
(`application.cpp:246-257`, and the guard at line 262 with its comment "Tried to
confirm a frame greater than the local current frame."). But `HandlePacket` runs
*before* the local input of the current frame is sampled. When the follower is
ahead and its newest input is the one of the master's current frame, the master
confirms that frame with its own input still 0. The list sent along ends one frame
earlier; the follower confirms the frame with a predicted or a later input, and
takes the branch that reports "Not same checksum for frame: "
(`application.cpp:213-216`). `session_divergence` shows it within one frame of
lead. At frame 0 the list sent is empty, and the follower calls `back()` on an
empty vector. The properties that depend on it are stated up to the first
premature confirmation, with `premature` or `Untainted`; `ReceivedInputsAreTrue`
and `NoPacketBlocksTheQueue` hold in any case.

`Game::Restart` and `Game::StartGame` leave kick times and flags as the last match
left them, against `Game.h:49-50` ("initially set to 1 second so the player can kick
from the start"). `replicas_kick` kicks in the last frame of a match and starts the
next one with a kick time of 0. The confirmed game is made anew, so until the first
rollback the shown game is not the one being confirmed (`GamesAgree` speaks of
`exact` games for this reason).

`Game::ResetPositions` puts the players into the air and leaves the grounded flags,
against `Game.h:46` ("Indicates whether the blue player is currently on the ground.").
`replicas_grounded` scores a goal with a player on the ground. Both machines do
the same, so the games still agree.

The end of a match clears everything but `inputs_` and `frames_`
(`application.cpp:90-98`). In the next match the lists of unconfirmed inputs begin
with those left over, at least one, and the first acknowledgement erases one of them
(`session_rematch`), against `application.cpp:219-221`: "he can erase the input at the
confirmed frame in its vector of inputs." The lists trail from then on; near the end
of the match `std::find_if` finds the frames of the old match first.

More of what the models show, as exceptions stated in properties:

* a click on "main menu" in the very iteration that ends the match skips `Rollback::Reset`
  (`hasty`): the next match starts with the old frame counter and ends at once. The
  world of the confirmed game is set up twice, with 26 colliders, but no frame steps it
  before it is cleaned (`WorldsAreSetUpOnce`). Coming back to the menu before the
  departure is answered may give a client a number of its old room
  (`PlayersAreNumbered` fails without the exception);
* the third player to join a room, after a departure, gets number 3: the match never
  starts, and its queue grows while it waits (`NobodyIsLeftBehind` is about numbers 1
  and 2). After a refused join, or a connection lost while waiting, the menu says
  "Waiting for other player" for good (`stranded` in `WaitingMeansJoining`);
* the pairs of a destroyed collider stay in `_colRefPairs`, so the next owner of the
  slot may get an exit without an enter; a crowded quad tree looks at pairs up
  to four times and may miss the end of a contact. The game destroys nothing, and a
  world set up once has 13 colliders for the 16 of a node. The crowded world of a
  hasty client (26) is never updated, so neither happens in a match;
* the check of `StackAllocator` does not count the header: the last block may end
  a header after the arena. Nothing uses this allocator.

## Proofs

`TypeCorrect` (`SessionProofs`): `Spec => []TypeOK`, for every match length and
every set of inputs. `TypeOK` is not inductive: that `BeginFrame` keeps the frame
counter within the match needs that a player in the match has not passed it, that
`EndFrame` writes inside the arrays needs that a frame is open, and that
confirming keeps `confirmed_frame` in range needs that it trails
`frame_to_confirm` by one. `FramesInv` says these three things, and
`TypeInv == TypeOK /\ FramesInv` is the inductive invariant. The assumptions are
`GameFrameNbr` a positive natural and `NoInput` an input. One lemma per action
shows that it keeps `TypeInv`; the lemmas about `Rollback` before them say the same of each
operator, and what `FindFrame` returns.

`ReceivedInputsCorrect` and `QueueNeverBlocked` (`InputsProofs`) prove
`ReceivedInputsAreTrue` and `NoPacketBlocksTheQueue`, under the same two
assumptions and with no condition on premature confirmations. Neither property is
inductive: what a player takes was decided by what the other one put in a list long
before. `InputsInv` follows each list from where it is made to where it is read:

* `UnackedInv`: the unconfirmed inputs of a player are a *slice* of what it
  sampled (consecutive frames, each with its input) that ends with the newest one.
  Only the oldest is ever erased, so a slice stays one;
* `EventsInv`: each packet in the queue of a player, then each under way to it,
  holds such a slice, and their newest frames never decrease nor lie before
  `last_remote_input_frame`. What is raised now ends with the newest sampled frame,
  hence comes last; losses and the end of a match only take packets away;
* `ReceivedInv`: the received inputs are those sampled, and for sampled frames only.

That the walk of `SetOtherPlayerInput()` reads the right element
(`MissingInputIsTrue`) is arithmetic on a slice: both iterators are as far apart as
the frame numbers. `FramesInv` is needed once more: a handler runs with a frame
open, so the player has sampled exactly the frames before the current one.

`ConfirmedInputsCorrect`, `ConfirmationsDelivered` and `LockstepImplemented`
(`ConfirmedProofs`) prove `ConfirmedInputsAreTrue`, `ConfirmationsAreDelivered` and the
refinement `ImplementsLockstep`. The difficulty is that a confirmation does not name its
frame: the follower confirms whatever frame is next. The invariant therefore numbers the
packets on their way to the follower: `Paired` says that there is a numbering that goes up
by one at each confirmation, from the follower's last confirmed frame to the master's, such
that the checksum of each confirmation is the master's game up to its number. Losing an
input, raising packets and handling the first one all carry the numbering over.
`ConfirmedInv` adds that a confirmed game is as long as its frame counter says and that
its frames before a premature one hold the sampled inputs. That condition is needed: a
confirmation raised with a premature frame carries a list that ends before its frame, and
from then on the follower may confirm a prediction. Before, `AnnouncedNext` says what the
front of the queue announces, the checksums are equal, and the confirmation is taken off.
`CountedPackets` turns the numbering into the count of `ConfirmationsAreDelivered`. For the
refinement each action is shown to be one of three (`ShowsNothing`, `MasterGoesOn`,
`FollowerGoesOn`) or to sample one input, and `PlayedInv` makes the confirmed games the
sampled inputs, in order.

`NoStepUndefined` and `UnackedExact` (`DefinedProofs`) prove `NoUndefinedStep` and
`UnackedAreTheUnconfirmed` from `PairingInv`, about states without a premature
confirmation. `AckedInv` numbers the acknowledgements on their way to the master as
`Paired` numbers the confirmations: they count from the last frame the master knows
confirmed (`Acknowledged`, read off the length of its list) to the one the follower
confirmed, so there is an input to erase for each. `KeptInv` gives the follower's list its
length. `ReachInv` says that every list under way begins no later than the frame after
the follower's last confirmed one: the newest lists may be lost and the oldest may be
late, but all of them are long enough for the frame a player looks up next
(`ListIsDefined`, `ConfirmationIsDefined`). `InTurnInv` orders the counters:
confirmed, received, current, and the follower never ahead of the master. A confirmation
whose checksum differed would leave the packet in the queue with the frame confirmed; the
numbering then has one number too many, so it does not happen before a premature one.

`SpeculationCorrect` (`DefinedProofs`) proves `SpeculationExact`. The invariant
`ShowsKnown` adds to it that the last remote input is the one of the last frame received.
`TakesKnown` is the step that matters: after `SetOtherPlayerInput()` the inputs known are
those filled in, so a replay from the confirmed game shows them (`RolledBack`, where the
confirmed game holds what the manager holds), and when no missing input differs from the
last one, neither does what was shown.

`GamesAlwaysAgree` (`ReplicasProofs`): `Spec => []GamesAgree`, for every number of
clients, matches and frames and all keys and contacts. The assumptions are the named ones of the
constants: a positive `KickDelay`, natural bounds, keys and contacts of their types.
One lemma per step of an update states its result as a predicate on the game before and
the game after (`WorldUpdated`, `TimesAdvanced`, `InputProcessed`, `Slowed`), in
which the point of view occurs only through `InputOf`, the keys of a side.
`ProcessInputFields` is the one that needs both branches of `ProcessInput()`: that
one player's keys do not change what the other's do (`TwoDrives`) makes their order
immaterial. From these, games that agree still do after the same frame
(`PlayFrameAgrees`). The inductive invariant `AgreementInv` adds that the true games
follow from each other and that a client in a match has two games in play with its
own number (`InMatch`), and that the games a match may start with are new
(`Fresh`), which is where `Rollback::Reset` comes in.

`KicksAlwaysReachTheBall`, `KicksAlwaysSpaced` and `JumpsAlwaysNeedALanding`
(`ReplicasProofs`) rest on one lemma, `FrameRules`, that says what a frame may do to
the flags and times of a player, and on an invariant that relates them to the past:
a can-kick flag implies a pair in contact, a kick time is at most the number of
frames since any kick, and a player on the ground has landed since any jump.

The games also keep their type (`TypeCorrect` of `ReplicasProofs`), a conjunct of
`AgreementInv`.

Every property of `Allocators` is proved (`AllocatorsProofs`), for arenas, headers,
blocks and requests of any size, from `ArenaInv`: the blocks of a linear and of a stack
arena lie in the order they were handed out, those of a stack edge to edge from the
start to the top; the blocks of a pool in use and those in its list are different
multiples of the block size. That no two blocks of a pool overlap is the arithmetic of
different multiples. `RemoveAtProperties` is the one lemma about sequences.

Every property of `Lifecycle` is proved (`LifecycleProofs`), the action property
`MatchesStartFresh` included, for any set of clients, any bounds and any match length, from
`LifecycleInv`. None of the properties is inductive, since
what a click or a callback may do depends on an answer that is still under way:

* `PlaceInv` relates what the game believes (`state`, `isWaitingOtherPlayer`,
  `is_connected`) to what the client library does: who plays is in a room with
  number 1 or 2 whose second player came, or has lost its connection since;
* `SeatsInv` says that the numbers of a room are below its next one and different;
* `EventsInv` orders the events on their way: the answer to a departure is the last,
  and the event that starts a match is there at most once and only for who is in the
  menu with number 1 or 2. `NobodyIsLeftBehind` needs it there, `WorldsAreSetUpOnce`
  needs it never twice;
* `WorldsInv` bounds how often the confirmed world is set up, and with it the frame
  counter, by the rooms whose second player joined. A hasty client sets it up
  once per room, so this bound and not 1 is what keeps `TypeOK` inductive. It also says
  that a confirmed world that was not cleaned goes with a frame counter past the end,
  hence `WorldsAreSetUpOnce` without an exception;
* `FreshInv` is about the clients that were not too early back in the menu. In the menu,
  unless they are cut off and will never play again, they have a reset frame counter and
  an empty queue; the first event for one that has no number yet is its own join, so it
  takes its own number; and a packet for one of the first two players comes after the event
  that starts their match (`PacketsFollow`), which is why no packet is queued before. That
  no packet crosses from one room to another follows from the answer to the departure being
  last.

`StepEffects` states what a step does to the client that makes it; `OthersUntouched` that
the others change by at most one event appended. Each part of the invariant has a lemma for
the client itself and one for the others.

Every property of `World` is proved (`WorldProofs`), for all shapes, positions, sizes of the
vectors and values of `MAX_COL_NBR`, from the assumptions on the constants: positions and
shapes have integer coordinates, a shape's minimum is not above its maximum, and all sizes are
positive. `WorldInv` has five parts. `TypeOK` and `LiveRefsAreDistinct` need
`SizesInv`, that no vector is empty: doubling an empty one makes no room (`RoomFor`).
`TreeInv` says that during a pass the tree `Holds` exactly the attached colliders, each
once in a root that is not divided or once in each quarter that its box meets, in the order
of the slots and with boxes inside the bounds. `PassInv` says that the pairs still to be
looked at name the lower slot first and that, as long as the pass is settled, every other
watched pair is remembered if and only if it overlaps. At the end of a pass nothing is left
to look at, which is `ContactsFollowOverlaps`; a pair that an earlier pass or a
destroyed collider left behind is decided when the pass comes to it. The way there:

* `HalvesShare` and `QuartersShare`: two boxes within the bounds that meet, meet one
  quarter together, borders included. The bounds must cover them (`HullCovers`), though
  the hull starts at the smallest positive float;
* `Subdivided` and `InsertHolds`: `SubdivideNode()` and `Insert()` keep `Holds`, and
  `TreeIsSetUp` carries that through the loop of `SetUpQuadTree()`;
* `PairsOfLists` and `TimesFlattened`: the two loops visit a pair as often as there are
  leaves that hold both colliders, hence once or at most four times (`PairsOfTheTree`).

The loops of `SetUpQuadTree()` and `SubdivideNode()` and `FlattenSeq` are recursive
functions. Their induction is done without an operator as parameter: `UpTo` is induction
up to a bound about a set, by way of the least element outside of it (`MinOfFinite`), and
`IterationExists` says that a loop of so many steps has a value after each.

So every safety property and every action property that a run passes is proved, and the
refinement. Only model-checked is `MatchEnds`, since liveness under fairness is out of the
prover's reach, and the four violations, which are facts about small instances: one
counterexample is all they need.

## Not modelled

* `FreeListAllocator`: the address it returns is not that of the block it takes off
  its list, so already its first allocation hands out the next header; there is no
  promise left to state, and nothing uses it. `HeapAllocator`, the only one the
  program uses, is `malloc`, and `ProxyAllocator` forwards to another one.
* Contact resolution: impulses and interpenetration are floating-point arithmetic
  with hardly any control. `World` lets a collision move both bodies anywhere. For
  the same reason there are no circles, polygons, vectors or angles.
* The timer: its clock is "any number of frames between two events".
* Drawing, sprites and sound are pure output; the two buttons are in `Lifecycle`.
* A crash: nothing is persisted, so a program that is gone is a window that was
  closed (`TearDown` in `Lifecycle`).
* The inside of Photon and of the Tracy profiler, vendored under `libs/`. They are some
  72,000 of the 75,773 lines of the repository, and so the greater part of every
  line count. Photon is modelled by how `network.cpp` uses it; the profiler has no
  effect on the state of the game.
