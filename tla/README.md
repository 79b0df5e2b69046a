# A verification development for 1092iOSGame

The repository is a term's worth of SwiftUI apps for iOS. One of them,
**MonopolyGame**, is a distributed system: the players' phones share rooms
through the Firestore collection `Rooms`, without one transaction. It is the core
of this development. The others are games of one phone, whose difficulty lies in
their rules and in the races of buttons, timers and delayed callbacks. The apps
that share data do so through the Firestore client, a C++ program vendored under
`MonopolyGame/Pods/FirebaseFirestore`: its two core paths, what becomes of a write and
what is seen of a document, are modelled too.

There is no documentation in the repository, and its tests are Xcode's empty
templates. What the code is meant to do is known from the code, from its comments
and from the messages it prints.

## 1. The system

Paths are below `src/`. `M/` is `MonopolyGame/MonopolyGame/`.

### Store of game rooms (`M/ViewModels/GameRoomFirestoreViewModel.swift`, `M/Models/GameRoom.swift`)

*State.* A document per room: the owner's player id, a share key of four letters,
the list of the members' ids, whether the game is running. In each app, calls
under way, each holding the snapshot of a document it has read.

*Operations.* `createGameRoom` (search for a room of the owner, add a document,
read it back), `joinGameRoom` (find the document by its key, read it, write it
with the player appended), `quitGameRoom` (read, then write without the player,
with the next player as owner if the owner quits, or delete if the owner is
alone), `updateGameRoom` with `startGameUpdate` (read, write as running).

*Hard.* Every operation reads, and in a later callback writes a **whole** document
computed from what it read. Calls of several phones overlap, so a write may undo
what others wrote in between, bring a deleted room back, or be the last of two
joins that both took the last place. A failed read looks like an empty answer.

*Correct if* a room never shows a player twice, more players than it has places,
nobody, or a stranger; and if calls that do not overlap behave like indivisible
operations of a room.

### Pages into and out of a room (`M/Views/HomePage`, `ProfilePage`, `GameCreateJoinRoomPage`, `GameRoomWaitPage`, `PagesControl`, `M/Services/Stack`)

*State, per app.* The current page and the stack of earlier ones, the profile in
memory (with `gameRoomID`, the room the player is in), the player's document in
the collection `players`, the room on the wait page, the handle of the listener on
it and what the listener delivered last, the slots of the players' pictures, and
the calls under way.

*Interaction.* The pages call the store and get completions; a completion moves
the player to the wait page from wherever he is by then. Entering and leaving
update the player's document by calls that are independent of the store's. The
listener delivers the room's changes, and a running room moves everybody to the
game. Buttons and callbacks of one app run one at a time on its main queue.

*Hard.* Buttons pressed twice or while an answer is under way; the document and
the room answered in another order than asked; an app killed in between; the
listener's handle lost with its page; a start or a handover that reaches the
others only through the listener.

*Correct if* a player at rest has a profile that names the room he is in, nobody
goes on waiting in a room that was started, the heir of a room gets its Start
button, and no listener drags a player into the game of a room he left.

### Accounts (`M/ViewModels/PlayerFirestoreViewModel.swift`, `M/Services/Extension_*.swift`, `AuthServices`, `UploadPhoto`, `M/Views/{LoginPage,SignUpPage,CharactorPage,CreateAvatarPage}`, `M/Models/Player.swift`)

Sign-up, login, and the profile a new user makes with a drawn avatar. *State*: the
signed-in user, the document, the uploaded picture. *Hard*: a search for the
user's document followed by a creation (two presses create two), and the upload
of the picture racing the creation. *Correct if* a user has one document, with a
picture.

### Firestore client (`MonopolyGame/Pods/FirebaseFirestore/Firestore/core/src/`, `F/` below)

*State.* On disk, a queue of mutations per user, a cache of documents, and per target
the point from which the server may resume. In memory, the worker queue, the write
pipeline and the write stream, the watch stream with the aggregator of its messages,
the views, their listeners, and an opinion on being online.

*Operations.* `setData`, `getDocument`, `addSnapshotListener`, `remove`; the events of
the two streams; changes of user and of network; start-up.

*Interaction.* The app's calls are enqueued on one worker, which runs them and the
streams' events one at a time. `SyncEngine` joins `LocalStore` (disk), `RemoteStore`
(streams) and `EventManager` (listeners). A write is shown at once from the local
store, sent over the write stream, and shown by the server over the watch stream.

*Hard.* Streams break with requests under way, tokens and timers answer for streams
that are gone, answers to a write and the watch stream's news of it race, the user
changes with writes under way, and the app is killed between any two steps.

*Correct if* every write is applied in order, on its owner's behalf, and answered for
once and truly; if what is cached never goes back; and if a listener ends up with
the server's document.

### Big Two (`poker_game_app/poker_game_app/`)

`pokerCore` classifies and compares hands (pure functions with index arithmetic);
`GamePage` is a game of a human and three computers. *State*: the four hands, the
human's selection, the desk, whose turn it is, who passed, who has finished, the
coins, the delayed closures. *Hard*: the lead that comes back after all others have
passed, while finished players count as passing; state that one game leaves to the
next; the closures that give the buttons back and show the score page. *Correct if*
a leader need not beat himself, a game opens with the three of clubs, and each
game is paid for once.

### Alphabet game (`gesture-alphabetGame/gesture-alphabetGame/`)

Letters are dragged to their places before a timer runs out. *State*: the round,
the letters placed, the remaining time, the score, the page. *Hard*: the timer and
the delayed callbacks of a solved word and of the next round run into each other.

### The rest

`FinalProject` is the predecessor of MonopolyGame's accounts and pages, nearly
line for line the same. `FirebaseSwiftUIDemo` keeps a list in step with a
collection through a listener. `Yuanxiao_cai_dengmi` is a one-page quiz.
`3D-Game-test` and its kin are SceneKit experiments. MonopolyGame's board is not
there yet: `gamePlay` is empty and `GameScenePage` a placeholder; the CSV readers
of its map and cards are pure. The rest of `Pods/` (gRPC, BoringSSL, leveldb, the other
Firebase libraries) is vendored and outside.

`PROJECT.json` lists these components with their status, and the hazards of the
code at their lines with the properties that watch them.

## 2. Plan

| module | of | what | state |
|---|---|---|---|
| `RoomMembership` | - | abstract: what rooms promise, in indivisible steps | done |
| `GameRoomFirestore` | store | every call as asked, answered, returned | done, proved |
| `MonopolyRooms` | pages | the apps around `GameRoomFirestore` (INSTANCE) | done, proved |
| `WaitPageMembers` | pages | `fetchGameRoomMembers`: overlapping fetches fill the slots of the wait page; a slot past the last ends the app | done, proved |
| `WriteOrder` | Firestore client | abstract: in which order the server applies writes | done, proved |
| `FirestoreWrites` | Firestore client | the write path, implements `WriteOrder` | done, proved |
| `FirestoreListen` | Firestore client | the read path over a short form of the write path | done, proved |
| `PokerCore` | Big Two | classification and comparison of hands as operators | done |
| `PokerGame` | Big Two | turns, passes, closures, one game after the other, over `PokerCore` | done, proved |
| `AlphabetGame` | Alphabet | the timer against the delayed callbacks | done, proved |
| `Accounts` | accounts | one user, one document; upload racing creation | planned |
| `SongList`, `Dengmi` | demos | listener diff, quiz | planned, small |

A module is *proved* when every invariant and every refinement that its passing runs check
is a theorem, for every value of the constants (section 10); what is left to TLC is liveness.
Theorems still to come are about modules still to come: that `Accounts` leaves one document
to a user.

## 3. The store: `GameRoomFirestore`

### State and actions

`rooms` is the collection. A document that was deleted keeps its last contents
with `exists = FALSE`, since a listener's "removed" event still delivers them.
`entered` is a history variable, the players who ever put themselves into a room.
`calls` holds the calls under way: the operation whose read is out, whether it was
answered, for whom, of which document or key, and the snapshot. The three moments
of a read are three actions:

| code | asked | answered (snapshot taken) | callback |
|---|---|---|---|
| `createGameRoom` | `CreateGameRoom` | `SearchAnswered` | `AddDocument` |
| ... its read-back | in `AddDocument` | `DocumentAnswered` | `CreateReturns` |
| `joinGameRoom`, by key | `JoinGameRoom` | `ShareKeyAnswered` | same step |
| ... the document | in `ShareKeyAnswered` | `DocumentAnswered` | `JoinReturns` |
| `quitGameRoom` | `QuitGameRoom` | `DocumentAnswered` | `QuitReturns` |
| `updateGameRoom` | `UpdateGameRoom` | `DocumentAnswered` | `UpdateReturns` |

`AppKilled` ends a player's calls at any moment. Two things of the code look odd
and are kept: `createGameRoom` has no return when a room exists, so it makes
another; and the position `quitGameRoom` removes is the first when the player is
not in the list (`QuitPosition`).

### Abstractions

* A write reaches the server in the step that makes it: only reads take time. With
  the network up Firestore sends them in order; what a write queued on a phone
  without network would do is not modelled here. That Firestore applies the writes of
  one user in order and answers for each is what `FirestoreWrites` checks (section 6).
* A read that fails is a choice: every caller treats it as an empty answer.
* `getGameRoom(shareKey:)` returns one of the rooms with the key; `search` sees one
  instant of the collection.
* A document id is given once (`Unused`), as `addDocument` draws a fresh one.
* The optional fields of `GameRoom` that nothing reads or writes, and the
  look-ups that only the test buttons of `ProfilePage` use, are left out.

### Runs

Bounds: `CallIDs` is how many calls may be under way at once, `RoomIDs` how many
rooms are ever created, `Peoples = 2` places. Every hazard of overlapping is a
pair of calls, one reading before and writing after the other, so two call ids show
them all; three players are needed for a join that overwrites a join in a room
with its owner, with a full room reached by the way. Deadlock is checked.

* `store_races` (204,902 states): one room, three players, any overlap, failed
  reads, killed apps. `TypeOK`, `RoomsWellFormed` and `OnlyEntrants` hold: a stale
  write undoes what others did, but what it writes back is always a list somebody
  could have seen, with the player appended or removed.
* `store_orderly` (157,056 states): two rooms, under `OrderlySpec`: calls on one
  room do not overlap, and only members quit. Then the owner is in the room
  (`OwnerIsMember`) and the store implements `RoomMembership` (`Membership`, the
  abstract specification under the mapping `statusOf`, `membersOf`, `ownerOf`,
  `runningOf`). Without the discipline both are false: that is the hazard of
  the missing transactions, stated as the condition under which it is harmless.

## 4. The pages: `MonopolyRooms`

### State and actions

The module instantiates the store (`Store == INSTANCE GameRoomFirestore`) over its
own `rooms`, `calls` and `entered`, and adds the apps.

| code | model |
|---|---|
| sign-in, the profile page and its `onAppear` | `SignIn`, `OpenProfile`, `ProfileRead` |
| buttons of the profile and the home page | `LeaveProfile`, `LogOut`, `StartGame` |
| `commitCreateRoom`, `commitJoinRoom`, the arrow | `CommitCreateRoom`, `CreateCrashes`, `CommitJoinRoom`, `LeaveCreateJoin` |
| the completions of both | `Completes` with `Enters` |
| `updatePlayerData` | `AskUpdate`, then `PlayerUpdated` or `PlayerUpdateFails` |
| wait page: arrow, Start | `LeaveRoom`, `LeaveCrashes`, `SeesStart` and `Start`, `StartCompletes` |
| `fetchGameRoomChange`, `detectStartGameUpdate` | `RoomDelivered`, `RemovalDelivered` |
| the app is killed | `AppGone` |

`roomListener` is the handle the wait page could remove, `heard` what is really
listened to: `Start` and a start by somebody else drop the handle and leave the
listener on. A listener delivers the room as it is by then, so several changes may
be delivered as one. `GameRoom(player:)` unwraps the id of the profile: the button
pressed before the profile is loaded ends the app (`CreateCrashes`). A completion
may bring the wait page to a player who has logged out; its arrow then asks for the
document of the empty path, which ends the app too (`LeaveCrashes`).

### Abstractions

* Of a player's document only `gameRoomID` is kept. An app's read of its own
  document sees its own writes, so that a read of the profile is one step with its
  answer; an update's read and write are one step too (nobody else writes that
  document).
* `"LoginPage"` stands for every page of a player who is not signed in: the home
  page before it, the login page and the sign-up pages. Sign-in is one step, and so
  is `logOutUser`. The app signs out whenever it starts (`PagesControl.onAppear`).
* A page appears in the step that sets `currentPage`.
* Two registrations of one app on one room are one listener.
* `MaxUpdates` bounds the equal calls of `updatePlayerData` under way in one app.

### Three specifications

* `Spec`: any button at any time, answers in any order, failures, restarts.
* `AwakeSpec`: nobody is killed, logs out or turns back to the profile page
  (`Awake`). What is left is the way into rooms and out of them; it makes two and
  three players checkable.
* `PatientSpec`: a player touches nothing while his app waits for an answer, calls
  on one room do not overlap, the reads that matter succeed, and everybody stays
  `Awake`. Under it, and only under it, profiles and rooms agree.

*Fairness* (`Answers`): weak fairness of the steps of every call under way and of
what an app hears. Firestore answers each call and delivers each change as long as
the network is up, and the main queue runs its callbacks in turn. Nothing is
assumed of the players: they may never press a button again.

### Runs

* `pages_one_hand` (786,569 states): `Spec`, one player, two rooms, two calls under
  way, so that everything is pressed twice and rooms are changed while answers are
  out. `TypeOK` and `NoListenerLeftBehind`: outside the wait page and the game no
  listener is left. One player is enough: the property speaks of one app, and what
  others do to its rooms only changes what its listeners deliver.
* `pages_two_hands` (146,099 states): `AwakeSpec`, two players, one room. `StoreUsed`: the
  pages satisfy `GameRoomFirestore`'s specification, so that a player quits and
  starts only rooms he has entered, and what holds of the store holds here.
  Deadlock is not checked because everybody may end in the game, where the program
  stops.
* `patient_players` (40,478 states): three players, one room of two places, two
  calls. `ProfileNamesRoom`, and under fairness `StartReachesEveryone` (after the
  owner's start nobody goes on waiting) and `HandoverReachesHeir` (the heir of a
  room gets its Start button or goes). Deadlock as above.
* `quit_by_stranger`, `create_twice`: the findings below.

### The slots of the wait page: `WaitPageMembers`

One page of one player. `FetchGameRoomMembers` is a delivery of the listener (`list`
is any list a room may show, see `RoomsWellFormed`); `reads` counts, per player, the
reads under way, each a `getDocument`, a download and a closure on the main queue,
which commute with everything until the closure runs: `IAmShown` or `OtherIsShown`.
`ReadFails` and `PictureMissing` (`url!` of an empty `imageURL`) are the other
endings. Nothing cancels the reads of an earlier fetch, so a page can show a player
twice, and a slot too many ends the app. The history variable `disturbed` says that
the last fetch overlapped another, lost a read, or was of a list that does not name
the player himself.

* `wait_page` (42,382 states): three slots, four players, one without a picture, up to
  two reads of each under way. Without disturbance the app goes on
  (`EndsOnlyDisturbed`), shows exactly the list (`MembersShown`), and gets there
  (`EveryMemberAppears`, under weak fairness of the reads' answers: each is answered
  or fails). So the next delivery that finds no read under way repairs the page.
  Three slots show what four do: one's own, the others', and one past the last.
  Deadlock is not checked since the app may end.

## 5. The Alphabet game: `AlphabetGame`

### State and actions

`pending` counts the closures handed to `asyncAfter` and still to run: `"gamePlay"` of
a solved word, `"nextRound"` of `nextRoundDelay`, `"home"` of the cover. A delay is
only a lower bound, so they run in any order. `running` holds the timers that were
scheduled and not invalidated, `timer` the handle the page has: a timer whose handle
was overwritten can be seen. A letter is its place in the word (the shuffle of
`ansChars` only decides where it is drawn), and `Circles` the places it may be
dropped on.

| code | model |
|---|---|
| Play on the home page, `initialGame` | `Play` |
| `gamePlay` with `nextRoundDelay` and `initialRound` | `GamePlay`, then `NextRound` |
| `timerController`, the closure of its timer | `TimerController`, `Tick` |
| `DragGesture.onChanged`, `onEnded` | `DragBegins`; `DragHits` with `Pass`, or `DragMisses` |
| `fullScreenCover`, `scorePageSelect`, the `onAppear`s of the two pages | `CoverAppears` |
| their closure, `onDisappear` | `Home` |

Letters may be dragged two at a time (two fingers), and dropped on any circle that is
near enough, which the player chooses. Whether the hint is shown, the colours and the
speech are left out. Closures of an earlier game work on the state of a page that is
gone, so `Play` begins with none.

### Run

* `alphabet` (2,941 states): two words, so that a round follows a round and the words
  run out; one has a double letter. Three half seconds of time: it runs out between
  any two steps. `ClockRunsInPlay` (one timer at most, and only while there is
  a word to solve), `ScoreEarned` (a solved word has every circle filled, the page of the
  end is earned, and what still runs below it does not change it). `GameEnds`: weak fairness of the
  closures, the timer and the drawing of the cover (the main queue runs what is due),
  none of the player, who may just look on.

`GameEnds` excludes `Untimed`. When the last letter is dropped with the clock at
exactly zero, before the timer has said so, the game goes on to the next word;
`timerController` starts no timer with no time left, so that word may take forever, and
the game then ends only once every word is solved, as a lost one.

## 6. The Firestore client's writes: `FirestoreWrites`

### State and actions

`worker_queue` holds the tasks of the client's one worker. `mutation_queue` is on disk,
one queue per user; `current_user_` is whom the client takes to be signed in,
`auth_user` who is. `write_pipeline_` is the beginning of the current user's queue, and
`write_stream_` the stream's state with the requests and responses under way. `doc` is
the server's document of each user: the number of the last write applied. A batch is one
set; the writes of user `u` are `<<u, 1>>`, `<<u, 2>>` and so on.

| code | model |
|---|---|
| `setData`, its task `WriteMutations` | `SetData`, `WriteMutations` |
| the listener of FIRAuth, `HandleCredentialChange` | `AuthStateDidChange`, `HandleCredentialChange` |
| `GetToken`, `ResumeStartWithCredentials` | `GetToken`, `ResumeStart` or `ResumeStartFails` |
| `OnWriteStreamHandshakeComplete`, `OnWriteStreamMutationResult` | `HandshakeComplete`, `MutationResult` |
| `OnWriteStreamClose` | `WriteError` (permanent error), `StreamBreaks` (any other) |
| `BackoffAndTryRestarting`, the idle timer | `BackoffElapsed`, `IdleTimeout` |
| the connectivity monitor, `RestartNetwork` | `ConnectivityChange` |
| the app is killed, `Initialize` | `Relaunch` |

`FillWritePipeline` is a part of the step that calls it (`Filled`), and so are
`StartWriteStream` and what `Close` does to tokens asked for: a token is live while the
stream that asked for it has not been closed since (`close_count_`).

### Abstractions

* The server and the network are external. Requests and answers arrive in order; those
  under way are lost with the stream, and a request that was not read when its stream
  broke is never applied. A write that was applied and whose answer was lost is sent
  again, so that writes are applied at least once.
* The server refuses a write always or never. It does not end a stream without an
  error while writes are under way (the code asserts that).
* Backoff is one delay of any length; a handshake with an error is a `StreamBreaks`.
* `written` counts the writes that are not forgotten: a task that was still on the worker
  queue of a killed app is taken back.

### Run

* `firestore_writes` (81,842 states): two users, three writes of one, the second of them
  refused, and one of the other; two places in the pipeline, so that it fills and
  is refilled; three tasks on the worker queue; three troubles, each of them a broken
  stream, a missing token, another network or user, or a kill. Three are needed for the longest
  story: away to another user, back, and a broken stream. `AssertsHold`
  collects what the code asserts, with the invariant that makes it true: requests
  and results match the pipeline, which is the beginning of the user's queue.
  `SentAsOwner`: no write goes out with another user's token. `AnsweredTruly`: no callback
  is told of another write. `KeepsOrder`: the abstract specification `WriteOrder`. Deadlock
  is not checked because nobody has to write.

*Fairness*: weak fairness of `Progress`, the steps of the client and the network. The
worker runs its tasks in turn, FIRAuth answers `GetToken`, timers fire, and a server that
is connected answers. One condition for all of them suffices, because none of these
steps can be taken for ever: what the app does is bounded. Under it,
`EveryWriteSettles`: each write of a user who stays is answered for.

## 7. The Firestore client's reads: `FirestoreListen`

### State and actions

One document. `hist` is the server's, version after version. `disk` holds the cache (the
document as of a version, and whether only a write's answer has brought it), the resume
token of the target, whether the document is one of the target's keys, and the last
snapshot version. `queue` holds the app's own sets; what the view shows is the
last of them over the cache (`LocalDocument`). `view.synced_documents` says that the
server has sent the document for this target, `view.current` that the target is current.
`aggregator` is the `TargetState`: `outstanding` counts the requests not answered,
during which messages about the target are ignored.

| code | model |
|---|---|
| `addSnapshotListener`, `getDocument`, `remove` | `AddSnapshotListener`, `GetDocument`, `GetDocumentEnds`, `RemoveSnapshotListener` |
| `SyncEngine::Listen` with `RemoteStore::Listen`, `StopListening` | `Listen`, `RemoveQueryListener` |
| `WriteMutations`, `HandleSuccessfulWrite`, `HandleRejectedWrite` | `SetData`, `WriteAcked`, `WriteRejected` |
| `OnWatchStreamOpen`, `OnWatchStreamClose` | `WatchStreamOpens`, `WatchStreamFails`, `IdleTimeout` |
| `HandleTargetChange`, `HandleDocumentChange` | `TargetAdded`, `TargetRemoved`, `TargetCurrent`, `DocumentChange` |
| `RaiseWatchSnapshot`, `ApplyRemoteEvent` (both), `EmitNewSnapshots` | `Snapshot` |
| `OnlineStateTracker` | `StreamStart`, `StreamFailure`, `OnlineStateTimeout` |
| `View`, `QueryListener` | `NextDocument`, `ViewUpdated`; `ListenerSees`, `GetSees` |

### Abstractions

* A step is one task of the worker queue, with all it calls: view, listeners and disk
  change together. Versions are positions in `hist`.
* The server is external: it answers requests in order, sends a document with its newest
  contents (some changes are skipped), and sends a global snapshot only when the target
  is consistent. It resumes from a token by sending what is newer, and says nothing of
  a document that was missing before and is.
* Of the write path only the order is kept (`ServerCommits`, `acks`), see section 6.
* When a changed token is written to disk without a change of the target depends on a
  clock: a choice in `Snapshot`.
* Own deletes of a document that is listened to are left out, and with them limbo
  documents: `NeverInLimbo` shows that none arise from sets. Existence filters,
  rejected listens and queries of several documents are left out too.

### Run

* `firestore_listen` (527,663 states): the app sets `a`, others set `b` or delete the
  document, once each; one listener and one `getDocument` at a time, over and over; one
  trouble. Two target requests may be under way: unwatch and watch again, which is where stale
  messages matter. The safety properties were also explored with two troubles.
  `CacheTrue`, `CacheForward`: the cache is the server's document as of its
  version and never older than before. `ResumeCovered`: the server is never asked to resume from a
  point that the cache does not have. `OwnWritesStay`: after a set was answered for, the
  view does not fall back behind it. `FreshGet`: what `getDocument` answers without
  `from_cache` is no older than the call.

*Fairness*: weak fairness of the read path, of the write path and of the end of a
`getDocument`, each the doing of the worker,
the network or the server.
Under it `GetAnswered`, and `Converges`: an app that goes on listening hears the
server's document. Deadlock is not checked since nobody has to do anything.

What the model shows besides, without contradicting the repository: a `getDocument` that
joins a listener's active view is answered from that view, which may be behind the
server; a refused set may stay in view until the watch stream has caught up, if an older
set was answered for and not confirmed; and a listener removed while the stream is not
open resets the state to Unknown and stops the ten-second timer, so that a get made
just after waits for the next stream to open or fail.

## 8. Big Two: `PokerCore` and `PokerGame`

### The rules

A card is `<<num, suit>>`. `ClassingPokers` splits a hand: straight flushes first (one per
suit), then fours, full houses of the highest triples and pairs, flushes and straights of
the single cards, and what is left. `Beats` compares a class with the desk, and
`ComputerPoker` gives the plays that may be returned: Swift's `sort` leaves the order of equal
classes open, so there may be several. The code's oddities are kept: no straight A-2-3-4-5 but
as a straight flush; full houses compared by their fourth cards; two indices that run out of
range, which end the app (`Trap`).

### The game

| code | model |
|---|---|
| Play, `onAppear`; Next Game; Reset Game; MENU | `OnAppear`, `NextGame`, `ResetGame`, `Menu` |
| a turn of `gamePlay`'s loop | `SkipWinner`, `ComputerPasses`, `ComputerPlays`, `ComputerTraps` |
| `gamePlay` after its loop, calling itself or paying | `RoundEnds` |
| the last of a chain of closures | `ChainEnds` |
| taps on cards; pass; confirm | `Select`, `Deselect`; `Pass`; `Confirm`, `ConfirmRefused`, `ConfirmTraps` |

`gamePlay` runs to its end before anything else (`playing`). A chain of closures counts
from the call that started it to its last closure; the ones before only draw. Chains of
several calls, and of earlier games, end in any order. `leader` (who made the last play)
and `firsts` (games by who was first) are history variables. The page's state outlives a
game, and `initialGame` sets only a part of it anew. The cover going away does not fire
`onAppear` again.

### Run

* `big_two` (648,853 states): up to three games of two deals of five and six cards a hand.
  They have flushes of the same nums, a straight, two full houses, four of a
  kind and a straight flush, a human who is first and one who is not, and both ends of the
  app. Three games are enough to be left without coins and begin again.
  `TurnComesBack`: a leader finds that all others have passed, and no computer passes on its
  own lead. `SettledOnce`: each game is paid for once, for who was first.
  `OpensWithClubThree`: nothing of the game before opens the next one. `ScoreShown`, under weak
  fairness of `gamePlay`'s steps (it runs to its end) and of the closures (the main queue runs
  what is due); nothing is assumed of the human. Deadlock is not checked: the app may end,
  and games are bounded.

`OpensWithClubThree` excludes the human who holds the three of clubs and passes: the computers
then face the last play of the game before (`desk.desk` is not set anew).

## 9. Findings

* `quitGameRoom` tells a caller who is not in the room "You cannot exit the room
  where you are not in there." only when one player is left in it. With two or more
  it removes the first player, often the owner (`quit_by_stranger`, the property
  `NonMembersExitNothing`). The run gets there by the buttons alone: a join
  overwrites another's join, so the other is on the wait page of a room that does
  not name him, and presses the arrow.
* `createGameRoom` prints "Game room existed.", completes with nil, and goes on: it
  adds the room and completes a second time (`create_twice`, the property
  `RefusedCreateMakesNoRoom`). Pressing Create twice shows it.

## 10. What is proved

Every invariant and every refinement that a passing run checks is a theorem, for every value
of the constants that the module's assumption allows.

### Rooms

For any players, rooms, keys, number of calls under way and room size, from
`StoreAssumption` (a room has at least one place, `NoDoc` is not a document,
document ids are not share keys).

`GameRoomFirestore_proofs`: `Invariance`, `TypeCorrect`, `CapacityTheorem`,
`EntrantsTheorem`. The invariants that matter are not inductive, because a
callback writes what a snapshot says and not what the room says. `StoreInv` adds
`CallsSound`: every snapshot under way is itself well formed and names entrants
only, of a room that has existed. A snapshot taken of such a room is such a
snapshot; a room written from such a snapshot is such a room (`WithPlayerFacts`,
`WithoutPlayerFacts`, `RunningFacts`, one per write); `entered` only grows, so that
snapshots of others stay sound (`WriteKeepsRooms`, `StepKeepsCalls`). There is a
lemma per action, and `NextKeepsInv` puts them together.

In the same module, `OwnerTheorem` and `MembershipTheorem`, from
`OrderlySpec`. `OrderlyInv` adds that snapshots under way are **fresh**, equal to
what the document holds: calls on one room do not overlap, so nobody writes
between the snapshot and the callback. Then each callback that writes is one step
of `RoomMembership` on that room (`AddDocumentOpens`, `JoinEnters`, `QuitLeaves`,
`UpdateStarts`) and every other step stutters (`ReadsStutter`). `RangeFacts`,
`EnterFacts` and `LeaveFacts` relate the lists of the documents to the sets of the
abstract specification; that no list names a player twice is what makes removing a
position the same as removing a member.

`MonopolyRooms_proofs`: `PagesTypeCorrect`, `ListenerTheorem`, `KnowledgeTheorem` and
`StoreUsedTheorem`, from `Spec` and `PagesAssumption` (the store's assumption, and
that the values for "no room", "no profile", "no call" and "no document" are not rooms,
profiles, calls and documents). `StoreUsedTheorem`
carries the theorems about the store over to the apps. The invariant `PagesInv` has
two parts besides the types.

* `OnlyEntrantsKnow`: whatever names a room in an app - its profile, the document, an
  update under way, the page, a listener - its player has entered that room. The
  calls under way have the same property (`HistorySound`, with `HistoryGrows` in
  `GameRoomFirestore_proofs`), so that a completion that arrives whenever it likes
  brings only rooms the player has entered (`CompletionFacts`).
* `ListenersTraced`: `NoListenerLeftBehind` is not inductive, because a page pushed on
  the stack may bring a player back from the wait page of a second room while a
  listener on the first runs on without a handle. Where that happens, the first room
  has begun its game, and pages opened from the game only lead back to it
  (`BackToGame`; `BackFacts` and `ForwardFacts` for the stack).

The store and the module of its proofs are two instances with the same parameters;
`SameCalls`, `SameAnswers` and `SameReturns` identify their actions, and
`NextUsesStore` shows every step of the apps to be a step of the store or none.

`ProfileTheorem` and `IndivisibleTheorem`, in the same module, from `PatientSpec`. That a
profile at rest names the room of its player says nothing of the moments between, so
`PatientInv` says where a player stands while something is under way for him (`Phases`).

* `Outside`: in no room, or on the way out of one, with the quit and the update of the profile
  each asked for or done, in either order.
* `Seeking`: waiting for a search, a key or a room to be read; or in the room he has made, which
  is being read back.
* `Arriving`: in a room, on its wait page, with the update of the profile under way.
* `Staying`: in the room his profile names; a start may be under way.

With it go the pages to go back to, which are all outside rooms (`Stacked`), and that profile
and document agree (`Profiled`). What a player does or hears leaves the phases of the others
alone (`OthersStay`), because a callback changes the list by its own caller only
(`MembersAfterJoin` and its like in `GameRoomFirestore_proofs`, from fresh snapshots), so
that each step needs one phase to be followed. The circle closes with the store's invariant: phases
imply that only members quit (`QuittersInside`), which with the discipline makes the calls
orderly, which keeps `OrderlyInv`, which says what the callbacks write. Hence the apps implement
`RoomMembership` without assuming, as `OrderlySpec` does, that only members quit: patience and
the pages see to it (`NextKeepsPatient`). This `RoomsIndivisible` is in no run, because `Membership`
is in `store_orderly`; on the constants of `patient_players` TLC finds it to hold too. Of the discipline the proof uses that a player
waits for his answers, that calls on a room do not overlap, and that no read of a room that
exists fails (`ReadsSucceed`): each of them is a condition of `PatientSpec`, not of the code.

`WaitPageMembers_proofs`: `WaitPageTypeCorrect`, `EndsTheorem` and `MembersTheorem`, for any players, slots and
number of reads under way. `Fetching` says what a fetch that no other overlaps has done
so far: everybody on the list is either read or shown, Me in the first slot and the
others one after the other. A list names nobody twice, so it is as long as the set of its
players is large (`RangeCounts`), and whoever is still to be read has a slot left
(`SlotLeft`).

### Games

`AlphabetGame_proofs`: `AlphabetTypeCorrect`, `ClockTheorem` and `ScoreTheorem`, for any
words, time and handles of timers. `ClockRunsInPlay` is not inductive: `NextRound` starts
a timer, wherever the page is by then. `GoesOn` says in which states the closures are
under way, and `Over` that a game that is over has no time left or nothing that goes
on, so that a closure that comes late finds the clock at zero. `Placed` counts letters and
circles: the circles are all filled when the letters are all placed.

`PokerGame_proofs`: `SettledTheorem`, `LeadTheorem`, `OpeningTheorem` and `PlacesTheorem`, for
any deals of cards there are and any number of games. `PokerInv` has four parts.

* `Typed`, and `Dealt`: the hand of a computer is a part of one that was dealt, so that the
  table of classes has it.
* `Settling`: from when a player has no cards left a game is owed for, until it is over.
  It is then over for good: buttons stay disabled until the score page covers them,
  because whichever chain of closures ends first shows that page (`PlayOwes`, `PagesInv`).
* `Turning`: whoever had a turn since the last play has passed or is out. Turns go round, so
  when the turn comes back to the leader all others have (`TurnPasses`, `PlayLeads`).

That a computer does not pass on its own lead is a fact of the rules: the classes of a hand have
a greatest one (`HandRanked`, `GreatestExists`, `LeadPlays`; a number per class, and the
least of a set of numbers). That it does not pass with the three of clubs when it opens is
another: every card of a hand is in a class (`HandCovered`, which needs that there are
four cards of a num). `Opening` carries that to the first play.

`PlacesTheorem` is the type invariant, which says that no card is in two places and that whoever
is in the rank has none. It needs that a play is of the player's own cards. The classes of a
hand say so but for the full houses, which the code puts together from the triples and pairs by
their places in the order of the groups: every place up to the number of groups is some
group's (`RankOnto`: the places are an injection of a finite set into as many numbers), so that both
parts are groups of the hand. The human plays a part of the selection, which with the hand is
one of the hands that were dealt (`Held`).

### The Firestore client

`WriteOrder_proofs`: `LastWriteTheorem`, about the abstract order that `FirestoreWrites`
implements, for any users, writes refused and reconnections. The document of a user may be
ahead of the answers and, after a reconnection, of the position in the queue; `DocsSound`
says that only refused writes follow what it holds (`RefusedBetween`), up to either.

`FirestoreWrites_proofs`: `TypesTheorem`, `AssertsTheorem`, `OwnerTheorem`, `TruthTheorem`,
`OrderTheorem` and, through it, `LastWriteTheorem` of the client. From `WritesAssumption`: the
pipeline has a place. For any users, writes, refusals and troubles. `WritesInv` has five parts.

* `Typed`.
* `TasksInv`: the worker queue holds the next writes of each user in their order, and when a
  write or a token that counts has its turn, its user is signed in (`SignedIn`: the last change of
  user before it in the queue is to that user). Without this, `SentAsOwner` is not inductive:
  a write that was made before another user signed in runs after he did.
* `DiskInv`: a user's queue on disk holds his writes after the last one answered, without a gap,
  under ascending ids, which no id to come repeats; whoever waits for an answer has a write there.
* `TruthInv`: a write that was answered has left the queue, and was applied or refused as its answer
  says; the document is no newer than the queue.
* `StreamInv`: the pipeline is the beginning of the queue; the responses under way are for its first
  batches and the requests under way are the rest (`Answered`), or the handshake comes
  first; a stream that starts waits for exactly one token that counts, asked for or on the worker queue.

Every step maps to a step of `WriteOrder` or a stutter: a write reaches the disk, the server
applies one, the client removes one, confirmed or refused, or a stream ends with requests or
results under way (`OrderStep`).

`FirestoreListen_proofs`: `TypeTheorem`, `AssertsTheorem`, `LimboTheorem`, `CacheTheorem`,
`ForwardTheorem`, `ResumeTheorem`, `OwnWritesTheorem` and `FreshGetTheorem`, for any values and
number of writes, outstanding requests and troubles. From `ListenAssumption`: a missing
document is none of the values. `ListenInv` has seven parts.

* `Typed`.
* `DiskInv`: what the cache holds is the server's document as of its version; the resume token
  is not ahead of it, and the target has the document on disk if it existed at the token.
* `MessagesInv`: updates under way are versions of the document, in order, each followed by a snapshot
  of its version, before which there is no other change.
* `StreamInv`: `outstanding` counts the requests and the answers under way; and the last request for a
  view's target resumes from its token. That is what makes ignoring messages sound: while a
  request is outstanding they may be about an earlier target.
* `OnlineInv`: the ten-second timer runs only in the state Unknown of a stream that was started.
* `TargetInv`: of the messages after the last answer, a snapshot comes with the document, unless the
  server has nothing new to say, and after the target became current (`DocumentTold`,
  `CurrentTold`): told between the request and the snapshot, not just at some time.
* `ViewInv`: a view shows the newest set or the cache, a current one what the server held at the
  resume token, which is no older than a `getDocument` that waits for it.

### What stays with TLC

The liveness properties: `StartReachesEveryone`, `HandoverReachesHeir`, `EveryMemberAppears`,
`GameEnds`, `ScoreShown`, `EveryWriteSettles`, `GetAnswered` and `Converges`. Fairness and ENABLED
are out of the provers' reach. So is what a recursive definition computes for every input: no
module that is proved about declares one. The two runs that expect a violation show behaviours of the
code that no theorem could.

## 11. Not modelled

Sign-up, login and avatars, the songs' listener of `FirebaseSwiftUIDemo` and the quiz are
planned (section 2). The board of MonopolyGame does not exist in the code.

Of the Firestore client: transactions, batches of several documents, pending writes
that are not sets, the garbage collection of its cache, bundles, limbo resolution and queries
with limits are left out. The apps call no transaction, batch, bundle or limit; sections 6
and 7 say where the rest is assumed away.

Most of the repository's lines are libraries that the apps link with and that are not
its own: BoringSSL, gRPC, leveldb, abseil, nanopb, Facebook's and Google's sign-in. They are left
out: the apps reach them only through the Firestore client, which relies on their
contracts (a stream delivers in order or breaks, a transaction of leveldb is atomic),
and these are assumed where sections 6 and 7 say so.

Rendering, sounds, orientation, pictures' names and the set-up of Firebase, Facebook
and Google keep no state a behaviour depends on. `FinalProject` repeats code that
is modelled where MonopolyGame has it.
