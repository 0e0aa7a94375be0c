# GM Lab in TLA+: turns, chats, their store, their worlds and their memories

GM Lab is a text role-playing server: a Rust workspace (`src/crates`) with an
HTTP server, an orchestrator that runs a game-master model over a world state,
a SQLite store for the dialogs, connectors to model providers, an inference
sidecar process, and a React client (`src/web`). This directory holds TLA+
models of its stateful core, the TLC runs that check them on small instances,
and TLAPS proofs of what matters most.

## 1. Inventory

| Part | State | Operations | Hard behaviour |
| --- | --- | --- | --- |
| **Turn control** (`gml-server/src/lib.rs`: `TurnControl`, `TurnRegistry`, `execute_turn`, `post_turn`, `post_cancel_turn`, `post_delete_chat`) | per turn a cancel flag, the abort handle of the model task, the commit target, the commit fence, the feed with its receipt; per server the live controls by request key and the chats whose delete is running | register or attach, cancel, delete sweep, fenced commit, finish | a detached driver per turn, handlers dropped at an await, blocking saves that cannot be interrupted, duplicate POSTs, restarts |
| **Turn feed** (`TurnFeed`, `turn_feed_response`, `get_turn_stream`) | events and receipt of a turn; a cursor per subscriber | publish, finish, subscribe, replay, look up | late subscribers, reconnects, a control that disappears between two requests |
| **Web client** (`App.jsx`, `api.js`, `timelineStore.js`) | the rows of the timeline with a checkpoint, the attempt in flight, the attempt to retry | send, reconnect, retry, stop, edit, resume after a page load | answers that are lost or late, a stop among all of them, rows shown before they are true |
| **Dialog store** (`gml-persistence/src/lib.rs`) | SQLite: chat rows, turn checkpoints, history receipts, the active pointer; in memory: a cache of runtimes | save, save with checkpoint, prepare and commit an edit or a branch, activate, delete, load, cached access | optimistic commit of edits, a cache filled outside the chat lock, pruning, self-healing pointer |
| **Chat locks** (`AppState::chat_lock`, `with_chat_saved`) | a weak map of mutexes | lock a chat across a turn or a mutation | what does not take the lock: reads, activation, cancel, delete |
| **Orchestrator** (`gml-orchestrator`: `turn.rs`, `session.rs`, `compact.rs`, `query_dedup.rs`) | the histories of the game master and of each character, drafts and beats of a turn, lookup cache | the tool loop of a turn, requests to characters, commit, compaction, reset | failures and corrections in the middle of a turn, a cache about a history that is cut, one event with several witnesses |
| **World and canon** (`gml-world`, tools in `turn.rs`) | canon: places, passages, actors, clock; world: scene, whereabouts, items, its own clock | travel, generated places, moves, time, scene and item tools | the world repeats what the canon says and each tool has to keep the copies |
| **Architect chat** (`gml-server`, `architect_runner.rs`) | a package (world, story, character), its conversation, a lock per package | turn, edit by hand, delete | a draft read before a model call and written whole after it |
| **Inference sidecar** (`gml-audio/src/sidecar.rs`) | a child process, its health, the manager's state | ensure_started, probe, shutdown, restart, reap | start races, stale probes, restarts in the background |
| **Connectors** (`gml-supergrok`, `gml-codex`, `gml-openai-compatible`, `gml-mock`) | OAuth credentials on disk and in memory | login, refresh, logout | one-time refresh tokens, a disk that fails, a logout among refreshes |
| **Package stores** (`gml-stories`, `world_store.rs`, `character_store.rs`) | files and rows of stories, worlds, characters | import, export, save | swap of directories |
| **Memory** (`gml-world`: `memory.rs`, `rumor.rs`, `world.rs`; `memory_crystals.rs`, `worldstate.rs`, `session.rs`) | units that tell facts to an audience, hot to archived; records of the world's state; rumours | notes, records, beats and claims that are remembered, rumours that spread and fade, crystals asked for and automatic, loading | whatever merges, rewrites or spreads a unit decides anew who may read it |
| **Retrieval, speech, settings, search index, shell** | embeddings; none; a settings file; an FTS index; windows | | ranking, input and output, presentation |

How the parts meet. The client posts what the player says under a request id.
`POST /turn` registers a control, starts a detached driver (`execute_turn`) and
streams the feed of the control. The driver takes the chat lock, loads a runtime
from the dialog store, runs the orchestrator in a task of its own, and commits
through the fence of its control. The orchestrator works on a staged session:
its tools change the world and the histories, and nothing of it is kept unless
the turn completes. `POST /turn/{id}/cancel` and `POST /chats/{id}/delete` find
controls in the registry, set their flags, abort their model tasks and wait for
their fences. Commands, edits of a live chat, reads and activation go to the
store directly, some of them under the chat lock. Every model call asks its
connector for a credential. Requests that need local speech, images or embeddings
call `ensure_started` of the sidecar; a change of the settings restarts it in the
background.

What makes each part correct:

* turn control: one running execution per request id; a cancelled turn is never
  saved after its cancel was told so, and ends; a receipt says truly what the
  database holds; nothing is saved into a chat whose delete has crossed the fences;
* feed: each subscriber gets every event once, in order, the receipt last; a turn
  is reported missing only when it was not and will not be played;
* client: what stands on the screen at rest are the turns that were played, each
  once; a stopped turn stays stopped;
* dialog store: rows, checkpoints, receipts and the pointer agree; a committed
  turn goes only by an edit or with its chat; a request is played once; a deleted
  chat stays deleted; the cache never brings an old runtime back;
* orchestrator: every request to a model can be answered (no call without its
  answer, one world snapshot, the options said last); what the lookup cache calls
  delivered is in the history; a character knows its current card, and is told
  what it witnessed once;
* world: the copies agree with the canon; a passage is one passage from both
  ends; an item is in one place; clocks do not go back;
* memory: no unit tells a scope what it was never given; what can be counted on
  stays readable; the list of rumours and their units agree;
* architect: what was edited by hand meanwhile is not written over;
* sidecar: no process is lost, who waits is answered;
* connectors: a one-time refresh token is used once and its successor is never
  lost; a logout stays one.

## 2. Plan

| Order | Module | Subject | State |
| --- | --- | --- | --- |
| 1 | `TurnControl`, `TurnPromise` | controls, registry, POST /turn, cancel, delete; the abstract promise and the refinement | done, proved |
| 2 | `DialogStore` | tables, cache, chat locks and every call on them | done, proved |
| 3 | `Sidecar` | the inference process | done, proved |
| 4 | `TurnFeed`, `FeedPromise` | events, cursors, late subscribers, the lookup of a turn that is gone; the abstract promise and the refinement | done, proved |
| 5 | `Client` | the page's side of a turn | done, proved |
| 6 | `Canon`, `World` | the world's two stores and the tools that write them | done, proved |
| 7 | `History`, `Exchange` | the histories of the game master and of the characters | done, proved |
| 8 | `GrokAuth` | the credential of the SuperGrok connector | done, proved |
| 9 | `Architect` | the architect chat of a package | done, proved |
| 10 | `Memory` | units, records, rumours and crystals | done, proved |
| 11 | agenda and scheduled events of the canon, dice tools, package stores | | left, see 8 |

Every invariant and every action property of a passing run has a theorem; what
is only model-checked is said at the end of section 6.

`TurnPromise` (one execution of a turn) and `FeedPromise` (the requests about a
turn) are the abstract specifications. A map of chats with atomic operations was
considered for the store and given up: the runs of section 7 show that the store
does not implement it.

## 3. Modules and the code

Modules share nothing unless one EXTENDS the other: `World` extends `Canon`.
Four modules put several parts into one run of TLC: `MCTurnSafety`
(`TurnControl` and `Client`), `MCServices` (`Sidecar`, `TurnFeed` and `Memory`),
`MCParts` (`World`, `GrokAuth`, `TurnFeed`, `Architect`, `History` and `Exchange`) and
`MCStoreScenes` (two scenes of `DialogStore`). A variable `part`, chosen at the
start, says which of the parts moves: this saves runs and composes nothing.

### TurnControl

One action is one critical section of `gml-server/src/lib.rs`; between two of
them any other task may run.

* `stage[h]` is where the driver of one `POST /turn` stands: `Admit`, `Register`
  (attach to a live control with the same payload, refuse another one or a chat
  with a bar, else insert), `StartTurn`, `EnterTurn` (the chat lock, held from
  here to the return, `HoldsChat`: no turn of the chat may be `Ahead`),
  `StageTurn`/`ResolveSaved`/`LoadFails` (load and look the request up),
  `AttachModelTask` and `RecheckModelTask` (the two flag checks around the
  installation of the abort handle), `JoinModelTask`, `IllustrateTurn`,
  `TakeFence`, `CheckCancelled`, `SaveTurn`/`SaveFails`, `ReleaseFence`,
  `FinishTurn`.
* `cancelRequested`, `modelAbort`, `commitTarget`, `commitFence`, `terminal` are
  the fields of `TurnControl`; `controls`, `deleting` those of `TurnRegistry`.
* A cancel is `CancelLookup`, `CancelFlag`, `CancelAbort`, `CancelCrossFence`,
  `CancelAnswer`; a delete `RaiseBar`, `SweepTurns`, `DeleteFlag`, `DeleteAbort`,
  `DeleteAllFlagged`, `DeleteCrossFence`, `DeleteAllCrossed`, its storage steps and
  `LiftBar`. `LeaveCancel` and `LeaveDelete` drop the handler of a client that
  went away at an await; the driver is detached and is not dropped.
* `DropControl` is the drop of the last strong reference, after which the
  registry's weak entry is dead. `CrashControl` restarts the process.
* `persisted` and `barred` are history variables: what the database holds, and
  whether the bar of this delete still stands.

What the driver loads and saves is abstract here: a load finds a new request, a
saved one, or an error; a save succeeds or fails. Of what else takes the chat lock
(commands, edits of a live chat) each holds it for one blocking call, and is
left out; `DialogStore` has them.

`TurnPromise` says what one execution of a turn promises: committed at most
once, told truly, and closed once a cancel or a delete has settled it. The
refinement mapping (`Verdict`, `Receipt`, `Settled`) is at the end of
`TurnControl`; `KeepsPromise` is the abstract specification as a property.

### TurnFeed

`feed[r]` is one execution of a request: its buffer, its receipt, the version of
the watch channel and where its task and the driver that awaits it stand;
`entry` is the registry's weak reference, dead when neither the driver nor a
stream holds the control (`Alive`). `reader[s]` is one HTTP request: a post that
joins or starts (`PostJoins`, `PostStarts`), a GET that attaches or misses and
then asks the database (`GetMisses`, `Lookup`), and the loop of
`turn_feed_response` (`Subscribe`, `CopyFeed`, `Frame`, `FramesEnd`, `Wake`,
`Ping`, `Leave`). `Publish` and `Notify` are two steps because the watch channel
moves after the buffer's lock is dropped. A panic of the turn is joined by the
driver (`Panics`, `Joins`).

`FeedPromise` says the same without buffers, cursors, watch channel and registry:
executions begin one after another, each has a log that grows and a receipt that
ends it and is true of the database; a client that follows one gets its log from
the first event to the receipt (`Deliver`, `Close`), and is refused only when what
was begun before its question has failed (`Ask`, `Refuse`). The mapping (`Started`,
`Heard`, `Promised`) is at the end of `TurnFeed`; `KeepsFeedPromise` is the abstract
specification as a property. It says more than `FeedInOrder`, which is proved and
no longer run.

### Client

One chat and its page. `attempt` is the call of `sendTurn` in progress: it
connects by posting or attaching, reads frames, pauses before another attempt
(`Breaks`), reloads the transcript after the receipt, and settles only once a
stop in progress has been answered (`AttemptEnds`, the `finally` of `sendTurn`).
`screen` is the timeline with the checkpoint of `beginTurn`; `failed` is
`failedTurn`; `stop` is the request of `stopTurn` or its answer on the way back.
`EditTurn` is `regenerateFromTurn`, which hides the rows before the attempt and
restores the chat after one that failed. `OpenPage`, `LoadTranscript`,
`ActiveAnswered` and `Discover` are a page load. `aside` is what goes on beside the
attempt, the load and the restore: the load sets neither `busy` nor
`turnInFlightRef`, so `Say`, `EditTurn` and `RetryFailed` do not wait for it, and
when its transcript comes while a turn is in flight, `store.clear()` drops the
turn's checkpoint. The turn is then `adrift` (`past.adrift`): its rows cannot be
rolled back. The server is here what the modules above show of
it: an execution plays a request once, its feed may outlive it, a request
without a feed is looked up in the chat; `latest` says which requests were
registered after which, and the running one that was registered last is the one a
page load finds (`ActiveTurn`); the server may restart, another page may stop a
turn, and a post that its client gave up may still arrive (`LateArrives`).

### DialogStore

Every SQLite transaction is one step; the cache, the active-state mutex
(`gate`), the chat locks (`lock`) and the requests in progress (`job`) have
steps of their own between.

* A runtime is the sequence of requests whose turns it holds and the set of
  mutations saved outside turns. `checkpoints`, `receipts` and `active` are the
  tables and the pointer.
* A turn, an edit or a branch: `StartTurn` (bar of the registry), `EnterTurn`
  (chat lock), `LookupReceipt`, `LoadTurn`/`LoadSource`/`PrepareHistory`,
  `AbandonTurn`, `CommitTurn`/`CommitEdit`/`CommitBranch` (the whole transaction:
  row, checkpoints kept below, the new one, pruning, receipts), `CacheTurn`.
* `with_active`: `GetActive`, `GetActiveCreates`, the cached load, then the chat
  lock. `ensure_cached` is `CacheHit`, or `CacheMiss`, `LoadChat`/`ChatNotFound`,
  `CachePut`: it loads and fills with nothing held that a commit takes.
  `SaveChat` and `SaveChatFails` are the closure and the save of
  `with_chat_saved`.
* Create is `CreateChat`, the pointer, `FileChat` and, for a hero with a
  portrait, `LoadBare` and `SavePortrait`. Activate is `ActivateFinds` and
  `ActivatePoints` under the gate; `HealActive` is the self-healing read.
* Delete is `StartDelete` (bar and sweep), `DeleteChat` once the fences are
  crossed, `EvictChat`, and the answer. `Restart` keeps the tables only.

Abstractions: payloads and texts are not compared, a request id stands for
its turn; ids of chats are never drawn twice; the reads by `with_chat` closures
are the calls `view` and `peek`; a load and the change of its chat id by a branch
are one step; `GetActiveCreates` is one step because the gate hides the new chat
until it ends; the handler of a delete is not dropped here.

### Canon and World

`Canon` is the state that `CanonEngine` guards and its actions as operators:
places with the passages between them, actors and where they are, who occupies a
place, the clock; `Travel` walks an edge whose end may still have to be
generated, and a journey may be interrupted on the road. An edge belongs to a
physical passage, which has a record for each direction (`PassageFits` is the
validator's rule for the second one). `World` is what `World` in `world.rs`
repeats of it (scene, whereabouts rows, item stores, the world's time) and the
tools that write both: moves of the player and of characters, generated places
and characters, time and rest, scene writing and patching, presence, items. Each
tool is one action: a turn runs them one after another. An id is a tuple that
shows its kind, as `stable_id` composes it: `<<"rev", passage>>` is the way back of
a passage, `<<"site", way, clock, minutes>>` the place of a stop on the road.

### History

`liveGm` is the staged session of the running turn, `keptGm` what the database
has. The turn begins with compaction, the world snapshot and a notice about the
player's options where it is due (`BeginTurn`, `Prepared`), or goes on where a
turn of an old save failed (`ResumeTurn`); each hop sends the history, the answer
brings calls (`ModelCalls`) whose replies are pushed one by one (`RunLookup`,
`RunAskPlayer`), the last hop answers (`CompleteTurn`); a failed, cancelled or
exhausted turn is dropped (`DropTurn`). `seen` is the cache of delivered lookups,
which compaction empties.

### Exchange

The same two sessions for what the characters know: `OpenTalk`, `AskNpc` (loud
or not, correcting the character's draft of this turn or not), `NpcAnswers`,
`NpcFails`, `CloseTalk` (commit of drafts, cursors and room notes) and
`DropTalk`. A beat has the witnesses that heard it and the place that keeps a
note of it; `delivered` and `shown` are the two cursors of a character. A
character's history opens with its card, is compacted with the card in front,
and takes a card update when the card has moved on (`CardInjected`).

### Memory

A text is the set of facts it tells, and `allowed` and `owed` are history
variables: whom each fact was ever given, and who may still count on it. `units`
is the store, keyed as the code keys it, because which of several units a record
is written to depends on the order of the ids (`Target`, `RecordOf`). The tools of
the game master are `AddRecord`, `MergeRecord`, `UpdateRecord`,
`DeactivateRecord`, `DeleteRecord`, `NoteMemory`, `NpcNoteMemory`,
`GeneratedPlace` and `ConsolidateMemory`. `PlayerActs` and `CommitBeat` are what a
turn remembers of a beat, its claims and its rumour; `AdvanceRumors`,
`SpreadOnTransition`, `ConfirmRumor`, `RemoveRumor` and `AddDebugRumor` change the
rumours, each with the unit that follows it. A turn ends with crystals
(`CloseBeats`, `Crystallize`, `EndTurn`): batches of one key of the lowest tier
that has enough. `LoadSave` and one `LoadSeed` for each seed record, with nothing
between, are the migration at every load. `ResetNpcMemory` is the reset of the
debug panel, which removes every unit that the character owns, whoever else it was
for, and no rumour; `erased` is the history of the rumours whose units went so.

### GrokAuth

A credential is its serial number. Requests read the file and the pending
credential, take the lock, mend the file, exchange the refresh token and save,
with the retries of the code (`MaxSerial` credentials, `Attempts` tries); a
status poll does the same without sending. A device login is a handler and the
task it spawns; a logout bumps the generation, aborts the task, takes the lock
and deletes. Any task can be dropped at an await. `newest`, `lost` and
`signedOut` are history variables.

### Architect

One package: `TurnStep` walks a turn through content, conversation, model, save;
an edit and a delete take the lock of the package, and what they left to a
blocking thread goes on without it when their client leaves (`alone`). A client
opens a form (`OpenForm`, `FillForm`) and posts all of it later, with a message or
as an edit: what is written is what the form knew, the edit made in it, and, of
what stands there now, any part (`Merged`: `update_world` merges key by key, and
which fields the form leaves empty is not known). The model writes back all that it
read, in the same way. Content is the set of hand edits it holds: an edit is held
as long as what stands in its field was written by one who had seen it.

### Sidecar

Every action is one critical section of the manager's mutex. `state`, `child`
and `timedOut` are the state machine, the handle and the passing of
`ready_timeout`. A task is a start, a shutdown or a restart (`Stopped` goes on to
`decide`). `ReapAtStart`, `ReapWhilePolling` and `Snapshot` are the places that
call `reap_exited_child`. `Replace` is the assignment that drops an old handle,
which kills its process. The process itself is external: `Serve` and `Exit`
happen or not, at any time.

## 4. Runs

| Run | Question | Bounds |
| --- | --- | --- |
| `TurnControlSafety` | server: turns, cancels and deletes, every safety property and the refinement; client: does the screen end true, do stops hold | two POSTs of one id with two payloads, one cancel, one delete, the least at which attach, conflict, retry and both kinds of cancel meet; two things said or edited, one reconnect, two troubles of network, server or page |
| `TurnControlLive` | do a cancelled turn, its cancel and overlapping deletes end, and does a delete settle its turns | scenario `cancels`: two POSTs, of one request or of two, one cancel; scenario `deletes`: one POST, two deletes; fair |
| `StoreScenes` | do the four tables agree; what holds of the path of one chat | tables: two chats, two requests, transcripts up to 2; path: one chat, three requests, transcripts up to 3, with reads and restarts; two workers; window 2, so that pruning happens |
| `StorePointer` | the active pointer and the gate | two chats, one request, two workers, all calls that touch the pointer, fair |
| `Services` | the sidecar against a process that crashes, hangs or serves; the end of a feed; what the memory tells, keeps and mirrors | three tasks, two processes; one client, one execution of two events; two small lives of a world, below; fair |
| `Parts` | the world, a credential, the feed and its promise, the architect, the histories | seven scenes, below |
| `StoreStaleSave`, `StoreResurrection`, `StoreReplay`, `SidecarWaits`, `WorldClock`, `PrivateStays` | counterexamples, section 7 | the least that shows them |

The scenes of `Parts`: `world` (two rooms and one generated place, up to three
edges; one character; the items of one name; two of these at a time, see `Small`),
`refresh` (two requests while the credential ages, three serials), `login` (one
request, one login, one logout), `feed` (two clients, two executions), `architect`
(two turns, one edit, one delete), `history` (four turns, two hops, one call an
answer, one piece of knowledge, two turns kept by compaction, so that a cut falls
into every position), `exchange` (two characters, two places, three requests in
two turns, one change, one exchange kept). The lives of the memory in `Services`
are two tools and a load, or a tool, a beat and a passage of time (a reset of a
character's memory counts as a tool, so that a rumour can be born, lose its unit
and change after); two units make a crystal, two crystals end a
turn, one rumour is kept.

The client begins with a loaded page and an empty chat; a page load is a trouble
like a lost answer. Where a turn runs beside an unfinished load there has been no
trouble but that load, and where a turn is adrift and the last one has been said,
one at most (`FewTroubles`): a turn said, edited or joined during the load, failed,
retried, stopped and played again fits into this, and a second trouble there does
not fit the time of the run. The proofs are of `ClientNext` and do without the
bound.

Bounds that order things. Requests, chats, handlers and workers are
interchangeable, which SYMMETRY uses where no liveness is checked. Where it is,
or where values are numbers, an order does the same: tasks and processes of the
sidecar are used in order (`InOrder`), and chats are drawn in order
(`DrawnInOrder`); any other choice is a renaming, and while some choice is
enabled the ordered one is, so fairness of the whole loses nothing. `Scenes` of
`MCStoreScenes` cuts the calls of one state space into two; each step belongs to
a scene by its successor state.

The passing runs fire every disjunct of every next-state relation but the call
`save` of the store, which the counterexamples take. Two workers are the least at
which a request meets another between any two of its steps; three do not fit the
time of a run. What the bounds leave out the proofs of section 6 cover for the
properties they name, for all calls, `save` included. Deadlock is checked where
workers start over (`StoreScenes`, `StorePointer`) and switched off where a
bounded scenario ends: handlers, tasks and requests there are used once.

Each property has a mutant: an operator next to the definition it replaces,
with the comment `Mutant of`, that makes the property fail in its run.

## 5. Fairness

Weak fairness only, and only for what the program does by itself. A spawned task
is polled until it returns and a blocking closure runs to its end, so the steps of
drivers, cancels, deletes and workers are fair. Clients owe nothing: posting,
cancelling, deleting, leaving, starting and shutting down are not fair. A model
call may never return: `JoinModelTask` is fair only when its task was aborted. A
turn that waits for its chat lock is fair once nothing is `Ahead` of it: the lock
is a tokio mutex, which serves its waiters in order, and whoever else takes it
holds it for one blocking call. While the turn ahead hangs in a model call nothing
is promised, which `CancelledTurnEnds` says. In `DialogStore` a worker's next step
is fair as a whole; the chat locks are not assumed to be strongly fair, and the
only liveness claimed there is that the active-state mutex is released
(`GateFreed`). In `Sidecar` no process has to come up or to crash; a killed one
dies, and time passes. In `TurnFeed` the driver of a turn whose task has ended is
fair, and the stream of a client that reads; that the turn ends is not assumed
(`FeedEnds` begins when its execution has). The other modules claim safety only.

## 6. Proofs

TLAPS checks these for all values of the constants, under the named assumptions of
the modules only: `None` is no member of the sets, `MaxRewind` and what compaction
keeps are positive, payloads have a chat and a request, bounds are natural
numbers, those on hops, turns and executions positive (`HistoryBounds`,
`ExchangeBounds`, `FeedBounds`); `Absent` is no serial (`AbsentAssumption`) and
the kinds of tasks of the connector, and of the architect, are told apart by name
(`KeepersAssumption`, `HandlersAssumption`).

* `TurnControlProofs`. `ControlInv` is inductive: types; `RegistryInv` (a live
  turn is the one its key leads to); `TurnInv` (what the stage of a driver says of
  fence, task, outcome and receipt); `CancelInv` and `SweepInv` (how far a cancel
  or a delete has come bounds the state of its turns: flagged, then no orphaned
  model call, then not saving); `BarInv` (while the bar stands, the sweep knows
  every live turn of the chat). The safety properties are read off it: none is
  inductive alone, because whether a save can still happen depends on the flag
  having been set before the fence was crossed. `CancelIsFinal` follows with the
  lemma that only the save persists. `PromiseKept`, in the same module: the
  initial states map to the initial state of the promise and every step to a step
  of it or a stutter, one lemma per actor.
* `DialogStoreProofs`. `StoreInv` is types, `NoDangling`, `SnapshotFits`, a gate
  invariant (who holds it and at which stage), `PointerLive` and the window
  invariant. `WindowHolds` is the deepest: the pruning keeps the `MaxRewind`
  highest numbers, which with `SnapshotFits` (one checkpoint per turn) bounds the
  cardinality for every window. The path of a chat needs more, where only turns
  save a runtime (`OnlyTurnsSave`): a turn holds the lock of its chat from its
  first read to its `cache_put` (`LocksInv`); one that is not cancelled has its
  chat, with no delete at it (`LiveInv`), so that the row it loaded is the row it
  replaces; a request on its way to a commit has no receipt (`TurnOnPath`); and
  checkpoints and receipts name the turn that stands. An edit keeps the ones
  before its turn because its snapshot is what stands before that turn
  (`EditSource`). `PathTables`, `PathSticks` and `PathPlayedOnce` are read off,
  for any number of chats while nobody branches and for the first chat until one
  is branched (`OnPath`). The hypothesis is the calls of the path scene: a command
  or a portrait that saves does lose a turn (section 7).
* `SidecarProofs`. Types, `NoStrayProcess` and `StateMatchesChild` are inductive
  together; `ReadyIsKept` is a fact about steps.
* `TurnFeedProofs`. `FeedInv` joins three facts about what is shared (a finished
  feed has its receipt and keeps it; a reader's cursor is what it received, at
  most what was published; only the execution in the registry can lack a
  receipt or still save). `ReaderMoves` and `ExecutionMoves` carry it over the two
  kinds of step, and `FeedInOrder` and `NotFoundIsTrue` are read off. The proof
  found that an earlier form of `NotFoundIsTrue` ("the executions are gone") held
  only for the two requests the run has: with a third, the driver of an
  execution that another followed may be finished and not yet gone.
  The refinement needs more (`StoryInv`): what an execution returned is true of the
  database (`Outcome`), executions begin in order and the registry names the last
  one (`OrderInv`), and a request that has not asked has nothing of the turn
  (`RequestOK`). Each action is then a step of `FeedPromise` or a stutter:
  `NotifyFinish` is one because the receipt was given with `Finish`, `GetMisses` is
  `Ask` because an entry that is dead has no running driver, `FramesEnd` is `Close`
  because the receipt was copied with the events. `FeedPromiseKept` states the
  property of the run, `FeedImplements` the implication of the specifications.
* `TurnControlProofs`, the second half, on `Client`. A request that was taken back
  is `CallSettled`: not in the chat, not running, and not about to be posted,
  unless a stop overtook a post of it. A settled request stays so because only a
  post starts an execution, only an execution plays a request, and the page posts
  an id again only by a retry, which ends the claim. The answer to a stop is about
  the open attempt, whose id cannot change while a stop is on its way
  (`StopBusy`), and an execution that was cut off is not in the chat
  (`UnplayedOut`); `StopHolds` is read off. `ScreenInv` joins what the server
  holds (a chat has a request once, and only what was played; `ChatTrue`) with the
  rows that lie `Under` an attempt. Those are true of the history (`TrueRows`),
  and an open attempt, one offered for a retry, or one whose reload may fail, is
  of a request that has no row among them or is adrift (`NewIn`): that is what
  makes its row addable when the turn is done. An attempt that may add rows has a
  checkpoint or is adrift. Below an edit they are a prefix, a new id is in no row
  because only what was said is played, and the answer to a stop shows what the
  chat had when it was read. A transcript that is shown under a turn in flight
  drops its checkpoint and sets it adrift, and no other. `ScreenTrue` is read off;
  the proof showed that it needs no guard, and it is now said of every state and
  not only of a page at rest. The type invariant bounds what the variables count,
  which takes an invariant of its own (`PageBounded`): whatever is retried,
  registered or on its way asks for an edit that was made, and an attempt is
  repeated at most as often as the page may reconnect.

* `MemoryProofs`. `MemoryInv` is types, `SecretsKept`, what a load writes
  (`SeedsGiven`: a reload puts first texts over units, so these too must have been
  given), `RumorsMirrored` (a reset moves the units it takes to `erased`, and
  whatever writes a rumour's unit anew takes it out), and that rumours are
  numbered apart, each unit of a rumour under its own id. Each operation of the
  store is shown to tell nothing that its units did not tell (a crystal's audience
  is that of its sources because a batch has one key; a consolidation's because
  its sources are `Alike`), and each tool to add to `allowed` what it writes.
  `SecretsStayKept` and `RumorsStayMirrored` are read off. `NothingIsForgotten`
  needs more (`ForgetInv`, kept along with `MemoryInv`): what is owed of a record
  is told by the record's own unit, in use or not (`LatestTold`), which is what a
  merge reads when it writes the unit anew and revives it; a unit that is a
  record's tells of that record only, to those it is placed with (`RecordFits`);
  and of the numbers handed out one unit at most carries records (`IdsApart`), so
  that carriers are in an order and the unit that is written is the one that is
  read. Each operation then either leaves a unit that told a fact
  (`AddedRemembers`), puts one in its place (`CrystalRemembers`,
  `RewriteRemembers`, `LoadRemembers`), or takes the fact out of `owed`
  (`ArchiveRemembers`, `RumoredKept`). A reset keeps in `owed` what a unit that
  stays tells in a default recall, and no record of which a unit went
  (`ResetForget`): what stays may be an older note that names the record, and the
  next merge would read it.
* `GrokAuthProofs`. `GrokInv` says who holds the credential lock and at which
  stage (`OneKeeper`), that one handler starts a login and its flow is filed or
  still to be (`OneStarter`, `Filed`), that a session that is signed out has
  nothing under way that could save (`NothingUnderWay`), and where each serial is
  (`Issued`, `Private`, `Handed`, `Kept`). `LogoutStands` and
  `RefreshTokenStaysSafe` follow for any number of requests, polls, logins and
  logouts; the run has three at most.
* `ConversationProofs`, of three modules:
  * `Exchange`. `Sound` is said of the saved and of the running session: beats and
    drafts are numbered, the cursors of a character are in order and what it was
    told lies at or below them, a draft's telling lies between them, and what its
    history says last of the card is the revision noted as injected. Compaction
    keeps all of it (`CompactedHistory`). `CardStaysCurrent` needs it because a
    request only compares the note; `BeatsStayToldOnce` because only drafts move
    the cursor.
  * `History`. A decision's replies follow it without a gap (`AllAnswered`), or up
    to the call that is due (`CallsPending`); of the kinds that say the options there
    is one snapshot, notices after it, and the last says what the session has
    (`PictureOK`); what the cache has is held by replies (`HeldIn`). The step that
    needs work is the compaction: it cuts at a message of the user, strips the
    snapshot that may stand anywhere behind the cut, and puts a new one in front.
    `RetainedIs` and `PlacesKept` say where each message goes; that no call is
    parted from its replies follows, because neither the cut nor the snapshot can
    stand between them (`CutAnswered`).
  * `Architect`. Who works on a package has its lock (`LockKept`), and what a turn
    has read of the conversation and of the hand edits still stands, or the package is
    gone (`ReadStands`): the edits that stand and did not slip past the lock are
    among those it read, so writing back what it read loses none of them. A form is
    not read under the lock, which is why `ArchitectAlwaysKeeps`, the action property
    itself, excepts what its client had not seen (`Unseen`).

  The types of `Exchange` and `History` count turns, beats, revisions and hops
  within the budgets (`ExchangeCounted`, `HistoryCounted`): the running session is
  one turn ahead of the saved one while a turn is open and equal to it otherwise,
  and each request, answer or change spends what it adds.

* `WorldProofs`. First what each action on a canon writes, then that it leaves
  the canon sound, then each tool. Three arguments:
  * `WorldInv`: the canon is sound (`PlacesFit`, `PeopleFit`, `EdgesFit`), the scene
    is its view, a row that claims to know where someone is agrees with it, the
    items are finite sets of known names, and the world's clock is at most the
    canon's. A site is visited from the start (so that a stop at one that exists
    finds it complete), which is why a canon has to show the kind of an id.
    `ViewsAgree` and the types are read off.
  * `Ways`: the edges of a passage are paired (`Paired`), an edge named for a passage
    carries it, an entry starts where its name says, a way back has the way there
    (`AllNamed`), and the passage of a road or an exit has the edge of its name
    (`Rooted`). `PassagePaired` is not inductive alone: `EntryWays` needs all three to
    show that the return way that `commit_generated_location` picks or names is
    the only other edge of the passage. Finiteness is not needed: two candidates
    for the return way would be a pair that runs the same way.
  * `Lying`: all items that lie somewhere, as pairs of place and item. A refresh of
    the scene leaves this set as it was (`RefreshedLie`), so only taking and
    dropping change the count, with the inventory. `NothingConjured` follows.

  Assumed: no room's id is that of a site (`CanonConstants`), profiles and amounts
  have natural minutes and the items of a scene are finite (`WorldConstants`), and
  a game starts from the canon of an opening scene or of the world generator
  (`SeedsAssumption`).

* The parts that a run puts side by side keep their types together:
  `ServicesStayTyped`, `PartsStayTyped`, `TurnStaysTyped`. They share no variable, so
  each component's invariant is kept by its own steps and left alone by the
  others'; the side conditions of the scenes (`Small`, `InOrder`) are not used.

`Retained` of `History`, the bodies of `Memory` and `latest` of `Client` are written
with sets, functions and pairs where the code filters lists or compares sequence
numbers: the provers know nothing of `SelectSeq`, and what is asked of the order is
only which of two came later.

Only model-checked: the five liveness properties (`CancelledTurnEnds`,
`StopsAreAnswered`, `GateFreed`, `TasksEnd`, `FeedEnds`), because fairness is
stated with ENABLED, which is out of this prover's reach; and the counterexamples
of section 7, which are TLC's.

## 7. Where the code departs from what it says

Shown by a run:

* A command can lose a committed turn (`StoreStaleSave`): `ensure_cached` loads
  the row, a turn commits and replaces the cache entry, the older runtime is then
  put over it, and a later `with_chat_saved` mutates and saves that. The portrait
  of a new chat can do the same, with no lock at all.
* A chat deleted under a command comes back (`StoreResurrection`).
* A branch can be played twice (`StoreReplay`): its receipt stays when an edit of
  the branch discards its turn. The retry works on the branch under the lock of
  its source, so a turn of the branch may be lost to it.
* `ensure_started` may never return (`SidecarWaits`): a shutdown under a poller
  disables the manager, and a disabled manager never times out.
* The canon's clock can be set back (`WorldClock`): a way into a generated place
  that is interrupted on the road advances it alone.
* A private answer is heard by others (`PrivateStays`): a second request of a turn
  takes the witnesses of the first.

Met while modelling, and kept as exceptions of a property or as behaviour the
model shows and no property forbids:

* Turns. With two overlapping deletes of one chat the first guard dropped lifts
  the bar of both (`deleting` is a set): `DeletesSettle` is about a bar that
  stands. A cancelled turn that waits for its chat lock behind another turn that
  hangs ends only once that one is cancelled; its cancel is answered before. The
  model has the lock and `CancelledTurnEnds` the exception.
* Client. The player may send while the page loads. The transcript that comes then
  clears the timeline and with it the checkpoint of the turn
  (`timelineStore.js:441-445`), so that `rollbackTurn` does nothing: the row of a
  turn that fails stays, and a retry shows it a second time, until the transcript
  is shown next. The restore of a failed edit does the same to a turn that the
  load has joined meanwhile. A page load reads the transcript before it asks for
  the running turn: a turn that commits in between is shown neither way until the
  next load, and one that is saved and not yet finished is shown twice. A stop
  that overtakes the post of a retry finds the execution before it, is answered
  "cancelled", and the post then plays the turn. When the answer to the stop of an
  edit is lost, the hidden rows stay hidden. A stop or a page load, then a replay
  whose reload fails, shows a row twice. `past.adrift` and `past.overtaken` name
  these in the properties. That a transcript is read and shown is one step here,
  and a page load is one load: what the load of panels and connectors does before
  it is left out.
* Store. A reset leaves checkpoints of turns that are gone until the next turn
  commits; an edit of such a turn brings the old path back.
* Architect. A form is posted whole, with an edit and with a message to the model
  (`App.jsx`, `WorldArchitectPanel.jsx:606`), and merged key by key: one that was
  opened before an edit by hand (in a second tab, or while the model thinks) and
  is posted after it writes the old values over it. The comment that "manual field
  edits are never lost" (`lib.rs`, above `post_world_architect_chat`) is true of
  what the model writes back; the property excepts such forms (`Unseen`).
  `visible_with_user_message` looks for the words of a message in the whole
  conversation, where its comment speaks of its end: a question asked again later
  is answered and never shown. A new package is listed before its creator holds
  its lock. The order of `/architect/active` is that of registration, not of the
  lock. A handler of a delete or an edit that is dropped leaves its blocking call
  running after the lock is free, which may leave a conversation without a
  package; so does a crash between the two writes of a turn.
* Connector. A reader without the lock takes the file before the pending
  credential, and a mend and a refresh in between make it drop the newest one; a
  request dropped between two tries to save loses the rotated token; a poll task
  past its last await saves after a logout (`connector.rs:113` says otherwise); a
  client that leaves a login before its abort handle is filed leaves a flow that
  no logout reaches, and one that leaves the logout leaves the session disabled.
* History. A summarizer that fails erases the summary (`unwrap_or_default`).
  `gm_keep_turns` or `npc_keep_exchanges` of 0 would index past the end: the
  modules assume at least 1. A world fact is clipped to 700 characters for the
  model, and all of its sources are then marked delivered.
* Exchange. Beats told only in a second request of a turn that failed are lost to
  that character. A corrected answer keeps its number, so who was told the first
  version never hears the second, and a draft taken back may have been told. A
  second character asked becomes a witness of the player's words and gets no
  memory of them. Room notes of a turn are left where the player is when it is
  committed. A private talk leaves a note that a newcomer to the place recalls. A
  dead character still answers (`npc_can_react`).
* Memory. An update of a fact that is in a crystal is written over the whole
  crystal, whose other facts no default recall finds any more (`Entangled`); a
  delete of one archives the crystal. A consolidation of an archived unit makes it
  cold, so that it is active again. Every load writes the first text of a seed
  record over what it has become (the comment at `world.rs:1216-1218` says "once",
  `session_payload.rs:1029-1031` runs it at each load) and makes consumed units
  hot. Crystals outlive the rumours they were made from. The reset of a
  character's memory (`session.rs:1348-1353`) deletes what it owns for everybody:
  the claims and crystals other scopes were given, too, and the unit of a rumour
  whose record stays in `World.rumors` and goes on spreading; a default recall
  does not find the rumour until it changes and is synced. The properties except
  both.
* Sidecar. A health probe answered by a process that is being shut down can make
  the next one ready before it is up.

Three simplifications that no property can tell: `LookupReceipt` of the store asks
for the receipts in one order where the code has two, `NeedsEntry` of the world does
not tell a parent place that is entered from one that is named without it, and
`Create` of the architect is the creation, the reading back and the first update of a
package that nobody else knows.

## 8. Not modelled

The map covers about a ninth of the implementation's lines. Most of the rest is
not behaviour: prompts and tool schemas, request and response mapping, parsing,
formatting, JSX, and tests. What is behaviour and is left out:

* Store: `rewind_chat_to_turn` and `branch_chat_from_turn` (no handler calls
  them), the legacy resume of a turn without a checkpoint, the start-up merge of
  guests, payload equality of a retried edit.
* World: agenda and scheduled events, hidden edges, nested places, the visited flag
  of road situations, the anti-repeat key, the budget of generated characters of a
  turn, visibility and portability of items, names of places that are no ids, the
  seeds of default whereabouts, the debug edit, the player's sheet.
* History and exchange: hops without a limit; calls with empty names, which only
  one connector lets through; the loaded tool set, which requests do not read; the
  characters' own tool loop; presence that sees but does not hear; dice, spells
  and sheets.
* Memory: search and its scores, details, tags and places of units, relationships
  and known names, the memory of a turn that fails (it goes with its session).
* Client: rows other than the player's and errors, panels, branches and the switch
  of chats, commands, the turns old servers saved unfinished.
* Connectors: Codex takes no lock and promises nothing, so there is nothing to
  check; the mock and the OpenAI-compatible one keep no state. For SuperGrok the
  model cache, the streams of an answer and a second process are left out.
* Retrieval ranks vectors, the package stores write one row or swap one
  directory, the search index follows the store's transactions; speech, settings
  and the shell are input and output.
