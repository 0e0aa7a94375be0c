---------------------------- MODULE DialogStore ----------------------------
(***************************************************************************)
(* The dialog store of gml-persistence with the callers of gml-server.     *)
(*                                                                         *)
(* SQLite holds the chats, their rewind checkpoints, the receipts of edits *)
(* and branches and the active pointer; every transaction is one step.     *)
(* Beside it stand a cache of live runtimes, which is filled and replaced  *)
(* in steps of its own, the active-state mutex ("gate") and one            *)
(* asynchronous mutex per chat.  The server uses one guest scope, so the   *)
(* guest column is left out.                                               *)
(*                                                                         *)
(* A worker is one HTTP request, or one detached turn driver, at a time.   *)
(* A runtime is what the operations tell apart: the requests whose turns   *)
(* the transcript holds, in order, and the mutations saved outside turns.  *)
(***************************************************************************)
EXTENDS Naturals, Sequences, FiniteSets, SequencesExt

CONSTANTS
  Chats,       \* chat ids
  Requests,    \* request ids of turns
  Notes,       \* mutations of a runtime outside a turn (constraint, event, ...)
  Workers,     \* concurrent requests
  Calls,       \* the calls the clients make in this instance
  MaxRewind,   \* MAX_REWIND_TURNS
  MaxTurns,    \* bound: no turn starts on a transcript of this length
  None

TurnCalls == {"turn", "edit", "branch", "retry"}
StateCalls == {"view", "save", "reset"}
AllCalls == {"turn", "edit", "branch", "create", "activate", "peek", "delete",
             "portrait", "fault", "restart"}
              \cup StateCalls

ASSUME RewindAssumption == MaxRewind \in Nat \ {0}
ASSUME BoundAssumption == MaxTurns \in Nat
ASSUME CallsAssumption == Calls \subseteq AllCalls
ASSUME AbsentAssumption ==
  /\ None \notin Chats \cup Workers \cup Requests
  /\ None \notin [turns : Seq(Requests), notes : SUBSET Notes]

VARIABLES
  rows,         \* dialog_chats: the runtime of each chat, None when absent
  checkpoints,  \* dialog_turn_checkpoints
  receipts,     \* dialog_history_turn_receipts
  active,       \* guest_dialog_state.active_chat_id
  drawn,        \* ids new_chat_id has returned
  cache,        \* DialogStore::cache
  gate,         \* holder of DialogStore::active_state_lock
  lock,         \* holder of AppState::chat_lock for each chat
  job           \* what each worker is doing

disk == <<rows, checkpoints, receipts, active, drawn>>
vars == <<rows, checkpoints, receipts, active, drawn, cache, gate, lock, job>>

Runtimes == [turns : Seq(Requests), notes : SUBSET Notes]
Checkpoints == [chat : Chats, turn : Nat \ {0}, request : Requests, snapshot : Runtimes]
Receipts == [source : Chats, request : Requests, kind : {"edit", "branch"},
             turn : Nat \ {0}, dest : Chats]

Stages == {"idle", "lock", "lookup", "load", "prepare", "model", "put",
           "resolve", "check", "point", "heal", "probe", "fetch", "fill", "use",
           "file", "dress", "sign", "delete", "evict"}

(* A worker's call: the chat of the request, the chat it works on, the     *)
(* turn an edit or a branch starts from, the runtime it has in hand        *)
(* ("seen"), the source row it saw when it prepared (PreparedHistoryCommit)*)
(* and whether the turn's cancellation flag is up.                         *)
JobRecords == [call : AllCalls \cup {"retry", "idle"}, stage : Stages,
               chat : Chats \cup {None}, dest : Chats \cup {None},
               turn : Nat, request : Requests \cup {None},
               seen : Runtimes \cup {None}, source : Runtimes \cup {None},
               cancelled : BOOLEAN]

Idle == [call |-> "idle", stage |-> "idle", chat |-> None, dest |-> None, turn |-> 0,
         request |-> None, seen |-> None, source |-> None, cancelled |-> FALSE]

NewRuntime == [turns |-> <<>>, notes |-> {}]
Committed(runtime) == ToSet(runtime.turns)
Existing == {c \in Chats : rows[c] # None}

StoreInit ==
  /\ rows = [c \in Chats |-> None]
  /\ checkpoints = {}
  /\ receipts = {}
  /\ active = None
  /\ drawn = {}
  /\ cache = [c \in Chats |-> None]
  /\ gate = None
  /\ lock = [c \in Chats |-> None]
  /\ job = [w \in Workers |-> Idle]

-----------------------------------------------------------------------------
(* Helpers on the tables and on a worker's call.                           *)

At(w, stage) == job[w].stage = stage
Goto(w, stage) == job' = [job EXCEPT ![w].stage = stage]

(* The call returns: its guards drop. *)
Leave(w) ==
  /\ job' = [job EXCEPT ![w] = Idle]
  /\ gate' = IF gate = w THEN None ELSE gate
  /\ lock' = [c \in Chats |-> IF lock[c] = w THEN None ELSE lock[c]]

CheckpointsOf(table, c) == {k \in table : k.chat = c}

(* The runtime a turn leaves: the staged one with the turn's rows added.   *)
Played(runtime, request) ==
  [runtime EXCEPT !.turns = Append(@, request)]

\* Mutant of KeepBelow: a commit leaves the checkpoints of the discarded tail.
KeepAll(c, n) == checkpoints

(* What a commit does to the checkpoints of a chat: those from some turn   *)
(* on go, upsert_turn_checkpoint adds one, and prune_turn_checkpoints      *)
(* leaves the newest MaxRewind turns.                                      *)
KeepBelow(c, n) == {k \in checkpoints : k.chat = c => k.turn < n}
Upsert(table, k) == {j \in table : j.chat # k.chat \/ j.turn # k.turn} \cup {k}

Prune(table, c) ==
  {k \in table : k.chat = c =>
     Cardinality({j \in CheckpointsOf(table, c) : j.turn > k.turn}) < MaxRewind}

\* Mutant of Stamp: the checkpoint is captured after the turn's first mutation.
StampLate(table, c, turn, request, snapshot) ==
  Prune(Upsert(table, [chat |-> c, turn |-> turn, request |-> request,
                       snapshot |-> Played(snapshot, request)]), c)

Stamp(table, c, turn, request, snapshot) ==
  Prune(Upsert(table, [chat |-> c, turn |-> turn, request |-> request,
                       snapshot |-> snapshot]), c)

BeingDeleted(c) == \E v \in Workers : job[v].call = "delete" /\ job[v].chat = c

-----------------------------------------------------------------------------
(* POST /turn: execute_turn under the chat lock.                           *)

(* The chat exists, no delete bars it and the registry has no live turn    *)
(* for this request.                                                       *)
StartTurn(w, call, c, q, n) ==
  /\ At(w, "idle")
  /\ call \in Calls
  /\ rows[c] # None
  /\ ~BeingDeleted(c)
  /\ \A v \in Workers :
       ~(job[v].call \in TurnCalls /\ job[v].chat = c /\ job[v].request = q)
  /\ job' = [job EXCEPT ![w] = [Idle EXCEPT !.call = call, !.stage = "lock",
                                  !.chat = c, !.dest = c, !.turn = n, !.request = q]]
  /\ UNCHANGED <<disk, cache, gate, lock>>

\* Mutant of EnterTurn: a turn does not wait for the chat lock.
EnterTurnUnlocked(w) ==
  /\ At(w, "lock")
  /\ job[w].call \in TurnCalls
  /\ Goto(w, "lookup")
  /\ UNCHANGED <<disk, cache, gate, lock>>

EnterTurn(w) ==
  /\ At(w, "lock")
  /\ job[w].call \in TurnCalls
  /\ lock[job[w].chat] = None
  /\ lock' = [lock EXCEPT ![job[w].chat] = w]
  /\ Goto(w, "lookup")
  /\ UNCHANGED <<disk, cache, gate>>

(* history_turn_receipt: a request that already committed as an edit or a  *)
(* branch goes on with the chat its receipt names and nothing prepared.    *)
LookupReceipt(w) ==
  /\ At(w, "lookup")
  /\ LET mine == {r \in receipts : r.source = job[w].chat /\ r.request = job[w].request}
     IN  \/ /\ mine = {}
            /\ Goto(w, "load")
         \/ \E r \in mine :
              /\ job[w].call # "turn"
              /\ r.kind = job[w].call /\ r.turn = job[w].turn
              /\ job' = [job EXCEPT ![w].call = "retry", ![w].stage = "load",
                                    ![w].dest = r.dest]
  /\ UNCHANGED <<disk, cache, gate, lock>>

\* Mutant of LoadTurn: the transcript is not searched for the request.
LoadTurnUnchecked(w) ==
  /\ At(w, "load")
  /\ job[w].call \in {"turn", "retry"}
  /\ rows[job[w].dest] # None
  /\ Len(rows[job[w].dest].turns) < MaxTurns
  /\ job' = [job EXCEPT ![w].stage = "model", ![w].seen = rows[job[w].dest]]
  /\ UNCHANGED <<disk, cache, gate, lock>>

(* load_chat and saved_turn_request; MaxTurns bounds the transcript.       *)
LoadTurn(w) ==
  /\ At(w, "load")
  /\ job[w].call \in {"turn", "retry"}
  /\ rows[job[w].dest] # None
  /\ job[w].request \notin Committed(rows[job[w].dest])
  /\ Len(rows[job[w].dest].turns) < MaxTurns
  /\ job' = [job EXCEPT ![w].stage = "model", ![w].seen = rows[job[w].dest]]
  /\ UNCHANGED <<disk, cache, gate, lock>>

(* An edit or a branch first makes sure the request is not in the source.  *)
LoadSource(w) ==
  /\ At(w, "load")
  /\ job[w].call \in {"edit", "branch"}
  /\ rows[job[w].chat] # None
  /\ job[w].request \notin Committed(rows[job[w].chat])
  /\ Goto(w, "prepare")
  /\ UNCHANGED <<disk, cache, gate, lock>>

(* prepare_history_turn: the snapshot becomes the staged runtime and the   *)
(* source row is remembered; a branch draws the id of its new chat.        *)
PrepareHistory(w) ==
  /\ At(w, "prepare")
  /\ rows[job[w].chat] # None
  /\ \E k \in CheckpointsOf(checkpoints, job[w].chat) :
       /\ k.turn = job[w].turn
       /\ job[w].request \notin Committed(k.snapshot)
       /\ \E d \in Chats :
            /\ IF job[w].call = "edit"
               THEN d = job[w].chat /\ drawn' = drawn
               ELSE d \notin drawn /\ drawn' = drawn \cup {d}
            /\ job' = [job EXCEPT ![w].stage = "model", ![w].dest = d,
                                  ![w].seen = k.snapshot,
                                  ![w].source = rows[job[w].chat]]
  /\ UNCHANGED <<rows, checkpoints, receipts, active, cache, gate, lock>>

(* Any other end of the call before its commit: the receipt belongs to     *)
(* another turn, the chat or the checkpoint is gone, the request is        *)
(* already in the transcript, the model failed, the turn was cancelled or  *)
(* SQLite refused.                                                         *)
AbandonTurn(w) ==
  /\ job[w].call \in TurnCalls
  /\ job[w].stage \in {"lookup", "load", "prepare", "model"}
  /\ Leave(w)
  /\ UNCHANGED <<disk, cache>>

\* Mutant of CommitTurn: the checkpoint takes the number of the turn before it.
CommitTurnUncounted(w) ==
  /\ At(w, "model")
  /\ job[w].call \in {"turn", "retry"}
  /\ ~job[w].cancelled
  /\ LET c == job[w].dest
         after == Played(job[w].seen, job[w].request)
         count == Len(job[w].seen.turns)
     IN  /\ rows' = [rows EXCEPT ![c] = after]
         /\ checkpoints' = Stamp(KeepBelow(c, count + 1), c, count,
                                 job[w].request, job[w].seen)
         /\ job' = [job EXCEPT ![w].stage = "put", ![w].seen = after]
  /\ UNCHANGED <<receipts, active, drawn, cache, gate, lock>>

(* save_owned_with_checkpoint: upsert the row, drop the checkpoints beyond *)
(* it, add this turn's and prune.  Nothing asks whether the row is still   *)
(* there or still the one that was loaded.                                 *)
CommitTurn(w) ==
  /\ At(w, "model")
  /\ job[w].call \in {"turn", "retry"}
  /\ ~job[w].cancelled
  /\ LET c == job[w].dest
         after == Played(job[w].seen, job[w].request)
         count == Len(after.turns)
     IN  /\ rows' = [rows EXCEPT ![c] = after]
         /\ checkpoints' = Stamp(KeepBelow(c, count + 1), c, count,
                                 job[w].request, job[w].seen)
         /\ job' = [job EXCEPT ![w].stage = "put", ![w].seen = after]
  /\ UNCHANGED <<receipts, active, drawn, cache, gate, lock>>

(* The source is what prepare_history_turn saw: the row, the checkpoint.   *)
SourceHolds(w) ==
  /\ rows[job[w].chat] = job[w].source
  /\ \E k \in CheckpointsOf(checkpoints, job[w].chat) :
       k.turn = job[w].turn /\ k.snapshot = job[w].seen

Receipt(w) == [source |-> job[w].chat, request |-> job[w].request, kind |-> job[w].call,
               turn |-> job[w].turn, dest |-> job[w].dest]

(* commit_prepared_history_turn needs the gate, a source that still holds  *)
(* and, for the primary key of the receipts, no receipt of this request.   *)
CanCommitHistory(w) ==
  /\ gate = None
  /\ ~job[w].cancelled
  /\ Len(job[w].seen.turns) + 1 = job[w].turn
  /\ SourceHolds(w)

NoReceiptYet(w, table) ==
  \A r \in table : ~(r.source = job[w].chat /\ r.request = job[w].request)

(* The receipts an edit at turn n leaves: those of edits at or after it go,*)
(* those of branches stay.                                                 *)
ReceiptsBefore(c, n) == {r \in receipts : ~(r.source = c /\ r.dest = c /\ r.turn >= n)}

CommitEdit(w) ==
  /\ At(w, "model")
  /\ job[w].call = "edit"
  /\ CanCommitHistory(w)
  /\ LET c == job[w].chat
         n == job[w].turn
         after == Played(job[w].seen, job[w].request)
     IN  /\ NoReceiptYet(w, ReceiptsBefore(c, n))
         /\ rows' = [rows EXCEPT ![c] = after]
         /\ checkpoints' = Stamp(KeepBelow(c, n), c, n, job[w].request, job[w].seen)
         /\ receipts' = ReceiptsBefore(c, n) \cup {Receipt(w)}
         /\ job' = [job EXCEPT ![w].stage = "put", ![w].seen = after]
  /\ gate' = w
  /\ UNCHANGED <<active, drawn, cache, lock>>

CommitBranch(w) ==
  /\ At(w, "model")
  /\ job[w].call = "branch"
  /\ CanCommitHistory(w)
  /\ LET d == job[w].dest
         n == job[w].turn
         after == Played(job[w].seen, job[w].request)
         inherited == {[k EXCEPT !.chat = d] :
                         k \in {k \in CheckpointsOf(checkpoints, job[w].chat) : k.turn < n}}
     IN  /\ rows[d] = None
         /\ NoReceiptYet(w, receipts)
         /\ rows' = [rows EXCEPT ![d] = after]
         /\ checkpoints' = Stamp(checkpoints \cup inherited, d, n,
                                 job[w].request, job[w].seen)
         /\ receipts' = receipts \cup {Receipt(w)}
         /\ active' = d
         /\ job' = [job EXCEPT ![w].stage = "put", ![w].seen = after]
  /\ gate' = w
  /\ UNCHANGED <<drawn, cache, lock>>

(* The commit's cache_put; then the call returns. *)
CacheTurn(w) ==
  /\ At(w, "put")
  /\ cache' = [cache EXCEPT ![job[w].dest] = job[w].seen]
  /\ Leave(w)
  /\ UNCHANGED disk

-----------------------------------------------------------------------------
(* The active pointer and the cache.                                       *)

(* with_active (view), with_chat_saved behind it (save, reset): the call   *)
(* first resolves the active chat.                                         *)
StartStateCall(w, call) ==
  /\ At(w, "idle")
  /\ call \in Calls \cap StateCalls
  /\ job' = [job EXCEPT ![w] = [Idle EXCEPT !.call = call, !.stage = "resolve"]]
  /\ UNCHANGED <<disk, cache, gate, lock>>

(* get_active: the pointer when its chat exists, else the latest chat, and *)
(* a new chat when there is none.  The gate stays held while the chat is   *)
(* brought into the cache.                                                 *)
GetActive(w) ==
  /\ At(w, "resolve")
  /\ gate = None
  /\ \E c \in Existing :
       /\ active \in Existing => c = active
       /\ active' = c
       /\ job' = [job EXCEPT ![w].stage = "probe", ![w].dest = c]
  /\ gate' = w
  /\ UNCHANGED <<rows, checkpoints, receipts, drawn, cache, lock>>

GetActiveCreates(w) ==
  /\ At(w, "resolve")
  /\ gate = None
  /\ Existing = {}
  /\ \E c \in Chats \ drawn :
       /\ drawn' = drawn \cup {c}
       /\ rows' = [rows EXCEPT ![c] = NewRuntime]
       /\ cache' = [cache EXCEPT ![c] = NewRuntime]
       /\ active' = c
       /\ job' = [job EXCEPT ![w].stage = "probe", ![w].dest = c]
  /\ gate' = w
  /\ UNCHANGED <<checkpoints, receipts, lock>>

(* new_chat_id gives up: here, because every id of the instance is used up. *)
NoIdLeft(w) ==
  /\ At(w, "resolve")
  /\ gate = None
  /\ Existing = {}
  /\ drawn = Chats
  /\ Leave(w)
  /\ UNCHANGED <<disk, cache>>

(* create_chat saves a new row, moves the pointer to it when it is to be   *)
(* active, under the gate, and puts it into the cache.                     *)
CreateChat(w, c, activate) ==
  /\ At(w, "idle")
  /\ "create" \in Calls
  /\ c \notin drawn
  /\ activate => gate = None
  /\ drawn' = drawn \cup {c}
  /\ rows' = [rows EXCEPT ![c] = NewRuntime]
  /\ gate' = IF activate THEN w ELSE gate
  /\ job' = [job EXCEPT ![w] = [Idle EXCEPT !.call = "create",
                                  !.stage = IF activate THEN "point" ELSE "file",
                                  !.chat = c, !.dest = c, !.seen = NewRuntime]]
  /\ UNCHANGED <<checkpoints, receipts, active, cache, lock>>

(* The cache_put; a hero's portrait may then be added to the new chat, and *)
(* the answer heals the pointer and reads the runtime.                     *)
FileChat(w) ==
  /\ At(w, "file")
  /\ cache' = [cache EXCEPT ![job[w].dest] = job[w].seen]
  /\ gate' = IF gate = w THEN None ELSE gate
  /\ \/ Goto(w, "heal")
     \/ /\ job[w].call = "create" /\ "portrait" \in Calls
        /\ job' = [job EXCEPT ![w].call = "portrait", ![w].stage = "dress"]
  /\ UNCHANGED <<disk, lock>>

(* The portrait: load_chat and save_owned with no chat lock around them.   *)
LoadBare(w) ==
  /\ At(w, "dress")
  /\ IF rows[job[w].dest] = None
     THEN Leave(w)
     ELSE /\ job' = [job EXCEPT ![w].stage = "sign", ![w].seen = rows[job[w].dest]]
          /\ UNCHANGED <<gate, lock>>
  /\ UNCHANGED <<disk, cache>>

SavePortrait(w) ==
  /\ At(w, "sign")
  /\ rows' = [rows EXCEPT ![job[w].dest] = job[w].seen]
  /\ Goto(w, "file")
  /\ UNCHANGED <<checkpoints, receipts, active, drawn, cache, gate, lock>>

(* activate_chat looks the chat up and moves the pointer under the gate.   *)
StartActivate(w, c) ==
  /\ At(w, "idle")
  /\ "activate" \in Calls
  /\ job' = [job EXCEPT ![w] = [Idle EXCEPT !.call = "activate", !.stage = "check",
                                  !.chat = c, !.dest = c]]
  /\ UNCHANGED <<disk, cache, gate, lock>>

\* Mutant of ActivateFinds: activate_chat without the active-state mutex.
ActivateUngated(w) ==
  /\ At(w, "check")
  /\ IF rows[job[w].chat] # None
     THEN Goto(w, "point") /\ UNCHANGED <<gate, lock>>
     ELSE Leave(w)
  /\ UNCHANGED <<disk, cache>>

ActivateFinds(w) ==
  /\ At(w, "check")
  /\ gate = None
  /\ IF rows[job[w].chat] # None
     THEN gate' = w /\ Goto(w, "point") /\ UNCHANGED lock
     ELSE Leave(w)
  /\ UNCHANGED <<disk, cache>>

ActivatePoints(w) ==
  /\ At(w, "point")
  /\ active' = job[w].chat
  /\ Goto(w, IF job[w].call = "create" THEN "file" ELSE "probe")
  /\ UNCHANGED <<rows, checkpoints, receipts, drawn, cache, gate, lock>>

(* canonical_chat_bundle: list_chats and active_chat_id heal the pointer;  *)
(* the runtime is then read without any lock.                              *)
StartPeek(w, c) ==
  /\ At(w, "idle")
  /\ "peek" \in Calls
  /\ job' = [job EXCEPT ![w] = [Idle EXCEPT !.call = "peek", !.stage = "heal",
                                  !.chat = c, !.dest = c]]
  /\ UNCHANGED <<disk, cache, gate, lock>>

HealActive(w) ==
  /\ At(w, "heal")
  /\ gate = None
  /\ IF active \in Existing \/ Existing = {}
     THEN active' = active
     ELSE active' \in Existing
  /\ Goto(w, "probe")
  /\ UNCHANGED <<rows, checkpoints, receipts, drawn, cache, gate, lock>>

(* What follows ensure_cached.  Under the gate it ends get_active or       *)
(* activate_chat: the gate drops, and with_active goes on to the chat lock *)
(* while the others read the runtime at once (with_runtime).               *)
AfterCached(w) ==
  IF gate = w
  THEN /\ gate' = None
       /\ Goto(w, IF job[w].call \in StateCalls THEN "lock" ELSE "probe")
  ELSE /\ gate' = gate
       /\ Goto(w, "use")

CacheHit(w) ==
  /\ At(w, "probe")
  /\ cache[job[w].dest] # None
  /\ AfterCached(w)
  /\ UNCHANGED <<disk, cache, lock>>

CacheMiss(w) ==
  /\ At(w, "probe")
  /\ cache[job[w].dest] = None
  /\ Goto(w, "fetch")
  /\ UNCHANGED <<disk, cache, gate, lock>>

LoadChat(w) ==
  /\ At(w, "fetch")
  /\ rows[job[w].dest] # None
  /\ job' = [job EXCEPT ![w].stage = "fill", ![w].seen = rows[job[w].dest]]
  /\ UNCHANGED <<disk, cache, gate, lock>>

ChatNotFound(w) ==
  /\ At(w, "fetch")
  /\ rows[job[w].dest] = None
  /\ AfterCached(w)
  /\ UNCHANGED <<disk, cache, lock>>

CachePut(w) ==
  /\ At(w, "fill")
  /\ cache' = [cache EXCEPT ![job[w].dest] = job[w].seen]
  /\ AfterCached(w)
  /\ UNCHANGED <<disk, lock>>

(* with_chat and with_chat_saved take the chat lock around with_runtime.   *)
EnterChat(w) ==
  /\ At(w, "lock")
  /\ job[w].call \in StateCalls
  /\ lock[job[w].dest] = None
  /\ lock' = [lock EXCEPT ![job[w].dest] = w]
  /\ Goto(w, "probe")
  /\ UNCHANGED <<disk, cache, gate>>

(* The closure of a call that only reads, or that finds no runtime. *)
UseRuntime(w) ==
  /\ At(w, "use")
  /\ job[w].call \notin {"save", "reset"} \/ cache[job[w].dest] = None
  /\ Leave(w)
  /\ UNCHANGED <<disk, cache>>

(* The cached runtime mutated outside a turn: a note added, or a reset     *)
(* that clears the transcript.                                             *)
Mutations(w) ==
  LET runtime == cache[job[w].dest]
  IN  IF job[w].call = "reset" THEN {NewRuntime}
      ELSE {[runtime EXCEPT !.notes = @ \cup {n}] : n \in Notes}

(* with_chat_saved under the cache mutex: mutate, then upsert the row.     *)
SaveChat(w) ==
  /\ At(w, "use")
  /\ job[w].call \in {"save", "reset"}
  /\ cache[job[w].dest] # None
  /\ \E after \in Mutations(w) :
       /\ cache' = [cache EXCEPT ![job[w].dest] = after]
       /\ rows' = [rows EXCEPT ![job[w].dest] = after]
  /\ Leave(w)
  /\ UNCHANGED <<checkpoints, receipts, active, drawn>>

(* SQLite refuses the save; the mutated runtime stays in the cache. *)
SaveChatFails(w) ==
  /\ At(w, "use")
  /\ "fault" \in Calls
  /\ job[w].call \in {"save", "reset"}
  /\ cache[job[w].dest] # None
  /\ \E after \in Mutations(w) : cache' = [cache EXCEPT ![job[w].dest] = after]
  /\ Leave(w)
  /\ UNCHANGED disk

-----------------------------------------------------------------------------
(* DELETE /chats/:id.                                                      *)

(* Bar new turns of the chat and cancel the live ones. *)
StartDelete(w, c) ==
  /\ At(w, "idle")
  /\ "delete" \in Calls
  /\ job' = [v \in Workers |->
               IF v = w THEN [Idle EXCEPT !.call = "delete", !.stage = "delete", !.chat = c]
               ELSE IF job[v].call \in TurnCalls /\ c \in {job[v].chat, job[v].dest}
               THEN [job[v] EXCEPT !.cancelled = TRUE] ELSE job[v]]
  /\ UNCHANGED <<disk, cache, gate, lock>>

(* The cancelled turns have left their commit fences. *)
FencesCrossed(c) ==
  \A v \in Workers : job[v].cancelled /\ c \in {job[v].chat, job[v].dest} => ~At(v, "put")

ReceiptsOf(c) == {r \in receipts : c \in {r.source, r.dest}}

(* delete_chat: the row, its checkpoints, its receipts at either end and,  *)
(* when it was the active chat, the pointer.                               *)
DeleteChat(w) ==
  /\ At(w, "delete")
  /\ FencesCrossed(job[w].chat)
  /\ gate = None
  /\ rows[job[w].chat] # None
  /\ LET c == job[w].chat
         left == Existing \ {c}
     IN  /\ rows' = [rows EXCEPT ![c] = None]
         /\ checkpoints' = {k \in checkpoints : k.chat # c}
         /\ receipts' = receipts \ ReceiptsOf(c)
         /\ IF active \in {None, c}
            THEN IF left = {} THEN active' = None ELSE active' \in left
            ELSE active' = active
  /\ gate' = w
  /\ Goto(w, "evict")
  /\ UNCHANGED <<drawn, cache, lock>>

NothingToDelete(w) ==
  /\ At(w, "delete")
  /\ FencesCrossed(job[w].chat)
  /\ gate = None
  /\ rows[job[w].chat] = None
  /\ Leave(w)
  /\ UNCHANGED <<disk, cache>>

\* Mutant of EvictChat: the answer to a delete is built with the gate still held.
EvictHolding(w) ==
  /\ At(w, "evict")
  /\ cache' = [cache EXCEPT ![job[w].chat] = None]
  /\ Goto(w, "resolve")
  /\ UNCHANGED <<disk, gate, lock>>

(* cache_remove; the answer then resolves and reads the active chat. *)
EvictChat(w) ==
  /\ At(w, "evict")
  /\ cache' = [cache EXCEPT ![job[w].chat] = None]
  /\ gate' = None
  /\ Goto(w, "resolve")
  /\ UNCHANGED <<disk, lock>>

-----------------------------------------------------------------------------
(* The process dies and starts again: SQLite is what is left. *)
Restart ==
  /\ "restart" \in Calls
  /\ cache' = [c \in Chats |-> None]
  /\ gate' = None
  /\ lock' = [c \in Chats |-> None]
  /\ job' = [w \in Workers |-> Idle]
  /\ UNCHANGED disk

Start(w) ==
  \/ \E c \in Chats, q \in Requests : StartTurn(w, "turn", c, q, 0)
  \/ \E c \in Chats, q \in Requests, n \in 1..MaxTurns, call \in {"edit", "branch"} :
       StartTurn(w, call, c, q, n)
  \/ \E call \in StateCalls : StartStateCall(w, call)
  \/ \E c \in Chats, activate \in BOOLEAN : CreateChat(w, c, activate)
  \/ \E c \in Chats : StartActivate(w, c) \/ StartPeek(w, c) \/ StartDelete(w, c)

TurnStep(w) ==
  \/ EnterTurn(w) \/ LookupReceipt(w) \/ LoadTurn(w) \/ LoadSource(w)
  \/ PrepareHistory(w) \/ AbandonTurn(w)
  \/ CommitTurn(w) \/ CommitEdit(w) \/ CommitBranch(w) \/ CacheTurn(w)

StateStep(w) ==
  \/ GetActive(w) \/ GetActiveCreates(w) \/ NoIdLeft(w)
  \/ FileChat(w) \/ LoadBare(w) \/ SavePortrait(w)
  \/ ActivateFinds(w) \/ ActivatePoints(w)
  \/ HealActive(w) \/ CacheHit(w) \/ CacheMiss(w) \/ LoadChat(w) \/ ChatNotFound(w)
  \/ CachePut(w) \/ EnterChat(w) \/ UseRuntime(w) \/ SaveChat(w) \/ SaveChatFails(w)

DeleteStep(w) == DeleteChat(w) \/ NothingToDelete(w) \/ EvictChat(w)

Advance(w) == TurnStep(w) \/ StateStep(w) \/ DeleteStep(w)

StoreNext == (\E w \in Workers : Start(w) \/ Advance(w)) \/ Restart

StoreSpec == StoreInit /\ [][StoreNext]_vars

(* A request in progress goes on by itself: its handler or its driver is a *)
(* task of its own.  Model calls return or time out.                       *)
FairStoreSpec == StoreSpec /\ \A w \in Workers : WF_vars(Advance(w))

-----------------------------------------------------------------------------
StoreTypeOK ==
  /\ rows \in [Chats -> Runtimes \cup {None}]
  /\ checkpoints \subseteq Checkpoints
  /\ receipts \subseteq Receipts
  /\ active \in Chats \cup {None}
  /\ drawn \subseteq Chats
  /\ cache \in [Chats -> Runtimes \cup {None}]
  /\ gate \in Workers \cup {None}
  /\ lock \in [Chats -> Workers \cup {None}]
  /\ job \in [Workers -> JobRecords]

(* The active pointer never names a chat that is gone: deletes, branches   *)
(* and activations race for it, each in several statements.                *)
PointerLive == active # None => rows[active] # None

(* No checkpoint and no receipt outlives a chat it mentions, and no        *)
(* request has two receipts in a chat.                                     *)
NoDangling ==
  /\ \A k \in checkpoints : rows[k.chat] # None
  /\ \A r \in receipts : rows[r.source] # None /\ rows[r.dest] # None
  /\ \A r, s \in receipts : r.source = s.source /\ r.request = s.request => r = s

(* The checkpoint of turn n restores a transcript of n - 1 turns, so that  *)
(* a commit from it is turn n again; a chat has one checkpoint per turn.   *)
SnapshotFits ==
  /\ \A k \in checkpoints : Len(k.snapshot.turns) + 1 = k.turn
  /\ \A j, k \in checkpoints : j.chat = k.chat /\ j.turn = k.turn => j = k

(* No chat keeps more than MaxRewind checkpoints, whatever mix of turns,   *)
(* edits and branches made them.                                           *)
RewindWindow == \A c \in Chats : Cardinality(CheckpointsOf(checkpoints, c)) <= MaxRewind

(* The three tables fit each other: what a rewind or a retry reads is about*)
(* a chat that is there, leads to the turn it names, and is not kept for   *)
(* ever.                                                                   *)
TablesFit == NoDangling /\ SnapshotFits /\ RewindWindow

(* A checkpoint within the transcript is about the turn that stands there: *)
(* its request made the turn and its snapshot is what came before.         *)
CheckpointNamesTurn ==
  \A k \in checkpoints :
    LET turns == rows[k.chat].turns
    IN  /\ k.turn <= Len(turns)
        /\ turns[k.turn] = k.request
        /\ SubSeq(turns, 1, k.turn - 1) = k.snapshot.turns

(* A request that committed as an edit is still in the transcript as long  *)
(* as its receipt is there: a retry is answered and never played again.    *)
EditReceiptCurrent ==
  \A r \in receipts : r.kind = "edit" => r.request \in Committed(rows[r.source])

(* A turn that committed leaves its chat only by an edit at or before it,  *)
(* or with the chat.                                                       *)
EditedBy(w, c) ==
  /\ job[w].call = "edit" /\ job[w].chat = c
  /\ IsPrefix(SubSeq(rows[c].turns, 1, job[w].turn - 1), rows'[c].turns)

CommitStays ==
  \A c \in Chats : rows[c] # None /\ rows'[c] # None =>
    \/ IsPrefix(rows[c].turns, rows'[c].turns)
    \/ \E w \in Workers : At(w, "model") /\ At(w, "put")' /\ EditedBy(w, c)

CommitSticks == [][CommitStays]_vars

(* A receipt is proof that its request was played: a request that has one  *)
(* never commits a turn again.                                             *)
PlayedOnce ==
  \A w \in Workers : At(w, "model") /\ At(w, "put")' => NoReceiptYet(w, receipts)

ReceiptIsProof == [][PlayedOnce]_vars

-----------------------------------------------------------------------------
(* What holds on the path of a chat: of chats that no branch leads to, as  *)
(* long as only turns save a runtime.  With branches it does not: the retry*)
(* of a branch works on the branch under the lock of its source.           *)

OnlyTurnsSave == Calls \cap {"save", "reset", "portrait"} = {}

\* No client branches, or no branch has drawn a second chat yet.
OnPath == "branch" \notin Calls \/ \A c, d \in drawn : c = d

(* The checkpoints of the path name the turns that stand in it, and a      *)
(* request with the receipt of an edit is in the path.                     *)
PathTables == OnPath => CheckpointNamesTurn /\ EditReceiptCurrent

(* No turn of the path is lost but by an edit, whatever restarts and reads.*)
PathSticks == [][OnPath => CommitStays]_vars

(* No request that has a receipt is played again.                          *)
PathPlayedOnce == [][OnPath => PlayedOnce]_vars

-----------------------------------------------------------------------------
(* A chat that was deleted stays deleted. *)
Gone == {c \in drawn : /\ rows[c] = None
                       /\ \A w \in Workers : job[w].call = "branch" => job[w].dest # c}
DeletedStaysDeleted == [][\A c \in Gone : rows'[c] = None]_vars

(* Whoever holds the active-state mutex lets it go: no path waits, with it *)
(* in hand, for itself or for a chat lock.                                 *)
GateFreed == gate # None ~> gate = None

=============================================================================
