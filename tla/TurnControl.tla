----------------------------- MODULE TurnControl -----------------------------
(***************************************************************************)
(* The in-memory control of player turns in crates/gml-server/src/lib.rs:  *)
(* struct TurnControl (cancel flag, abort handle, commit target, commit    *)
(* fence, terminal receipt), struct TurnRegistry (live controls by request *)
(* key, chats with a delete in progress), and the control skeleton of the  *)
(* three handlers that meet there: POST /turn with its detached driver     *)
(* (post_turn, execute_turn), POST /turn/{id}/cancel (post_cancel_turn)    *)
(* and POST /chats/{id}/delete (post_delete_chat).                         *)
(*                                                                         *)
(* What the driver loads and saves is abstracted here: a load may find a   *)
(* new request, a request already saved, or an error; a save succeeds or   *)
(* fails.  DialogStore models what these loads and saves do.               *)
(* One action is one critical section of the code: between two actions any *)
(* other task of the server may run.                                       *)
(***************************************************************************)
CONSTANTS
  Chats,      \* chat ids
  Requests,   \* request ids chosen by the clients
  Payloads,   \* the bodies of POST /turn: records with fields chat and req
  Handlers,   \* invocations of POST /turn; each one owns at most one TurnControl
  Cancels,    \* invocations of POST /turn/{id}/cancel
  Deletes,    \* invocations of POST /chats/{id}/delete
  None        \* the Rust Option::None

ASSUME PayloadAssumption ==
  \A p \in Payloads : p.chat \in Chats /\ p.req \in Requests

Keys     == Chats \X Requests
Outcomes == {"completed", "replayed", "cancelled", "failed"}
Tasks    == {"none", "live", "aborted", "joined"}

ASSUME NoneAssumption ==
  None \notin Chats \cup Payloads \cup Handlers \cup Keys \cup Outcomes

(***************************************************************************)
(* Where the task of a POST /turn stands.  "free": not received yet;       *)
(* "admitted": the chat was found, not registered yet; "refused" and       *)
(* "attached": the handler did not get a control of its own; "lost": the   *)
(* process stopped under it.  The others follow execute_turn.              *)
(***************************************************************************)
LiveStages ==
  {"registered", "waiting", "loading", "staged", "installing", "running",
   "illustrating", "committing", "fenced", "saving", "saved", "returned"}
Stages ==
  {"free", "admitted", "refused", "attached", "finished", "lost"} \cup LiveStages

CancelStages == {"idle", "flag", "abort", "fence", "resolve", "answered", "left",
                 "lost"}
DeleteStages ==
  {"idle", "sweep", "flag", "abort", "fence", "delete", "purge", "answer", "lift",
   "done", "lost"}

VARIABLES
  stage,           \* handler -> its stage
  post,            \* handler -> the payload it received, or None
  controls,        \* TurnRegistry.controls: request key -> handler or None
  deleting,        \* TurnRegistry.deleting: chats whose delete is running
  cancelRequested, \* TurnControl.cancel_requested
  modelAbort,      \* TurnControl.model_abort: an abort handle is installed
  modelTask,       \* the spawned orchestrator task of the turn
  commitTarget,    \* TurnControl.commit_target
  commitFence,     \* TurnControl.commit_fence is held (by the driver)
  outcome,         \* what execute_turn returns, None before
  terminal,        \* TurnFeed.terminal, None before finish
  persisted,       \* history: this turn's save reached the database
  cancelStage, cancelKey, cancelControl,   \* one cancel handler each
  deleteStage, deleteChat,                 \* one delete handler each
  deleteControl,   \* delete handler -> the control it is aborting, or None
  liveTurns,       \* delete handler -> controls its sweep found
  flagged,         \* delete handler -> controls of liveTurns it has flagged
  crossed,         \* delete handler -> controls of liveTurns whose fence it crossed
  guard,           \* delete handler -> its ChatDeleteGuard is not dropped yet
  barred           \* history: delete handler -> no guard of its chat was dropped
                   \* since this delete raised the bar

modelVars    == <<modelAbort, modelTask>>
resultVars   == <<outcome, terminal, persisted>>
driverVars   == <<stage, post, modelVars, commitTarget, commitFence, resultVars>>
registryVars == <<controls, deleting>>
cancelVars   == <<cancelStage, cancelKey, cancelControl>>
deleteVars   == <<deleteStage, deleteChat, deleteControl, liveTurns, flagged, crossed,
                  guard, barred>>
handlerVars  == <<registryVars, cancelRequested, cancelVars, deleteVars>>
controlVars  == <<driverVars, handlerVars>>

KeyOf(h)      == <<post[h].chat, post[h].req>>
Live(h)       == stage[h] \in LiveStages
IsFinished(h) == stage[h] = "finished"

\* The entry of key k upgrades to a control without a terminal receipt.
InFlight(k) == controls[k] # None /\ ~IsFinished(controls[k])

-----------------------------------------------------------------------------
ControlInit ==
  /\ stage = [h \in Handlers |-> "free"]
  /\ post = [h \in Handlers |-> None]
  /\ controls = [k \in Keys |-> None]
  /\ deleting = {}
  /\ cancelRequested = [h \in Handlers |-> FALSE]
  /\ modelAbort = [h \in Handlers |-> FALSE]
  /\ modelTask = [h \in Handlers |-> "none"]
  /\ commitTarget = [h \in Handlers |-> None]
  /\ commitFence = [h \in Handlers |-> FALSE]
  /\ outcome = [h \in Handlers |-> None]
  /\ terminal = [h \in Handlers |-> None]
  /\ persisted = [h \in Handlers |-> FALSE]
  /\ cancelStage = [x \in Cancels |-> "idle"]
  /\ cancelKey = [x \in Cancels |-> None]
  /\ cancelControl = [x \in Cancels |-> None]
  /\ deleteStage = [d \in Deletes |-> "idle"]
  /\ deleteChat = [d \in Deletes |-> None]
  /\ deleteControl = [d \in Deletes |-> None]
  /\ liveTurns = [d \in Deletes |-> {}]
  /\ flagged = [d \in Deletes |-> {}]
  /\ crossed = [d \in Deletes |-> {}]
  /\ guard = [d \in Deletes |-> FALSE]
  /\ barred = [d \in Deletes |-> FALSE]

Go(h, from, to) ==
  /\ stage[h] = from
  /\ stage' = [stage EXCEPT ![h] = to]

(***************************************************************************)
(* execute_turn returns o: the guard of the chat lock is dropped and the   *)
(* driver still has to publish the terminal receipt.                       *)
(***************************************************************************)
Return(h, from, o) ==
  /\ Go(h, from, "returned")
  /\ outcome' = [outcome EXCEPT ![h] = o]

-----------------------------------------------------------------------------
(* POST /turn up to the registration.                                      *)

\* resolve_owned_turn_chat found the chat of the payload.
Admit(h, p) ==
  /\ Go(h, "free", "admitted")
  /\ post' = [post EXCEPT ![h] = p]
  /\ UNCHANGED <<modelVars, commitTarget, commitFence, resultVars, handlerVars>>

\* Mutants of Register: the bar of a running delete is not looked at; a live
\* control of the same key is not looked at.
RegisterPastBar(h) ==
  /\ Go(h, "admitted", "registered")
  /\ ~InFlight(KeyOf(h))
  /\ controls' = [controls EXCEPT ![KeyOf(h)] = h]
  /\ UNCHANGED <<post, modelVars, commitTarget, commitFence, resultVars,
                 deleting, cancelRequested, cancelVars, deleteVars>>

RegisterTwice(h) ==
  /\ Go(h, "admitted", "registered")
  /\ post[h].chat \notin deleting
  /\ controls' = [controls EXCEPT ![KeyOf(h)] = h]
  /\ UNCHANGED <<post, modelVars, commitTarget, commitFence, resultVars,
                 deleting, cancelRequested, cancelVars, deleteVars>>

\* TurnRegistry::register under the lock of controls.  A bar on the chat
\* refuses; a live control of the same key is attached to when it does the
\* same work (the fingerprint is the payload) and refuses otherwise; else the
\* handler's own fresh control replaces the entry and its driver is spawned.
Register(h) ==
  LET current == controls[KeyOf(h)]
  IN  /\ stage[h] = "admitted"
      /\ \/ /\ post[h].chat \in deleting
            /\ stage' = [stage EXCEPT ![h] = "refused"]
            /\ UNCHANGED controls
         \/ /\ post[h].chat \notin deleting
            /\ InFlight(KeyOf(h))
            /\ stage' = [stage EXCEPT ![h] =
                           IF post[current] = post[h] THEN "attached" ELSE "refused"]
            /\ UNCHANGED controls
         \/ /\ post[h].chat \notin deleting
            /\ ~InFlight(KeyOf(h))
            /\ stage' = [stage EXCEPT ![h] = "registered"]
            /\ controls' = [controls EXCEPT ![KeyOf(h)] = h]
      /\ UNCHANGED <<post, modelVars, commitTarget, commitFence, resultVars,
                 deleting, cancelRequested, cancelVars, deleteVars>>

\* The last Arc of a finished control is dropped (a subscriber may keep it
\* alive for any time); its weak entry no longer upgrades.
DropControl(k) ==
  /\ controls[k] # None
  /\ IsFinished(controls[k])
  /\ controls' = [controls EXCEPT ![k] = None]
  /\ UNCHANGED <<driverVars, deleting, cancelRequested, cancelVars, deleteVars>>

-----------------------------------------------------------------------------
(* execute_turn, run by the detached driver of a registered handler.       *)

\* set_commit_target(source chat), before the chat lock is requested.
StartTurn(h) ==
  /\ Go(h, "registered", "waiting")
  /\ commitTarget' = [commitTarget EXCEPT ![h] = post[h].chat]
  /\ UNCHANGED <<post, modelVars, commitFence, resultVars, handlerVars>>

\* execute_turn holds the chat lock from here until it returns.
HoldsChat(h) == stage[h] \in LiveStages \ {"registered", "waiting", "returned"}

\* Turns of its chat that hold the lock a waiting turn asks for.
Ahead(h) ==
  {g \in Handlers : stage[h] = "waiting" /\ HoldsChat(g) /\ post[g].chat = post[h].chat}

\* The chat lock is acquired; a turn cancelled while it waited returns at once.
EnterTurn(h) ==
  /\ Ahead(h) = {}
  /\ \/ cancelRequested[h] /\ Return(h, "waiting", "cancelled")
     \/ ~cancelRequested[h] /\ Go(h, "waiting", "loading") /\ UNCHANGED outcome
  /\ UNCHANGED <<post, modelVars, commitTarget, commitFence, terminal,
                 persisted, handlerVars>>

\* The load failed, or found that the request id was used for other work.
LoadFails(h) ==
  /\ Return(h, "loading", "failed")
  /\ UNCHANGED <<post, modelVars, commitTarget, commitFence, terminal,
                 persisted, handlerVars>>

\* The loaded runtime belongs to chat c and already holds the request:
\* SavedTurnRequest::SameText replays it, DifferentText refuses it.
ResolveSaved(h, c, o) ==
  /\ o \in {"replayed", "failed"}
  /\ Return(h, "loading", o)
  /\ commitTarget' = [commitTarget EXCEPT ![h] = c]
  /\ UNCHANGED <<post, modelVars, commitFence, terminal, persisted, handlerVars>>

\* SavedTurnRequest::NotFound: the turn is staged on the runtime of chat c and
\* the orchestrator task is spawned.
StageTurn(h, c) ==
  /\ Go(h, "loading", "staged")
  /\ commitTarget' = [commitTarget EXCEPT ![h] = c]
  /\ modelTask' = [modelTask EXCEPT ![h] = "live"]
  /\ UNCHANGED <<post, modelAbort, commitFence, resultVars, handlerVars>>

\* Mutant of AttachModelTask: the handle is installed and the flag never read.
AttachUnchecked(h) ==
  /\ Go(h, "staged", "running")
  /\ modelAbort' = [modelAbort EXCEPT ![h] = TRUE]
  /\ UNCHANGED <<post, modelTask, commitTarget, commitFence, resultVars, handlerVars>>

\* attach_model_task, first half: under the mutex of model_abort, a turn
\* already cancelled aborts the task, any other installs its abort handle.
AttachModelTask(h) ==
  /\ \/ /\ cancelRequested[h]
        /\ Go(h, "staged", "running")
        /\ modelTask' = [modelTask EXCEPT ![h] = "aborted"]
        /\ UNCHANGED modelAbort
     \/ /\ ~cancelRequested[h]
        /\ Go(h, "staged", "installing")
        /\ modelAbort' = [modelAbort EXCEPT ![h] = TRUE]
        /\ UNCHANGED modelTask
  /\ UNCHANGED <<post, commitTarget, commitFence, resultVars, handlerVars>>

\* Second half, still under the mutex: the flag is read again.
RecheckModelTask(h) ==
  /\ Go(h, "installing", "running")
  /\ IF cancelRequested[h]
       THEN /\ modelAbort' = [modelAbort EXCEPT ![h] = FALSE]
            /\ modelTask' = [modelTask EXCEPT ![h] = "aborted"]
       ELSE UNCHANGED <<modelAbort, modelTask>>
  /\ UNCHANGED <<post, commitTarget, commitFence, resultVars, handlerVars>>

\* The orchestrator task is joined and its handle detached.  A cancelled turn
\* returns whatever the task did (an abort may come after its last await); a
\* task that was not aborted completed the turn or failed.
JoinModelTask(h) ==
  /\ \/ cancelRequested[h] /\ Return(h, "running", "cancelled")
     \/ ~cancelRequested[h] /\ Return(h, "running", "failed")
     \/ ~cancelRequested[h] /\ Go(h, "running", "illustrating") /\ UNCHANGED outcome
  /\ modelAbort' = [modelAbort EXCEPT ![h] = FALSE]
  /\ modelTask' = [modelTask EXCEPT ![h] = "joined"]
  /\ UNCHANGED <<post, commitTarget, commitFence, terminal, persisted,
                 handlerVars>>

\* The images of the turn were generated (failures are not fatal) and the
\* flag is read a last time outside the fence.
IllustrateTurn(h) ==
  /\ \/ cancelRequested[h] /\ Return(h, "illustrating", "cancelled")
     \/ ~cancelRequested[h] /\ Go(h, "illustrating", "committing") /\ UNCHANGED outcome
  /\ UNCHANGED <<post, modelVars, commitTarget, commitFence, terminal,
                 persisted, handlerVars>>

\* TurnControl::commit, in three steps: take the fence; under it read the flag
\* and give up or save; release the fence.
TakeFence(h) ==
  /\ ~commitFence[h]
  /\ Go(h, "committing", "fenced")
  /\ commitFence' = [commitFence EXCEPT ![h] = TRUE]
  /\ UNCHANGED <<post, modelVars, commitTarget, resultVars, handlerVars>>

\* Mutant of CheckCancelled: the flag is not read under the fence.
CheckNothing(h) ==
  /\ Go(h, "fenced", "saving")
  /\ UNCHANGED <<post, modelVars, commitTarget, commitFence, resultVars, handlerVars>>

CheckCancelled(h) ==
  /\ \/ /\ cancelRequested[h]
        /\ Return(h, "fenced", "cancelled")
        /\ commitFence' = [commitFence EXCEPT ![h] = FALSE]
     \/ /\ ~cancelRequested[h]
        /\ Go(h, "fenced", "saving")
        /\ UNCHANGED <<commitFence, outcome>>
  /\ UNCHANGED <<post, modelVars, commitTarget, terminal, persisted,
                 handlerVars>>

\* The SQLite transaction of the turn commits; the cache is updated next.
SaveTurn(h) ==
  /\ Go(h, "saving", "saved")
  /\ persisted' = [persisted EXCEPT ![h] = TRUE]
  /\ UNCHANGED <<post, modelVars, commitTarget, commitFence, outcome, terminal,
                 handlerVars>>

\* Mutant of SaveFails: the error path keeps the fence.
SaveFailsFenced(h) ==
  /\ Return(h, "saving", "failed")
  /\ UNCHANGED <<post, modelVars, commitTarget, commitFence, terminal, persisted,
                 handlerVars>>

\* The save returned an error and wrote nothing.
SaveFails(h) ==
  /\ Return(h, "saving", "failed")
  /\ commitFence' = [commitFence EXCEPT ![h] = FALSE]
  /\ UNCHANGED <<post, modelVars, commitTarget, terminal, persisted,
                 handlerVars>>

\* Mutant of ReleaseFence: a turn cancelled during its save reports cancelled.
ReleaseCancelled(h) ==
  /\ Return(h, "saved", IF cancelRequested[h] THEN "cancelled" ELSE "completed")
  /\ commitFence' = [commitFence EXCEPT ![h] = FALSE]
  /\ UNCHANGED <<post, modelVars, commitTarget, terminal, persisted, handlerVars>>

ReleaseFence(h) ==
  /\ Return(h, "saved", "completed")
  /\ commitFence' = [commitFence EXCEPT ![h] = FALSE]
  /\ UNCHANGED <<post, modelVars, commitTarget, terminal, persisted,
                 handlerVars>>

\* The driver publishes the terminal receipt and drops its Arc.
FinishTurn(h) ==
  /\ Go(h, "returned", "finished")
  /\ terminal' = [terminal EXCEPT ![h] = outcome[h]]
  /\ UNCHANGED <<post, modelVars, commitTarget, commitFence, outcome, persisted,
                 handlerVars>>

-----------------------------------------------------------------------------
(* POST /turn/{id}/cancel, and request_cancellation of a control.          *)

\* The flag is stored first, the abort handle is used second: the mutex of
\* model_abort is held between the two halves of attach_model_task.
StoreFlag(h) ==
  cancelRequested' = [cancelRequested EXCEPT ![h] = TRUE]

AbortModelTask(h) ==
  /\ stage[h] # "installing"
  /\ modelTask' = [modelTask EXCEPT ![h] = IF modelAbort[h] THEN "aborted" ELSE @]

CancelGo(x, from, to) ==
  /\ cancelStage[x] = from
  /\ cancelStage' = [cancelStage EXCEPT ![x] = to]

\* TurnRegistry::get; without a live control the durable receipts decide.
CancelLookup(x, k) ==
  /\ CancelGo(x, "idle", IF controls[k] = None THEN "resolve" ELSE "flag")
  /\ cancelKey' = [cancelKey EXCEPT ![x] = k]
  /\ cancelControl' = [cancelControl EXCEPT ![x] = controls[k]]
  /\ UNCHANGED <<driverVars, registryVars, cancelRequested, deleteVars>>

CancelFlag(x) ==
  /\ CancelGo(x, "flag", "abort")
  /\ StoreFlag(cancelControl[x])
  /\ UNCHANGED <<driverVars, registryVars, cancelKey, cancelControl, deleteVars>>

CancelAbort(x) ==
  /\ CancelGo(x, "abort", "fence")
  /\ AbortModelTask(cancelControl[x])
  /\ UNCHANGED <<stage, post, modelAbort, commitTarget, commitFence, resultVars,
                 registryVars, cancelRequested, cancelKey, cancelControl, deleteVars>>

\* Mutant of CancelCrossFence: the cancel does not wait for a running save.
CancelSkipFence(x) ==
  /\ CancelGo(x, "fence", "resolve")
  /\ UNCHANGED <<driverVars, registryVars, cancelRequested, cancelKey, cancelControl,
                 deleteVars>>

\* wait_for_commit: the fence is taken and dropped.
CancelCrossFence(x) ==
  /\ CancelGo(x, "fence", "resolve")
  /\ ~commitFence[cancelControl[x]]
  /\ UNCHANGED <<driverVars, registryVars, cancelRequested, cancelKey, cancelControl,
                 deleteVars>>

\* The receipts are read and the answer is sent.
CancelAnswer(x) ==
  /\ CancelGo(x, "resolve", "answered")
  /\ UNCHANGED <<driverVars, registryVars, cancelRequested, cancelKey, cancelControl,
                 deleteVars>>

\* The client goes away while the handler awaits the fence; the flag stays
\* set.  Later the closure reads the receipts, and only its answer is lost.
LeaveCancel(x) ==
  /\ CancelGo(x, "fence", "left")
  /\ UNCHANGED <<driverVars, registryVars, cancelRequested, cancelKey, cancelControl,
                 deleteVars>>

-----------------------------------------------------------------------------
(* POST /chats/{id}/delete.                                                *)

DeleteGo(d, from, to) ==
  /\ deleteStage[d] = from
  /\ deleteStage' = [deleteStage EXCEPT ![d] = to]

\* Mutant of RaiseBar: the bar is raised for the id before it is known.
RaiseUnknownBar(d, c) ==
  /\ DeleteGo(d, "idle", "sweep")
  /\ deleteChat' = [deleteChat EXCEPT ![d] = c]
  /\ deleting' = deleting \cup {deleteChat[d]}
  /\ guard' = [guard EXCEPT ![d] = TRUE]
  /\ barred' = [barred EXCEPT ![d] = TRUE]
  /\ UNCHANGED <<driverVars, controls, cancelRequested, cancelVars, deleteControl,
                 liveTurns, flagged, crossed>>

\* begin_chat_delete raises the bar: deleting is a set, not a count.
RaiseBar(d, c) ==
  /\ DeleteGo(d, "idle", "sweep")
  /\ deleteChat' = [deleteChat EXCEPT ![d] = c]
  /\ deleting' = deleting \cup {c}
  /\ guard' = [guard EXCEPT ![d] = TRUE]
  /\ barred' = [barred EXCEPT ![d] = TRUE]
  /\ UNCHANGED <<driverVars, controls, cancelRequested, cancelVars, deleteControl,
                 liveTurns, flagged, crossed>>

\* live_for_chat, under the lock of controls.
SweepTurns(d) ==
  LET c == deleteChat[d]
  IN  /\ DeleteGo(d, "sweep", "flag")
      /\ liveTurns' = [liveTurns EXCEPT ![d] =
           {h \in Handlers : /\ Live(h)
                             /\ controls[KeyOf(h)] = h
                             /\ c \in {post[h].chat, commitTarget[h]}}]
      /\ UNCHANGED <<driverVars, registryVars, cancelRequested, cancelVars, deleteChat,
                     deleteControl, flagged, crossed, guard, barred>>

\* request_cancellation of one swept turn after the other, each in two steps.
DeleteFlag(d, h) ==
  /\ h \in liveTurns[d] \ flagged[d]
  /\ DeleteGo(d, "flag", "abort")
  /\ StoreFlag(h)
  /\ flagged' = [flagged EXCEPT ![d] = @ \cup {h}]
  /\ deleteControl' = [deleteControl EXCEPT ![d] = h]
  /\ UNCHANGED <<driverVars, registryVars, cancelVars, deleteChat, liveTurns, crossed,
                 guard, barred>>

DeleteAbort(d) ==
  /\ DeleteGo(d, "abort", "flag")
  /\ AbortModelTask(deleteControl[d])
  /\ deleteControl' = [deleteControl EXCEPT ![d] = None]
  /\ UNCHANGED <<stage, post, modelAbort, commitTarget, commitFence, resultVars,
                 registryVars, cancelRequested, cancelVars, deleteChat, liveTurns,
                 flagged, crossed, guard, barred>>

\* Mutant of DeleteAllFlagged: the fences are crossed before every flag is set.
DeleteFlagFirst(d) ==
  /\ DeleteGo(d, "flag", "fence")
  /\ UNCHANGED <<driverVars, registryVars, cancelRequested, cancelVars, deleteChat,
                 deleteControl, liveTurns, flagged, crossed, guard, barred>>

DeleteAllFlagged(d) ==
  /\ flagged[d] = liveTurns[d]
  /\ DeleteGo(d, "flag", "fence")
  /\ UNCHANGED <<driverVars, registryVars, cancelRequested, cancelVars, deleteChat,
                 deleteControl, liveTurns, flagged, crossed, guard, barred>>

DeleteCrossFence(d, h) ==
  /\ deleteStage[d] = "fence"
  /\ h \in liveTurns[d] \ crossed[d]
  /\ ~commitFence[h]
  /\ crossed' = [crossed EXCEPT ![d] = @ \cup {h}]
  /\ UNCHANGED <<driverVars, registryVars, cancelRequested, cancelVars, deleteStage,
                 deleteChat, deleteControl, liveTurns, flagged, guard, barred>>

DeleteAllCrossed(d) ==
  /\ crossed[d] = liveTurns[d]
  /\ DeleteGo(d, "fence", "delete")
  /\ UNCHANGED <<driverVars, registryVars, cancelRequested, cancelVars, deleteChat,
                 deleteControl, liveTurns, flagged, crossed, guard, barred>>

\* What delete_chat and the answer do to the database is in DialogStore: the
\* rows go, then the cache entry, then the answer is read; a chat that does
\* not exist or an error ends the handler.
DeleteStep(d, from, to) ==
  /\ <<from, to>> \in {<<"delete", "purge">>, <<"delete", "lift">>,
                       <<"purge", "answer">>, <<"answer", "lift">>}
  /\ DeleteGo(d, from, to)
  /\ UNCHANGED <<driverVars, registryVars, cancelRequested, cancelVars, deleteChat,
                 deleteControl, liveTurns, flagged, crossed, guard, barred>>

\* Drop of the ChatDeleteGuard, if it is still held: the bar falls for every
\* delete of this chat.
DropGuard(d) ==
  /\ guard' = [guard EXCEPT ![d] = FALSE]
  /\ IF guard[d]
       THEN /\ deleting' = deleting \ {deleteChat[d]}
            /\ barred' = [e \in Deletes |-> barred[e] /\ deleteChat[e] # deleteChat[d]]
       ELSE UNCHANGED <<deleting, barred>>
  /\ UNCHANGED <<driverVars, controls, cancelRequested, cancelVars, deleteChat,
                 deleteControl, liveTurns, flagged, crossed>>

LiftBar(d) == DeleteGo(d, "lift", "done") /\ DropGuard(d)

(***************************************************************************)
(* The client of the delete goes away and the handler's future is dropped  *)
(* at the await it is in, its guard with it.  Left before delete_chat was  *)
(* handed to a blocking thread the delete is over; a closure already       *)
(* running on its thread goes on without the bar.                          *)
(***************************************************************************)
LeaveDelete(d) ==
  /\ deleteStage[d] \in {"fence", "delete", "purge", "answer"}
  /\ guard[d]
  /\ \/ deleteStage[d] \in {"fence", "delete"} /\ deleteStage' = [deleteStage EXCEPT ![d] = "done"]
     \/ deleteStage[d] # "fence" /\ UNCHANGED deleteStage
  /\ DropGuard(d)

-----------------------------------------------------------------------------
\* The process stops: tasks, locks, flags and registries are gone and a new
\* process starts without them.  Nothing received before is continued; what
\* the subscribers were told and what the database holds stays.
Lose(st, s) == IF st = "free" \/ st = "idle" THEN st ELSE s

CrashControl ==
  /\ stage' = [h \in Handlers |-> Lose(stage[h], "lost")]
  /\ cancelStage' = [x \in Cancels |-> Lose(cancelStage[x], "lost")]
  /\ deleteStage' = [d \in Deletes |-> Lose(deleteStage[d], "lost")]
  /\ post' = [h \in Handlers |-> None]
  /\ controls' = [k \in Keys |-> None]
  /\ deleting' = {}
  /\ cancelRequested' = [h \in Handlers |-> FALSE]
  /\ modelAbort' = [h \in Handlers |-> FALSE]
  /\ modelTask' = [h \in Handlers |-> "none"]
  /\ commitTarget' = [h \in Handlers |-> None]
  /\ commitFence' = [h \in Handlers |-> FALSE]
  /\ outcome' = [h \in Handlers |-> None]
  /\ cancelKey' = [x \in Cancels |-> None]
  /\ cancelControl' = [x \in Cancels |-> None]
  /\ deleteChat' = [d \in Deletes |-> None]
  /\ deleteControl' = [d \in Deletes |-> None]
  /\ liveTurns' = [d \in Deletes |-> {}]
  /\ flagged' = [d \in Deletes |-> {}]
  /\ crossed' = [d \in Deletes |-> {}]
  /\ guard' = [d \in Deletes |-> FALSE]
  /\ barred' = [d \in Deletes |-> FALSE]
  /\ UNCHANGED <<terminal, persisted>>

-----------------------------------------------------------------------------
DriverStep(h) ==
  \/ StartTurn(h) \/ EnterTurn(h) \/ LoadFails(h)
  \/ \E c \in Chats : StageTurn(h, c) \/ \E o \in Outcomes : ResolveSaved(h, c, o)
  \/ AttachModelTask(h) \/ RecheckModelTask(h) \/ JoinModelTask(h)
  \/ IllustrateTurn(h) \/ TakeFence(h) \/ CheckCancelled(h)
  \/ SaveTurn(h) \/ SaveFails(h) \/ ReleaseFence(h) \/ FinishTurn(h)

HandlerStep(h) == Register(h) \/ \E p \in Payloads : Admit(h, p)

CancelStep(x) ==
  \/ \E k \in Keys : CancelLookup(x, k)
  \/ CancelFlag(x) \/ CancelAbort(x) \/ CancelCrossFence(x) \/ CancelAnswer(x)

DeleteTask(d) ==
  \/ \E c \in Chats : RaiseBar(d, c)
  \/ SweepTurns(d)
  \/ \E h \in Handlers : DeleteFlag(d, h) \/ DeleteCrossFence(d, h)
  \/ DeleteAbort(d) \/ DeleteAllFlagged(d) \/ DeleteAllCrossed(d)
  \/ \E from, to \in DeleteStages : DeleteStep(d, from, to)
  \/ LiftBar(d)

Leave ==
  \/ \E x \in Cancels : LeaveCancel(x)
  \/ \E d \in Deletes : LeaveDelete(d)

ControlNext ==
  \/ \E h \in Handlers : HandlerStep(h) \/ DriverStep(h)
  \/ \E k \in Keys : DropControl(k)
  \/ \E x \in Cancels : CancelStep(x)
  \/ \E d \in Deletes : DeleteTask(d)
  \/ Leave
  \/ CrashControl

ControlSpec == ControlInit /\ [][ControlNext]_controlVars

(***************************************************************************)
(* Every spawned task is polled until it returns and blocking closures run *)
(* to completion: weak fairness for each step the server takes by itself.  *)
(* Not for what a client starts or leaves (Admit, Register, CancelLookup,  *)
(* RaiseBar, Leave), not for crashes, and for the model call only once its *)
(* task is aborted: a provider may never answer.  An image request has a   *)
(* timeout.                                                                *)
(***************************************************************************)
ControlFairness ==
  /\ \A h \in Handlers :
       /\ WF_controlVars(DriverStep(h) /\ stage[h] # "running")
       /\ WF_controlVars(JoinModelTask(h) /\ modelTask[h] = "aborted")
  /\ \A x \in Cancels : WF_controlVars(CancelStep(x) /\ cancelStage[x] # "idle")
  /\ \A d \in Deletes : WF_controlVars(DeleteTask(d) /\ deleteStage[d] # "idle")

FairControlSpec == ControlSpec /\ ControlFairness

-----------------------------------------------------------------------------
TurnTypeOK ==
  /\ stage \in [Handlers -> Stages]
  /\ post \in [Handlers -> Payloads \cup {None}]
  /\ modelAbort \in [Handlers -> BOOLEAN]
  /\ modelTask \in [Handlers -> Tasks]
  /\ commitTarget \in [Handlers -> Chats \cup {None}]
  /\ commitFence \in [Handlers -> BOOLEAN]
  /\ outcome \in [Handlers -> Outcomes \cup {None}]
  /\ terminal \in [Handlers -> Outcomes \cup {None}]
  /\ persisted \in [Handlers -> BOOLEAN]

RegistryTypeOK ==
  /\ controls \in [Keys -> Handlers \cup {None}]
  /\ deleting \in SUBSET Chats
  /\ cancelRequested \in [Handlers -> BOOLEAN]

CancelTypeOK ==
  /\ cancelStage \in [Cancels -> CancelStages]
  /\ cancelKey \in [Cancels -> Keys \cup {None}]
  /\ cancelControl \in [Cancels -> Handlers \cup {None}]

DeleteTypeOK ==
  /\ deleteStage \in [Deletes -> DeleteStages]
  /\ deleteChat \in [Deletes -> Chats \cup {None}]
  /\ deleteControl \in [Deletes -> Handlers \cup {None}]
  /\ liveTurns \in [Deletes -> SUBSET Handlers]
  /\ flagged \in [Deletes -> SUBSET Handlers]
  /\ crossed \in [Deletes -> SUBSET Handlers]
  /\ guard \in [Deletes -> BOOLEAN]
  /\ barred \in [Deletes -> BOOLEAN]

\* Every variable has its type, in every state.
ControlTypeOK == TurnTypeOK /\ RegistryTypeOK /\ CancelTypeOK /\ DeleteTypeOK

Saving(h)     == stage[h] \in {"saving", "saved"}
FencesCrossed == {"delete", "purge", "answer", "lift"}

(***************************************************************************)
(* A request id names at most one running turn of its chat: a second POST  *)
(* of the id attaches to the running turn or is refused, it never starts   *)
(* another execution beside it (TurnRegistry::register).                   *)
(***************************************************************************)
OneLiveTurnPerRequest ==
  \A g, h \in Handlers : Live(g) /\ Live(h) /\ KeyOf(g) = KeyOf(h) => g = h

(***************************************************************************)
(* "can no longer be persisted by the in-flight task" (doc of              *)
(* post_cancel_turn): once the cancel handler has crossed the fence of a   *)
(* turn, that turn never reaches the database if it has not yet.           *)
(***************************************************************************)
CancelIsFinal ==
  [][\A x \in Cancels, h \in Handlers :
       cancelStage[x] \in {"resolve", "answered"} /\ cancelControl[x] = h
         => persisted'[h] = persisted[h]]_controlVars

(***************************************************************************)
(* After request_cancellation returned, the orchestrator task of the turn  *)
(* is aborted or not started: the race of the flag against the handle      *)
(* installation, which attach_model_task closes, leaves no model call      *)
(* running for a turn that was cancelled.                                  *)
(***************************************************************************)
NoOrphanModelTask ==
  \A x \in Cancels :
    /\ cancelStage[x] \in {"fence", "resolve", "answered"}
    /\ cancelControl[x] # None
    => ~ (stage[cancelControl[x]] = "running" /\ modelTask[cancelControl[x]] = "live")

(***************************************************************************)
(* post_delete_chat: "after this, each turn either committed already (and  *)
(* gets deleted with the chat) or can no longer commit".  For the turns    *)
(* its sweep saw, whatever else runs.                                      *)
(***************************************************************************)
SweptTurnsCannotCommit ==
  \A d \in Deletes :
    deleteStage[d] \in FencesCrossed => \A h \in liveTurns[d] : ~Saving(h)

(***************************************************************************)
(* The same for every turn posted to the chat, seen by the sweep or not:   *)
(* no registration slips between the bar and the sweep.  It holds while    *)
(* the bar of this delete stands: another delete of the chat, or the client*)
(* going away, drops it.                                                   *)
(***************************************************************************)
BarredChatIsQuiet ==
  \A d \in Deletes :
    deleteStage[d] \in FencesCrossed /\ barred[d] =>
      \A h \in Handlers :
        post[h] # None /\ Saving(h) => post[h].chat # deleteChat[d]

(***************************************************************************)
(* A delete that has crossed the fences has the chat to itself: neither the*)
(* turns it saw nor those posted behind its bar are saved any more.        *)
(***************************************************************************)
DeletesSettle == SweptTurnsCannotCommit /\ BarredChatIsQuiet

(***************************************************************************)
(* The terminal receipt tells the truth about the database: completed      *)
(* exactly for the turns this execution persisted.  "A failed or cancelled *)
(* turn left the pre-turn checkpoint as the only truth."                   *)
(***************************************************************************)
TerminalTellsTheTruth ==
  \A h \in Handlers :
    IsFinished(h) => (terminal[h] = "completed" <=> persisted[h])

(***************************************************************************)
(* A cancelled turn ends although its model call may never return, unless  *)
(* the process stops: the abort reaches the task whichever side of         *)
(* attach_model_task the flag was stored on.  The flag is read under the   *)
(* chat lock, so one that still waits for the lock ends only after the     *)
(* turn ahead of it, and that one may hang in a model call for as long as  *)
(* nobody cancels it too.                                                  *)
(***************************************************************************)
Hangs(h) == stage[h] = "running" /\ ~cancelRequested[h]

CancelledTurnEnds ==
  \A h \in Handlers :
    cancelRequested[h] /\ Live(h) ~> ~Live(h) \/ \E g \in Ahead(h) : Hangs(g)

(***************************************************************************)
(* A cancel and a delete are answered although the turns they wait for     *)
(* hang in a model call: the fence is held only for the blocking save.     *)
(***************************************************************************)
StopsAreAnswered ==
  /\ \A x \in Cancels :
       cancelStage[x] # "idle" ~> cancelStage[x] \in {"answered", "left", "lost"}
  /\ \A d \in Deletes :
       deleteStage[d] # "idle" ~> deleteStage[d] \in {"done", "lost"}

-----------------------------------------------------------------------------
(***************************************************************************)
(* The refinement mapping.  A turn is decided when its save commits or when*)
(* its handler leaves the stages that can still lead to a save; it is      *)
(* settled when a cancel or a delete has crossed its fence, or when the    *)
(* process stopped under it.                                               *)
(***************************************************************************)
Verdict(h) ==
  IF persisted[h] THEN "committed"
  ELSE IF stage[h] \in {"refused", "attached", "returned", "finished", "lost"}
    THEN "dropped" ELSE "open"

Receipt(h) ==
  IF terminal[h] = None THEN "none"
  ELSE IF terminal[h] = "completed" THEN "committed" ELSE "dropped"

Settled ==
  {h \in Handlers :
     \/ stage[h] = "lost"
     \/ \E d \in Deletes : h \in crossed[d]
     \/ \E x \in Cancels : /\ cancelControl[x] = h
                           /\ cancelStage[x] \in {"resolve", "answered"}}

Promise ==
  INSTANCE TurnPromise
    WITH Turns <- Handlers,
         verdict <- [h \in Handlers |-> Verdict(h)],
         receipt <- [h \in Handlers |-> Receipt(h)],
         settled <- Settled

(***************************************************************************)
(* The control protocol keeps the promise of TurnPromise: commit at most   *)
(* once, true receipts, and no commit after a cancel or a delete settled   *)
(* the turn.                                                               *)
(***************************************************************************)
KeepsPromise == Promise!PromiseSpec

=============================================================================
