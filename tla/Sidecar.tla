------------------------------ MODULE Sidecar ------------------------------
(***************************************************************************)
(* The manager of the inference sidecar: one child process that serves     *)
(* embeddings, speech and images, started on demand by any request that    *)
(* needs it, polled until it is healthy and killed on shutdown.  Every     *)
(* action is a critical section of the manager's mutex or a step between   *)
(* two of them.                                                            *)
(***************************************************************************)
EXTENDS Naturals

CONSTANTS
  Tasks,    \* calls of ensure_started, of shutdown, and restarts
  Procs,    \* bound on the processes ever spawned
  None

ASSUME NoneAssumption == None \notin Procs

VARIABLES
  state,      \* StateMachine.state
  timedOut,   \* ready_timeout has passed since started_at
  child,      \* Inner.child, with its ProcessTree
  spawned,    \* processes spawned so far
  alive,      \* processes that run
  doomed,     \* processes that were sent a kill
  serving,    \* the process that answers at base_url, all its components up
  stage,      \* where each task is
  healthy,    \* what its last health probe answered
  taken       \* the process a shutdown has taken out of the manager

manager == <<state, timedOut, child>>
processes == <<spawned, alive, doomed, serving>>
locals == <<healthy, taken>>
vars == <<state, timedOut, child, spawned, alive, doomed, serving, stage, healthy, taken>>

States == {"disabled", "starting", "ready", "failed"}
Polling == {"look", "ask", "judge"}
Returned == {"ok", "error", "stopped", "gone"}
Stages == {"idle", "decide", "kill", "wait"} \cup Polling \cup Returned

SidecarInit ==
  /\ state = "disabled" /\ timedOut = FALSE /\ child = None
  /\ spawned = {} /\ alive = {} /\ doomed = {} /\ serving = None
  /\ stage = [t \in Tasks |-> "idle"]
  /\ healthy = [t \in Tasks |-> FALSE]
  /\ taken = [t \in Tasks |-> None]

Goto(t, s) == stage' = [stage EXCEPT ![t] = s]

\* The child handle holds a process that has exited.
ChildExited == child # None /\ child \notin alive

-----------------------------------------------------------------------------
(* The processes.                                                          *)

(* The models are loaded and the port is bound. *)
Serve(p) ==
  /\ p \in alive
  /\ serving = None
  /\ serving' = p
  /\ UNCHANGED <<manager, spawned, alive, doomed, stage, locals>>

(* A crash, a port in use, or the kill it was sent. *)
Exit(p) ==
  /\ p \in alive
  /\ alive' = alive \ {p}
  /\ serving' = IF serving = p THEN None ELSE serving
  /\ UNCHANGED <<manager, spawned, doomed, stage, locals>>

ReadyTimeout ==
  /\ state = "starting"
  /\ timedOut' = TRUE
  /\ UNCHANGED <<state, child, processes, stage, locals>>

-----------------------------------------------------------------------------
(* reap_exited_child, at the head of every access to the manager.          *)

\* Mutant of Reap: the handle is cleared and the state machine is not told.
ReapQuietly == child' = None /\ UNCHANGED <<state, timedOut>>

Reap == child' = None /\ state' = "failed" /\ timedOut' = FALSE

(* state, is_ready and snapshot, read by the status handlers. *)
Snapshot ==
  /\ ChildExited
  /\ Reap
  /\ UNCHANGED <<processes, stage, locals>>

-----------------------------------------------------------------------------
(* ensure_started.                                                         *)

Start(t) ==
  /\ stage[t] = "idle"
  /\ Goto(t, "decide")
  /\ UNCHANGED <<manager, processes, locals>>

ReapAtStart(t) ==
  /\ stage[t] = "decide"
  /\ ChildExited
  /\ Reap
  /\ Goto(t, "error")
  /\ UNCHANGED <<processes, locals>>

Join(t) ==
  /\ stage[t] = "decide"
  /\ ~ChildExited
  /\ state \in {"ready", "starting"}
  /\ Goto(t, IF state = "ready" THEN "ok" ELSE "look")
  /\ UNCHANGED <<manager, processes, locals>>

\* Mutant of Replace: the handle of the timed-out child is dropped without kill_on_drop.
ReplaceUnkilled(p) == child' = p /\ doomed' = doomed

(* The new handle replaces one left by a start that timed out; the old one *)
(* is dropped, which kills its process.                                    *)
Replace(p) == child' = p /\ doomed' = doomed \cup ({child} \ {None})

Spawn(t) ==
  /\ stage[t] = "decide"
  /\ ~ChildExited
  /\ state \in {"disabled", "failed"}
  /\ \E p \in Procs \ spawned :
       /\ Replace(p)
       /\ spawned' = spawned \cup {p}
       /\ alive' = alive \cup {p}
  /\ state' = "starting"
  /\ timedOut' = FALSE
  /\ Goto(t, "look")
  /\ UNCHANGED <<serving, locals>>

SpawnFails(t) ==
  /\ stage[t] = "decide"
  /\ ~ChildExited
  /\ state \in {"disabled", "failed"}
  /\ state' = "failed"
  /\ timedOut' = FALSE
  /\ Goto(t, "error")
  /\ UNCHANGED <<child, processes, locals>>

ReapWhilePolling(t) ==
  /\ stage[t] = "look"
  /\ ChildExited
  /\ Reap
  /\ Goto(t, "error")
  /\ UNCHANGED <<processes, locals>>

Look(t) ==
  /\ stage[t] = "look"
  /\ ~ChildExited
  /\ Goto(t, "ask")
  /\ UNCHANGED <<manager, processes, locals>>

(* GET /health, with no lock held: whoever serves the port answers. *)
ProbeHealth(t) ==
  /\ stage[t] = "ask"
  /\ healthy' = [healthy EXCEPT ![t] = serving # None]
  /\ Goto(t, "judge")
  /\ UNCHANGED <<manager, processes, taken>>

\* Mutant of OnHealth: a sidecar that is ready is still put to the test.
OnHealthReady(answer) ==
  IF state \notin {"starting", "ready"} THEN state
  ELSE IF answer THEN "ready"
  ELSE IF timedOut THEN "failed" ELSE state

\* StateMachine::on_health.
OnHealth(answer) ==
  IF state # "starting" THEN state
  ELSE IF answer THEN "ready"
  ELSE IF timedOut THEN "failed" ELSE "starting"

\* Mutant of Judge: the poll goes on after the start has failed.
JudgeReadyOnly(t) ==
  /\ stage[t] = "judge"
  /\ state' = OnHealth(healthy[t])
  /\ Goto(t, IF state' = "ready" THEN "ok" ELSE "look")
  /\ UNCHANGED <<timedOut, child, processes, locals>>

\* Mutant of Judge: the poll passes the state on as its result.
JudgeRaw(t) ==
  /\ stage[t] = "judge"
  /\ state' = OnHealth(healthy[t])
  /\ Goto(t, IF state' = "starting" THEN "look" ELSE state')
  /\ UNCHANGED <<timedOut, child, processes, locals>>

Judge(t) ==
  /\ stage[t] = "judge"
  /\ state' = OnHealth(healthy[t])
  /\ Goto(t, CASE state' = "ready" -> "ok" [] state' = "failed" -> "error" [] OTHER -> "look")
  /\ UNCHANGED <<timedOut, child, processes, locals>>

(* The client leaves and the handler is dropped at an await of its poll. *)
Abandon(t) ==
  /\ stage[t] \in {"look", "ask"}
  /\ Goto(t, "gone")
  /\ UNCHANGED <<manager, processes, locals>>

-----------------------------------------------------------------------------
(* shutdown, alone or as the first half of restart_sidecar_in_background.  *)

Shutdown(t) ==
  /\ stage[t] = "idle"
  /\ state' = "disabled"
  /\ timedOut' = FALSE
  /\ taken' = [taken EXCEPT ![t] = child]
  /\ child' = None
  /\ Goto(t, "kill")
  /\ UNCHANGED <<processes, healthy>>

KillTree(t) ==
  /\ stage[t] = "kill"
  /\ doomed' = doomed \cup ({taken[t]} \ {None})
  /\ Goto(t, "wait")
  /\ UNCHANGED <<manager, spawned, alive, serving, locals>>

(* child.wait has returned; a restart goes on to ensure_started. *)
Stopped(t) ==
  /\ stage[t] = "wait"
  /\ taken[t] \notin alive
  /\ Goto(t, "stopped") \/ Goto(t, "decide")
  /\ UNCHANGED <<manager, processes, locals>>

-----------------------------------------------------------------------------
EnsureStarted(t) ==
  \/ ReapAtStart(t) \/ Join(t) \/ Spawn(t) \/ SpawnFails(t)
  \/ ReapWhilePolling(t) \/ Look(t) \/ ProbeHealth(t) \/ Judge(t)

Stop(t) == KillTree(t) \/ Stopped(t)

SidecarNext ==
  \/ \E t \in Tasks : Start(t) \/ Shutdown(t) \/ Abandon(t) \/ EnsureStarted(t) \/ Stop(t)
  \/ \E p \in Procs : Serve(p) \/ Exit(p)
  \/ ReadyTimeout
  \/ Snapshot

SidecarSpec == SidecarInit /\ [][SidecarNext]_vars

(* A task that was started goes on, time passes, and a process that was    *)
(* killed dies.  No process has to come up or to crash.                    *)
SidecarFairness ==
  /\ \A t \in Tasks : WF_vars(EnsureStarted(t)) /\ WF_vars(Stop(t))
  /\ WF_vars(ReadyTimeout)
  /\ \A p \in Procs : WF_vars(p \in doomed /\ Exit(p))

FairSidecarSpec == SidecarSpec /\ SidecarFairness

-----------------------------------------------------------------------------
(* Every variable has its type. *)
SidecarTypeOK ==
  /\ state \in States
  /\ timedOut \in BOOLEAN
  /\ child \in spawned \cup {None}
  /\ spawned \subseteq Procs
  /\ alive \subseteq spawned
  /\ doomed \subseteq spawned
  /\ serving \in alive \cup {None}
  /\ stage \in [Tasks -> Stages]
  /\ healthy \in [Tasks -> BOOLEAN]
  /\ taken \in [Tasks -> spawned \cup {None}]

(* No process is lost: one that runs is the manager's child, has been      *)
(* killed, or is in the hands of a shutdown about to kill it.  Starts that *)
(* timed out, restarts and shutdowns replace the handle in any order.      *)
NoStrayProcess ==
  \A p \in alive \ doomed :
    p = child \/ \E t \in Tasks : stage[t] = "kill" /\ taken[t] = p

(* A manager that is starting or ready has a child to be so about, and a   *)
(* disabled one has none: shutdown, spawn and reap move both together.     *)
StateMatchesChild ==
  /\ state \in {"starting", "ready"} => child # None
  /\ state = "disabled" => child = None

(* A sidecar that is ready stays ready until a shutdown or the exit of its *)
(* process: a poller whose probe is late, and failed, changes nothing.     *)
ReadyIsKept ==
  [][state = "ready" /\ state' # "ready" => state' = "disabled" \/ ChildExited]_vars

(* A poller gets its answer, ready or failed, although no process has to   *)
(* come up, unless a shutdown disables the manager under it; a shutdown,   *)
(* or the first half of a restart, ends.                                   *)
TasksEnd ==
  \A t \in Tasks :
    /\ stage[t] \in Polling ~> stage[t] \in Returned \/ state = "disabled"
    /\ stage[t] \in {"kill", "wait"} ~> stage[t] \notin {"kill", "wait"}

(* ensure_started returns "once it is Ready or erroring on spawn failure / *)
(* timeout".                                                               *)
EnsureStartedReturns ==
  \A t \in Tasks : stage[t] \in Polling ~> stage[t] \in Returned

=============================================================================
