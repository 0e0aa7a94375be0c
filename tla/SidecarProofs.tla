--------------------------- MODULE SidecarProofs ---------------------------
(***************************************************************************)
(* Proofs about Sidecar for any tasks and any number of processes.  The    *)
(* inductive invariant is the type invariant with NoStrayProcess and       *)
(* StateMatchesChild; ReadyIsKept follows from the steps alone.  The last  *)
(* theorem is about the services together: the sidecar, the feed and the   *)
(* memory share no variable, so a step of one leaves the others' types.    *)
(***************************************************************************)
EXTENDS MCServices, MemoryProofs

SidecarInv == SidecarTypeOK /\ NoStrayProcess /\ StateMatchesChild

(* The steps of a task, by name. *)
TaskStep(t) ==
  \/ Start(t) \/ ReapAtStart(t) \/ Join(t) \/ Spawn(t) \/ SpawnFails(t)
  \/ ReapWhilePolling(t) \/ Look(t) \/ ProbeHealth(t) \/ Judge(t)
  \/ Shutdown(t) \/ KillTree(t) \/ Stopped(t) \/ Abandon(t)

(* Every step is a step of one task, of one process, or of the manager. *)
LEMMA StepCases ==
  ASSUME [SidecarNext]_vars
  PROVE  \/ \E t \in Tasks : TaskStep(t)
         \/ \E p \in Procs : Serve(p) \/ Exit(p)
         \/ ReadyTimeout \/ Snapshot
         \/ UNCHANGED vars
BY Zenon DEF SidecarNext, TaskStep, EnsureStarted, Stop

(* The initial state satisfies the invariant. *)
LEMMA InvInit == SidecarInit => SidecarInv
BY NoneAssumption
DEF SidecarInit, SidecarInv, SidecarTypeOK, NoStrayProcess, StateMatchesChild, States, Stages

(* Steps of the processes and of the manager preserve the types. *)
LEMMA TypeOfOthers ==
  ASSUME SidecarTypeOK,
         \/ \E p \in Procs : Serve(p) \/ Exit(p)
         \/ ReadyTimeout \/ Snapshot
         \/ UNCHANGED vars
  PROVE  SidecarTypeOK'
<1>1. ASSUME NEW p \in Procs, Serve(p) PROVE SidecarTypeOK'
  BY <1>1 DEF SidecarTypeOK, Serve, manager, locals
<1>2. ASSUME NEW p \in Procs, Exit(p) PROVE SidecarTypeOK'
  BY <1>2 DEF SidecarTypeOK, Exit, manager, locals
<1>3. CASE ReadyTimeout
  BY <1>3 DEF SidecarTypeOK, ReadyTimeout, processes, locals
<1>4. CASE Snapshot
  BY <1>4 DEF SidecarTypeOK, Snapshot, Reap, States, processes, locals
<1>5. CASE UNCHANGED vars
  BY <1>5 DEF SidecarTypeOK, vars
<1> QED BY <1>1, <1>2, <1>3, <1>4, <1>5

(* A step of a task preserves the types. *)
LEMMA TypeOfTask ==
  ASSUME SidecarTypeOK, NEW t \in Tasks, TaskStep(t)
  PROVE  SidecarTypeOK'
<1> USE DEF SidecarTypeOK, States, Stages, Polling, Returned, Goto
<1>1. CASE Start(t)
  BY <1>1 DEF Start, manager, processes, locals
<1>2. CASE ReapAtStart(t)
  BY <1>2 DEF ReapAtStart, Reap, processes, locals
<1>3. CASE Join(t)
  BY <1>3 DEF Join, manager, processes, locals
<1>4. CASE Spawn(t)
  BY <1>4 DEF Spawn, Replace, locals
<1>5. CASE SpawnFails(t)
  BY <1>5 DEF SpawnFails, processes, locals
<1>6. CASE ReapWhilePolling(t)
  BY <1>6 DEF ReapWhilePolling, Reap, processes, locals
<1>7. CASE Look(t)
  BY <1>7 DEF Look, manager, processes, locals
<1>8. CASE ProbeHealth(t)
  BY <1>8 DEF ProbeHealth, manager, processes
<1>9. CASE Judge(t)
  <2>1. state' \in States
    BY <1>9 DEF Judge, OnHealth
  <2> QED BY <1>9, <2>1 DEF Judge, processes, locals
<1>10. CASE Shutdown(t)
  BY <1>10 DEF Shutdown, processes
<1>11. CASE KillTree(t)
  BY <1>11 DEF KillTree, manager, locals
<1>12. CASE Stopped(t)
  BY <1>12 DEF Stopped, manager, processes, locals
<1>13. CASE Abandon(t)
  BY <1>13 DEF Abandon, manager, processes, locals
<1> QED BY <1>1, <1>2, <1>3, <1>4, <1>5, <1>6, <1>7, <1>8, <1>9, <1>10, <1>11, <1>12, <1>13
        DEF TaskStep

(* Steps of the processes and of the manager keep every process in hand:   *)
(* only Serve and Exit change the processes, and a reaped child is dead.   *)
LEMMA HandsOfOthers ==
  ASSUME SidecarInv,
         \/ \E p \in Procs : Serve(p) \/ Exit(p)
         \/ ReadyTimeout \/ Snapshot
         \/ UNCHANGED vars
  PROVE  NoStrayProcess' /\ StateMatchesChild'
<1> USE DEF SidecarInv, NoStrayProcess, StateMatchesChild
<1>1. ASSUME NEW p \in Procs, Serve(p) PROVE NoStrayProcess' /\ StateMatchesChild'
  BY <1>1 DEF Serve, manager, locals
<1>2. ASSUME NEW p \in Procs, Exit(p) PROVE NoStrayProcess' /\ StateMatchesChild'
  BY <1>2 DEF Exit, manager, locals
<1>3. CASE ReadyTimeout
  BY <1>3 DEF ReadyTimeout, processes, locals
<1>4. CASE Snapshot
  BY <1>4 DEF Snapshot, Reap, ChildExited, processes, locals
<1>5. CASE UNCHANGED vars
  BY <1>5 DEF vars
<1> QED BY <1>1, <1>2, <1>3, <1>4, <1>5

(* A task that is not at its kill, before or after a step that leaves the  *)
(* handles of shutdowns alone, changes nothing of what shutdowns hold.     *)
LEMMA OtherHands ==
  ASSUME SidecarTypeOK, NEW t \in Tasks, NEW s \in Stages,
         stage[t] # "kill", Goto(t, s), taken' = taken,
         NEW u \in Tasks, stage[u] = "kill"
  PROVE  stage'[u] = "kill" /\ taken'[u] = taken[u]
BY DEF SidecarTypeOK, Goto

(* A step of a task keeps every process in hand. *)
LEMMA HandsOfTask ==
  ASSUME SidecarInv, NEW t \in Tasks, TaskStep(t)
  PROVE  NoStrayProcess' /\ StateMatchesChild'
<1> USE DEF SidecarInv, StateMatchesChild
<1>1. ASSUME stage[t] # "kill", NEW s \in Stages, Goto(t, s), taken' = taken,
             \A p \in alive' \ doomed' :
               p = child' \/ (p \in alive \ doomed /\ p # child)
      PROVE  NoStrayProcess'
  <2>1. SUFFICES ASSUME NEW p \in alive' \ doomed', p \in alive \ doomed, p # child
                 PROVE  \E u \in Tasks : stage'[u] = "kill" /\ taken'[u] = p
    BY <1>1 DEF NoStrayProcess
  <2>2. PICK u \in Tasks : stage[u] = "kill" /\ taken[u] = p
    BY <2>1 DEF NoStrayProcess
  <2> QED BY <1>1, <2>2, OtherHands
<1>2. ASSUME stage[t] # "kill", NEW s \in Stages, Goto(t, s), taken' = taken,
             alive' = alive, doomed' = doomed, child' = child
      PROVE  NoStrayProcess'
  <2>1. \A p \in alive' \ doomed' : p = child' \/ (p \in alive \ doomed /\ p # child)
    BY <1>2
  <2> QED BY <1>1, <1>2, <2>1
<1>3. CASE Start(t)
  BY <1>2, <1>3 DEF Start, manager, processes, locals, Stages
<1>4. CASE ReapAtStart(t)
  BY <1>1, <1>4 DEF ReapAtStart, Reap, ChildExited, processes, locals, Stages, Returned
<1>5. CASE Join(t)
  BY <1>2, <1>5 DEF Join, manager, processes, locals, Stages, Polling, Returned
<1>6. CASE Spawn(t)
  <2>1. PICK p \in Procs \ spawned : Replace(p) /\ alive' = alive \cup {p}
    BY <1>6 DEF Spawn
  <2>2. \A q \in alive' \ doomed' : q = child' \/ (q \in alive \ doomed /\ q # child)
    BY <2>1, NoneAssumption DEF Replace, SidecarTypeOK
  <2>3. NoStrayProcess'
    BY <1>1, <1>6, <2>2 DEF Spawn, locals, Stages, Polling
  <2>4. StateMatchesChild'
    BY <1>6, <2>1, NoneAssumption DEF Spawn, Replace
  <2> QED BY <2>3, <2>4
<1>7. CASE SpawnFails(t)
  BY <1>2, <1>7 DEF SpawnFails, processes, locals, Stages, Returned
<1>8. CASE ReapWhilePolling(t)
  BY <1>1, <1>8 DEF ReapWhilePolling, Reap, ChildExited, processes, locals, Stages, Returned
<1>9. CASE Look(t)
  BY <1>2, <1>9 DEF Look, manager, processes, locals, Stages, Polling
<1>10. CASE ProbeHealth(t)
  <2>1. NoStrayProcess'
    BY <1>2, <1>10 DEF ProbeHealth, manager, processes, Stages, Polling
  <2> QED BY <1>10, <2>1 DEF ProbeHealth, manager
<1>11. CASE Judge(t)
  <2>1. PICK s \in Stages : Goto(t, s)
    BY <1>11 DEF Judge, Stages, Polling, Returned
  <2>2. NoStrayProcess'
    BY <1>2, <1>11, <2>1 DEF Judge, processes, locals
  <2>3. StateMatchesChild'
    BY <1>11 DEF Judge, OnHealth, SidecarTypeOK, States
  <2> QED BY <2>2, <2>3
<1>12. CASE Shutdown(t)
  <2>1. SUFFICES ASSUME NEW p \in alive \ doomed
                 PROVE  \E u \in Tasks : stage'[u] = "kill" /\ taken'[u] = p
    BY <1>12 DEF Shutdown, processes, NoStrayProcess
  <2>2. CASE p = child
    BY <1>12, <2>2 DEF Shutdown, Goto, SidecarTypeOK
  <2>3. CASE p # child
    <3>1. PICK u \in Tasks : stage[u] = "kill" /\ taken[u] = p
      BY <2>3, <2>1 DEF NoStrayProcess
    <3>2. u # t
      BY <1>12, <3>1 DEF Shutdown
    <3> QED BY <1>12, <3>1, <3>2 DEF Shutdown, Goto, SidecarTypeOK
  <2> QED BY <2>2, <2>3
<1>13. CASE KillTree(t)
  <2>1. ASSUME NEW p \in alive' \ doomed', p # child'
        PROVE  \E u \in Tasks : stage'[u] = "kill" /\ taken'[u] = p
    <3>1. p \in alive \ doomed /\ p # child
      BY <1>13, <2>1 DEF KillTree, manager
    <3>2. PICK u \in Tasks : stage[u] = "kill" /\ taken[u] = p
      BY <3>1 DEF NoStrayProcess
    <3>3. p # None
      BY <3>1, NoneAssumption DEF SidecarTypeOK
    <3>4. u # t
      BY <1>13, <2>1, <3>2, <3>3 DEF KillTree
    <3> QED BY <1>13, <3>2, <3>4 DEF KillTree, Goto, SidecarTypeOK, locals
  <2>2. NoStrayProcess'
    BY <2>1 DEF NoStrayProcess
  <2> QED BY <1>13, <2>2 DEF KillTree, manager
<1>14. CASE Stopped(t)
  BY <1>2, <1>14 DEF Stopped, manager, processes, locals, Stages, Returned
<1>15. CASE Abandon(t)
  BY <1>2, <1>15 DEF Abandon, manager, processes, locals, Stages, Returned
<1> QED BY <1>3, <1>4, <1>5, <1>6, <1>7, <1>8, <1>9, <1>10, <1>11, <1>12, <1>13, <1>14, <1>15
        DEF TaskStep

(* SidecarInv is inductive. *)
LEMMA InvStep ==
  ASSUME SidecarInv, [SidecarNext]_vars
  PROVE  SidecarInv'
<1>1. ASSUME NEW t \in Tasks, TaskStep(t) PROVE SidecarInv'
  BY <1>1, TypeOfTask, HandsOfTask DEF SidecarInv
<1>2. CASE \/ \E p \in Procs : Serve(p) \/ Exit(p)
           \/ ReadyTimeout \/ Snapshot
           \/ UNCHANGED vars
  BY <1>2, TypeOfOthers, HandsOfOthers DEF SidecarInv
<1> QED BY <1>1, <1>2, StepCases

(* Every reachable state satisfies the invariant. *)
LEMMA Invariance == SidecarSpec => []SidecarInv
BY InvInit, InvStep, PTL DEF SidecarSpec

(* Every variable of the manager, the processes and the tasks keeps its    *)
(* type, for any number of callers and restarts.                           *)
THEOREM TypeCorrect == SidecarSpec => []SidecarTypeOK
BY Invariance, PTL DEF SidecarInv

(* No process is lost, however starts that time out, restarts and          *)
(* shutdowns interleave: each is the child, killed, or about to be.        *)
THEOREM NoProcessLost == SidecarSpec => []NoStrayProcess
BY Invariance, PTL DEF SidecarInv

(* The state machine and the child handle agree. *)
THEOREM StateAndChildAgree == SidecarSpec => []StateMatchesChild
BY Invariance, PTL DEF SidecarInv

(* A ready sidecar stays ready until a shutdown or the exit of its         *)
(* process: no late probe takes it back.                                   *)
THEOREM ReadyStays == SidecarSpec => ReadyIsKept
<1>1. ASSUME [SidecarNext]_vars, state = "ready", state' # "ready"
      PROVE  state' = "disabled" \/ ChildExited
  <2>1. ASSUME NEW t \in Tasks, TaskStep(t)
        PROVE  state' = "disabled" \/ ChildExited
    BY <1>1, <2>1
    DEF TaskStep, Start, ReapAtStart, Join, Spawn, SpawnFails, ReapWhilePolling, Look,
        ProbeHealth, Judge, OnHealth, Shutdown, KillTree, Stopped, Abandon, manager
  <2>2. ASSUME NEW p \in Procs, Serve(p) \/ Exit(p) PROVE FALSE
    BY <1>1, <2>2 DEF Serve, Exit, manager
  <2> QED BY <1>1, <2>1, <2>2, StepCases DEF ReadyTimeout, Snapshot, vars
<1> QED BY <1>1, PTL DEF SidecarSpec, ReadyIsKept

-----------------------------------------------------------------------------
(* The services together, as one run checks them: what each keeps by       *)
(* itself it keeps while the others move.                                  *)

\* A step of the services is a step or a stutter of each.
LEMMA ServicesSteps ==
  ASSUME [Next]_<<vars, feedVars, memoryVars, part>>
  PROVE  [SidecarNext]_vars /\ [FeedNext]_feedVars /\ [MemoryNext]_memoryVars
BY DEF Next, vars, feedVars, memoryVars, manager

\* Each service follows its own specification.
LEMMA ServicesFollow == Spec => SidecarSpec /\ FeedSpec /\ MemorySpec
<1>1. Init => SidecarInit /\ FeedInit /\ MemoryInit
  BY DEF Init
<1> QED BY <1>1, ServicesSteps, PTL DEF Spec, SidecarSpec, FeedSpec, MemorySpec

(* Every variable of the sidecar and of the memory keeps its type in the   *)
(* composition that the run checks.                                        *)
THEOREM ServicesStayTyped == Spec => []ServicesTypeOK
BY ServicesFollow, TypeCorrect, MemoryStaysTyped, PTL DEF ServicesTypeOK

=============================================================================
