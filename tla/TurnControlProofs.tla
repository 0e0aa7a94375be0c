-------------------------- MODULE TurnControlProofs --------------------------
(***************************************************************************)
(* Both ends of a turn: TurnControl, for any sets of chats, payloads and   *)
(* handlers, and what it implements of TurnPromise; then Client, for any   *)
(* number of requests, edits, reconnects and troubles; and both as one run *)
(* composes them.                                                          *)
(***************************************************************************)
EXTENDS MCTurnSafety, TLAPS

\* A handler has a payload exactly while the process knows its request.
PostKnown ==
  \A h \in Handlers : post[h] # None <=> stage[h] \notin {"free", "lost"}

TypeInv == ControlTypeOK /\ PostKnown

\* A known payload has a key of the registry.
LEMMA KeyOfPost ==
  ASSUME ControlTypeOK, NEW h \in Handlers, post[h] # None
  PROVE  KeyOf(h) \in Keys /\ post[h].chat \in Chats
BY PayloadAssumption DEF KeyOf, Keys, ControlTypeOK, TurnTypeOK

\* The initial state is well typed.
LEMMA TypeInit == ControlInit => TypeInv
<1> SUFFICES ASSUME ControlInit PROVE TypeInv
  OBVIOUS
<1>1. TurnTypeOK
  BY DEF ControlInit, TurnTypeOK, Stages, Tasks
<1>2. RegistryTypeOK /\ CancelTypeOK /\ DeleteTypeOK
  BY DEF ControlInit, RegistryTypeOK, CancelTypeOK, DeleteTypeOK, CancelStages,
         DeleteStages
<1>3. PostKnown
  BY DEF ControlInit, PostKnown
<1> QED BY <1>1, <1>2, <1>3 DEF TypeInv, ControlTypeOK

\* The steps of POST /turn and of its driver keep the types.
LEMMA TypeTurn ==
  ASSUME TypeInv, NEW h \in Handlers, HandlerStep(h) \/ DriverStep(h)
  PROVE  TypeInv'
<1> USE DEF TypeInv, ControlTypeOK, TurnTypeOK, PostKnown, Go, Return, LiveStages,
            modelVars, resultVars
<1>1. CASE Register(h)
  <2>1. TurnTypeOK' /\ PostKnown'
    BY <1>1 DEF Register, Stages
  <2>2. RegistryTypeOK' /\ CancelTypeOK' /\ DeleteTypeOK'
    BY <1>1 DEF Register, RegistryTypeOK, CancelTypeOK, DeleteTypeOK, cancelVars, deleteVars
  <2> QED BY <2>1, <2>2
<1>2. CASE \E p \in Payloads : Admit(h, p)
  <2>1. TurnTypeOK' /\ PostKnown'
    BY <1>2, NoneAssumption DEF Admit, Stages
  <2>2. UNCHANGED handlerVars
    BY <1>2 DEF Admit
  <2> QED BY <2>1, <2>2 DEF handlerVars, registryVars, cancelVars, deleteVars,
    RegistryTypeOK, CancelTypeOK, DeleteTypeOK
<1>3. CASE DriverStep(h)
  <2>0. UNCHANGED handlerVars
    BY <1>3 DEF DriverStep, StartTurn, EnterTurn, LoadFails, StageTurn, ResolveSaved,
      AttachModelTask, RecheckModelTask, JoinModelTask, IllustrateTurn, TakeFence,
      CheckCancelled, SaveTurn, SaveFails, ReleaseFence, FinishTurn
  <2> SUFFICES TurnTypeOK' /\ PostKnown'
    BY <2>0 DEF handlerVars, registryVars, cancelVars, deleteVars, RegistryTypeOK,
                CancelTypeOK, DeleteTypeOK
  <2>1. CASE StartTurn(h)
    BY <2>1, KeyOfPost DEF StartTurn, Stages, TypeInv
  <2>2. CASE EnterTurn(h)
    BY <2>2 DEF EnterTurn, Stages, Outcomes, TypeInv
  <2>3. CASE LoadFails(h)
    BY <2>3 DEF LoadFails, Stages, Outcomes, TypeInv
  <2>4. CASE \E c \in Chats : StageTurn(h, c)
    BY <2>4 DEF StageTurn, Stages, Tasks, TypeInv
  <2>5. CASE \E c \in Chats, o \in Outcomes : ResolveSaved(h, c, o)
    BY <2>5 DEF ResolveSaved, Stages, TypeInv
  <2>6. CASE AttachModelTask(h)
    BY <2>6 DEF AttachModelTask, Stages, Tasks, TypeInv
  <2>7. CASE RecheckModelTask(h)
    BY <2>7 DEF RecheckModelTask, Stages, Tasks, TypeInv
  <2>8. CASE JoinModelTask(h)
    BY <2>8 DEF JoinModelTask, Stages, Tasks, Outcomes, TypeInv
  <2>9. CASE IllustrateTurn(h)
    BY <2>9 DEF IllustrateTurn, Stages, Outcomes, TypeInv
  <2>10. CASE TakeFence(h)
    BY <2>10 DEF TakeFence, Stages, TypeInv
  <2>11. CASE CheckCancelled(h)
    BY <2>11 DEF CheckCancelled, Stages, Outcomes, TypeInv
  <2>12. CASE SaveTurn(h)
    BY <2>12 DEF SaveTurn, Stages, TypeInv
  <2>13. CASE SaveFails(h)
    BY <2>13 DEF SaveFails, Stages, Outcomes, TypeInv
  <2>14. CASE ReleaseFence(h)
    BY <2>14 DEF ReleaseFence, Stages, Outcomes, TypeInv
  <2>15. CASE FinishTurn(h)
    BY <2>15 DEF FinishTurn, Stages, TypeInv
  <2> QED
    BY <1>3, <2>1, <2>2, <2>3, <2>4, <2>5, <2>6, <2>7, <2>8, <2>9, <2>10, <2>11, <2>12,
       <2>13, <2>14, <2>15 DEF DriverStep
<1> QED BY <1>1, <1>2, <1>3 DEF HandlerStep

\* The steps of the cancel handlers and of the registry keep the types.
LEMMA TypeCancel ==
  ASSUME TypeInv, NEW x \in Cancels, CancelStep(x) \/ LeaveCancel(x)
  PROVE  TypeInv'
<1> USE DEF TypeInv, ControlTypeOK, CancelTypeOK, CancelGo, CancelStages
<1>1. CASE \E k \in Keys : CancelLookup(x, k)
  <2>1. CancelTypeOK'
    BY <1>1 DEF CancelLookup, RegistryTypeOK
  <2>2. UNCHANGED <<driverVars, registryVars, cancelRequested, deleteVars>>
    BY <1>1 DEF CancelLookup
  <2> QED
    BY <2>1, <2>2 DEF driverVars, modelVars, resultVars, registryVars, deleteVars,
      TurnTypeOK, RegistryTypeOK, DeleteTypeOK, PostKnown
<1>2. CASE CancelFlag(x)
  <2>1. CancelTypeOK' /\ RegistryTypeOK'
    BY <1>2 DEF CancelFlag, StoreFlag, RegistryTypeOK, registryVars
  <2> QED
    BY <1>2, <2>1 DEF CancelFlag, driverVars, modelVars, resultVars, deleteVars,
      TurnTypeOK, DeleteTypeOK, PostKnown
<1>3. CASE CancelAbort(x)
  <2>1. CancelTypeOK' /\ TurnTypeOK'
    BY <1>3 DEF CancelAbort, AbortModelTask, TurnTypeOK, Tasks, resultVars
  <2> QED
    BY <1>3, <2>1 DEF CancelAbort, registryVars, deleteVars, RegistryTypeOK,
      DeleteTypeOK, PostKnown
<1>4. CASE CancelCrossFence(x) \/ CancelAnswer(x) \/ LeaveCancel(x)
  <2>1. CancelTypeOK'
    BY <1>4 DEF CancelCrossFence, CancelAnswer, LeaveCancel
  <2> QED
    BY <1>4, <2>1 DEF CancelCrossFence, CancelAnswer, LeaveCancel, driverVars,
      modelVars, resultVars, registryVars, deleteVars, TurnTypeOK,
      RegistryTypeOK, DeleteTypeOK, PostKnown
<1> QED BY <1>1, <1>2, <1>3, <1>4 DEF CancelStep

\* A control dropped from the registry leaves the types.
LEMMA TypeDrop ==
  ASSUME TypeInv, NEW k \in Keys, DropControl(k)
  PROVE  TypeInv'
<1>1. RegistryTypeOK'
  BY DEF DropControl, TypeInv, ControlTypeOK, RegistryTypeOK
<1> QED
  BY <1>1 DEF DropControl, TypeInv, ControlTypeOK, TurnTypeOK, CancelTypeOK,
    DeleteTypeOK, PostKnown, driverVars, modelVars, resultVars, cancelVars, deleteVars

\* The steps of the delete handlers keep the types.
LEMMA TypeDelete ==
  ASSUME TypeInv, NEW d \in Deletes, DeleteTask(d) \/ LeaveDelete(d)
  PROVE  TypeInv'
<1> USE DEF TypeInv, ControlTypeOK
<1>1. CASE DeleteAbort(d)
  <2>1. DeleteTypeOK' /\ TurnTypeOK'
    BY <1>1 DEF DeleteAbort, DeleteGo, AbortModelTask, TurnTypeOK, DeleteTypeOK, Tasks,
      DeleteStages, resultVars
  <2> QED
    BY <1>1, <2>1 DEF DeleteAbort, registryVars, cancelVars, RegistryTypeOK,
      CancelTypeOK, PostKnown
<1>2. CASE ~DeleteAbort(d)
  <2>1. UNCHANGED <<driverVars, cancelVars>>
    BY <1>2 DEF DeleteTask, RaiseBar, SweepTurns, DeleteFlag, DeleteCrossFence,
      DeleteAllFlagged, DeleteAllCrossed, DeleteStep, LiftBar, LeaveDelete, DropGuard
  <2> SUFFICES RegistryTypeOK' /\ DeleteTypeOK'
    BY <2>1 DEF driverVars, modelVars, resultVars, cancelVars, TurnTypeOK, CancelTypeOK,
      PostKnown
  <2> USE DEF DeleteGo, RegistryTypeOK, DeleteTypeOK, DeleteStages, registryVars
  <2>2. CASE \E c \in Chats : RaiseBar(d, c)
    BY <2>2 DEF RaiseBar
  <2>3. CASE SweepTurns(d)
    BY <2>3 DEF SweepTurns
  <2>4. CASE \E h \in Handlers : DeleteFlag(d, h)
    BY <2>4 DEF DeleteFlag, StoreFlag
  <2>5. CASE \E h \in Handlers : DeleteCrossFence(d, h)
    BY <2>5 DEF DeleteCrossFence
  <2>6. CASE DeleteAllFlagged(d) \/ DeleteAllCrossed(d)
    BY <2>6 DEF DeleteAllFlagged, DeleteAllCrossed
  <2>7. CASE \E from, to \in DeleteStages : DeleteStep(d, from, to)
    BY <2>7 DEF DeleteStep
  <2>8. CASE LiftBar(d) \/ LeaveDelete(d)
    <3>1. deleteStage' \in [Deletes -> DeleteStages]
      BY <2>8 DEF LiftBar, LeaveDelete
    <3>2. DropGuard(d)
      BY <2>8 DEF LiftBar, LeaveDelete
    <3>3. barred' \in [Deletes -> BOOLEAN]
      <4>1. CASE guard[d]
        <5>1. barred' = [e \in Deletes |-> barred[e] /\ deleteChat[e] # deleteChat[d]]
          BY <3>2, <4>1 DEF DropGuard
        <5> QED BY <5>1
      <4>2. CASE ~guard[d]
        BY <3>2, <4>2 DEF DropGuard
      <4> QED BY <4>1, <4>2
    <3>4. RegistryTypeOK' /\ guard' \in [Deletes -> BOOLEAN]
      BY <3>2 DEF DropGuard
    <3> QED BY <3>1, <3>2, <3>3, <3>4 DEF DropGuard
  <2> QED BY <1>2, <2>2, <2>3, <2>4, <2>5, <2>6, <2>7, <2>8 DEF DeleteTask
<1> QED BY <1>1, <1>2

\* A restart of the process leaves the types.
LEMMA TypeCrash ==
  ASSUME TypeInv, CrashControl
  PROVE  TypeInv'
<1> USE DEF TypeInv, ControlTypeOK, CrashControl, Lose
<1>1. TurnTypeOK' /\ PostKnown'
  BY DEF TurnTypeOK, PostKnown, Stages, LiveStages, Tasks
<1>2. RegistryTypeOK' /\ CancelTypeOK'
  BY DEF RegistryTypeOK, CancelTypeOK, CancelStages
<1>3. DeleteTypeOK'
  BY DEF DeleteTypeOK, DeleteStages
<1> QED BY <1>1, <1>2, <1>3

\* TypeInv is inductive.
LEMMA TypeStep == TypeInv /\ [ControlNext]_controlVars => TypeInv'
<1> SUFFICES ASSUME TypeInv, [ControlNext]_controlVars PROVE TypeInv'
  OBVIOUS
<1>1. CASE UNCHANGED controlVars
  BY <1>1 DEF controlVars, driverVars, handlerVars, modelVars, resultVars, registryVars,
    cancelVars, deleteVars, TypeInv, ControlTypeOK, TurnTypeOK, RegistryTypeOK,
    CancelTypeOK, DeleteTypeOK, PostKnown
<1>2. CASE ControlNext
  BY <1>2, TypeTurn, TypeCancel, TypeDrop, TypeDelete, TypeCrash DEF ControlNext, Leave
<1> QED BY <1>1, <1>2

(***************************************************************************)
(* Every variable keeps its type in every execution.                       *)
(***************************************************************************)
THEOREM TypeCorrect == ControlSpec => []ControlTypeOK
<1>1. TypeInv => ControlTypeOK
  BY DEF TypeInv
<1> QED BY <1>1, TypeInit, TypeStep, PTL DEF ControlSpec

-----------------------------------------------------------------------------
(***************************************************************************)
(* The inductive invariant, in named parts.                                *)
(***************************************************************************)
\* A running turn is the one its key is registered for; nothing is registered
\* before it is received.
RegistryInv ==
  /\ \A h \in Handlers : Live(h) => controls[KeyOf(h)] = h
  /\ \A k \in Keys : controls[k] # None => stage[controls[k]] # "free"

\* What the stage of a turn says about its fence, its task and its results.
TurnInv ==
  \A h \in Handlers :
    /\ commitFence[h] <=> stage[h] \in {"fenced", "saving", "saved"}
    /\ persisted[h] => stage[h] \in {"saved", "returned", "finished", "lost"}
    /\ stage[h] = "saved" => persisted[h]
    /\ stage[h] = "returned" =>
         outcome[h] \in Outcomes /\ (outcome[h] = "completed" <=> persisted[h])
    /\ stage[h] = "finished" => (terminal[h] = "completed" <=> persisted[h])
    /\ terminal[h] # None => stage[h] \in {"finished", "lost"}
    /\ stage[h] = "installing" => modelAbort[h]
    /\ stage[h] = "running" /\ modelTask[h] = "live" => modelAbort[h]

\* The model call of h runs although nobody waits for its result.
Orphan(h) == stage[h] = "running" /\ modelTask[h] = "live"

\* How far a cancel handler has come with the turn it found.
CancelInv ==
  \A x \in Cancels, h \in Handlers :
    cancelControl[x] = h =>
      /\ stage[h] # "free"
      /\ cancelStage[x] \in {"abort", "fence", "resolve", "answered"} => cancelRequested[h]
      /\ cancelStage[x] \in {"fence", "resolve", "answered"} => ~Orphan(h)
      /\ cancelStage[x] \in {"resolve", "answered"} => ~Saving(h)

CancelHasControl ==
  \A x \in Cancels :
    cancelStage[x] \in {"flag", "abort", "fence"} => cancelControl[x] \in Handlers

\* How far a delete handler has come with the turns of its sweep.
SweepInv ==
  \A d \in Deletes :
    /\ \A h \in flagged[d] : cancelRequested[h]
    /\ \A h \in liveTurns[d] : stage[h] # "free"
    /\ \A h \in crossed[d] : stage[h] # "free" /\ cancelRequested[h] /\ ~Saving(h)
    /\ deleteStage[d] = "fence" => flagged[d] = liveTurns[d]
    /\ deleteStage[d] \in FencesCrossed => crossed[d] = liveTurns[d]
    /\ deleteStage[d] \in {"idle", "sweep"} =>
         liveTurns[d] = {} /\ flagged[d] = {} /\ crossed[d] = {}

\* While the bar of a delete stands, its sweep knows every turn of the chat.
BarInv ==
  \A d \in Deletes : barred[d] =>
    /\ deleteStage[d] # "idle"
    /\ deleteChat[d] \in deleting
    /\ deleteStage[d] # "sweep" =>
         \A h \in Handlers : Live(h) /\ post[h].chat = deleteChat[d] => h \in liveTurns[d]

ControlInv ==
  /\ TypeInv /\ RegistryInv /\ TurnInv /\ CancelInv /\ CancelHasControl
  /\ SweepInv /\ BarInv

\* The initial state satisfies the inductive invariant.
LEMMA InvInit == ControlInit => ControlInv
<1> SUFFICES ASSUME ControlInit PROVE ControlInv
  OBVIOUS
<1> USE NoneAssumption DEF ControlInit, FencesCrossed
<1>1. RegistryInv /\ TurnInv
  BY DEF RegistryInv, TurnInv, Live, LiveStages
<1>2. CancelInv /\ CancelHasControl
  BY DEF CancelInv, CancelHasControl
<1>3. SweepInv /\ BarInv
  BY DEF SweepInv, BarInv
<1> QED BY <1>1, <1>2, <1>3, TypeInit DEF ControlInv

\* A driver step changes its own turn only, and only while it runs.
LEMMA DriverFrame ==
  ASSUME TypeInv, NEW h \in Handlers, DriverStep(h)
  PROVE  /\ UNCHANGED <<post, handlerVars>>
         /\ Live(h) /\ stage'[h] \in LiveStages \cup {"finished"}
         /\ \A g \in Handlers \ {h} :
              /\ stage'[g] = stage[g] /\ commitFence'[g] = commitFence[g]
              /\ modelAbort'[g] = modelAbort[g] /\ modelTask'[g] = modelTask[g]
              /\ outcome'[g] = outcome[g] /\ terminal'[g] = terminal[g]
              /\ persisted'[g] = persisted[g]
<1> USE DEF TypeInv, ControlTypeOK, TurnTypeOK, Go, Return, Live, LiveStages, modelVars,
            resultVars
<1>1. CASE StartTurn(h) \/ EnterTurn(h) \/ LoadFails(h)
  BY <1>1 DEF StartTurn, EnterTurn, LoadFails
<1>2. CASE \E c \in Chats : StageTurn(h, c) \/ \E o \in Outcomes : ResolveSaved(h, c, o)
  BY <1>2 DEF StageTurn, ResolveSaved
<1>3. CASE AttachModelTask(h) \/ RecheckModelTask(h)
  BY <1>3 DEF AttachModelTask, RecheckModelTask
<1>4. CASE JoinModelTask(h) \/ IllustrateTurn(h)
  BY <1>4 DEF JoinModelTask, IllustrateTurn
<1>5. CASE TakeFence(h) \/ CheckCancelled(h)
  BY <1>5 DEF TakeFence, CheckCancelled
<1>6. CASE SaveTurn(h) \/ SaveFails(h)
  BY <1>6 DEF SaveTurn, SaveFails
<1>7. CASE ReleaseFence(h) \/ FinishTurn(h)
  BY <1>7 DEF ReleaseFence, FinishTurn
<1> QED BY <1>1, <1>2, <1>3, <1>4, <1>5, <1>6, <1>7 DEF DriverStep

\* The steps of the other tasks leave the drivers alone, but for the abort.
LEMMA OtherFrame ==
  ASSUME TypeInv,
         \/ \E k \in Keys : DropControl(k)
         \/ \E x \in Cancels : CancelStep(x)
         \/ \E d \in Deletes : DeleteTask(d)
         \/ Leave
  PROVE  /\ UNCHANGED <<stage, post, modelAbort, commitTarget, commitFence, resultVars>>
         /\ \A g \in Handlers :
              /\ cancelRequested[g] => cancelRequested'[g]
              /\ modelTask'[g] # modelTask[g] => modelTask'[g] = "aborted"
<1> USE DEF driverVars, modelVars, TypeInv, ControlTypeOK, TurnTypeOK, RegistryTypeOK
<1>1. CASE \E k \in Keys : DropControl(k)
  BY <1>1 DEF DropControl
<1>2. ASSUME NEW x \in Cancels, CancelStep(x)
      PROVE  /\ UNCHANGED <<stage, post, modelAbort, commitTarget, commitFence, resultVars>>
             /\ \A g \in Handlers :
                  /\ cancelRequested[g] => cancelRequested'[g]
                  /\ modelTask'[g] # modelTask[g] => modelTask'[g] = "aborted"
  <2>1. CASE CancelFlag(x) \/ CancelAbort(x)
    BY <2>1 DEF CancelFlag, CancelAbort, StoreFlag, AbortModelTask
  <2>2. CASE ~(CancelFlag(x) \/ CancelAbort(x))
    BY <1>2, <2>2 DEF CancelStep, CancelLookup, CancelCrossFence, CancelAnswer
  <2> QED BY <2>1, <2>2
<1>3. ASSUME NEW d \in Deletes, DeleteTask(d)
      PROVE  /\ UNCHANGED <<stage, post, modelAbort, commitTarget, commitFence, resultVars>>
             /\ \A g \in Handlers :
                  /\ cancelRequested[g] => cancelRequested'[g]
                  /\ modelTask'[g] # modelTask[g] => modelTask'[g] = "aborted"
  <2>1. CASE DeleteAbort(d) \/ \E h \in Handlers : DeleteFlag(d, h)
    BY <2>1 DEF DeleteAbort, DeleteFlag, StoreFlag, AbortModelTask
  <2>2. CASE ~(DeleteAbort(d) \/ \E h \in Handlers : DeleteFlag(d, h))
    BY <1>3, <2>2 DEF DeleteTask, RaiseBar, SweepTurns, DeleteCrossFence,
      DeleteAllFlagged, DeleteAllCrossed, DeleteStep, LiftBar, DropGuard
  <2> QED BY <2>1, <2>2
<1>4. CASE Leave
  BY <1>4 DEF Leave, LeaveCancel, LeaveDelete, DropGuard
<1> QED BY <1>1, <1>2, <1>3, <1>4

\* RegistryInv is inductive: register looks the key up before it replaces it.
LEMMA RegistryStep ==
  ASSUME TypeInv, RegistryInv, [ControlNext]_controlVars
  PROVE  RegistryInv'
<1> USE DEF RegistryInv, Live, TypeInv, ControlTypeOK, TurnTypeOK, RegistryTypeOK
<1>1. ASSUME NEW h \in Handlers, Register(h) PROVE RegistryInv'
  <2>1. KeyOf(h) \in Keys /\ stage[h] = "admitted"
    BY <1>1, KeyOfPost DEF Register, PostKnown
  <2>2. \A g \in Handlers : KeyOf(g)' = KeyOf(g)
    BY <1>1 DEF Register, KeyOf
  <2>3. CASE UNCHANGED controls
    BY <1>1, <2>1, <2>2, <2>3, NoneAssumption DEF Register, LiveStages
  <2>4. CASE ~InFlight(KeyOf(h)) /\ stage' = [stage EXCEPT ![h] = "registered"]
             /\ controls' = [controls EXCEPT ![KeyOf(h)] = h]
    <3>1. ASSUME NEW g \in Handlers, Live(g), g # h PROVE KeyOf(g) # KeyOf(h)
      BY <2>4, <3>1, NoneAssumption DEF InFlight, IsFinished, LiveStages
    <3>2. ASSUME NEW g \in Handlers, Live(g) PROVE KeyOf(g) \in Keys
      BY <3>2, KeyOfPost DEF PostKnown, LiveStages
    <3>3. ASSUME NEW g \in Handlers, Live(g)' PROVE controls'[KeyOf(g)'] = g
      BY <2>1, <2>2, <2>4, <3>1, <3>2, <3>3
    <3>4. \A k \in Keys : controls'[k] # None => stage'[controls'[k]] # "free"
      BY <2>1, <2>4
    <3> QED BY <3>3, <3>4
  <2> QED BY <1>1, <2>3, <2>4 DEF Register
<1>2. ASSUME NEW h \in Handlers, NEW p \in Payloads, Admit(h, p) PROVE RegistryInv'
  BY <1>2 DEF Admit, Go, handlerVars, registryVars, KeyOf, LiveStages
<1>3. ASSUME NEW h \in Handlers, DriverStep(h) PROVE RegistryInv'
  <2>1. UNCHANGED <<post, controls>>
    BY <1>3, DriverFrame DEF handlerVars, registryVars
  <2>2. \A g \in Handlers : (Live(g)' => Live(g)) /\ (stage[g] # "free" => stage'[g] # "free")
    BY <1>3, DriverFrame DEF LiveStages
  <2> QED BY <2>1, <2>2 DEF KeyOf
<1>4. ASSUME NEW k \in Keys, DropControl(k) PROVE RegistryInv'
  <2>1. UNCHANGED <<post, stage>>
    BY <1>4 DEF DropControl, driverVars
  <2>2. \A g \in Handlers : Live(g) => controls[KeyOf(g)] = g /\ KeyOf(g) \in Keys
    BY KeyOfPost DEF PostKnown, LiveStages
  <2>3. \A g \in Handlers : Live(g) => KeyOf(g) # k
    BY <1>4, <2>2 DEF DropControl, IsFinished, LiveStages
  <2> QED BY <1>4, <2>1, <2>2, <2>3 DEF DropControl, KeyOf
<1>5. ASSUME \/ \E x \in Cancels : CancelStep(x)
             \/ \E d \in Deletes : DeleteTask(d)
             \/ Leave
      PROVE RegistryInv'
  <2>1. UNCHANGED <<post, stage>>
    BY <1>5, OtherFrame
  <2>2. UNCHANGED controls
    BY <1>5 DEF CancelStep, CancelLookup, CancelFlag, CancelAbort, CancelCrossFence,
      CancelAnswer, DeleteTask, RaiseBar, SweepTurns, DeleteFlag, DeleteAbort,
      DeleteCrossFence, DeleteAllFlagged, DeleteAllCrossed, DeleteStep, LiftBar,
      DropGuard, Leave, LeaveCancel, LeaveDelete, registryVars
  <2> QED BY <2>1, <2>2 DEF KeyOf
<1>6. CASE CrashControl
  BY <1>6 DEF CrashControl, Lose, LiveStages
<1>7. CASE UNCHANGED controlVars
  BY <1>7 DEF controlVars, driverVars, handlerVars, registryVars, KeyOf
<1> QED BY <1>1, <1>2, <1>3, <1>4, <1>5, <1>6, <1>7 DEF ControlNext, HandlerStep

\* TurnInv is inductive: it follows one turn through the stages of its driver.
LEMMA TurnStep ==
  ASSUME TypeInv, TurnInv, [ControlNext]_controlVars
  PROVE  TurnInv'
<1> USE DEF TurnInv, TypeInv, ControlTypeOK, TurnTypeOK
<1>1. ASSUME NEW h \in Handlers, DriverStep(h) PROVE TurnInv'
  <2> SUFFICES
        /\ commitFence'[h] <=> stage'[h] \in {"fenced", "saving", "saved"}
        /\ persisted'[h] => stage'[h] \in {"saved", "returned", "finished", "lost"}
        /\ stage'[h] = "saved" => persisted'[h]
        /\ stage'[h] = "returned" =>
             outcome'[h] \in Outcomes /\ (outcome'[h] = "completed" <=> persisted'[h])
        /\ stage'[h] = "finished" => (terminal'[h] = "completed" <=> persisted'[h])
        /\ terminal'[h] # None => stage'[h] \in {"finished", "lost"}
        /\ stage'[h] = "installing" => modelAbort'[h]
        /\ stage'[h] = "running" /\ modelTask'[h] = "live" => modelAbort'[h]
    BY <1>1, DriverFrame
  <2> USE DEF Go, Return, modelVars, resultVars, Outcomes
  <2>1. CASE StartTurn(h) \/ EnterTurn(h) \/ LoadFails(h)
    BY <2>1 DEF StartTurn, EnterTurn, LoadFails
  <2>2. CASE \E c \in Chats : StageTurn(h, c) \/ \E o \in Outcomes : ResolveSaved(h, c, o)
    BY <2>2 DEF StageTurn, ResolveSaved
  <2>3. CASE AttachModelTask(h) \/ RecheckModelTask(h)
    BY <2>3 DEF AttachModelTask, RecheckModelTask
  <2>4. CASE JoinModelTask(h) \/ IllustrateTurn(h)
    BY <2>4 DEF JoinModelTask, IllustrateTurn
  <2>5. CASE TakeFence(h) \/ CheckCancelled(h)
    BY <2>5 DEF TakeFence, CheckCancelled
  <2>6. CASE SaveTurn(h) \/ SaveFails(h)
    BY <2>6 DEF SaveTurn, SaveFails
  <2>7. CASE ReleaseFence(h) \/ FinishTurn(h)
    BY <2>7 DEF ReleaseFence, FinishTurn
  <2> QED BY <1>1, <2>1, <2>2, <2>3, <2>4, <2>5, <2>6, <2>7 DEF DriverStep
<1>2. ASSUME NEW h \in Handlers, HandlerStep(h) PROVE TurnInv'
  BY <1>2 DEF HandlerStep, Register, Admit, Go, modelVars, resultVars
<1>3. ASSUME \/ \E k \in Keys : DropControl(k)
             \/ \E x \in Cancels : CancelStep(x)
             \/ \E d \in Deletes : DeleteTask(d)
             \/ Leave
      PROVE TurnInv'
  BY <1>3, OtherFrame DEF resultVars
<1>4. CASE CrashControl
  BY <1>4 DEF CrashControl, Lose
<1>5. CASE UNCHANGED controlVars
  BY <1>5 DEF controlVars, driverVars, modelVars, resultVars
<1> QED BY <1>1, <1>2, <1>3, <1>4, <1>5 DEF ControlNext

(***************************************************************************)
(* A flagged turn can only come to rest: it starts no save, orphans no     *)
(* model call and stays flagged, until the process stops.                  *)
(***************************************************************************)
LEMMA FlaggedRests ==
  ASSUME TypeInv, TurnInv, [ControlNext]_controlVars, ~CrashControl,
         NEW g \in Handlers
  PROVE  /\ stage[g] # "free" => stage'[g] # "free"
         /\ cancelRequested[g] =>
              /\ cancelRequested'[g]
              /\ Saving(g)' => Saving(g)
              /\ Orphan(g)' => Orphan(g)
<1> USE DEF TypeInv, ControlTypeOK, TurnTypeOK, RegistryTypeOK, Saving, Orphan
<1>1. ASSUME NEW h \in Handlers, DriverStep(h), g = h
      PROVE  cancelRequested[g] => (Saving(g)' => Saving(g)) /\ (Orphan(g)' => Orphan(g))
  <2> USE DEF Go, Return, modelVars, resultVars
  <2>1. CASE StartTurn(h) \/ EnterTurn(h) \/ LoadFails(h)
    BY <1>1, <2>1 DEF StartTurn, EnterTurn, LoadFails
  <2>2. CASE \E c \in Chats : StageTurn(h, c) \/ \E o \in Outcomes : ResolveSaved(h, c, o)
    BY <1>1, <2>2 DEF StageTurn, ResolveSaved
  <2>3. CASE AttachModelTask(h) \/ RecheckModelTask(h)
    BY <1>1, <2>3 DEF AttachModelTask, RecheckModelTask
  <2>4. CASE JoinModelTask(h) \/ IllustrateTurn(h)
    BY <1>1, <2>4 DEF JoinModelTask, IllustrateTurn
  <2>5. CASE TakeFence(h) \/ CheckCancelled(h)
    BY <1>1, <2>5 DEF TakeFence, CheckCancelled
  <2>6. CASE SaveTurn(h) \/ SaveFails(h) \/ ReleaseFence(h) \/ FinishTurn(h)
    BY <1>1, <2>6 DEF SaveTurn, SaveFails, ReleaseFence, FinishTurn
  <2> QED BY <1>1, <2>1, <2>2, <2>3, <2>4, <2>5, <2>6 DEF DriverStep
<1>2. ASSUME NEW h \in Handlers, DriverStep(h)
      PROVE  /\ stage[g] # "free" => stage'[g] # "free"
             /\ cancelRequested'[g] = cancelRequested[g]
             /\ g # h => UNCHANGED <<stage[g], modelTask[g]>>
  BY <1>2, DriverFrame DEF handlerVars, LiveStages
<1>3. ASSUME NEW h \in Handlers, HandlerStep(h)
      PROVE  /\ stage[g] # "free" => stage'[g] # "free"
             /\ cancelRequested'[g] = cancelRequested[g]
             /\ (Saving(g)' => Saving(g)) /\ (Orphan(g)' => Orphan(g))
  BY <1>3 DEF HandlerStep, Register, Admit, Go, handlerVars, modelVars
<1>4. ASSUME \/ \E k \in Keys : DropControl(k)
             \/ \E x \in Cancels : CancelStep(x)
             \/ \E d \in Deletes : DeleteTask(d)
             \/ Leave
      PROVE  /\ stage'[g] = stage[g]
             /\ cancelRequested[g] => cancelRequested'[g]
             /\ Orphan(g)' => Orphan(g)
  BY <1>4, OtherFrame
<1>5. CASE UNCHANGED controlVars
  BY <1>5 DEF controlVars, driverVars, handlerVars, modelVars
<1> QED BY <1>1, <1>2, <1>3, <1>4, <1>5 DEF ControlNext

\* The handlers and drivers of turns leave cancels and deletes alone.
LEMMA TurnFrame ==
  ASSUME NEW h \in Handlers, HandlerStep(h) \/ DriverStep(h)
  PROVE  UNCHANGED <<deleting, cancelVars, deleteVars>>
BY DEF HandlerStep, Register, Admit, DriverStep, StartTurn, EnterTurn, LoadFails,
  StageTurn, ResolveSaved, AttachModelTask, RecheckModelTask, JoinModelTask,
  IllustrateTurn, TakeFence, CheckCancelled, SaveTurn, SaveFails, ReleaseFence,
  FinishTurn, handlerVars, registryVars

\* The cancel handlers leave the registry and the deletes alone.
LEMMA CancelFrame ==
  ASSUME NEW x \in Cancels, CancelStep(x) \/ LeaveCancel(x)
  PROVE  UNCHANGED <<controls, deleting, deleteVars>>
BY DEF LeaveCancel, CancelStep, CancelLookup, CancelFlag, CancelAbort, CancelCrossFence,
  CancelAnswer, registryVars

\* The delete handlers leave the registry's controls and the cancels alone.
LEMMA DeleteFrame ==
  ASSUME NEW d \in Deletes, DeleteTask(d) \/ LeaveDelete(d)
  PROVE  UNCHANGED <<controls, cancelVars>>
BY DEF LeaveDelete, DropGuard, DeleteTask, RaiseBar, SweepTurns, DeleteFlag,
  DeleteAbort, DeleteCrossFence, DeleteAllFlagged, DeleteAllCrossed, DeleteStep, LiftBar,
  registryVars

\* CancelInv is inductive: flag, abort, fence, in this order.
LEMMA CancelInvStep ==
  ASSUME TypeInv, RegistryInv, TurnInv, CancelInv, CancelHasControl,
         [ControlNext]_controlVars
  PROVE  CancelInv' /\ CancelHasControl'
<1> USE DEF TypeInv, ControlTypeOK, TurnTypeOK, RegistryTypeOK, CancelTypeOK
<1>1. CASE CrashControl
  BY <1>1, NoneAssumption DEF CrashControl, Lose, CancelInv, CancelHasControl
<1>2. CASE UNCHANGED cancelVars /\ ~CrashControl
  BY <1>2, FlaggedRests DEF CancelInv, CancelHasControl, cancelVars
<1>3. ASSUME NEW x \in Cancels, CancelStep(x) \/ LeaveCancel(x), ~CrashControl
      PROVE  CancelInv' /\ CancelHasControl'
  <2> USE DEF CancelGo
  <2>0. \A g \in Handlers : stage'[g] = stage[g] /\ (Saving(g)' <=> Saving(g))
    BY <1>3, OtherFrame DEF Saving, Leave
  <2>1. \A y \in Cancels \ {x} : UNCHANGED <<cancelStage[y], cancelControl[y]>>
    BY <1>3 DEF CancelStep, CancelLookup, CancelFlag, CancelAbort, CancelCrossFence,
      CancelAnswer, LeaveCancel
  <2> SUFFICES
        /\ \A h \in Handlers : cancelControl'[x] = h =>
             /\ stage[h] # "free"
             /\ cancelStage'[x] \in {"abort", "fence", "resolve", "answered"}
                  => cancelRequested'[h]
             /\ cancelStage'[x] \in {"fence", "resolve", "answered"} => ~Orphan(h)'
             /\ cancelStage'[x] \in {"resolve", "answered"} => ~Saving(h)
        /\ cancelStage'[x] \in {"flag", "abort", "fence"} => cancelControl'[x] \in Handlers
    BY <1>3, <2>0, <2>1, FlaggedRests DEF CancelInv, CancelHasControl
  <2>2. CASE \E k \in Keys : CancelLookup(x, k)
    BY <2>2, NoneAssumption DEF CancelLookup, RegistryInv
  <2>3. CASE CancelFlag(x)
    BY <2>3 DEF CancelFlag, StoreFlag, CancelInv, CancelHasControl
  <2>4. CASE CancelAbort(x)
    BY <2>4 DEF CancelAbort, AbortModelTask, CancelInv, CancelHasControl, TurnInv, Orphan
  <2>5. CASE CancelCrossFence(x)
    BY <2>5 DEF CancelCrossFence, CancelInv, CancelHasControl, TurnInv, Orphan, Saving,
      driverVars, modelVars
  <2>6. CASE CancelAnswer(x) \/ LeaveCancel(x)
    BY <2>6 DEF CancelAnswer, LeaveCancel, CancelInv, CancelHasControl, Orphan,
      driverVars, modelVars
  <2> QED BY <1>3, <2>2, <2>3, <2>4, <2>5, <2>6 DEF CancelStep
<1>4. \/ UNCHANGED cancelVars \/ CrashControl
      \/ \E x \in Cancels : CancelStep(x) \/ LeaveCancel(x)
  BY TurnFrame, DeleteFrame DEF ControlNext, Leave, DropControl, controlVars, handlerVars
<1> QED BY <1>1, <1>2, <1>3, <1>4

\* SweepInv is inductive: every swept turn is flagged before any fence is crossed.
LEMMA SweepStep ==
  ASSUME TypeInv, TurnInv, SweepInv, [ControlNext]_controlVars
  PROVE  SweepInv'
<1> USE DEF TypeInv, ControlTypeOK, TurnTypeOK, RegistryTypeOK, DeleteTypeOK, FencesCrossed
<1>1. CASE CrashControl
  BY <1>1 DEF CrashControl, Lose, SweepInv
<1>2. CASE UNCHANGED deleteVars /\ ~CrashControl
  BY <1>2, FlaggedRests DEF SweepInv, deleteVars
<1>3. ASSUME NEW d \in Deletes, DeleteTask(d) \/ LeaveDelete(d), ~CrashControl
      PROVE  SweepInv'
  <2> USE DEF DeleteGo
  <2>0. \A g \in Handlers : /\ stage'[g] = stage[g] /\ (Saving(g)' <=> Saving(g))
                            /\ cancelRequested[g] => cancelRequested'[g]
    BY <1>3, OtherFrame DEF Saving, Leave
  <2>1. \A e \in Deletes \ {d} :
          UNCHANGED <<deleteStage[e], liveTurns[e], flagged[e], crossed[e]>>
    BY <1>3 DEF DeleteTask, RaiseBar, SweepTurns, DeleteFlag, DeleteAbort,
      DeleteCrossFence, DeleteAllFlagged, DeleteAllCrossed, DeleteStep, LiftBar,
      LeaveDelete, DropGuard
  <2> SUFFICES
        /\ \A h \in flagged'[d] : cancelRequested'[h]
        /\ \A h \in liveTurns'[d] : stage[h] # "free"
        /\ \A h \in crossed'[d] : stage[h] # "free" /\ cancelRequested'[h] /\ ~Saving(h)
        /\ deleteStage'[d] = "fence" => flagged'[d] = liveTurns'[d]
        /\ deleteStage'[d] \in FencesCrossed => crossed'[d] = liveTurns'[d]
        /\ deleteStage'[d] \in {"idle", "sweep"} =>
             liveTurns'[d] = {} /\ flagged'[d] = {} /\ crossed'[d] = {}
    <3>1. flagged'[d] \subseteq Handlers /\ liveTurns'[d] \subseteq Handlers
          /\ crossed'[d] \subseteq Handlers
      BY TypeStep
    <3> QED BY <2>0, <2>1, <3>1 DEF SweepInv
  <2>2. CASE \E c \in Chats : RaiseBar(d, c)
    BY <2>0, <2>2 DEF RaiseBar, SweepInv
  <2>3. CASE SweepTurns(d)
    BY <2>0, <2>3 DEF SweepTurns, SweepInv, Live, LiveStages
  <2>4. CASE \E h \in Handlers : DeleteFlag(d, h)
    BY <2>0, <2>4 DEF DeleteFlag, StoreFlag, SweepInv
  <2>5. CASE \E h \in Handlers : DeleteCrossFence(d, h)
    BY <2>0, <2>5 DEF DeleteCrossFence, SweepInv, TurnInv, Saving
  <2>6. CASE DeleteAbort(d) \/ DeleteAllFlagged(d) \/ DeleteAllCrossed(d)
    BY <2>0, <2>6 DEF DeleteAbort, DeleteAllFlagged, DeleteAllCrossed, SweepInv
  <2>7. CASE \E from, to \in DeleteStages : DeleteStep(d, from, to)
    BY <2>0, <2>7 DEF DeleteStep, SweepInv
  <2>8. CASE LiftBar(d) \/ LeaveDelete(d)
    BY <2>0, <2>8 DEF LiftBar, LeaveDelete, DropGuard, SweepInv
  <2> QED BY <1>3, <2>2, <2>3, <2>4, <2>5, <2>6, <2>7, <2>8 DEF DeleteTask
<1>4. \/ UNCHANGED deleteVars \/ CrashControl
      \/ \E d \in Deletes : DeleteTask(d) \/ LeaveDelete(d)
  BY TurnFrame, CancelFrame DEF ControlNext, Leave, DropControl, controlVars, handlerVars
<1> QED BY <1>1, <1>2, <1>3, <1>4

(***************************************************************************)
(* BarInv is inductive: no turn registers on a barred chat, and a turn that*)
(* registered before the bar is seen by the sweep.                         *)
(***************************************************************************)
LEMMA BarStep ==
  ASSUME TypeInv, RegistryInv, BarInv, [ControlNext]_controlVars
  PROVE  BarInv'
<1> USE DEF TypeInv, ControlTypeOK, TurnTypeOK, RegistryTypeOK, DeleteTypeOK, BarInv
<1>1. CASE CrashControl
  BY <1>1 DEF CrashControl
<1>2. ASSUME UNCHANGED <<deleting, deleteVars>>,
             \A g \in Handlers : Live(g)' =>
               /\ post'[g] = post[g]
               /\ Live(g) \/ post[g].chat \notin deleting
      PROVE  BarInv'
  BY <1>2 DEF deleteVars
<1>3. ASSUME NEW h \in Handlers, HandlerStep(h) \/ DriverStep(h)
      PROVE  \A g \in Handlers : Live(g)' =>
               /\ post'[g] = post[g]
               /\ Live(g) \/ post[g].chat \notin deleting
  <2>1. CASE HandlerStep(h)
    BY <2>1 DEF HandlerStep, Register, Admit, Go, Live, LiveStages
  <2>2. CASE DriverStep(h)
    BY <2>2, DriverFrame DEF Live, LiveStages
  <2> QED BY <1>3, <2>1, <2>2
<1>4. ASSUME NEW d \in Deletes, DeleteTask(d) \/ LeaveDelete(d)
      PROVE  BarInv'
  <2> USE DEF DeleteGo
  <2>0. UNCHANGED <<post, stage>> /\ \A g \in Handlers : Live(g)' <=> Live(g)
    BY <1>4, OtherFrame DEF Live, Leave
  <2>2. CASE \E c \in Chats : RaiseBar(d, c)
    BY <2>0, <2>2 DEF RaiseBar
  <2>3. CASE SweepTurns(d)
    <3>1. \A g \in Handlers : Live(g) /\ post[g].chat = deleteChat[d] => g \in liveTurns'[d]
      BY <2>3 DEF SweepTurns, RegistryInv
    <3> QED BY <2>0, <2>3, <3>1 DEF SweepTurns, registryVars
  <2>4. CASE \E h \in Handlers : DeleteFlag(d, h) \/ DeleteCrossFence(d, h)
    BY <2>0, <2>4 DEF DeleteFlag, DeleteCrossFence, registryVars
  <2>5. CASE DeleteAbort(d) \/ DeleteAllFlagged(d) \/ DeleteAllCrossed(d)
    BY <2>0, <2>5 DEF DeleteAbort, DeleteAllFlagged, DeleteAllCrossed, registryVars
  <2>6. CASE \E from, to \in DeleteStages : DeleteStep(d, from, to)
    BY <2>0, <2>6 DEF DeleteStep, registryVars
  <2>7. CASE LiftBar(d) \/ LeaveDelete(d)
    <3>1. UNCHANGED <<deleteChat, liveTurns>>
      BY <2>7 DEF LiftBar, LeaveDelete, DropGuard
    <3>2. \A e \in Deletes : barred'[e] => barred[e] /\ deleteChat[e] \in deleting'
      BY <2>7 DEF LiftBar, LeaveDelete, DropGuard
    <3>3. \A e \in Deletes : /\ deleteStage[e] # "idle" => deleteStage'[e] # "idle"
                             /\ deleteStage'[e] # "sweep" => deleteStage[e] # "sweep"
      BY <2>7 DEF LiftBar, LeaveDelete
    <3> QED BY <2>0, <3>1, <3>2, <3>3
  <2> QED BY <1>4, <2>2, <2>3, <2>4, <2>5, <2>6, <2>7 DEF DeleteTask
<1>5. ASSUME \/ \E k \in Keys : DropControl(k)
             \/ \E x \in Cancels : CancelStep(x) \/ LeaveCancel(x)
      PROVE  BarInv'
  <2>1. UNCHANGED <<deleting, deleteVars>>
    BY <1>5, CancelFrame DEF DropControl
  <2>2. UNCHANGED <<stage, post>>
    BY <1>5, OtherFrame DEF Leave
  <2> QED BY <1>2, <2>1, <2>2 DEF Live
<1>6. CASE UNCHANGED controlVars
  BY <1>2, <1>6 DEF controlVars, driverVars, handlerVars, registryVars, Live
<1> QED BY <1>1, <1>2, <1>3, <1>4, <1>5, <1>6, TurnFrame DEF ControlNext, Leave

\* ControlInv is inductive.
LEMMA InvStep == ControlInv /\ [ControlNext]_controlVars => ControlInv'
BY TypeStep, RegistryStep, TurnStep, CancelInvStep, SweepStep, BarStep DEF ControlInv

\* Every reachable state satisfies ControlInv.
LEMMA Invariance == ControlSpec => []ControlInv
BY InvInit, InvStep, PTL DEF ControlSpec

\* Only the save of a turn persists it.
LEMMA PersistedBySave ==
  ASSUME TypeInv, [ControlNext]_controlVars, NEW h \in Handlers, stage[h] # "saving"
  PROVE  persisted'[h] = persisted[h]
<1> USE DEF TypeInv, ControlTypeOK, TurnTypeOK, resultVars
<1>1. ASSUME NEW g \in Handlers, DriverStep(g) PROVE persisted'[h] = persisted[h]
  <2>1. CASE SaveTurn(g)
    BY <2>1 DEF SaveTurn, Go
  <2>2. CASE ~SaveTurn(g)
    BY <1>1, <2>2 DEF DriverStep, StartTurn, EnterTurn, LoadFails, StageTurn,
      ResolveSaved, AttachModelTask, RecheckModelTask, JoinModelTask, IllustrateTurn,
      TakeFence, CheckCancelled, SaveFails, ReleaseFence, FinishTurn
  <2> QED BY <2>1, <2>2
<1>2. ASSUME NEW g \in Handlers, HandlerStep(g) PROVE persisted'[h] = persisted[h]
  BY <1>2 DEF HandlerStep, Register, Admit
<1>3. ASSUME \/ \E k \in Keys : DropControl(k)
             \/ \E x \in Cancels : CancelStep(x)
             \/ \E d \in Deletes : DeleteTask(d)
             \/ Leave
      PROVE  persisted'[h] = persisted[h]
  BY <1>3, OtherFrame
<1> QED BY <1>1, <1>2, <1>3 DEF ControlNext, CrashControl, controlVars, driverVars

-----------------------------------------------------------------------------
(***************************************************************************)
(* A request id names at most one running turn of its chat.                *)
(***************************************************************************)
THEOREM OneTurn == ControlSpec => []OneLiveTurnPerRequest
<1>1. ControlInv => OneLiveTurnPerRequest
  BY DEF ControlInv, RegistryInv, OneLiveTurnPerRequest
<1> QED BY <1>1, Invariance, PTL

(***************************************************************************)
(* No cancelled turn leaves its model call running behind.                 *)
(***************************************************************************)
THEOREM NoOrphan == ControlSpec => []NoOrphanModelTask
<1>1. ControlInv => NoOrphanModelTask
  BY DEF ControlInv, TypeInv, ControlTypeOK, CancelTypeOK, CancelInv, Orphan,
    NoOrphanModelTask
<1> QED BY <1>1, Invariance, PTL

(***************************************************************************)
(* Completed is told of exactly the turns that were persisted.             *)
(***************************************************************************)
THEOREM TrueReceipts == ControlSpec => []TerminalTellsTheTruth
<1>1. ControlInv => TerminalTellsTheTruth
  BY DEF ControlInv, TurnInv, TerminalTellsTheTruth, IsFinished
<1> QED BY <1>1, Invariance, PTL

(***************************************************************************)
(* A delete that has crossed the fences of its sweep meets no save of them.*)
(***************************************************************************)
THEOREM SweepHolds == ControlSpec => []SweptTurnsCannotCommit
<1>1. ControlInv => SweptTurnsCannotCommit
  BY DEF ControlInv, SweepInv, SweptTurnsCannotCommit
<1> QED BY <1>1, Invariance, PTL

(***************************************************************************)
(* While the bar of a delete stands, no turn posted to its chat is saved   *)
(* once the fences are crossed.                                            *)
(***************************************************************************)
THEOREM BarHolds == ControlSpec => []BarredChatIsQuiet
<1>1. ControlInv => BarredChatIsQuiet
  BY DEF ControlInv, SweepInv, BarInv, BarredChatIsQuiet, FencesCrossed, Saving, Live,
    LiveStages
<1> QED BY <1>1, Invariance, PTL

(***************************************************************************)
(* A delete that has crossed the fences has the chat to itself, whatever   *)
(* the number of turns, cancels and deletes.                               *)
(***************************************************************************)
THEOREM DeleteHolds == ControlSpec => []DeletesSettle
BY SweepHolds, BarHolds, PTL DEF DeletesSettle

(***************************************************************************)
(* A turn whose fence a cancel has crossed is never persisted afterwards.  *)
(***************************************************************************)
THEOREM CancelHolds == ControlSpec => CancelIsFinal
<1>1. ControlInv /\ [ControlNext]_controlVars =>
        [\A x \in Cancels, h \in Handlers :
           cancelStage[x] \in {"resolve", "answered"} /\ cancelControl[x] = h
             => persisted'[h] = persisted[h]]_controlVars
  <2> SUFFICES ASSUME ControlInv, [ControlNext]_controlVars,
                      NEW x \in Cancels, NEW h \in Handlers,
                      cancelStage[x] \in {"resolve", "answered"}, cancelControl[x] = h
               PROVE  persisted'[h] = persisted[h]
    OBVIOUS
  <2>1. ~Saving(h)
    BY DEF ControlInv, CancelInv
  <2>2. stage[h] # "saving" => persisted'[h] = persisted[h]
    BY PersistedBySave DEF ControlInv
  <2> QED BY <2>1, <2>2 DEF Saving
<1> QED BY <1>1, Invariance, PTL DEF ControlSpec, CancelIsFinal

-----------------------------------------------------------------------------
(* TurnControl implements TurnPromise: under the refinement mapping at the *)
(* end of TurnControl every step is a step of the promise or a stutter.    *)

\* In terms of the mapping: what is open can be told from the stage alone.
LEMMA VerdictOpen ==
  ASSUME TypeInv, TurnInv, NEW h \in Handlers
  PROVE  Verdict(h) = "open" <=>
           stage[h] \notin {"refused", "attached", "returned", "finished", "lost", "saved"}
BY DEF Verdict, TypeInv, ControlTypeOK, TurnTypeOK, TurnInv

\* A settled turn was received, and it is neither saving nor about to save.
LEMMA SettledRests ==
  ASSUME ControlInv, NEW h \in Settled
  PROVE  h \in Handlers /\ stage[h] # "free" /\ stage[h] # "saving"
BY DEF ControlInv, Settled, SweepInv, CancelInv, Saving

\* The initial states map to the initial state of the promise.
LEMMA PromiseStart == ControlInit => Promise!PromiseInit
<1> SUFFICES ASSUME ControlInit PROVE Promise!PromiseInit
  OBVIOUS
<1>1. Settled = {}
  BY NoneAssumption DEF ControlInit, Settled
<1>2. \A h \in Handlers : Verdict(h) = "open" /\ Receipt(h) = "none"
  BY DEF ControlInit, Verdict, Receipt
<1> QED BY <1>1, <1>2 DEF Promise!PromiseInit

\* A driver step commits, drops or tells its turn, or is a stutter.
LEMMA PromiseDriver ==
  ASSUME ControlInv, NEW h \in Handlers, DriverStep(h)
  PROVE  Promise!PromiseNext \/ UNCHANGED Promise!promiseVars
<1> USE DEF ControlInv, TypeInv, ControlTypeOK, TurnTypeOK
<1>1. Settled' = Settled
  <2>1. UNCHANGED <<cancelControl, cancelStage, crossed>>
    BY DriverFrame DEF handlerVars, cancelVars, deleteVars
  <2>2. \A g \in Handlers : stage'[g] = "lost" <=> stage[g] = "lost"
    BY DriverFrame DEF LiveStages, Live
  <2> QED BY <2>1, <2>2 DEF Settled
<1>2. \A g \in Handlers \ {h} : Verdict(g)' = Verdict(g) /\ Receipt(g)' = Receipt(g)
  BY DriverFrame DEF Verdict, Receipt
<1>3. CASE SaveTurn(h)
  <2>1. Verdict(h) = "open" /\ Verdict(h)' = "committed" /\ Receipt(h)' = Receipt(h)
    BY <1>3, VerdictOpen DEF SaveTurn, Go, Verdict, Receipt, TurnInv
  <2>2. h \notin Settled
    BY <1>3, SettledRests DEF SaveTurn, Go
  <2>3. Promise!Commit(h)
    BY <1>1, <1>2, <2>1, <2>2 DEF Promise!Commit
  <2> QED BY <2>3 DEF Promise!PromiseNext
<1>4. CASE FinishTurn(h)
  <2>1. Verdict(h)' = Verdict(h) /\ Verdict(h) # "open"
    BY <1>4, VerdictOpen DEF FinishTurn, Go, Verdict
  <2>2. Receipt(h) = "none" /\ Receipt(h)' = Verdict(h)
    BY <1>4, NoneAssumption DEF FinishTurn, Go, Verdict, Receipt, TurnInv
  <2>3. Promise!Tell(h)
    BY <1>1, <1>2, <2>1, <2>2 DEF Promise!Tell
  <2> QED BY <2>3 DEF Promise!PromiseNext
<1>5. CASE ~SaveTurn(h) /\ ~FinishTurn(h)
  <2>1. UNCHANGED <<persisted, terminal>>
    BY <1>5 DEF DriverStep, StartTurn, EnterTurn, LoadFails, StageTurn, ResolveSaved,
      AttachModelTask, RecheckModelTask, JoinModelTask, IllustrateTurn, TakeFence,
      CheckCancelled, SaveFails, ReleaseFence, resultVars
  <2>2. Receipt(h)' = Receipt(h)
    BY <2>1 DEF Receipt
  <2>3. stage'[h] \notin {"refused", "attached", "finished", "lost", "saved"}
    BY <1>5 DEF DriverStep, StartTurn, EnterTurn, LoadFails, StageTurn, ResolveSaved,
      AttachModelTask, RecheckModelTask, JoinModelTask, IllustrateTurn, TakeFence,
      CheckCancelled, SaveFails, ReleaseFence, Go, Return
  <2>4. stage[h] \in LiveStages \ {"returned"}
    BY <1>5, DriverFrame DEF Live, LiveStages, DriverStep, StartTurn, EnterTurn, LoadFails,
      StageTurn, ResolveSaved, AttachModelTask, RecheckModelTask, JoinModelTask,
      IllustrateTurn, TakeFence, CheckCancelled, SaveFails, ReleaseFence, Go, Return
  <2>5. Verdict(h)' = Verdict(h) \/ (Verdict(h) = "open" /\ Verdict(h)' = "dropped")
    BY <2>1, <2>3, <2>4 DEF Verdict, LiveStages
  <2>6. CASE Verdict(h)' = Verdict(h)
    BY <1>1, <1>2, <2>2, <2>6 DEF Promise!promiseVars
  <2>7. CASE Verdict(h) = "open" /\ Verdict(h)' = "dropped"
    <3>1. Promise!Drop(h)
      BY <1>1, <1>2, <2>2, <2>7 DEF Promise!Drop
    <3> QED BY <3>1 DEF Promise!PromiseNext
  <2> QED BY <2>5, <2>6, <2>7
<1> QED BY <1>3, <1>4, <1>5

\* A refused or attached POST drops its own execution, all else stutters.
LEMMA PromiseHandler ==
  ASSUME ControlInv, NEW h \in Handlers, HandlerStep(h)
  PROVE  Promise!PromiseNext \/ UNCHANGED Promise!promiseVars
<1> USE DEF ControlInv, TypeInv, ControlTypeOK, TurnTypeOK
<1>1. UNCHANGED <<persisted, terminal>> /\ \A g \in Handlers \ {h} : stage'[g] = stage[g]
  BY DEF HandlerStep, Register, Admit, Go, resultVars
<1>2. stage[h] \in {"free", "admitted"}
      /\ stage'[h] \in {"admitted", "registered", "refused", "attached"}
  BY DEF HandlerStep, Register, Admit, Go
<1>3. Settled' = Settled
  BY <1>1, <1>2, TurnFrame DEF Settled, cancelVars, deleteVars
<1>4. \A g \in Handlers : /\ Receipt(g)' = Receipt(g)
                          /\ g # h => Verdict(g)' = Verdict(g)
  BY <1>1 DEF Receipt, Verdict
<1>5. Verdict(h) = "open" /\ Verdict(h)' \in {"open", "dropped"}
  BY <1>1, <1>2 DEF Verdict, TurnInv
<1>6. CASE Verdict(h)' = "open"
  BY <1>3, <1>4, <1>5, <1>6 DEF Promise!promiseVars
<1>7. CASE Verdict(h)' = "dropped"
  <2>1. Promise!Drop(h)
    BY <1>3, <1>4, <1>5, <1>7 DEF Promise!Drop
  <2> QED BY <2>1 DEF Promise!PromiseNext
<1> QED BY <1>5, <1>6, <1>7

\* A cancel or a delete that crosses a fence settles that turn.
LEMMA PromiseOther ==
  ASSUME ControlInv,
         \/ \E k \in Keys : DropControl(k)
         \/ \E x \in Cancels : CancelStep(x)
         \/ \E d \in Deletes : DeleteTask(d)
         \/ Leave
  PROVE  Promise!PromiseNext \/ UNCHANGED Promise!promiseVars
<1> USE DEF ControlInv, TypeInv, ControlTypeOK, TurnTypeOK
<1>1. UNCHANGED <<stage, persisted, terminal>>
  BY OtherFrame DEF resultVars
<1>2. UNCHANGED <<[h \in Handlers |-> Verdict(h)], [h \in Handlers |-> Receipt(h)]>>
  BY <1>1 DEF Verdict, Receipt
<1>3. Settled' = Settled \/ \E h \in Handlers : Settled' = Settled \cup {h}
  <2>1. CASE \E k \in Keys : DropControl(k)
    BY <1>1, <2>1 DEF DropControl, Settled, cancelVars, deleteVars
  <2>2. ASSUME NEW x \in Cancels, CancelStep(x) \/ LeaveCancel(x)
        PROVE  Settled' = Settled \/ \E h \in Handlers : Settled' = Settled \cup {h}
    <3> USE DEF CancelTypeOK, CancelGo
    <3>1. CASE CancelCrossFence(x)
      <4>1. cancelControl[x] \in Handlers
        BY <3>1 DEF CancelCrossFence, CancelHasControl
      <4>2. Settled' = Settled \cup {cancelControl[x]}
        BY <1>1, <3>1, <4>1 DEF CancelCrossFence, Settled, deleteVars
      <4> QED BY <4>1, <4>2
    <3>2. CASE \E k \in Keys : CancelLookup(x, k)
      BY <1>1, <3>2, NoneAssumption DEF CancelLookup, Settled, deleteVars
    <3>3. CASE CancelFlag(x) \/ CancelAbort(x) \/ CancelAnswer(x) \/ LeaveCancel(x)
      BY <1>1, <3>3 DEF LeaveCancel, CancelFlag, CancelAbort, CancelAnswer, Settled, deleteVars
    <3> QED BY <2>2, <3>1, <3>2, <3>3 DEF CancelStep
  <2>3. ASSUME NEW d \in Deletes, DeleteTask(d) \/ LeaveDelete(d)
        PROVE  Settled' = Settled \/ \E h \in Handlers : Settled' = Settled \cup {h}
    <3>1. UNCHANGED <<cancelStage, cancelControl>>
      BY <2>3, DeleteFrame DEF cancelVars
    <3>2. UNCHANGED crossed \/ \E h \in Handlers : crossed' = [crossed EXCEPT ![d] = @ \cup {h}]
      BY <2>3 DEF DeleteTask, RaiseBar, SweepTurns, DeleteFlag, DeleteAbort,
        DeleteCrossFence, DeleteAllFlagged, DeleteAllCrossed, DeleteStep, LiftBar,
        LeaveDelete, DropGuard
    <3>3. CASE UNCHANGED crossed
      BY <1>1, <3>1, <3>3 DEF Settled
    <3>4. ASSUME NEW h \in Handlers, crossed' = [crossed EXCEPT ![d] = @ \cup {h}]
          PROVE  Settled' = Settled \cup {h}
      <4>1. \A g \in Handlers : (\E e \in Deletes : g \in crossed'[e])
                                 <=> g = h \/ \E e \in Deletes : g \in crossed[e]
        BY <3>4 DEF DeleteTypeOK
      <4> QED BY <1>1, <3>1, <4>1 DEF Settled
    <3> QED BY <3>2, <3>3, <3>4
  <2> QED BY <2>1, <2>2, <2>3 DEF Leave
<1>4. CASE Settled' = Settled
  BY <1>2, <1>4 DEF Promise!promiseVars
<1>5. ASSUME NEW h \in Handlers, Settled' = Settled \cup {h}
      PROVE  Promise!PromiseNext
  <2>1. Promise!Settle(h)
    BY <1>2, <1>5 DEF Promise!Settle
  <2> QED BY <2>1 DEF Promise!PromiseNext
<1> QED BY <1>3, <1>4, <1>5

\* The process stops under the turns it had received, and under no other.
LEMMA PromiseCrash ==
  ASSUME ControlInv, CrashControl
  PROVE  Promise!PromiseNext
<1> DEFINE received == {h \in Handlers : stage[h] # "free"}
<1> USE DEF ControlInv, TypeInv, ControlTypeOK, TurnTypeOK
<1>1. /\ \A h \in Handlers : stage'[h] = IF h \in received THEN "lost" ELSE "free"
      /\ UNCHANGED <<terminal, persisted>>
  BY DEF CrashControl, Lose, Stages, LiveStages
<1>2. \A h \in Handlers : /\ Receipt(h)' = Receipt(h)
                          /\ Verdict(h)' = IF h \in received /\ Verdict(h) = "open"
                                           THEN "dropped" ELSE Verdict(h)
  BY <1>1 DEF Receipt, Verdict, TurnInv
<1>3. Settled' = Settled \cup received
  <2>1. Settled' = received
    BY <1>1, NoneAssumption DEF CrashControl, Settled
  <2>2. Settled \subseteq received
    BY SettledRests
  <2> QED BY <2>1, <2>2
<1>4. Promise!Stop(received)
  BY <1>2, <1>3 DEF Promise!Stop
<1> QED BY <1>4 DEF Promise!PromiseNext

\* Every step of the control protocol is a step of the promise or a stutter.
LEMMA PromiseStep ==
  ASSUME ControlInv, [ControlNext]_controlVars
  PROVE  [Promise!PromiseNext]_Promise!promiseVars
<1>1. CASE UNCHANGED controlVars
  BY <1>1 DEF controlVars, driverVars, handlerVars, resultVars, cancelVars, deleteVars,
    Promise!promiseVars, Verdict, Receipt, Settled
<1> QED
  BY <1>1, PromiseDriver, PromiseHandler, PromiseOther, PromiseCrash DEF ControlNext

(***************************************************************************)
(* The control protocol implements the promise, for any sets of handlers,  *)
(* cancels and deletes.                                                    *)
(***************************************************************************)
THEOREM PromiseKept == ControlSpec => KeepsPromise
BY Invariance, PromiseStart, PromiseStep, PTL
   DEF ControlSpec, KeepsPromise, Promise!PromiseSpec

-----------------------------------------------------------------------------

(* The page.  A request that the page has taken back is settled: it is not *)
(* in the chat, runs nowhere, and the page is not about to post it.        *)

(* A chat holds a request. *)
Holds(c, id) == \E n \in DOMAIN c : c[n] = id

(* The forms of what the page and the server keep. *)
TurnStates == {"none", "running", "saved", "completed", "cancelled", "failed"}
Results == {"none", "ok", "failed", "refused", "cancelled", "replayed"}

(* The stages of sendTurn and of stopTurn's last wait. *)
Busy == {"connect", "read", "pause", "reload", "settle"}
PageStages == Busy \cup {"rest"}

Turns == [state : TurnStates, events : Nat, edit : Nat]
Attempts == [stage : PageStages, id : Nat, edit : Nat, staged : BOOLEAN, attach : BOOLEAN,
             tries : Nat, seen : BOOLEAN, cursor : Nat, result : Results]
Tries == [id : Ids, edit : Nat, attach : BOOLEAN]
Posts == [id : Ids, edit : Nat]
Restores == [id : Ids, edit : Nat, result : {"failed", "refused"}]
Asides == [load : {"transcript", "active", "found", "done"}, found : SUBSET Posts, restore : SUBSET Restores]
Pasts == [said : 0 .. MaxActions, played : SUBSET Ids, undone : SUBSET Ids,
          overtaken : SUBSET Ids, adrift : SUBSET Nat]

(* The types of the page, as far as the stop needs them. *)
PageTypes ==
  /\ chat \in Seq(Ids)
  /\ turn \in [Ids -> Turns]
  /\ attempt \in Attempts
  /\ failed \subseteq Tries
  /\ aside \in Asides
  /\ past \in Pasts
  /\ budget \in [troubles : Nat, transit : SUBSET Posts]

(* Whatever is known by an id was said. *)
IdsSaid ==
  /\ \A id \in Ids : turn[id].state # "none" => id <= past.said
  /\ attempt.stage \in Busy => attempt.id \in 1 .. past.said
  /\ \A f \in failed \cup aside.found \cup aside.restore : f.id <= past.said
  /\ \A p \in budget.transit : p.id <= past.said
  /\ \A id \in past.undone : id <= past.said

(* A turn that runs or was cut off has not been played. *)
UnplayedOut ==
  \A id \in Ids : turn[id].state \in {"running", "cancelled", "failed"} => ~ Holds(chat, id)

(* The page asks to stop what is under way, and waits only to try again. *)
StopBusy ==
  /\ stop # NoStop => attempt.stage \in Busy
  /\ attempt.stage = "pause" => attempt.tries > 0

(* Nothing but a post that a stop has overtaken can play the request now. *)
CallSettled(id) ==
  id \in past.overtaken \/
  (~ Holds(chat, id) /\ turn[id].state # "running" /\ ~ (Posting /\ attempt.id = id))

StopSettles ==
  /\ \A id \in past.undone : CallSettled(id)
  /\ stop.stage = "answered" /\ stop.status = "cancelled" => CallSettled(attempt.id)

(* The forms, and ids that were said. *)
BaseInv == PageTypes /\ IdsSaid

(* The guards read the chat. *)
LEMMA ChatHolds == \A id : InChat(id) <=> Holds(chat, id)
BY DEF InChat, Holds

(* What a stopped, lost or edited turn leaves of the chat, and the turn. *)
LEMMA ChatPlayed ==
  ASSUME NEW c \in Seq(Ids), NEW e \in Nat, e <= Len(c), NEW id \in Ids,
         NEW d, d = Append(IF e = 0 THEN c ELSE SubSeq(c, 1, e - 1), id)
  PROVE  /\ d \in Seq(Ids)
         /\ \A x : Holds(d, x) => x = id \/ Holds(c, x)
<1> DEFINE b == IF e = 0 THEN c ELSE SubSeq(c, 1, e - 1)
<1>1. b \in Seq(Ids) /\ Len(b) <= Len(c) /\ \A n \in 1 .. Len(b) : b[n] = c[n]
  <2>1. CASE e = 0
    BY <2>1
  <2>2. CASE e # 0
    BY <2>2
  <2> QED BY <2>1, <2>2
<1> HIDE DEF b
<1>2. d = Append(b, id)
  BY DEF b
<1>3. d \in Seq(Ids) /\ Len(d) = Len(b) + 1 /\ d[Len(b) + 1] = id
      /\ \A n \in 1 .. Len(b) : d[n] = b[n]
  BY <1>1, <1>2
<1>4. ASSUME NEW n \in DOMAIN d PROVE d[n] = id \/ Holds(c, d[n])
  <2>1. n \in 1 .. Len(b) + 1 /\ Len(b) \in Nat /\ Len(c) \in Nat
    BY <1>1, <1>3, <1>4
  <2>2. CASE n = Len(b) + 1
    BY <2>2, <1>3
  <2>3. CASE n \in 1 .. Len(b)
    BY <2>1, <2>3, <1>1, <1>3 DEF Holds
  <2> QED BY <2>1, <2>2, <2>3
<1> QED BY <1>3, <1>4 DEF Holds

(* What the page sends is well formed. *)
LEMMA AttemptForms ==
  /\ AtRest \in Attempts
  /\ AtRest.stage = "rest"
BY DEF AtRest, Attempts, PageStages, Results

(* The request of an attempt was said. *)
LEMMA SaidIsId ==
  ASSUME BaseInv
  PROVE  /\ 1 .. past.said \subseteq Ids
         /\ past.said \in Nat
         /\ attempt.stage \in Busy => attempt.id \in Ids /\ attempt.id <= past.said
BY ClientBounds DEF BaseInv, PageTypes, IdsSaid, Pasts, Ids

(* A post keeps the forms, when its request was said. *)
LEMMA PostForms ==
  ASSUME BaseInv, NEW id \in Ids, id <= past.said, NEW edit \in Nat, PostReceived(id, edit)
  PROVE  /\ chat' = chat
         /\ turn' \in [Ids -> Turns]
         /\ \A x \in Ids : x # id => turn'[x] = turn[x]
         /\ \A x \in Ids : turn'[x].state # "none" => x <= past.said
<1>1. turn \in [Ids -> Turns] /\ past.said \in Nat
      /\ \A x \in Ids : turn[x].state # "none" => x <= past.said
  BY SaidIsId DEF BaseInv, PageTypes, IdsSaid
<1>2. CASE turn' = turn
  BY <1>1, <1>2 DEF PostReceived
<1>3. CASE turn' = [turn EXCEPT ![id] = [state |-> "running", events |-> 0, edit |-> edit]]
  <2> DEFINE r == [state |-> "running", events |-> 0, edit |-> edit]
  <2>1. r \in Turns
    BY DEF Turns, TurnStates
  <2> HIDE DEF r
  <2>2. turn' = [turn EXCEPT ![id] = r]
    BY <1>3 DEF r
  <2> QED BY <1>1, <2>1, <2>2 DEF PostReceived
<1> QED BY <1>2, <1>3 DEF PostReceived

(* An attempt that ends, with what it can be retried by. *)
LEMMA EndForms ==
  ASSUME BaseInv, attempt.stage \in Busy
  PROVE  /\ \A r \in Results : Settle(r) =>
              attempt' \in Attempts /\ attempt'.stage = "settle" /\ attempt'.id = attempt.id
         /\ \A e \in Nat, a \in BOOLEAN : CanRetry(attempt.id, e, a) =>
              failed' \subseteq Tries /\ \A f \in failed' : f.id = attempt.id
<1>1. attempt \in Attempts /\ attempt.id \in Ids
  BY SaidIsId DEF BaseInv, PageTypes
<1>2. ASSUME NEW r \in Results, Settle(r)
      PROVE  attempt' \in Attempts /\ attempt'.stage = "settle" /\ attempt'.id = attempt.id
  BY <1>1, <1>2 DEF Settle, AtRest, Attempts, PageStages, Busy
<1>3. ASSUME NEW e \in Nat, NEW a \in BOOLEAN, CanRetry(attempt.id, e, a)
      PROVE  failed' \subseteq Tries /\ \A f \in failed' : f.id = attempt.id
  BY <1>1, <1>3 DEF CanRetry, Tries
<1> QED BY <1>2, <1>3

(* The forms that an attempt and its retry take, by where it stands. *)
AttemptKept ==
  /\ attempt' \in Attempts
  /\ attempt'.stage \in Busy => attempt'.id \in 1 .. past.said

RetryKept ==
  /\ failed' \subseteq Tries
  /\ \A f \in failed' : f.id <= past.said

AsideKept ==
  /\ aside' \in Asides
  /\ \A f \in aside'.found \cup aside'.restore : f.id <= past.said

(* A break keeps the forms. *)
LEMMA BreakForms ==
  ASSUME BaseInv, attempt.stage \in {"connect", "read"}, Breaks
  PROVE  attempt'.id = attempt.id /\ AttemptKept /\ RetryKept /\ attempt'.stage \in {"pause", "settle"} /\ (attempt'.stage = "pause" => attempt'.tries > 0)
<1>1. /\ attempt \in Attempts /\ failed \subseteq Tries /\ attempt.stage \in Busy
      /\ attempt.id \in 1 .. past.said /\ \A f \in failed : f.id <= past.said
  BY DEF BaseInv, PageTypes, IdsSaid, Busy
<1>2. CASE attempt.tries < Reconnects
  <2>1. failed' = failed
    BY <1>2 DEF Breaks
  <2>2. attempt' = [attempt EXCEPT !.stage = "pause", !.tries = @ + 1, !.seen = FALSE, !.cursor = 0]
    BY <1>2 DEF Breaks
  <2>3. attempt' \in Attempts /\ attempt'.stage = "pause" /\ attempt'.id = attempt.id
        /\ attempt'.tries = attempt.tries + 1 /\ attempt.tries \in Nat
    <3> DEFINE k == attempt.tries + 1
    <3>1. attempt.tries \in Nat /\ k \in Nat
      BY <1>1 DEF Attempts
    <3> HIDE DEF k
    <3>2. attempt' = [attempt EXCEPT !.stage = "pause", !.tries = k, !.seen = FALSE, !.cursor = 0]
      BY <2>2 DEF k
    <3>3. attempt' \in Attempts /\ attempt'.stage = "pause" /\ attempt'.id = attempt.id /\ attempt'.tries = k
      BY <1>1, <3>1, <3>2 DEF Attempts, PageStages, Busy
    <3> QED BY <3>1, <3>3 DEF k
  <2> QED BY <1>1, <2>1, <2>3 DEF AttemptKept, RetryKept
<1>3. CASE ~ (attempt.tries < Reconnects)
  <2>1. Settle("failed") /\ CanRetry(attempt.id, attempt.edit, attempt.attach)
    BY <1>3 DEF Breaks, OfferRetry
  <2>2. attempt.edit \in Nat /\ attempt.attach \in BOOLEAN /\ "failed" \in Results
    BY <1>1 DEF Attempts, Results
  <2> QED BY <1>1, <2>1, <2>2, EndForms DEF AttemptKept, RetryKept
<1> QED BY <1>2, <1>3

(* A step keeps the forms of the server, of the history, of the bounds. *)
ServerKept ==
  /\ chat' \in Seq(Ids)
  /\ turn' \in [Ids -> Turns]
  /\ \A id \in Ids : turn'[id].state # "none" => id <= past.said

PastKept ==
  /\ past' \in Pasts /\ past'.said = past.said
  /\ \A id \in past'.undone : id <= past.said

BudgetKept ==
  /\ budget' \in [troubles : Nat, transit : SUBSET Posts]
  /\ \A p \in budget'.transit : p.id <= past.said

(* Together they are the invariant. *)
LEMMA AllKept ==
  ASSUME BaseInv, ServerKept, AttemptKept, RetryKept, AsideKept, PastKept, BudgetKept
  PROVE  BaseInv'
BY DEF BaseInv, PageTypes, IdsSaid, ServerKept, AttemptKept, RetryKept, AsideKept, PastKept, BudgetKept

(* What does not change is kept. *)
LEMMA Unchanged ==
  ASSUME BaseInv
  PROVE  /\ UNCHANGED <<chat, turn>> => ServerKept
         /\ UNCHANGED attempt => AttemptKept
         /\ UNCHANGED failed => RetryKept
         /\ failed' = {} => RetryKept
         /\ UNCHANGED aside => AsideKept
         /\ UNCHANGED past => PastKept
         /\ UNCHANGED budget => BudgetKept
<1>1. UNCHANGED <<chat, turn>> => ServerKept
  BY DEF BaseInv, PageTypes, IdsSaid, ServerKept
<1>2. UNCHANGED attempt => AttemptKept
  BY DEF BaseInv, PageTypes, IdsSaid, AttemptKept
<1>3. UNCHANGED failed => RetryKept
  BY DEF BaseInv, PageTypes, IdsSaid, RetryKept
<1>4. failed' = {} => RetryKept
  BY DEF RetryKept
<1>5. UNCHANGED past => PastKept
  BY DEF BaseInv, PageTypes, IdsSaid, PastKept
<1>6. UNCHANGED budget => BudgetKept
  BY DEF BaseInv, PageTypes, IdsSaid, BudgetKept
<1>7. UNCHANGED aside => AsideKept
  BY DEF BaseInv, PageTypes, IdsSaid, AsideKept
<1> QED BY <1>1, <1>2, <1>3, <1>4, <1>5, <1>6, <1>7

(* The bounds of troubles and what is on its way. *)
LEMMA TroubleKept ==
  ASSUME BaseInv
  PROVE  /\ Trouble(budget.transit) => BudgetKept
         /\ InTransit \subseteq Posts /\ \A p \in InTransit : p.id <= past.said
         /\ Trouble(InTransit) => BudgetKept
         /\ \A s \in {budget.transit, InTransit} : budget' = [budget EXCEPT !.transit = s] => BudgetKept
<1>1. /\ budget \in [troubles : Nat, transit : SUBSET Posts]
      /\ budget.transit \subseteq Posts /\ \A p \in budget.transit : p.id <= past.said
  BY DEF BaseInv, PageTypes, IdsSaid
<1>2. InTransit \subseteq Posts /\ \A p \in InTransit : p.id <= past.said
  <2>1. CASE ~ Posting
    BY <1>1, <2>1 DEF InTransit
  <2>2. CASE Posting
    <3>1. attempt.id \in Ids /\ attempt.id <= past.said /\ attempt.edit \in Nat
      BY <2>2, SaidIsId DEF Posting, Busy, BaseInv, PageTypes, Attempts
    <3>2. [id |-> attempt.id, edit |-> attempt.edit] \in Posts
      BY <3>1 DEF Posts
    <3> QED BY <1>1, <2>2, <3>1, <3>2 DEF InTransit
  <2> QED BY <2>1, <2>2
<1>3. ASSUME NEW s, s \subseteq Posts, \A p \in s : p.id <= past.said
      PROVE  (Trouble(s) => BudgetKept) /\ (budget' = [budget EXCEPT !.transit = s] => BudgetKept)
  <2>1. budget' = [budget EXCEPT !.transit = s] => BudgetKept
    BY <1>1, <1>3 DEF BudgetKept
  <2>2. ASSUME Trouble(s) PROVE BudgetKept
    <3> DEFINE k == budget.troubles - 1
    <3>1. k \in Nat
      BY <1>1, <2>2 DEF Trouble
    <3>2. budget' = [budget EXCEPT !.troubles = k, !.transit = s]
      BY <2>2 DEF Trouble
    <3> HIDE DEF k
    <3> QED BY <1>1, <1>3, <3>1, <3>2 DEF BudgetKept
  <2> QED BY <2>1, <2>2
<1> QED BY <1>1, <1>2, <1>3

(* What is written down of the history. *)
LEMMA PastForms ==
  ASSUME BaseInv, NEW s \in SUBSET Ids, \A id \in s : id <= past.said, NEW t \in SUBSET Nat
  PROVE  /\ past' = [past EXCEPT !.undone = @ \cup s] => PastKept
         /\ past' = [past EXCEPT !.undone = @ \cup s, !.adrift = t] => PastKept
         /\ past' = [past EXCEPT !.undone = @ \ s, !.adrift = t] => PastKept
         /\ past' = [past EXCEPT !.played = @ \cup s] => PastKept
         /\ past' = [past EXCEPT !.overtaken = @ \cup s] => PastKept
         /\ past' = [past EXCEPT !.adrift = t] => PastKept
<1>1. past \in Pasts /\ \A id \in past.undone : id <= past.said
  BY DEF BaseInv, PageTypes, IdsSaid
<1>2. past' = [past EXCEPT !.undone = @ \cup s, !.adrift = t] => PastKept
  BY <1>1 DEF Pasts, PastKept
<1>3. past' = [past EXCEPT !.undone = @ \cup s] => PastKept
  BY <1>1 DEF Pasts, PastKept
<1>4. past' = [past EXCEPT !.undone = @ \ s, !.adrift = t] => PastKept
  BY <1>1 DEF Pasts, PastKept
<1>5. past' = [past EXCEPT !.played = @ \cup s] => PastKept
  BY <1>1 DEF Pasts, PastKept
<1>6. past' = [past EXCEPT !.overtaken = @ \cup s] => PastKept
  BY <1>1 DEF Pasts, PastKept
<1>7. past' = [past EXCEPT !.adrift = t] => PastKept
  BY <1>1 DEF Pasts, PastKept
<1> QED BY <1>2, <1>3, <1>4, <1>5, <1>6, <1>7

(* The transcript is shown, or a turn is sent again. *)
LEMMA AdriftForms ==
  ASSUME BaseInv
  PROVE  /\ Adrift => PastKept
         /\ \A id \in Nat : \A s : Again(id, s) \in SUBSET Nat
<1>1. attempt.id \in Nat /\ past.adrift \in SUBSET Nat /\ {} \in SUBSET Ids
  BY DEF BaseInv, PageTypes, Attempts, Pasts
<1>2. ASSUME Adrift PROVE PastKept
  <2> DEFINE t == IF Generating THEN {attempt.id} ELSE {}
  <2>1. t \in SUBSET Nat
    BY <1>1
  <2>2. past' = [past EXCEPT !.adrift = t]
    BY <1>2 DEF Adrift
  <2> HIDE DEF t
  <2> QED BY <1>1, <2>1, <2>2, PastForms
<1>3. \A id \in Nat : \A s : Again(id, s) \in SUBSET Nat
  BY <1>1 DEF Again
<1> QED BY <1>2, <1>3

(* An execution takes its next step. *)
LEMMA ServerStepKept ==
  ASSUME BaseInv, NEW id \in Ids, NEW from \in TurnStates, NEW to \in TurnStates,
         from # "none", ServerSteps(id, from, to), chat' \in Seq(Ids)
  PROVE  ServerKept /\ AttemptKept /\ RetryKept /\ AsideKept
<1>1. turn' \in [Ids -> Turns] /\ \A x \in Ids : turn'[x].state # "none" => turn[x].state # "none"
  BY DEF ServerSteps, BaseInv, PageTypes, Turns
<1>2. ServerKept
  BY <1>1 DEF ServerKept, BaseInv, IdsSaid
<1>3. AttemptKept /\ RetryKept /\ AsideKept
  BY Unchanged DEF ServerSteps, clientVars
<1> QED BY <1>2, <1>3

(* What the server does keeps the forms. *)
LEMMA ServerBase ==
  ASSUME BaseInv, NEW id \in Ids,
         TellPlayer(id) \/ PlayTurn(id) \/ TurnEnds(id) \/ StoppedElsewhere(id) \/ FeedDies(id) \/ ServerRestarts
  PROVE  BaseInv'
<1>1. /\ turn \in [Ids -> Turns] /\ chat \in Seq(Ids)
      /\ \A x \in Ids : turn[x].state # "none" => x <= past.said
  BY DEF BaseInv, PageTypes, IdsSaid
<1>2. CASE TellPlayer(id)
  <2>1. turn' \in [Ids -> Turns] /\ \A x \in Ids : turn'[x].state # "none" => turn[x].state # "none"
    BY <1>1, <1>2 DEF TellPlayer, Turns
  <2> QED BY <1>1, <1>2, <2>1, Unchanged, AllKept DEF TellPlayer, clientVars, ServerKept
<1>3. CASE PlayTurn(id)
  <2>1. ServerSteps(id, "running", "saved") /\ UNCHANGED budget
    BY <1>3 DEF PlayTurn
  <2>2. /\ turn[id].edit \in Nat /\ turn[id].edit <= Len(chat) /\ turn[id].state = "running"
    BY <1>1, <1>3 DEF PlayTurn, ServerSteps, Turns
  <2>3. chat' \in Seq(Ids)
    BY <1>1, <1>3, <2>2, ChatPlayed DEF PlayTurn
  <2>4. ServerKept /\ AttemptKept /\ RetryKept /\ AsideKept
    BY <2>1, <2>3, ServerStepKept DEF TurnStates
  <2>5. id <= past.said
    BY <1>1, <2>2
  <2>6. PastKept
    BY <1>3, <2>5, PastForms DEF PlayTurn
  <2> QED BY <2>1, <2>4, <2>6, Unchanged, AllKept
<1>4. CASE TurnEnds(id)
  <2>1. ServerSteps(id, "saved", "completed") \/ ServerSteps(id, "running", "failed")
    BY <1>4 DEF TurnEnds
  <2>2. ServerKept /\ AttemptKept /\ RetryKept /\ AsideKept
    BY <1>1, <1>4, <2>1, ServerStepKept DEF TurnStates, TurnEnds
  <2> QED BY <1>4, <2>2, Unchanged, AllKept DEF TurnEnds
<1>5. CASE StoppedElsewhere(id)
  <2>1. ServerKept /\ AttemptKept /\ RetryKept /\ AsideKept
    BY <1>1, <1>5, ServerStepKept DEF TurnStates, StoppedElsewhere
  <2> QED BY <1>5, <2>1, Unchanged, TroubleKept, AllKept DEF StoppedElsewhere
<1>6. CASE FeedDies(id)
  <2>1. NoTurn \in Turns /\ NoTurn.state = "none"
    BY DEF NoTurn, Turns, TurnStates
  <2>2. turn' \in [Ids -> Turns] /\ \A x \in Ids : turn'[x].state # "none" => turn[x].state # "none"
    BY <1>1, <1>6, <2>1 DEF FeedDies
  <2> QED BY <1>1, <1>6, <2>2, Unchanged, AllKept DEF FeedDies, clientVars, ServerKept
<1>7. CASE ServerRestarts
  <2>1. NoTurn \in Turns /\ NoTurn.state = "none"
    BY DEF NoTurn, Turns, TurnStates
  <2>2. turn' \in [Ids -> Turns] /\ \A x \in Ids : turn'[x].state = "none"
    BY <1>7, <2>1 DEF ServerRestarts
  <2> QED BY <1>1, <1>7, <2>2, Unchanged, TroubleKept, AllKept DEF ServerRestarts, clientVars, ServerKept
<1> QED BY <1>2, <1>3, <1>4, <1>5, <1>6, <1>7

(* A post received keeps the server's forms. *)
LEMMA PostKept ==
  ASSUME BaseInv, NEW id \in Ids, id <= past.said, NEW edit \in Nat, PostReceived(id, edit)
  PROVE  ServerKept
BY PostForms DEF ServerKept, BaseInv, PageTypes

(* A post that comes late keeps the forms. *)
LEMMA LateBase ==
  ASSUME BaseInv, NEW p \in budget.transit, LateArrives(p)
  PROVE  BaseInv'
<1>1. /\ budget \in [troubles : Nat, transit : SUBSET Posts]
      /\ \A q \in budget.transit : q.id <= past.said
  BY DEF BaseInv, PageTypes, IdsSaid
<1>2. p.id \in Ids /\ p.edit \in Nat /\ p.id <= past.said
  BY <1>1 DEF Posts
<1>3. ServerKept
  BY <1>2, PostKept DEF LateArrives
<1>4. PastKept
  BY <1>2, PastForms DEF LateArrives
<1>5. BudgetKept
  BY <1>1 DEF LateArrives, BudgetKept
<1> QED BY <1>3, <1>4, <1>5, Unchanged, AllKept DEF LateArrives, clientVars

(* How an attempt ends. *)
LEMMA EndKept ==
  ASSUME BaseInv, attempt.stage \in Busy
  PROVE  /\ attempt.id \in Ids /\ attempt.id <= past.said
         /\ \A r \in Results : Settle(r) => AttemptKept
         /\ \A e \in Nat, a \in BOOLEAN : CanRetry(attempt.id, e, a) => RetryKept
         /\ \A r \in Results : \A rows : TakeBack(r, rows) => AttemptKept /\ RetryKept
         /\ \A a \in BOOLEAN : OfferRetry(a) => AttemptKept /\ RetryKept
         /\ StartReading => AttemptKept /\ RetryKept
         /\ Replayed => AttemptKept /\ RetryKept
<1>1. attempt.id \in Ids /\ attempt.id <= past.said /\ attempt.id \in 1 .. past.said
      /\ attempt \in Attempts /\ attempt.edit \in Nat
  BY SaidIsId DEF BaseInv, PageTypes, IdsSaid, Attempts
<1>2. ASSUME NEW r \in Results, Settle(r) PROVE AttemptKept
  BY <1>1, <1>2, EndForms DEF AttemptKept
<1>3. ASSUME NEW e \in Nat, NEW a \in BOOLEAN, CanRetry(attempt.id, e, a) PROVE RetryKept
  BY <1>1, <1>3, EndForms DEF RetryKept
<1>4. ASSUME NEW r \in Results, NEW rows, TakeBack(r, rows) PROVE AttemptKept /\ RetryKept
  BY <1>2, <1>4, Unchanged DEF TakeBack
<1>5. ASSUME NEW a \in BOOLEAN, OfferRetry(a) PROVE AttemptKept /\ RetryKept
  BY <1>1, <1>2, <1>3, <1>5 DEF OfferRetry, Results
<1>6. ASSUME StartReading PROVE AttemptKept /\ RetryKept
  <2>1. attempt' \in Attempts /\ attempt'.id = attempt.id
    BY <1>1, <1>6 DEF StartReading, Attempts, PageStages, Busy
  <2> QED BY <1>1, <1>6, <2>1, Unchanged DEF StartReading, AttemptKept
<1>7. ASSUME Replayed PROVE AttemptKept /\ RetryKept
  <2>1. attempt' \in Attempts /\ attempt'.id = attempt.id
    BY <1>1, <1>7 DEF Replayed, Attempts, PageStages, Busy, Results
  <2> QED BY <1>1, <1>7, <2>1, Unchanged DEF Replayed, AttemptKept
<1> QED BY <1>1, <1>2, <1>3, <1>4, <1>5, <1>6, <1>7

(* The answers to an attempt keep the forms. *)
LEMMA ConnectBase ==
  ASSUME BaseInv, PostAnswered \/ PostRefused \/ AttachAnswered \/ ConnectBreaks
  PROVE  BaseInv'
<1>1. attempt.stage = "connect" /\ attempt.stage \in Busy
  BY DEF PostAnswered, PostRefused, AttachAnswered, ConnectBreaks, Posting, Attaching, Busy
<1>2. attempt.id \in Ids /\ attempt.id <= past.said /\ attempt.edit \in Nat
  BY <1>1, EndKept DEF BaseInv, PageTypes, Attempts
<1>3. ASSUME PostReceived(attempt.id, attempt.edit) PROVE ServerKept
  BY <1>2, <1>3, PostKept
<1>4. CASE PostAnswered
  <2>1. AttemptKept /\ RetryKept
    BY <1>1, <1>4, EndKept DEF PostAnswered
  <2> QED BY <1>3, <1>4, <2>1, Unchanged, AllKept DEF PostAnswered
<1>5. CASE PostRefused
  <2>1. AttemptKept /\ RetryKept
    BY <1>1, <1>5, EndKept DEF PostRefused, Results
  <2> QED BY <1>5, <2>1, Unchanged, TroubleKept, AllKept DEF PostRefused, serverVars
<1>6. CASE AttachAnswered
  <2>1. AttemptKept /\ RetryKept
    BY <1>1, <1>6, EndKept DEF AttachAnswered
  <2> QED BY <1>6, <2>1, Unchanged, AllKept DEF AttachAnswered, serverVars
<1>7. CASE ConnectBreaks
  <2>1. AttemptKept /\ RetryKept
    BY <1>1, <1>7, BreakForms DEF ConnectBreaks
  <2>2. ServerKept /\ BudgetKept
    BY <1>3, <1>7, Unchanged, TroubleKept DEF ConnectBreaks, serverVars
  <2> QED BY <1>7, <2>1, <2>2, Unchanged, AllKept DEF ConnectBreaks
<1> QED BY <1>4, <1>5, <1>6, <1>7

(* Reading a stream and waiting keep the forms. *)
LEMMA ReadBase ==
  ASSUME BaseInv, ShowPlayer \/ StreamBreaks \/ TurnDone \/ Reconnect
  PROVE  BaseInv'
<1>1. attempt.stage \in Busy
  BY DEF ShowPlayer, StreamBreaks, TurnDone, Reconnect, Busy
<1>2. /\ attempt.id \in Ids /\ attempt.id <= past.said /\ attempt \in Attempts
      /\ attempt.id \in 1 .. past.said
  BY <1>1, EndKept DEF BaseInv, PageTypes, IdsSaid
<1>3. CASE ShowPlayer
  <2> DEFINE k == attempt.cursor + 1
  <2>1. k \in Nat
    BY <1>2 DEF Attempts
  <2>2. attempt' = [attempt EXCEPT !.cursor = k, !.seen = TRUE]
    BY <1>3 DEF ShowPlayer
  <2> HIDE DEF k
  <2>3. attempt' \in Attempts /\ attempt'.id = attempt.id
    BY <1>2, <2>1, <2>2 DEF Attempts
  <2>4. AttemptKept
    BY <1>2, <2>3 DEF AttemptKept
  <2> QED BY <1>3, <2>4, Unchanged, AllKept DEF ShowPlayer, serverVars
<1>4. CASE StreamBreaks
  <2>1. AttemptKept /\ RetryKept
    BY <1>4, BreakForms DEF StreamBreaks
  <2>2. BudgetKept
    BY <1>4, Unchanged, TroubleKept DEF StreamBreaks
  <2> QED BY <1>4, <2>1, <2>2, Unchanged, AllKept DEF StreamBreaks, serverVars
<1>5. CASE TurnDone
  <2>1. CASE attempt' = [attempt EXCEPT !.stage = "reload", !.result = "ok"] /\ UNCHANGED <<failed, past>>
    <3>1. attempt' \in Attempts /\ attempt'.id = attempt.id
      BY <1>2, <2>1 DEF Attempts, PageStages, Busy, Results
    <3>2. AttemptKept
      BY <1>2, <3>1 DEF AttemptKept
    <3> QED BY <1>5, <2>1, <3>2, Unchanged, AllKept DEF TurnDone, serverVars
  <2>2. CASE TakeBack("cancelled", << >>) /\ past' = [past EXCEPT !.undone = @ \cup {attempt.id}]
    <3>1. AttemptKept /\ RetryKept
      BY <1>1, <2>2, EndKept DEF Results
    <3>2. PastKept
      BY <1>2, <2>2, PastForms
    <3> QED BY <1>5, <3>1, <3>2, Unchanged, AllKept DEF TurnDone, serverVars
  <2>3. CASE (OfferRetry(FALSE) \/ TakeBack("refused", <<Problem>>)) /\ UNCHANGED past
    <3>1. AttemptKept /\ RetryKept
      BY <1>1, <2>3, EndKept DEF Results
    <3> QED BY <1>5, <2>3, <3>1, Unchanged, AllKept DEF TurnDone, serverVars
  <2> QED BY <1>5, <2>1, <2>2, <2>3 DEF TurnDone
<1>6. CASE Reconnect
  <2>1. attempt' \in Attempts /\ attempt'.id = attempt.id
    BY <1>2, <1>6 DEF Reconnect, Attempts, PageStages, Busy
  <2>2. AttemptKept
    BY <1>2, <2>1 DEF AttemptKept
  <2> QED BY <1>6, <2>2, Unchanged, AllKept DEF Reconnect, serverVars
<1> QED BY <1>3, <1>4, <1>5, <1>6

(* The end of an attempt keeps the forms. *)
LEMMA EndBase ==
  ASSUME BaseInv, Reload \/ ReloadFails \/ AttemptEnds
  PROVE  BaseInv'
<1>1. attempt.stage \in Busy
  BY DEF Reload, ReloadFails, AttemptEnds, Busy
<1>2. /\ attempt.id \in Ids /\ attempt.id <= past.said /\ attempt \in Attempts
      /\ attempt.id \in 1 .. past.said /\ attempt.attach \in BOOLEAN /\ attempt.edit \in Nat
  BY <1>1, SaidIsId DEF BaseInv, PageTypes, IdsSaid, Attempts
<1>3. CASE Reload
  <2>1. AttemptKept
    BY <1>3, EndKept DEF Reload, Results, Busy
  <2>2. PastKept
    BY <1>3, AdriftForms DEF Reload
  <2> QED BY <1>3, <2>1, <2>2, Unchanged, AllKept DEF Reload, serverVars
<1>4. CASE ReloadFails
  <2>1. AttemptKept
    BY <1>4, EndKept DEF ReloadFails, Results, Busy
  <2>2. RetryKept
    <3>1. CASE attempt.result = "replayed"
      <4>1. CanRetry(attempt.id, 0, attempt.attach)
        BY <1>4, <3>1 DEF ReloadFails
      <4> QED BY <1>1, <1>2, <4>1, EndKept
    <3>2. CASE attempt.result # "replayed"
      BY <1>4, <3>2, Unchanged DEF ReloadFails
    <3> QED BY <3>1, <3>2
  <2>3. PastKept
    <3> DEFINE t == past.adrift \cup IF attempt.result = "replayed" /\ screen.base = {} THEN {attempt.id} ELSE {}
    <3>1. t \in SUBSET Nat /\ {} \in SUBSET Ids
      BY <1>2 DEF Ids, BaseInv, PageTypes, Pasts
    <3>2. past' = [past EXCEPT !.adrift = t]
      BY <1>4 DEF ReloadFails
    <3> HIDE DEF t
    <3> QED BY <3>1, <3>2, PastForms
  <2> QED BY <1>4, <2>1, <2>2, <2>3, Unchanged, TroubleKept, AllKept DEF ReloadFails, serverVars
<1>5. CASE AttemptEnds
  <2>1. AttemptKept
    BY <1>5, AttemptForms DEF AttemptEnds, AttemptKept, Busy
  <2>2. AsideKept
    <3>1. CASE attempt.staged /\ attempt.result \in {"failed", "refused"}
      <4> DEFINE e == [id |-> attempt.id, edit |-> attempt.edit, result |-> attempt.result]
      <4>1. e \in Restores /\ e.id <= past.said
        BY <1>2, <3>1 DEF Restores
      <4>2. aside' = [aside EXCEPT !.restore = {e}]
        BY <1>5, <3>1 DEF AttemptEnds
      <4>3. aside \in Asides /\ \A f \in aside.found : f.id <= past.said
        BY DEF BaseInv, PageTypes, IdsSaid
      <4> HIDE DEF e
      <4> QED BY <4>1, <4>2, <4>3 DEF AsideKept, Asides
    <3>2. CASE ~ (attempt.staged /\ attempt.result \in {"failed", "refused"})
      BY <1>5, <3>2, Unchanged DEF AttemptEnds
    <3> QED BY <3>1, <3>2
  <2> QED BY <1>5, <2>1, <2>2, Unchanged, AllKept DEF AttemptEnds, serverVars
<1> QED BY <1>3, <1>4, <1>5

(* The restore of a failed edit keeps the forms. *)
LEMMA RestoreBase ==
  ASSUME BaseInv, RestoreChat \/ RestoreFails
  PROVE  BaseInv'
<1>1. AsideKept
  <2>1. aside \in Asides /\ \A f \in aside.found : f.id <= past.said
    BY DEF BaseInv, PageTypes, IdsSaid
  <2>2. aside' = [aside EXCEPT !.restore = {}]
    BY DEF RestoreChat, RestoreFails, Restored
  <2> QED BY <2>1, <2>2 DEF AsideKept, Asides
<1>2. CASE RestoreChat
  <2>1. PICK e \in aside.restore : failed' = {} \/ CanRetry(e.id, e.edit, FALSE)
    BY <1>2 DEF RestoreChat
  <2>2. e \in Restores /\ e.id <= past.said
    BY DEF BaseInv, PageTypes, IdsSaid, Asides
  <2>3. RetryKept
    <3>1. CASE failed' = {}
      BY <3>1, Unchanged
    <3>2. CASE CanRetry(e.id, e.edit, FALSE)
      <4>1. [id |-> e.id, edit |-> e.edit, attach |-> FALSE] \in Tries
        BY <2>2 DEF Tries, Restores
      <4> QED BY <2>2, <3>2, <4>1 DEF CanRetry, RetryKept
    <3> QED BY <2>1, <3>1, <3>2
  <2>4. PastKept
    BY <1>2, AdriftForms DEF RestoreChat
  <2> QED BY <1>1, <1>2, <2>3, <2>4, Unchanged, AllKept DEF RestoreChat, serverVars
<1>3. CASE RestoreFails
  BY <1>1, <1>3, Unchanged, TroubleKept, AllKept DEF RestoreFails, serverVars
<1> QED BY <1>2, <1>3

(* A stopped execution is cancelled. *)
LEMMA InterruptForms ==
  ASSUME BaseInv, NEW id, Interrupted(id)
  PROVE  /\ turn' \in [Ids -> Turns]
         /\ \A x \in Ids :
              \/ turn'[x].state = turn[x].state
              \/ turn[x].state = "running" /\ turn'[x].state = "cancelled"
         /\ id \in Ids => turn'[id].state # "running"
<1>1. turn \in [Ids -> Turns]
  BY DEF BaseInv, PageTypes
<1>2. CASE id \notin Ids
  BY <1>1, <1>2 DEF Interrupted
<1>3. CASE id \in Ids
  <2> DEFINE s == IF turn[id].state = "running" THEN "cancelled" ELSE turn[id].state
             u == [turn[id] EXCEPT !.state = s]
  <2>1. s \in TurnStates /\ turn[id] \in Turns
    BY <1>1, <1>3 DEF Turns, TurnStates
  <2>2. u = [turn[id] EXCEPT !.state = s]
    OBVIOUS
  <2>3. turn' = [turn EXCEPT ![id] = u]
    BY DEF Interrupted
  <2>4. \/ s = turn[id].state
        \/ turn[id].state = "running" /\ s = "cancelled"
    OBVIOUS
  <2>6. s # "running"
    OBVIOUS
  <2> HIDE DEF s, u
  <2>5. u \in Turns /\ u.state = s
    BY <2>1, <2>2 DEF Turns
  <2> QED BY <1>1, <1>3, <2>3, <2>4, <2>5, <2>6
<1> QED BY <1>2, <1>3

(* A stop keeps the forms. *)
LEMMA StopBase ==
  ASSUME BaseInv, StopBusy, StopTurn \/ CancelArrives \/ CancelBreaks \/ CancelAnswered
  PROVE  BaseInv'
<1>1. attempt.stage \in Busy
  BY DEF StopTurn, Generating, Busy, CancelArrives, CancelBreaks, CancelAnswered, StopBusy, NoStop
<1>2. /\ attempt.id \in Ids /\ attempt.id <= past.said /\ attempt \in Attempts
      /\ chat \in Seq(Ids) /\ \A x \in Ids : turn[x].state # "none" => x <= past.said
  BY <1>1, EndKept DEF BaseInv, PageTypes, IdsSaid
<1>3. ASSUME Interrupted(attempt.id), chat' = chat PROVE ServerKept
  BY <1>2, <1>3, InterruptForms DEF ServerKept
<1>4. CASE StopTurn
  BY <1>4, Unchanged, AllKept DEF StopTurn, serverVars
<1>5. CASE CancelArrives
  <2>1. PastKept
    <3> DEFINE s == IF Posting THEN {attempt.id} ELSE {}
    <3>1. s \in SUBSET Ids /\ \A id \in s : id <= past.said
      BY <1>2
    <3>2. past' = [past EXCEPT !.overtaken = @ \cup s]
      BY <1>5 DEF CancelArrives
    <3> HIDE DEF s
    <3> QED BY <3>1, <3>2, PastForms
  <2> QED BY <1>3, <1>5, <2>1, Unchanged, AllKept DEF CancelArrives
<1>6. CASE CancelBreaks
  <2>1. ServerKept
    BY <1>3, <1>6, Unchanged DEF CancelBreaks
  <2> QED BY <1>6, <2>1, Unchanged, TroubleKept, AllKept DEF CancelBreaks
<1>7. CASE CancelAnswered
  <2>1. PastKept
    <3> DEFINE s == IF stop.status = "cancelled" THEN {attempt.id} ELSE {}
    <3>1. s \in SUBSET Ids /\ (\A id \in s : id <= past.said) /\ {} \in SUBSET Nat
      BY <1>2
    <3>2. past' = [past EXCEPT !.undone = @ \cup s, !.adrift = {}]
      BY <1>7 DEF CancelAnswered
    <3> HIDE DEF s
    <3> QED BY <3>1, <3>2, PastForms
  <2>2. AttemptKept
    BY <1>1, <1>7, EndKept, Unchanged DEF CancelAnswered, Results
  <2>3. BudgetKept
    BY <1>7, TroubleKept DEF CancelAnswered
  <2> QED BY <1>7, <2>1, <2>2, <2>3, Unchanged, AllKept DEF CancelAnswered, serverVars
<1> QED BY <1>4, <1>5, <1>6, <1>7

(* What Send sends. *)
LEMMA SendForms ==
  ASSUME NEW id \in Ids, NEW edit \in Nat, NEW staged \in BOOLEAN, NEW attach \in BOOLEAN,
         NEW s, Send(id, edit, staged, attach, s)
  PROVE  /\ attempt' \in Attempts
         /\ attempt'.stage = "connect" /\ attempt'.id = id /\ attempt'.attach = attach
         /\ failed' = {}
<1>1. attempt' = [AtRest EXCEPT !.stage = "connect", !.id = id, !.edit = edit, !.staged = staged, !.attach = attach]
  BY DEF Send
<1>2. id \in Nat /\ AtRest \in Attempts
  BY AttemptForms DEF Ids
<1>3. /\ attempt' \in Attempts
      /\ attempt'.stage = "connect" /\ attempt'.id = id /\ attempt'.attach = attach
  BY <1>1, <1>2 DEF Attempts, PageStages, Busy
<1> QED BY <1>3 DEF Send

(* A new request keeps the forms. *)
LEMMA NewBase ==
  ASSUME BaseInv, NEW edit \in Nat, NEW staged \in BOOLEAN, NEW s,
         NewId, Act(past.said + 1, edit, staged, FALSE, s)
  PROVE  BaseInv'
<1>1. past.said \in 0 .. MaxActions /\ past.said < MaxActions /\ MaxActions \in Nat /\ past \in Pasts
  BY ClientBounds DEF BaseInv, PageTypes, Pasts, NewId
<1>2. past.said + 1 \in Ids /\ past.said + 1 \in 0 .. MaxActions
  BY <1>1 DEF Ids
<1>3. /\ attempt' \in Attempts /\ attempt'.id = past.said + 1 /\ failed' = {}
  BY <1>2, SendForms DEF Act
<1>4. past' \in Pasts /\ past'.said = past.said + 1 /\ past'.undone = past.undone
  <2> DEFINE k == past.said + 1
  <2>1. past' = [past EXCEPT !.said = k] /\ k \in 0 .. MaxActions
    BY <1>2 DEF NewId
  <2> HIDE DEF k
  <2>2. past' \in Pasts /\ past'.said = k /\ past'.undone = past.undone
    BY <1>1, <2>1 DEF Pasts
  <2> QED BY <2>2 DEF k
<1>5. PageTypes'
  BY <1>3, <1>4 DEF BaseInv, PageTypes, Act, serverVars
<1>6. \A n \in Ids : n <= past.said => n <= past'.said
  BY <1>1, <1>4 DEF Ids
<1>7. past.undone \subseteq Ids /\ budget.transit \subseteq Posts
      /\ aside.found \subseteq Posts /\ aside.restore \subseteq Restores
  BY DEF BaseInv, PageTypes, Pasts, Asides
<1>8. \A p \in budget.transit \cup aside.found \cup aside.restore : p.id \in Ids
  BY <1>7 DEF Posts, Restores
<1>9. attempt'.id \in 1 .. past'.said
  BY <1>1, <1>3, <1>4
<1>10. IdsSaid'
  <2>1. UNCHANGED <<turn, aside, budget>>
    BY DEF Act, serverVars
  <2>2. \A id \in Ids : turn[id].state # "none" => id <= past.said
    BY DEF BaseInv, IdsSaid
  <2>3. /\ \A f \in aside.found \cup aside.restore : f.id <= past.said
        /\ \A p \in budget.transit : p.id <= past.said
        /\ \A id \in past.undone : id <= past.said
    BY DEF BaseInv, IdsSaid
  <2> QED BY <1>3, <1>4, <1>6, <1>7, <1>8, <1>9, <2>1, <2>2, <2>3 DEF IdsSaid
<1> QED BY <1>5, <1>10 DEF BaseInv

(* What the player does keeps the forms. *)
LEMMA PlayerBase ==
  ASSUME BaseInv, Say \/ RetryFailed \/ (\E n \in Ids : EditTurn(n))
  PROVE  BaseInv'
<1>1. CASE Say
  BY <1>1, NewBase DEF Say
<1>2. ASSUME NEW n \in Ids, EditTurn(n) PROVE BaseInv'
  <2>1. n \in Nat
    BY DEF Ids
  <2> QED BY <1>2, <2>1, NewBase DEF EditTurn
<1>3. CASE RetryFailed
  <2>1. PICK f \in failed : \E s :
          /\ Act(f.id, f.edit, f.edit # 0, f.edit = 0 /\ f.attach, s)
          /\ past' = [past EXCEPT !.undone = @ \ {f.id}, !.adrift = Again(f.id, s)]
    BY <1>3 DEF RetryFailed
  <2>2. PICK s : /\ Act(f.id, f.edit, f.edit # 0, f.edit = 0 /\ f.attach, s)
                 /\ past' = [past EXCEPT !.undone = @ \ {f.id}, !.adrift = Again(f.id, s)]
    BY <2>1
  <2>3. f.id \in Ids /\ f.edit \in Nat /\ f.attach \in BOOLEAN /\ f.id <= past.said
    BY DEF BaseInv, PageTypes, IdsSaid, Tries
  <2>4. attempt' \in Attempts /\ attempt'.id = f.id /\ failed' = {}
    BY <2>2, <2>3, SendForms DEF Act
  <2>5. AttemptKept
    <3>1. f.id \in 1 .. past.said
      BY <2>3, SaidIsId DEF Ids
    <3> QED BY <2>4, <3>1 DEF AttemptKept
  <2>6. PastKept
    <3>1. {f.id} \in SUBSET Ids /\ f.id \in Nat
      BY <2>3 DEF Ids
    <3>2. Again(f.id, s) \in SUBSET Nat
      BY <3>1, AdriftForms
    <3> QED BY <2>2, <2>3, <3>1, <3>2, PastForms
  <2> QED BY <2>2, <2>4, <2>5, <2>6, Unchanged, AllKept DEF Act, serverVars
<1> QED BY <1>1, <1>2, <1>3

(* The load of the page keeps the forms. *)
LEMMA LoadBase ==
  ASSUME BaseInv, OpenPage \/ LoadTranscript \/ ActiveAnswered \/ Discover
  PROVE  BaseInv'
<1>1. aside \in Asides /\ \A f \in aside.found \cup aside.restore : f.id <= past.said
  BY DEF BaseInv, PageTypes, IdsSaid
<1>2. CASE OpenPage
  <2>1. AttemptKept
    BY <1>2, AttemptForms DEF OpenPage, AttemptKept, Busy
  <2>2. AsideKept
    BY <1>2 DEF OpenPage, Opening, AsideKept, Asides
  <2>3. {} \in SUBSET Ids /\ {} \in SUBSET Nat
    OBVIOUS
  <2>4. PastKept
    BY <1>2, <2>3, PastForms DEF OpenPage
  <2> QED BY <1>2, <2>1, <2>2, <2>4, Unchanged, TroubleKept, AllKept DEF OpenPage, serverVars
<1>3. CASE LoadTranscript
  <2>1. AsideKept
    BY <1>1, <1>3 DEF LoadTranscript, AsideKept, Asides
  <2>2. PastKept /\ BudgetKept
    BY <1>3, AdriftForms, Unchanged, TroubleKept DEF LoadTranscript
  <2> QED BY <1>3, <2>1, <2>2, Unchanged, AllKept DEF LoadTranscript, serverVars
<1>4. CASE ActiveAnswered
  <2>1. BudgetKept
    BY <1>4, Unchanged, TroubleKept DEF ActiveAnswered
  <2>2. AsideKept
    <3>1. CASE aside' = [aside EXCEPT !.load = "done"]
      BY <1>1, <3>1 DEF AsideKept, Asides
    <3>2. ASSUME NEW id \in ActiveTurn,
                 aside' = [aside EXCEPT !.load = "found", !.found = {[id |-> id, edit |-> turn[id].edit]}]
          PROVE  AsideKept
      <4> DEFINE f == [id |-> id, edit |-> turn[id].edit]
      <4>1. id \in Ids /\ turn[id].state # "none"
        BY DEF ActiveTurn, Unfinished
      <4>2. f \in Posts /\ f.id <= past.said
        BY <4>1 DEF Posts, BaseInv, PageTypes, IdsSaid, Turns
      <4>3. aside' = [aside EXCEPT !.load = "found", !.found = {f}]
        BY <3>2
      <4> HIDE DEF f
      <4> QED BY <1>1, <4>2, <4>3 DEF AsideKept, Asides
    <3> QED BY <1>4, <3>1, <3>2 DEF ActiveAnswered
  <2> QED BY <1>4, <2>1, <2>2, Unchanged, AllKept DEF ActiveAnswered, serverVars
<1>5. CASE Discover
  <2>1. AsideKept
    BY <1>1, <1>5 DEF Discover, AsideKept, Asides
  <2>2. CASE UNCHANGED <<screen, attempt, failed, past>>
    BY <1>5, <2>1, <2>2, Unchanged, AllKept DEF Discover, serverVars
  <2>3. ASSUME NEW f \in aside.found, Send(f.id, f.edit, FALSE, TRUE, RolledBack(screen)),
               past' = [past EXCEPT !.adrift = Again(f.id, RolledBack(screen))]
        PROVE  BaseInv'
    <3>1. f.id \in Ids /\ f.edit \in Nat /\ f.id <= past.said /\ f.id \in Nat
      BY <1>1 DEF Asides, Posts, Ids
    <3>2. attempt' \in Attempts /\ attempt'.id = f.id /\ failed' = {}
      BY <2>3, <3>1, SendForms
    <3>3. AttemptKept
      <4>1. f.id \in 1 .. past.said
        BY <3>1, SaidIsId DEF Ids
      <4> QED BY <3>2, <4>1 DEF AttemptKept
    <3>4. PastKept
      <4>1. Again(f.id, RolledBack(screen)) \in SUBSET Nat /\ {} \in SUBSET Ids
        BY <3>1, AdriftForms
      <4> QED BY <2>3, <4>1, PastForms
    <3> QED BY <1>5, <2>1, <3>2, <3>3, <3>4, Unchanged, AllKept DEF Discover, serverVars
  <2> QED BY <1>5, <2>2, <2>3 DEF Discover
<1> QED BY <1>2, <1>3, <1>4, <1>5

(* The beginning has the forms. *)
LEMMA BaseInit == ClientInit => BaseInv
<1> SUFFICES ASSUME ClientInit PROVE BaseInv
  OBVIOUS
<1>1. NoTurn \in Turns /\ NoTurn.state = "none"
  BY DEF NoTurn, Turns, TurnStates
<1>2. past \in Pasts /\ past.undone = {}
  BY ClientBounds DEF ClientInit, Pasts
<1>3. budget \in [troubles : Nat, transit : SUBSET Posts] /\ budget.transit = {}
  BY ClientBounds DEF ClientInit
<1>4. aside \in Asides /\ aside.found = {} /\ aside.restore = {}
  BY DEF ClientInit, Opening, Asides
<1> QED BY <1>1, <1>2, <1>3, <1>4, AttemptForms DEF ClientInit, BaseInv, PageTypes, IdsSaid, Busy

(* Every step keeps the forms. *)
LEMMA BaseStep == BaseInv /\ StopBusy /\ [ClientNext]_pageVars => BaseInv'
<1> SUFFICES ASSUME BaseInv, StopBusy, [ClientNext]_pageVars PROVE BaseInv'
  OBVIOUS
<1>1. CASE UNCHANGED pageVars
  BY <1>1, Unchanged, AllKept DEF pageVars, serverVars, clientVars
<1>2. ASSUME NEW id \in Ids, TellPlayer(id) \/ PlayTurn(id) \/ TurnEnds(id) \/ StoppedElsewhere(id) \/ FeedDies(id)
      PROVE  BaseInv'
  BY <1>2, ServerBase
<1>3. CASE ServerRestarts
  <2>1. PICK id \in Ids : TRUE
    BY <1>3 DEF ServerRestarts, Unfinished
  <2> QED BY <1>3, <2>1, ServerBase
<1>4. ASSUME NEW p \in budget.transit, LateArrives(p) PROVE BaseInv'
  BY <1>4, LateBase
<1>5. CASE PostAnswered \/ PostRefused \/ AttachAnswered \/ ConnectBreaks
  BY <1>5, ConnectBase
<1>6. CASE ShowPlayer \/ StreamBreaks \/ TurnDone \/ Reconnect
  BY <1>6, ReadBase
<1>7. CASE Reload \/ ReloadFails \/ AttemptEnds \/ RestoreChat \/ RestoreFails
  BY <1>7, EndBase, RestoreBase
<1>8. CASE StopTurn \/ CancelArrives \/ CancelBreaks \/ CancelAnswered
  BY <1>8, StopBase
<1>9. CASE Say \/ RetryFailed \/ (\E n \in Ids : EditTurn(n))
  BY <1>9, PlayerBase
<1>10. CASE OpenPage \/ LoadTranscript \/ ActiveAnswered \/ Discover
  BY <1>10, LoadBase
<1> QED BY <1>1, <1>2, <1>3, <1>4, <1>5, <1>6, <1>7, <1>8, <1>9, <1>10 DEF ClientNext

(* A turn that runs, or ended without being played. *)
CutOff == {"running", "cancelled", "failed"}

(* The server brings no request into the chat that did not run, runs none  *)
(* that was not posted, and none that is played already.                   *)
ServerCalm(x) ==
  /\ Holds(chat', x) => Holds(chat, x) \/ turn[x].state = "running"
  /\ turn'[x].state = "running" =>
       turn[x].state = "running" \/ (Posting /\ attempt.id = x) \/ x \in past'.overtaken
  /\ turn'[x].state \in CutOff /\ Holds(chat', x) => turn[x].state \in CutOff /\ Holds(chat, x)

(* The page posts no request anew. *)
PageCalm(x) == Posting' /\ attempt'.id = x => Posting /\ attempt.id = x

(* What was overtaken by a stop stays so. *)
OvertakenKept == past.overtaken \subseteq past'.overtaken

(* The page does not change what it asks to stop. *)
StopSame == UNCHANGED stop /\ (stop # NoStop => attempt'.stage \in Busy /\ attempt'.id = attempt.id)

(* A page that waits has tried before. *)
PauseKept == attempt'.stage = "pause" => attempt'.tries > 0

(* The inductive invariant of the stop. *)
StopInv == BaseInv /\ UnplayedOut /\ StopBusy /\ StopSettles

(* A request that was settled stays so. *)
LEMMA SettledKept ==
  ASSUME NEW x \in Ids, CallSettled(x), ServerCalm(x), PageCalm(x), OvertakenKept
  PROVE  CallSettled(x)'
BY DEF CallSettled, ServerCalm, PageCalm, OvertakenKept

(* A chat that the server leaves alone. *)
LEMMA SameServer ==
  ASSUME UNCHANGED <<chat, turn>>
  PROVE  \A x \in Ids : ServerCalm(x)
BY DEF ServerCalm

(* The page posts only when it connects. *)
LEMMA NotPosting ==
  ASSUME attempt'.stage # "connect" \/ attempt' = attempt
  PROVE  \A x : PageCalm(x)
BY DEF PageCalm, Posting

(* A stop under way survives a step that is calm and lets it be. *)
LEMMA CalmStep ==
  ASSUME StopInv, BaseInv', \A x \in Ids : ServerCalm(x) /\ PageCalm(x), OvertakenKept,
         StopSame, PauseKept, past'.undone \subseteq past.undone
  PROVE  StopInv'
<1>1. past.undone \subseteq Ids
  BY DEF StopInv, BaseInv, PageTypes, Pasts
<1>2. UnplayedOut'
  BY DEF UnplayedOut, StopInv, ServerCalm, CutOff
<1>3. StopBusy'
  BY DEF StopBusy, StopInv, StopSame, PauseKept
<1>4. \A id \in past'.undone : CallSettled(id)'
  BY <1>1, SettledKept DEF StopInv, StopSettles
<1>5. ASSUME stop'.stage = "answered" /\ stop'.status = "cancelled" PROVE CallSettled(attempt.id)'
  <2>1. stop # NoStop /\ stop.stage = "answered" /\ stop.status = "cancelled"
    BY <1>5 DEF StopSame, NoStop
  <2>2. attempt.id \in Ids /\ CallSettled(attempt.id) /\ attempt'.id = attempt.id
    BY <2>1, SaidIsId DEF StopInv, StopBusy, StopSettles, StopSame
  <2>3. ASSUME NEW x \in Ids, CallSettled(x) PROVE CallSettled(x)'
    BY <2>3, SettledKept
  <2>4. ASSUME NEW x \in Ids, attempt'.id = x, CallSettled(x)' PROVE CallSettled(attempt.id)'
    BY <2>4 DEF CallSettled
  <2> QED BY <2>2, <2>3, <2>4
<1> QED BY <1>2, <1>3, <1>4, <1>5 DEF StopInv, StopSettles

(* One turn changes its state. *)
LEMMA TurnChanges ==
  ASSUME BaseInv, NEW id \in Ids, NEW to, chat' = chat,
         \A x \in Ids : turn'[x].state = IF x = id THEN to ELSE turn[x].state,
         to # "running" \/ turn[id].state = "running",
         to \in CutOff => turn[id].state \in CutOff
  PROVE  \A x \in Ids : ServerCalm(x)
BY DEF ServerCalm

(* The step of an execution. *)
LEMMA ServerStepForms ==
  ASSUME BaseInv, NEW id \in Ids, NEW from, NEW to, ServerSteps(id, from, to)
  PROVE  /\ turn[id].state = from
         /\ \A x \in Ids : turn'[x].state = IF x = id THEN to ELSE turn[x].state
BY DEF ServerSteps, BaseInv, PageTypes, Turns

(* The attempt and the stop that a step leaves alone. *)
LEMMA PageSame ==
  ASSUME UNCHANGED <<attempt, stop>>, StopInv
  PROVE  (\A x : PageCalm(x)) /\ StopSame /\ PauseKept
<1>1. \A x : PageCalm(x)
  BY NotPosting
<1>2. StopSame
  BY DEF StopSame, StopInv, StopBusy
<1>3. PauseKept
  BY DEF PauseKept, StopInv, StopBusy
<1> QED BY <1>1, <1>2, <1>3

(* The server settles nothing anew. *)
LEMMA ServerStop ==
  ASSUME StopInv, BaseInv', NEW id \in Ids,
         TellPlayer(id) \/ PlayTurn(id) \/ TurnEnds(id) \/ StoppedElsewhere(id) \/ FeedDies(id) \/ ServerRestarts
  PROVE  StopInv'
<1>1. BaseInv /\ turn \in [Ids -> Turns] /\ chat \in Seq(Ids) /\ past \in Pasts
  BY DEF StopInv, BaseInv, PageTypes
<1>2. UNCHANGED clientVars
  BY DEF TellPlayer, PlayTurn, TurnEnds, StoppedElsewhere, FeedDies, ServerRestarts, ServerSteps
<1>3. (\A x : PageCalm(x)) /\ StopSame /\ PauseKept
  BY <1>2, PageSame DEF clientVars
<1>4. OvertakenKept /\ past'.undone \subseteq past.undone
  <2>1. CASE past' = past
    BY <2>1 DEF OvertakenKept
  <2>2. CASE past' = [past EXCEPT !.played = @ \cup {id}]
    BY <1>1, <2>2 DEF OvertakenKept, Pasts
  <2> QED BY <2>1, <2>2 DEF TellPlayer, PlayTurn, TurnEnds, StoppedElsewhere, FeedDies, ServerRestarts
<1>5. \A x \in Ids : ServerCalm(x)
  <2>1. CASE TellPlayer(id)
    <3>1. \A x \in Ids : turn'[x].state = turn[x].state
      BY <1>1, <2>1 DEF TellPlayer, Turns
    <3> QED BY <2>1, <3>1 DEF TellPlayer, ServerCalm
  <2>2. CASE PlayTurn(id)
    <3>1. /\ turn[id].state = "running"
          /\ \A x \in Ids : turn'[x].state = IF x = id THEN "saved" ELSE turn[x].state
      BY <1>1, <2>2, ServerStepForms DEF PlayTurn
    <3>2. turn[id].edit \in Nat /\ turn[id].edit <= Len(chat)
      BY <1>1, <2>2 DEF PlayTurn, Turns
    <3>3. \A x : Holds(chat', x) => x = id \/ Holds(chat, x)
      BY <1>1, <2>2, <3>2, ChatPlayed DEF PlayTurn
    <3> QED BY <3>1, <3>3 DEF ServerCalm, CutOff
  <2>3. CASE TurnEnds(id)
    <3>1. CASE ServerSteps(id, "saved", "completed")
      <4>1. /\ turn[id].state = "saved"
            /\ \A x \in Ids : turn'[x].state = IF x = id THEN "completed" ELSE turn[x].state
        BY <1>1, <3>1, ServerStepForms
      <4> QED BY <2>3, <4>1 DEF TurnEnds, ServerCalm, CutOff
    <3>2. CASE ServerSteps(id, "running", "failed")
      <4>1. /\ turn[id].state = "running"
            /\ \A x \in Ids : turn'[x].state = IF x = id THEN "failed" ELSE turn[x].state
        BY <1>1, <3>2, ServerStepForms
      <4> QED BY <2>3, <4>1 DEF TurnEnds, ServerCalm, CutOff
    <3> QED BY <2>3, <3>1, <3>2 DEF TurnEnds
  <2>4. CASE StoppedElsewhere(id)
    BY <1>1, <2>4, ServerStepForms, TurnChanges DEF StoppedElsewhere, CutOff
  <2>5. CASE FeedDies(id)
    <3>1. \A x \in Ids : turn'[x].state = IF x = id THEN "none" ELSE turn[x].state
      BY <1>1, <2>5 DEF FeedDies, NoTurn
    <3>2. "none" \notin CutOff
      BY DEF CutOff
    <3> QED BY <1>1, <2>5, <3>1, <3>2, TurnChanges DEF FeedDies
  <2>6. CASE ServerRestarts
    <3>1. chat' = chat /\ \A x \in Ids : turn'[x].state = "none"
      BY <2>6 DEF ServerRestarts, NoTurn
    <3> QED BY <3>1 DEF ServerCalm, CutOff
  <2> QED BY <2>1, <2>2, <2>3, <2>4, <2>5, <2>6
<1> QED BY <1>3, <1>4, <1>5, CalmStep

(* A post received starts at most the request posted, if it is not played. *)
LEMMA PostCalm ==
  ASSUME BaseInv, NEW id \in Ids, id <= past.said, NEW edit \in Nat, PostReceived(id, edit),
         (Posting /\ attempt.id = id) \/ id \in past'.overtaken
  PROVE  \A x \in Ids : ServerCalm(x)
<1>1. chat' = chat /\ \A x \in Ids : x # id => turn'[x] = turn[x]
  BY PostForms
<1>2. turn'[id] = turn[id] \/ ~ Holds(chat, id)
  BY ChatHolds DEF PostReceived
<1> QED BY <1>1, <1>2 DEF ServerCalm

(* A late post was overtaken. *)
LEMMA LateStop ==
  ASSUME StopInv, BaseInv', NEW p \in budget.transit, LateArrives(p)
  PROVE  StopInv'
<1>1. /\ BaseInv /\ past \in Pasts
      /\ p.id \in Ids /\ p.edit \in Nat /\ p.id <= past.said
  BY DEF StopInv, BaseInv, PageTypes, IdsSaid, Posts
<1>2. past'.overtaken = past.overtaken \cup {p.id} /\ past'.undone = past.undone
  BY <1>1 DEF LateArrives, Pasts
<1>3. \A x \in Ids : ServerCalm(x)
  BY <1>1, <1>2, PostCalm DEF LateArrives
<1>4. (\A x : PageCalm(x)) /\ StopSame /\ PauseKept
  BY PageSame DEF LateArrives, clientVars
<1> QED BY <1>2, <1>3, <1>4, CalmStep DEF OvertakenKept

(* An attempt goes on, without posting. *)
GoesOn ==
  /\ attempt'.id = attempt.id
  /\ attempt'.stage \in Busy \ {"connect"}
  /\ attempt'.stage = "pause" => attempt'.tries > 0

(* It does so by an answer, a failure or its end. *)
LEMMA AnswersGoOn ==
  ASSUME BaseInv, attempt.stage \in Busy
  PROVE  /\ \A r \in Results : Settle(r) => GoesOn
         /\ \A r \in Results : \A rows : TakeBack(r, rows) => GoesOn
         /\ \A a : OfferRetry(a) => GoesOn
         /\ StartReading => GoesOn
         /\ Replayed => GoesOn
         /\ attempt.stage \in {"connect", "read"} /\ Breaks => GoesOn
<1>1. attempt \in Attempts
  BY DEF BaseInv, PageTypes
<1>2. ASSUME NEW r \in Results, Settle(r) PROVE GoesOn
  BY <1>2, EndForms DEF GoesOn, Busy
<1>3. StartReading => GoesOn
  BY <1>1 DEF StartReading, GoesOn, Busy, Attempts
<1>4. Replayed => GoesOn
  BY <1>1 DEF Replayed, GoesOn, Busy, Attempts
<1>5. attempt.stage \in {"connect", "read"} /\ Breaks => GoesOn
  BY BreakForms DEF GoesOn, Busy
<1>6. \A r \in Results : \A rows : TakeBack(r, rows) => GoesOn
  BY <1>2 DEF TakeBack
<1>7. \A a : OfferRetry(a) => GoesOn
  BY <1>2 DEF OfferRetry, Results
<1> QED BY <1>2, <1>3, <1>4, <1>5, <1>6, <1>7

(* Then the stop is about the same request. *)
LEMMA GoingOn ==
  ASSUME GoesOn
  PROVE  (\A x : PageCalm(x)) /\ PauseKept /\ (UNCHANGED stop => StopSame)
<1>1. \A x : PageCalm(x)
  BY NotPosting DEF GoesOn
<1> QED BY <1>1 DEF GoesOn, PauseKept, StopSame

(* The answers to an attempt settle nothing anew. *)
LEMMA ConnectStop ==
  ASSUME StopInv, BaseInv', PostAnswered \/ PostRefused \/ AttachAnswered \/ ConnectBreaks
  PROVE  StopInv'
<1>1. attempt.stage = "connect" /\ attempt.stage \in Busy /\ BaseInv
  BY DEF PostAnswered, PostRefused, AttachAnswered, ConnectBreaks, Posting, Attaching, Busy, StopInv
<1>2. attempt.id \in Ids /\ attempt.id <= past.said /\ attempt.edit \in Nat
  BY <1>1, EndKept DEF BaseInv, PageTypes, Attempts
<1>3. UNCHANGED <<stop, past>>
  BY DEF PostAnswered, PostRefused, AttachAnswered, ConnectBreaks
<1>4. OvertakenKept /\ past'.undone \subseteq past.undone
  BY <1>3 DEF OvertakenKept
<1>5. GoesOn
  <2>1. CASE PostAnswered
    BY <1>1, <2>1, AnswersGoOn DEF PostAnswered
  <2>2. CASE PostRefused
    BY <1>1, <2>2, AnswersGoOn DEF PostRefused, Results
  <2>3. CASE AttachAnswered
    BY <1>1, <2>3, AnswersGoOn DEF AttachAnswered
  <2>4. CASE ConnectBreaks
    BY <1>1, <2>4, AnswersGoOn DEF ConnectBreaks
  <2> QED BY <2>1, <2>2, <2>3, <2>4
<1>6. ASSUME Posting, PostReceived(attempt.id, attempt.edit) PROVE \A x \in Ids : ServerCalm(x)
  BY <1>1, <1>2, <1>6, PostCalm
<1>7. \A x \in Ids : ServerCalm(x)
  BY <1>6, SameServer DEF PostAnswered, PostRefused, AttachAnswered, ConnectBreaks, serverVars
<1>8. (\A x : PageCalm(x)) /\ PauseKept /\ StopSame
  BY <1>3, <1>5, GoingOn
<1> QED BY <1>4, <1>7, <1>8, CalmStep

(* Reading and waiting settle at most what the stream reports cancelled.   *)
LEMMA ReadStop ==
  ASSUME StopInv, BaseInv', ShowPlayer \/ StreamBreaks \/ TurnDone \/ Reconnect
  PROVE  StopInv'
<1>1. attempt.stage \in Busy /\ BaseInv /\ attempt \in Attempts
  BY DEF ShowPlayer, StreamBreaks, TurnDone, Reconnect, Busy, StopInv, BaseInv, PageTypes
<1>2. UNCHANGED <<chat, turn, stop>>
  BY DEF ShowPlayer, StreamBreaks, TurnDone, Reconnect, serverVars
<1>3. \A x \in Ids : ServerCalm(x)
  BY <1>2, SameServer
<1>4. CASE ShowPlayer \/ StreamBreaks
  <2>1. ASSUME ShowPlayer PROVE GoesOn
    <3>1. attempt'.id = attempt.id /\ attempt'.stage = "read"
      BY <1>1, <2>1 DEF ShowPlayer, Attempts
    <3> QED BY <3>1 DEF GoesOn, Busy
  <2>2. ASSUME StreamBreaks PROVE GoesOn
    BY <1>1, <2>2, AnswersGoOn DEF StreamBreaks
  <2>3. GoesOn
    BY <1>4, <2>1, <2>2
  <2>4. UNCHANGED past
    BY <1>4 DEF ShowPlayer, StreamBreaks
  <2> QED BY <1>2, <1>3, <2>3, <2>4, GoingOn, CalmStep DEF OvertakenKept
<1>5. CASE TurnDone
  <2>1. GoesOn
    <3>1. CASE attempt' = [attempt EXCEPT !.stage = "reload", !.result = "ok"]
      BY <1>1, <3>1 DEF GoesOn, Busy, Attempts
    <3>2. CASE TakeBack("cancelled", << >>)
      BY <1>1, <3>2, AnswersGoOn DEF Results
    <3>3. CASE OfferRetry(FALSE)
      BY <1>1, <3>3, AnswersGoOn
    <3>4. CASE TakeBack("refused", <<Problem>>)
      BY <1>1, <3>4, AnswersGoOn DEF Results
    <3> QED BY <1>5, <3>1, <3>2, <3>3, <3>4 DEF TurnDone
  <2>2. CASE UNCHANGED past
    BY <1>2, <1>3, <2>1, <2>2, GoingOn, CalmStep DEF OvertakenKept
  <2>3. CASE turn[attempt.id].state = "cancelled" /\ past' = [past EXCEPT !.undone = @ \cup {attempt.id}]
    <3>1. /\ past'.undone = past.undone \cup {attempt.id} /\ past'.overtaken = past.overtaken
          /\ past.undone \subseteq Ids
      BY <1>1, <2>3 DEF BaseInv, PageTypes, Pasts
    <3>2. attempt.id \in Ids
      BY <1>1, EndKept
    <3>3. CallSettled(attempt.id)
      <4>1. ~ Holds(chat, attempt.id)
        BY <2>3, <3>2 DEF StopInv, UnplayedOut
      <4>2. ~ Posting
        BY <1>5 DEF TurnDone, Posting
      <4> QED BY <2>3, <4>1, <4>2 DEF CallSettled
    <3>4. (\A x : PageCalm(x)) /\ PauseKept /\ StopSame /\ OvertakenKept
      BY <1>2, <2>1, <3>1, GoingOn DEF OvertakenKept
    <3>5. ASSUME NEW x \in Ids, CallSettled(x) PROVE CallSettled(x)'
      BY <1>3, <3>4, <3>5, SettledKept
    <3>6. \A id \in past'.undone : CallSettled(id)'
      BY <3>1, <3>2, <3>3, <3>5 DEF StopInv, StopSettles
    <3>7. UnplayedOut'
      BY <1>2 DEF StopInv, UnplayedOut
    <3>8. StopBusy'
      BY <3>4 DEF StopBusy, StopInv, StopSame, PauseKept
    <3>9. CallSettled(attempt.id)'
      <4>1. ASSUME NEW x \in Ids, attempt'.id = x, CallSettled(x)' PROVE CallSettled(attempt.id)'
        BY <4>1 DEF CallSettled
      <4> QED BY <2>1, <3>2, <3>3, <3>5, <4>1 DEF GoesOn
    <3> QED BY <3>6, <3>7, <3>8, <3>9 DEF StopInv, StopSettles
  <2> QED BY <1>5, <2>2, <2>3 DEF TurnDone
<1>6. CASE Reconnect
  <2>1. attempt'.id = attempt.id /\ attempt'.stage = "connect" /\ attempt'.tries = attempt.tries
    BY <1>1, <1>6 DEF Reconnect, Attempts
  <2>2. attempt.tries > 0
    BY <1>6 DEF Reconnect, StopInv, StopBusy
  <2>3. \A x : PageCalm(x)
    BY <1>1, <2>1, <2>2 DEF PageCalm, Posting, Attempts
  <2>4. StopSame /\ PauseKept
    BY <1>2, <2>1 DEF StopSame, PauseKept, Busy
  <2> QED BY <1>3, <1>6, <2>3, <2>4, CalmStep DEF OvertakenKept, Reconnect
<1> QED BY <1>4, <1>5, <1>6

(* With no stop under way, the history is all there is to settle. *)
LEMMA StoplessStep ==
  ASSUME StopInv, BaseInv', \A x \in Ids : ServerCalm(x), OvertakenKept, PauseKept,
         stop' = NoStop \/ (stop'.stage = "asked" /\ attempt'.stage \in Busy),
         \A x \in past'.undone : x \in Ids /\ CallSettled(x) /\ PageCalm(x)
  PROVE  StopInv'
<1>1. UnplayedOut'
  BY DEF UnplayedOut, StopInv, ServerCalm, CutOff
<1>2. StopBusy'
  BY DEF StopBusy, PauseKept
<1>3. StopSettles'
  BY SettledKept DEF StopSettles, NoStop
<1> QED BY <1>1, <1>2, <1>3 DEF StopInv

(* What only sets rows adrift. *)
LEMMA AdriftOnly ==
  ASSUME past \in Pasts, NEW r, past' = [past EXCEPT !.adrift = r]
  PROVE  /\ past'.undone = past.undone /\ OvertakenKept
         /\ past'.played = past.played /\ past'.adrift = r
BY DEF OvertakenKept, Pasts

(* The end of an attempt settles nothing anew. *)
LEMMA EndStop ==
  ASSUME StopInv, BaseInv', Reload \/ ReloadFails \/ AttemptEnds \/ RestoreChat \/ RestoreFails
  PROVE  StopInv'
<1>1. BaseInv /\ attempt \in Attempts /\ past \in Pasts
  BY DEF StopInv, BaseInv, PageTypes
<1>2. UNCHANGED <<chat, turn, stop>>
  BY DEF Reload, ReloadFails, AttemptEnds, RestoreChat, RestoreFails, serverVars
<1>3. \A x \in Ids : ServerCalm(x)
  BY <1>2, SameServer
<1>4. OvertakenKept /\ past'.undone = past.undone
  <2>1. CASE past' = past
    BY <2>1 DEF OvertakenKept
  <2>2. CASE \E r : past' = [past EXCEPT !.adrift = r]
    BY <1>1, <2>2, AdriftOnly
  <2>3. CASE Reload \/ RestoreChat
    BY <2>2, <2>3 DEF Reload, RestoreChat, Adrift
  <2>4. CASE ReloadFails
    BY <2>2, <2>4 DEF ReloadFails
  <2> QED BY <2>1, <2>3, <2>4 DEF AttemptEnds, RestoreFails
<1>5. CASE Reload \/ ReloadFails
  <2>1. Settle("ok") /\ attempt.stage \in Busy /\ "ok" \in Results
    BY <1>5 DEF Reload, ReloadFails, Busy, Results
  <2>2. GoesOn
    BY <1>1, <2>1, AnswersGoOn
  <2> QED BY <1>2, <1>3, <1>4, <2>2, GoingOn, CalmStep
<1>6. CASE AttemptEnds
  <2>1. attempt'.stage = "rest" /\ stop' = NoStop
    BY <1>2, <1>6, AttemptForms DEF AttemptEnds
  <2>2. (\A x : PageCalm(x)) /\ PauseKept
    BY <2>1, NotPosting DEF PauseKept
  <2>3. past.undone \subseteq Ids /\ \A x \in past.undone : CallSettled(x)
    BY <1>1 DEF Pasts, StopInv, StopSettles
  <2> QED BY <1>3, <1>4, <2>1, <2>2, <2>3, StoplessStep
<1>7. CASE RestoreChat \/ RestoreFails
  <2>1. UNCHANGED <<attempt, stop>>
    BY <1>7 DEF RestoreChat, RestoreFails
  <2> QED BY <1>3, <1>4, <2>1, PageSame, CalmStep
<1> QED BY <1>5, <1>6, <1>7

(* A stop settles the request it is about. *)
LEMMA StopStop ==
  ASSUME StopInv, BaseInv', StopTurn \/ CancelArrives \/ CancelBreaks \/ CancelAnswered
  PROVE  StopInv'
<1>1. BaseInv /\ attempt \in Attempts /\ past \in Pasts /\ past.undone \subseteq Ids
      /\ \A x \in past.undone : CallSettled(x)
  BY DEF StopInv, BaseInv, PageTypes, Pasts, StopSettles
<1>2. attempt.stage \in Busy
  BY DEF StopTurn, Generating, Busy, CancelArrives, CancelBreaks, CancelAnswered, StopInv, StopBusy, NoStop
<1>3. attempt.id \in Ids
  BY <1>1, <1>2, EndKept
<1>4. ASSUME Interrupted(attempt.id), chat' = chat PROVE \A x \in Ids : ServerCalm(x)
  <2>1. \A x \in Ids :
          \/ turn'[x].state = turn[x].state
          \/ turn[x].state = "running" /\ turn'[x].state = "cancelled"
    BY <1>1, <1>4, InterruptForms
  <2> QED BY <1>4, <2>1 DEF ServerCalm, CutOff
<1>5. ASSUME attempt' = attempt PROVE (\A x : PageCalm(x)) /\ PauseKept
  BY <1>5, NotPosting DEF PauseKept, StopInv, StopBusy
<1>6. CASE StopTurn
  <2>1. stop'.stage = "asked"
    BY <1>6 DEF StopTurn, NoStop
  <2>2. OvertakenKept /\ past' = past /\ attempt' = attempt
    BY <1>6 DEF StopTurn, OvertakenKept
  <2>3. \A x \in Ids : ServerCalm(x)
    BY <1>6, SameServer DEF StopTurn, serverVars
  <2> QED BY <1>1, <1>2, <1>5, <2>1, <2>2, <2>3, StoplessStep
<1>7. CASE CancelArrives
  <2> DEFINE s == IF Posting THEN {attempt.id} ELSE {}
  <2>1. past' = [past EXCEPT !.overtaken = @ \cup s]
    BY <1>7 DEF CancelArrives
  <2>2. past'.overtaken = past.overtaken \cup s /\ past'.undone = past.undone
    <3> HIDE DEF s
    <3> QED BY <1>1, <2>1 DEF Pasts
  <2>3. Interrupted(attempt.id) /\ chat' = chat /\ attempt' = attempt
    BY <1>7 DEF CancelArrives
  <2>4. (\A x \in Ids : ServerCalm(x)) /\ (\A x : PageCalm(x)) /\ PauseKept /\ OvertakenKept
    BY <1>4, <1>5, <2>2, <2>3 DEF OvertakenKept
  <2>5. ASSUME NEW x \in Ids, CallSettled(x) PROVE CallSettled(x)'
    BY <2>4, <2>5, SettledKept
  <2>6. UnplayedOut'
    BY <2>4 DEF UnplayedOut, StopInv, ServerCalm, CutOff
  <2>7. StopBusy'
    BY <1>2, <2>3, <2>4 DEF StopBusy, PauseKept
  <2>8. ASSUME stop'.stage = "answered", stop'.status = "cancelled" PROVE CallSettled(attempt.id)'
    <3>1. ~ InChat(attempt.id)
      BY <1>7, <2>8 DEF CancelArrives, NoStop
    <3>2. ~ Holds(chat', attempt.id)
      BY <2>3, <3>1, ChatHolds
    <3>3. turn'[attempt.id].state # "running"
      BY <1>1, <1>3, <2>3, InterruptForms
    <3>4. Posting' => attempt.id \in past'.overtaken
      BY <2>2, <2>3 DEF Posting
    <3> QED BY <2>3, <3>2, <3>3, <3>4 DEF CallSettled
  <2> QED BY <1>1, <2>2, <2>5, <2>6, <2>7, <2>8 DEF StopInv, StopSettles
<1>8. CASE CancelBreaks
  <2>1. stop' = NoStop /\ attempt' = attempt /\ past' = past /\ OvertakenKept
    BY <1>8 DEF CancelBreaks, OvertakenKept
  <2>2. \A x \in Ids : ServerCalm(x)
    BY <1>4, <1>8, SameServer DEF CancelBreaks
  <2> QED BY <1>1, <1>5, <2>1, <2>2, StoplessStep
<1>9. CASE CancelAnswered
  <2> DEFINE s == IF stop.status = "cancelled" THEN {attempt.id} ELSE {}
  <2>1. past' = [past EXCEPT !.undone = @ \cup s, !.adrift = {}] /\ stop' = NoStop
    BY <1>9 DEF CancelAnswered
  <2>2. past'.overtaken = past.overtaken /\ past'.undone = past.undone \cup s
    <3> HIDE DEF s
    <3> QED BY <1>1, <2>1 DEF Pasts
  <2>3. \A x \in s : x \in Ids /\ CallSettled(x)
    BY <1>3, <1>9 DEF CancelAnswered, StopInv, StopSettles
  <2>4. (\A x : PageCalm(x)) /\ PauseKept
    <3>1. CASE attempt' = attempt
      BY <1>5, <3>1
    <3>2. CASE Settle("cancelled")
      BY <1>1, <1>2, <3>2, AnswersGoOn, GoingOn DEF Results
    <3> QED BY <1>9, <3>1, <3>2 DEF CancelAnswered
  <2>5. \A x \in Ids : ServerCalm(x)
    BY <1>9, SameServer DEF CancelAnswered, serverVars
  <2>6. \A x \in past'.undone : x \in Ids /\ CallSettled(x) /\ PageCalm(x)
    <3> HIDE DEF s
    <3> QED BY <1>1, <2>2, <2>3, <2>4
  <2> QED BY <2>1, <2>2, <2>4, <2>5, <2>6, StoplessStep DEF OvertakenKept
<1> QED BY <1>6, <1>7, <1>8, <1>9

(* An attempt is sent only when no stop is under way. *)
LEMMA SentUnstopped ==
  ASSUME StopInv, NEW id, NEW edit, NEW staged, NEW attach, NEW s,
         Send(id, edit, staged, attach, s), UNCHANGED stop
  PROVE  stop' = NoStop
BY AttemptForms DEF Send, StopInv, StopBusy, Busy

(* What the player does settles nothing anew; a request that is tried      *)
(* again is no longer counted as undone.                                   *)
LEMMA PlayerStop ==
  ASSUME StopInv, BaseInv', Say \/ RetryFailed \/ (\E n \in Ids : EditTurn(n))
  PROVE  StopInv'
<1>1. BaseInv /\ past \in Pasts /\ past.undone \subseteq Ids /\ past.said \in 0 .. MaxActions
      /\ MaxActions \in Nat /\ \A x \in past.undone : CallSettled(x) /\ x <= past.said
  BY ClientBounds DEF StopInv, BaseInv, PageTypes, IdsSaid, Pasts, StopSettles
<1>2. \A x \in Ids : ServerCalm(x)
  BY SameServer DEF Say, RetryFailed, EditTurn, Act, serverVars
<1>3. ASSUME NEW s, NewId, NEW edit \in Nat, NEW staged \in BOOLEAN, Act(past.said + 1, edit, staged, FALSE, s)
      PROVE  StopInv'
  <2>1. past'.undone = past.undone /\ past'.overtaken = past.overtaken /\ past.said + 1 \in Ids
    BY <1>1, <1>3 DEF NewId, Pasts, Ids
  <2>2. attempt'.stage = "connect" /\ attempt'.id = past.said + 1 /\ stop' = NoStop
    BY <1>3, <2>1, SendForms, SentUnstopped DEF Act
  <2>3. \A x \in past.undone : PageCalm(x)
    BY <1>1, <2>2 DEF PageCalm
  <2> QED BY <1>1, <1>2, <2>1, <2>2, <2>3, StoplessStep DEF OvertakenKept, PauseKept
<1>4. CASE Say
  BY <1>3, <1>4 DEF Say
<1>5. ASSUME NEW n \in Ids, EditTurn(n) PROVE StopInv'
  <2>1. n \in Nat
    BY DEF Ids
  <2> QED BY <1>3, <1>5, <2>1 DEF EditTurn
<1>6. CASE RetryFailed
  <2>1. PICK f \in failed : \E s :
          /\ Act(f.id, f.edit, f.edit # 0, f.edit = 0 /\ f.attach, s)
          /\ past' = [past EXCEPT !.undone = @ \ {f.id}, !.adrift = Again(f.id, s)]
    BY <1>6 DEF RetryFailed
  <2>2. PICK s : /\ Act(f.id, f.edit, f.edit # 0, f.edit = 0 /\ f.attach, s)
                 /\ past' = [past EXCEPT !.undone = @ \ {f.id}, !.adrift = Again(f.id, s)]
    BY <2>1
  <2>3. f.id \in Ids /\ f.edit \in Nat /\ f.attach \in BOOLEAN
    BY <1>1 DEF BaseInv, PageTypes, Tries
  <2>4. attempt'.stage = "connect" /\ attempt'.id = f.id /\ stop' = NoStop
    BY <2>2, <2>3, SendForms, SentUnstopped DEF Act
  <2>5. past'.undone \subseteq past.undone /\ f.id \notin past'.undone /\ past'.overtaken = past.overtaken
    BY <1>1, <2>2 DEF Pasts
  <2>6. \A x \in past'.undone : PageCalm(x)
    BY <2>4, <2>5 DEF PageCalm
  <2> QED BY <1>1, <1>2, <2>4, <2>5, <2>6, StoplessStep DEF OvertakenKept, PauseKept
<1> QED BY <1>4, <1>5, <1>6

(* The load of the page settles nothing anew. *)
LEMMA LoadStop ==
  ASSUME StopInv, BaseInv', OpenPage \/ LoadTranscript \/ ActiveAnswered \/ Discover
  PROVE  StopInv'
<1>1. BaseInv /\ past \in Pasts /\ past.undone \subseteq Ids /\ aside \in Asides
      /\ \A x \in past.undone : CallSettled(x)
  BY DEF StopInv, BaseInv, PageTypes, Pasts, StopSettles
<1>2. \A x \in Ids : ServerCalm(x)
  BY SameServer DEF OpenPage, LoadTranscript, ActiveAnswered, Discover, serverVars
<1>3. OvertakenKept /\ past'.undone = past.undone
  <2>1. CASE past' = past
    BY <2>1 DEF OvertakenKept
  <2>2. CASE \E r : past' = [past EXCEPT !.adrift = r]
    BY <1>1, <2>2, AdriftOnly
  <2> QED BY <2>1, <2>2 DEF OpenPage, LoadTranscript, Adrift, ActiveAnswered, Discover
<1>4. CASE UNCHANGED <<attempt, stop>>
  BY <1>2, <1>3, <1>4, PageSame, CalmStep
<1>5. CASE OpenPage
  <2>1. attempt'.stage = "rest" /\ stop' = NoStop
    BY <1>5, AttemptForms DEF OpenPage
  <2>2. (\A x : PageCalm(x)) /\ PauseKept
    BY <2>1, NotPosting DEF PauseKept
  <2> QED BY <1>1, <1>2, <1>3, <2>1, <2>2, StoplessStep
<1>6. CASE Discover
  <2>1. ASSUME NEW f \in aside.found, Send(f.id, f.edit, FALSE, TRUE, RolledBack(screen)) PROVE StopInv'
    <3>1. f.id \in Ids /\ f.edit \in Nat
      BY <1>1 DEF Asides, Posts
    <3>2. attempt'.stage = "connect" /\ attempt'.attach = TRUE /\ stop' = NoStop
      BY <1>6, <2>1, <3>1, SendForms, SentUnstopped DEF Discover
    <3>3. (\A x : PageCalm(x)) /\ PauseKept
      BY <3>2 DEF PageCalm, Posting, PauseKept
    <3> QED BY <1>1, <1>2, <1>3, <3>2, <3>3, StoplessStep
  <2> QED BY <1>4, <1>6, <2>1 DEF Discover
<1> QED BY <1>4, <1>5, <1>6 DEF LoadTranscript, ActiveAnswered

(* The beginning has nothing to stop. *)
LEMMA StopInit == ClientInit => StopInv
<1> SUFFICES ASSUME ClientInit PROVE StopInv
  OBVIOUS
<1>1. BaseInv
  BY BaseInit
<1>2. UnplayedOut
  BY DEF ClientInit, UnplayedOut, NoTurn
<1>3. StopBusy
  BY AttemptForms DEF ClientInit, StopBusy
<1>4. StopSettles
  BY DEF ClientInit, StopSettles, NoStop
<1> QED BY <1>1, <1>2, <1>3, <1>4 DEF StopInv

(* Every step preserves the invariant. *)
LEMMA StopStep == StopInv /\ [ClientNext]_pageVars => StopInv'
<1> SUFFICES ASSUME StopInv, [ClientNext]_pageVars PROVE StopInv'
  OBVIOUS
<1>1. BaseInv'
  BY BaseStep DEF StopInv
<1>2. CASE UNCHANGED pageVars
  <2>1. UNCHANGED clientVars /\ UNCHANGED <<chat, turn, past>>
    BY <1>2 DEF pageVars, serverVars
  <2> QED BY <1>1, <2>1, PageSame, SameServer, CalmStep DEF OvertakenKept, clientVars
<1>3. ASSUME NEW id \in Ids, TellPlayer(id) \/ PlayTurn(id) \/ TurnEnds(id) \/ StoppedElsewhere(id) \/ FeedDies(id)
      PROVE  StopInv'
  BY <1>1, <1>3, ServerStop
<1>4. CASE ServerRestarts
  <2>1. PICK id \in Ids : TRUE
    BY <1>4 DEF ServerRestarts, Unfinished
  <2> QED BY <1>1, <1>4, <2>1, ServerStop
<1>5. ASSUME NEW p \in budget.transit, LateArrives(p) PROVE StopInv'
  BY <1>1, <1>5, LateStop
<1>6. CASE PostAnswered \/ PostRefused \/ AttachAnswered \/ ConnectBreaks
  BY <1>1, <1>6, ConnectStop
<1>7. CASE ShowPlayer \/ StreamBreaks \/ TurnDone \/ Reconnect
  BY <1>1, <1>7, ReadStop
<1>8. CASE Reload \/ ReloadFails \/ AttemptEnds \/ RestoreChat \/ RestoreFails
  BY <1>1, <1>8, EndStop
<1>9. CASE StopTurn \/ CancelArrives \/ CancelBreaks \/ CancelAnswered
  BY <1>1, <1>9, StopStop
<1>10. CASE Say \/ RetryFailed \/ (\E n \in Ids : EditTurn(n))
  BY <1>1, <1>10, PlayerStop
<1>11. CASE OpenPage \/ LoadTranscript \/ ActiveAnswered \/ Discover
  BY <1>1, <1>11, LoadStop
<1> QED BY <1>2, <1>3, <1>4, <1>5, <1>6, <1>7, <1>8, <1>9, <1>10, <1>11 DEF ClientNext

(* cancelActiveTurn and stopTurn: a turn that the page has taken back as   *)
(* cancelled does not come into the chat afterwards, for any number of     *)
(* requests, edits, retries, lost answers, restarts and page loads, unless *)
(* a post of it was still on its way when the stop was answered.           *)
THEOREM StoppedStaysOut == ClientSpec => []StopHolds
<1>1. StopInv => StopHolds
  BY ChatHolds DEF StopInv, StopSettles, CallSettled, StopHolds
<1> QED BY <1>1, StopInit, StopStep, PTL DEF ClientSpec

-----------------------------------------------------------------------------
(* The timeline.  Under the rows of an open attempt lie those that stay    *)
(* when it is taken back: they are rows of turns that were played or are   *)
(* adrift, and the attempt may add the row of its request, because the     *)
(* request has none among them.  An attempt that has lost its checkpoint   *)
(* adds a row that is adrift itself.                                       *)

(* A player's row of a request is among the rows. *)
Shows(rows, id) == \E i \in DOMAIN rows : rows[i].row = "player" /\ rows[i].id = id

(* Every player's row is of a turn that was played, and stands there once, *)
(* or is adrift.                                                           *)
TrueRows(rows, played, adrift) ==
  /\ rows \in Rows
  /\ \A i \in DOMAIN rows : rows[i].row = "player" => rows[i].id \in played \cup adrift
  /\ \A i, j \in DOMAIN rows :
       i # j /\ rows[i].row = "player" /\ rows[j].row = "player" /\ rows[i].id = rows[j].id
         => rows[i].id \in adrift

(* A row of the request may be added. *)
NewIn(rows, id, adrift) == Shows(rows, id) => id \in adrift

(* The rows under the open attempt. *)
Under(s) == RolledBack(s).rows

(* The forms of the timeline and of its rows. *)
Screens == [rows : Rows, base : SUBSET Rows]

(* The chat holds a request once, and only what was played; what is done   *)
(* was played, and nothing that was not said.                              *)
ChatTrue ==
  /\ \A n \in DOMAIN chat : chat[n] \in past.played
  /\ \A n, m \in DOMAIN chat : chat[n] = chat[m] => n = m
  /\ \A id \in Ids : turn[id].state \in {"saved", "completed"} => id \in past.played
  /\ \A id \in Ids : turn[id].events \in {0, 1}
  /\ past.played \subseteq 1 .. past.said

(* The rows of an attempt under way, with its checkpoint or adrift. *)
OpenRows(s, a, p) ==
  a.stage \in {"connect", "read", "pause"} =>
    \/ a.id \in p.adrift /\ TrueRows(s.rows, p.played, p.adrift)
    \/ /\ s.base # {}
       /\ s.rows = (IF a.cursor = 0 THEN Under(s) ELSE Append(Under(s), Player(a.id, 0)))
       /\ NewIn(Under(s), a.id, p.adrift)

PageTrue(s, a, st, p) ==
  /\ s \in Screens /\ (s.base = {} \/ s.base = {Under(s)})
  /\ TrueRows(Under(s), p.played, p.adrift)
  /\ OpenRows(s, a, p)
  /\ st.stage = "answered" => TrueRows(st.rows, p.played, {})

ScreenInv == StopInv /\ ChatTrue /\ PageTrue(screen, attempt, stop, past)

RowForms == [row : {"player", "error"}, id : 0 .. MaxActions, turn : Nat]

(* The rows of the model have the form of rows. *)
LEMMA RowsForms ==
  /\ Rows = Seq(RowForms)
  /\ Problem \in RowForms /\ Problem.row # "player"
  /\ \A id \in Ids, n \in Nat :
       Player(id, n) \in RowForms /\ Player(id, n).row = "player" /\ Player(id, n).id = id
BY ClientBounds DEF Rows, RowForms, Problem, Player, Ids

(* One more row. *)
LEMMA RowAdded ==
  ASSUME NEW rows \in Rows, NEW r \in RowForms
  PROVE  /\ Append(rows, r) \in Rows /\ rows \o <<r>> = Append(rows, r) /\ rows \o << >> = rows
         /\ Len(rows) \in Nat /\ DOMAIN rows = 1 .. Len(rows)
         /\ DOMAIN Append(rows, r) = 1 .. Len(rows) + 1
         /\ Append(rows, r)[Len(rows) + 1] = r
         /\ \A i \in 1 .. Len(rows) : Append(rows, r)[i] = rows[i]
<1>1. rows \in Seq(RowForms) /\ Rows = Seq(RowForms)
  BY RowsForms
<1> QED BY <1>1

(* When more was played or set adrift, the rows stay true. *)
LEMMA TrueGrows ==
  ASSUME NEW rows, NEW p, NEW t, NEW q, NEW u, p \subseteq q, t \subseteq u
  PROVE  /\ TrueRows(rows, p, t) => TrueRows(rows, q, u)
         /\ \A id : NewIn(rows, id, t) => NewIn(rows, id, u)
BY DEF TrueRows, NewIn

(* The error row is of no turn. *)
LEMMA TrueProblem ==
  ASSUME NEW p, NEW t, NEW rows, TrueRows(rows, p, t)
  PROVE  /\ TrueRows(Append(rows, Problem), p, t)
         /\ rows \o <<Problem>> = Append(rows, Problem)
         /\ \A id : Shows(Append(rows, Problem), id) => Shows(rows, id)
<1>1. rows \in Rows
  BY DEF TrueRows
<1> DEFINE more == Append(rows, Problem)
<1>2. /\ more \in Rows /\ rows \o <<Problem>> = more
      /\ Len(rows) \in Nat /\ DOMAIN rows = 1 .. Len(rows)
      /\ DOMAIN more = 1 .. Len(rows) + 1 /\ more[Len(rows) + 1] = Problem
      /\ \A i \in 1 .. Len(rows) : more[i] = rows[i]
  BY <1>1, RowAdded, RowsForms
<1> HIDE DEF more
<1>3. \A i \in DOMAIN more : more[i].row = "player" => i \in DOMAIN rows /\ more[i] = rows[i]
  <2> SUFFICES ASSUME NEW i \in DOMAIN more, more[i].row = "player"
               PROVE  i \in DOMAIN rows /\ more[i] = rows[i]
    OBVIOUS
  <2>1. i # Len(rows) + 1
    BY <1>2, RowsForms
  <2> QED BY <1>2, <2>1
<1>4. TrueRows(more, p, t)
  BY <1>2, <1>3 DEF TrueRows
<1>5. \A id : Shows(more, id) => Shows(rows, id)
  BY <1>3 DEF Shows
<1> QED BY <1>2, <1>4, <1>5 DEF more

(* The row of a turn that may be added. *)
LEMMA TruePlayer ==
  ASSUME NEW p, NEW t, NEW rows, TrueRows(rows, p, t), NEW id \in Ids, id \in p \cup t, NewIn(rows, id, t)
  PROVE  TrueRows(Append(rows, Player(id, 0)), p, t)
<1>1. rows \in Rows
  BY DEF TrueRows
<1> DEFINE r == Player(id, 0)
           more == Append(rows, r)
<1>2. r \in RowForms /\ r.id = id
  BY RowsForms
<1> HIDE DEF r
<1>3. /\ more \in Rows
      /\ Len(rows) \in Nat /\ DOMAIN rows = 1 .. Len(rows)
      /\ DOMAIN more = 1 .. Len(rows) + 1 /\ more[Len(rows) + 1] = r
      /\ \A i \in 1 .. Len(rows) : more[i] = rows[i]
  BY <1>1, <1>2, RowAdded
<1> HIDE DEF more
<1>4. \A i \in DOMAIN more : i = Len(rows) + 1 \/ (i \in DOMAIN rows /\ more[i] = rows[i])
  BY <1>3
<1>5. \A i \in DOMAIN more : more[i].row = "player" => more[i].id \in p \cup t
  BY <1>2, <1>3, <1>4 DEF TrueRows
<1>6. ASSUME NEW i \in DOMAIN more, NEW j \in DOMAIN more,
             i # j, more[i].row = "player", more[j].row = "player", more[i].id = more[j].id
      PROVE  more[i].id \in t
  <2>1. CASE i \in DOMAIN rows /\ j \in DOMAIN rows
    BY <1>3, <1>6, <2>1 DEF TrueRows
  <2>2. CASE i = Len(rows) + 1 /\ j \in DOMAIN rows
    BY <1>2, <1>3, <1>6, <2>2 DEF NewIn, Shows
  <2>3. CASE j = Len(rows) + 1 /\ i \in DOMAIN rows
    BY <1>2, <1>3, <1>6, <2>3 DEF NewIn, Shows
  <2> QED BY <1>4, <1>6, <2>1, <2>2, <2>3
<1>7. TrueRows(more, p, t)
  BY <1>3, <1>5, <1>6 DEF TrueRows
<1> QED BY <1>7 DEF more, r

(* The rows before a turn. *)
LEMMA TruePrefix ==
  ASSUME NEW p, NEW t, NEW rows, TrueRows(rows, p, t), NEW k \in DOMAIN rows
  PROVE  /\ TrueRows(SubSeq(rows, 1, k - 1), p, t)
         /\ \A id : Shows(SubSeq(rows, 1, k - 1), id) => Shows(rows, id)
<1>1. rows \in Seq(RowForms)
  BY RowsForms DEF TrueRows
<1>2. k \in 1 .. Len(rows) /\ Len(rows) \in Nat /\ DOMAIN rows = 1 .. Len(rows)
  BY <1>1
<1> DEFINE less == SubSeq(rows, 1, k - 1)
<1>3. less \in Seq(RowForms) /\ DOMAIN less = 1 .. k - 1 /\ \A i \in 1 .. k - 1 : less[i] = rows[i]
  BY <1>1, <1>2
<1> HIDE DEF less
<1>4. \A i \in DOMAIN less : i \in DOMAIN rows /\ less[i] = rows[i]
  BY <1>2, <1>3
<1>5. TrueRows(less, p, t)
  BY <1>3, <1>4, RowsForms DEF TrueRows
<1>6. \A id : Shows(less, id) => Shows(rows, id)
  BY <1>4 DEF Shows
<1> QED BY <1>5, <1>6 DEF less

(* The rows of the saved chat. *)
LEMMA TrueTranscript ==
  ASSUME BaseInv, ChatTrue
  PROVE  /\ \A t : TrueRows(Transcript, past.played, t)
         /\ \A id : Shows(Transcript, id) => Holds(chat, id)
<1>1. chat \in Seq(Ids)
  BY DEF BaseInv, PageTypes
<1>2. Len(chat) \in Nat /\ DOMAIN chat = 1 .. Len(chat) /\ \A n \in 1 .. Len(chat) : chat[n] \in Ids
  BY <1>1
<1>3. DOMAIN Transcript = 1 .. Len(chat) /\ \A n \in 1 .. Len(chat) : Transcript[n] = Player(chat[n], n)
  BY <1>2 DEF Transcript
<1>4. \A n \in 1 .. Len(chat) : Transcript[n] \in RowForms /\ Transcript[n].id = chat[n]
  BY <1>2, <1>3, RowsForms
<1>5. Transcript \in Rows
  <2>1. Transcript \in [1 .. Len(chat) -> RowForms]
    BY <1>2, <1>3, <1>4 DEF Transcript
  <2> QED BY <1>2, <2>1, RowsForms
<1>6. \A t : TrueRows(Transcript, past.played, t)
  BY <1>2, <1>3, <1>4, <1>5 DEF TrueRows, ChatTrue
<1>7. \A id : Shows(Transcript, id) => Holds(chat, id)
  BY <1>2, <1>3, <1>4 DEF Shows, Holds
<1> QED BY <1>6, <1>7

(* What lies under an attempt. *)
LEMMA UnderForms ==
  ASSUME NEW s \in Screens
  PROVE  /\ s.base = {} => Under(s) = s.rows
         /\ \A r : s.base = {r} => Under(s) = r
         /\ s.base = {} \/ s.base = {Under(s)} =>
              RolledBack(s) = [rows |-> Under(s), base |-> {}] /\ Under(s) \in Rows
BY DEF Under, RolledBack, Screens

(* An attempt begins over the rows there are. *)
LEMMA BegunForms ==
  ASSUME NEW s \in Screens
  PROVE  /\ Begun(s) \in Screens /\ Begun(s).rows = s.rows /\ Begun(s).base = {s.rows}
         /\ Under(Begun(s)) = s.rows
<1>1. Begun(s) \in Screens /\ Begun(s).rows = s.rows /\ Begun(s).base = {s.rows}
  BY DEF Begun, Screens
<1> QED BY <1>1, UnderForms

(* What holds of the page still holds when more was played or set adrift.  *)
LEMMA PageGrows ==
  ASSUME NEW s, NEW a, NEW st, NEW p, NEW q, PageTrue(s, a, st, p),
         p.played \subseteq q.played, p.adrift \subseteq q.adrift
  PROVE  PageTrue(s, a, st, q)
<1>1. \A rows : TrueRows(rows, p.played, p.adrift) => TrueRows(rows, q.played, q.adrift)
  BY TrueGrows
<1>2. \A rows : TrueRows(rows, p.played, {}) => TrueRows(rows, q.played, {})
  BY TrueGrows
<1>3. \A rows, id : NewIn(rows, id, p.adrift) => NewIn(rows, id, q.adrift)
  BY DEF NewIn
<1>4. OpenRows(s, a, q)
  BY <1>1, <1>3 DEF PageTrue, OpenRows
<1> QED BY <1>1, <1>2, <1>4 DEF PageTrue

(* With no attempt under way, the rows are all there is. *)
LEMMA PageClosed ==
  ASSUME NEW s \in Screens, NEW a, NEW st, NEW p,
         s.base = {} \/ s.base = {Under(s)},
         TrueRows(Under(s), p.played, p.adrift),
         a.stage \notin {"connect", "read", "pause"},
         st.stage = "answered" => TrueRows(st.rows, p.played, {})
  PROVE  PageTrue(s, a, st, p)
BY DEF PageTrue, OpenRows

(* What the invariant says of the page as it is. *)
LEMMA PageForms ==
  ASSUME ScreenInv
  PROVE  /\ screen \in Screens /\ screen.rows \in Rows
         /\ screen.base = {} \/ screen.base = {Under(screen)}
         /\ TrueRows(Under(screen), past.played, past.adrift)
         /\ Under(screen) \in Rows
         /\ RolledBack(screen) = [rows |-> Under(screen), base |-> {}]
         /\ stop.stage = "answered" => TrueRows(stop.rows, past.played, {})
         /\ attempt.stage \in Busy => attempt.id \in Ids
         /\ BaseInv /\ ChatTrue
<1>1. /\ screen \in Screens /\ (screen.base = {} \/ screen.base = {Under(screen)})
      /\ TrueRows(Under(screen), past.played, past.adrift)
      /\ stop.stage = "answered" => TrueRows(stop.rows, past.played, {})
      /\ BaseInv /\ ChatTrue
  BY DEF ScreenInv, PageTrue, StopInv
<1>2. screen.rows \in Rows
  BY <1>1 DEF Screens
<1>3. attempt.stage \in Busy => attempt.id \in Ids
  BY <1>1, SaidIsId
<1> QED BY <1>1, <1>2, <1>3, UnderForms

(* The transcript is shown. *)
LEMMA TranscriptShown ==
  ASSUME ScreenInv, ShowTranscript
  PROVE  /\ screen' \in Screens /\ screen'.base = {}
         /\ Under(screen') = Transcript /\ screen'.rows = Transcript
         /\ \A t : TrueRows(Transcript, past.played, t)
<1>1. \A t : TrueRows(Transcript, past.played, t)
  BY PageForms, TrueTranscript
<1>2. Transcript \in Rows
  BY <1>1 DEF TrueRows
<1>3. screen' \in Screens /\ screen'.base = {} /\ screen'.rows = Transcript
  BY <1>2 DEF ShowTranscript, Screens
<1> QED BY <1>1, <1>3, UnderForms

(* The transcript, with or without an error, is shown beside an attempt,   *)
(* which is adrift from then on.                                           *)
LEMMA ShownBeside ==
  ASSUME ScreenInv, UNCHANGED <<attempt, stop>>, Adrift, NEW rows,
         screen' \in Screens, screen'.rows = rows, screen'.base = {} \/ screen'.base = {Under(screen')},
         \A t : TrueRows(rows, past.played, t), \A t : TrueRows(Under(screen'), past.played, t)
  PROVE  PageTrue(screen', attempt', stop', past')
<1> DEFINE k == IF Generating THEN {attempt.id} ELSE {}
<1>1. past' = [past EXCEPT !.adrift = k] /\ past \in Pasts
  BY PageForms DEF Adrift, BaseInv, PageTypes
<1>2. Generating => attempt.id \in k
  OBVIOUS
<1> HIDE DEF k
<1>3. past'.played = past.played /\ past'.adrift = k
  BY <1>1, AdriftOnly
<1>4. OpenRows(screen', attempt', past')
  BY <1>2, <1>3 DEF OpenRows, Generating
<1>5. stop'.stage = "answered" => TrueRows(stop'.rows, past'.played, {})
  BY <1>3, PageForms
<1>6. TrueRows(Under(screen'), past'.played, past'.adrift)
  BY <1>3
<1> QED BY <1>4, <1>5, <1>6 DEF PageTrue

(* The rows of the attempt are taken back. *)
LEMMA TakenBack ==
  ASSUME ScreenInv, NEW r \in Results, NEW rows, TakeBack(r, rows),
         rows = << >> \/ rows = <<Problem>>, attempt.stage \in Busy, stop' = stop
  PROVE  PageTrue(screen', attempt', stop', past)
<1> DEFINE u == Under(screen) \o rows
<1>1. TrueRows(u, past.played, past.adrift)
  <2>1. CASE rows = << >>
    <3>1. Under(screen) \o << >> = Under(screen)
      BY PageForms, RowAdded, RowsForms
    <3> QED BY <2>1, <3>1, PageForms
  <2>2. CASE rows = <<Problem>>
    <3>1. /\ Under(screen) \o <<Problem>> = Append(Under(screen), Problem)
          /\ TrueRows(Append(Under(screen), Problem), past.played, past.adrift)
      BY PageForms, TrueProblem
    <3> QED BY <2>2, <3>1
  <2> QED BY <2>1, <2>2
<1>2. screen' = [RolledBack(screen) EXCEPT !.rows = @ \o rows]
  BY DEF TakeBack
<1>3. screen' = [rows |-> u, base |-> {}]
  <2> DEFINE w == RolledBack(screen)
  <2>1. w = [rows |-> Under(screen), base |-> {}]
    BY PageForms
  <2>2. screen' = [w EXCEPT !.rows = w.rows \o rows]
    BY <1>2
  <2>3. w.rows \o rows = u
    BY DEF Under
  <2> HIDE DEF u, w
  <2> QED BY <2>1, <2>2, <2>3
<1> HIDE DEF u
<1>4. screen' \in Screens /\ screen'.base = {} /\ screen'.rows = u
  BY <1>1, <1>3 DEF TrueRows, Screens
<1>5. Under(screen') = u
  BY <1>4, UnderForms
<1>6. attempt'.stage = "settle"
  BY PageForms, EndForms DEF TakeBack
<1>7. stop'.stage = "answered" => TrueRows(stop'.rows, past.played, {})
  BY PageForms
<1> QED BY <1>1, <1>4, <1>5, <1>6, <1>7, PageClosed

(* The rows and an error. *)
LEMMA ErrorForms ==
  ASSUME ScreenInv, attempt.stage \in Busy
  PROVE  /\ ErrorRows \in Rows
         /\ \A p, t : attempt.id \in t /\ TrueRows(screen.rows, p, t) => TrueRows(ErrorRows, p, t)
<1> DEFINE rows == IF attempt.seen THEN screen.rows ELSE Append(screen.rows, Player(attempt.id, 0))
<1>1. attempt.id \in Ids /\ screen.rows \in Rows /\ Problem \in RowForms /\ Player(attempt.id, 0) \in RowForms
  BY PageForms, RowsForms
<1>2. rows = screen.rows \o (IF attempt.seen THEN << >> ELSE <<Player(attempt.id, 0)>>) /\ rows \in Rows
  BY <1>1, RowAdded
<1>3. \A p, t : attempt.id \in t /\ TrueRows(screen.rows, p, t) => TrueRows(rows, p, t)
  BY <1>1, TruePlayer DEF NewIn
<1> HIDE DEF rows
<1>4. ErrorRows = rows \o <<Problem>>
  BY <1>2 DEF ErrorRows
<1>5. ErrorRows = Append(rows, Problem) /\ ErrorRows \in Rows
  <2>1. rows \in Rows /\ Problem \in RowForms
    BY <1>1, <1>2
  <2>2. rows \o <<Problem>> = Append(rows, Problem) /\ Append(rows, Problem) \in Rows
    BY <2>1, RowAdded
  <2> QED BY <1>4, <2>2
<1> QED BY <1>3, <1>5, TrueProblem

(* A retry is offered. *)
LEMMA RetryOffered ==
  ASSUME ScreenInv, Generating, NEW a \in BOOLEAN, OfferRetry(a), stop' = stop
  PROVE  PageTrue(screen', attempt', stop', past)
<1>1. attempt.stage \in {"connect", "read", "pause"} /\ attempt.stage \in Busy
  BY DEF Generating, Busy
<1>2. screen' \in Screens /\ screen'.base = screen.base /\ screen'.rows = ErrorRows
  BY <1>1, PageForms, ErrorForms DEF OfferRetry, Screens
<1>3. screen'.base = {} \/ screen'.base = {Under(screen')}
  BY <1>2, PageForms, UnderForms
<1>4. TrueRows(Under(screen'), past.played, past.adrift)
  <2>1. CASE screen.base # {}
    <3>1. Under(screen') = Under(screen)
      BY <1>2, <2>1, PageForms, UnderForms
    <3> QED BY <3>1, PageForms
  <2>2. CASE screen.base = {}
    <3>1. attempt.id \in past.adrift /\ TrueRows(screen.rows, past.played, past.adrift)
      BY <1>1, <2>2 DEF ScreenInv, PageTrue, OpenRows
    <3>2. Under(screen') = ErrorRows
      BY <1>2, <2>2, UnderForms
    <3> QED BY <1>1, <3>1, <3>2, ErrorForms
  <2> QED BY <2>1, <2>2
<1>5. attempt'.stage = "settle"
  BY <1>1, PageForms, EndForms DEF OfferRetry, Results
<1>6. stop'.stage = "answered" => TrueRows(stop'.rows, past.played, {})
  BY PageForms
<1> QED BY <1>2, <1>3, <1>4, <1>5, <1>6, PageClosed

(* An attempt that breaks. *)
LEMMA BreaksScreen ==
  ASSUME ScreenInv, attempt.stage \in {"connect", "read"}, Breaks, stop' = stop
  PROVE  PageTrue(screen', attempt', stop', past)
<1>1. Generating
  BY DEF Generating
<1>2. NewIn(Under(screen), attempt.id, past.adrift)
  BY DEF ScreenInv, PageTrue, OpenRows, NewIn
<1>3. attempt \in Attempts
  BY PageForms DEF BaseInv, PageTypes
<1>4. CASE attempt.tries < Reconnects
  <2> DEFINE k == attempt.tries + 1
             s == RolledBack(screen)
  <2>1. attempt' = [attempt EXCEPT !.stage = "pause", !.tries = k, !.seen = FALSE, !.cursor = 0]
        /\ screen' = Begun(s)
    BY <1>4 DEF Breaks
  <2>2. s \in Screens /\ s.rows = Under(screen)
    BY PageForms DEF Screens
  <2> HIDE DEF k, s
  <2>3. attempt'.stage = "pause" /\ attempt'.cursor = 0 /\ attempt'.id = attempt.id
    BY <1>3, <2>1 DEF Attempts
  <2>4. screen' \in Screens /\ screen'.rows = Under(screen) /\ screen'.base = {Under(screen)}
        /\ Under(screen') = Under(screen)
    BY <2>1, <2>2, BegunForms
  <2>5. OpenRows(screen', attempt', past)
    BY <1>2, <2>3, <2>4 DEF OpenRows
  <2> QED BY <2>4, <2>5, PageForms DEF PageTrue
<1>5. CASE ~ (attempt.tries < Reconnects)
  <2>1. OfferRetry(attempt.attach) /\ attempt.attach \in BOOLEAN
    BY <1>3, <1>5 DEF Breaks, Attempts
  <2> QED BY <1>1, <2>1, RetryOffered
<1> QED BY <1>4, <1>5

(* An attempt that goes on, with the rows as they are. *)
LEMMA GoesOnOpen ==
  ASSUME ScreenInv, Generating, UNCHANGED <<screen, stop>>,
         attempt'.stage \in {"connect", "read", "pause"},
         attempt'.id = attempt.id, attempt'.cursor = attempt.cursor
  PROVE  PageTrue(screen', attempt', stop', past)
BY DEF ScreenInv, PageTrue, OpenRows, Generating

(* A turn that is in the chat is loaded with it. *)
LEMMA ReplayedScreen ==
  ASSUME ScreenInv, attempt.stage = "connect", Replayed, stop' = stop
  PROVE  PageTrue(screen', attempt', stop', past)
<1>1. attempt \in Attempts
  BY PageForms DEF BaseInv, PageTypes
<1>2. attempt'.stage = "reload" /\ screen' = screen
  BY <1>1 DEF Replayed, Attempts
<1> QED BY <1>2, PageForms, PageClosed

(* The server plays nothing, and no turn becomes done that was not.        *)
ChatCalm ==
  /\ chat' = chat
  /\ \A id \in Ids :
       /\ turn'[id].state \in {"saved", "completed"} => turn[id].state \in {"saved", "completed"}
       /\ turn'[id].events \in {0, 1}

(* The history says of no more turns that they were played.                *)
PlayedKept == past'.played = past.played /\ past.said <= past'.said

(* No row that was adrift is no longer so. *)
AdriftKept == past.adrift \subseteq past'.adrift

(* A chat to which nothing is added stays true. *)
LEMMA ChatKept ==
  ASSUME ScreenInv, BaseInv', ChatCalm, PlayedKept
  PROVE  ChatTrue'
<1>1. past.said \in Nat /\ past'.said \in Nat
  BY PageForms, SaidIsId, ClientBounds DEF BaseInv, PageTypes, Pasts
<1>2. past.played \subseteq 1 .. past'.said
  BY <1>1, PageForms DEF ChatTrue, PlayedKept
<1> QED BY <1>2, PageForms DEF ChatTrue, ChatCalm, PlayedKept

(* Only a played turn is written down as played. *)
LEMMA PlayedForms ==
  ASSUME BaseInv
  PROVE  /\ past' = past => PlayedKept /\ AdriftKept
         /\ \A s : past' = [past EXCEPT !.undone = @ \cup s] => PlayedKept /\ AdriftKept
         /\ \A s : past' = [past EXCEPT !.overtaken = @ \cup s] => PlayedKept /\ AdriftKept
         /\ \A r : past' = [past EXCEPT !.adrift = r] => PlayedKept /\ past'.adrift = r
         /\ \A s, r : past' = [past EXCEPT !.undone = @ \cup s, !.adrift = r] => PlayedKept /\ past'.adrift = r
         /\ \A s, r : past' = [past EXCEPT !.undone = @ \ s, !.adrift = r] => PlayedKept /\ past'.adrift = r
         /\ NewId => PlayedKept /\ past'.adrift = past.adrift
<1>1. past \in Pasts /\ past.said \in Nat
  BY SaidIsId DEF BaseInv, PageTypes
<1>2. past' = past => PlayedKept /\ AdriftKept
  BY <1>1 DEF PlayedKept, AdriftKept
<1>3. ASSUME NEW s, past' = [past EXCEPT !.undone = @ \cup s] PROVE PlayedKept /\ AdriftKept
  BY <1>1, <1>3 DEF PlayedKept, AdriftKept, Pasts
<1>4. ASSUME NEW s, past' = [past EXCEPT !.overtaken = @ \cup s] PROVE PlayedKept /\ AdriftKept
  BY <1>1, <1>4 DEF PlayedKept, AdriftKept, Pasts
<1>5. ASSUME NEW r, past' = [past EXCEPT !.adrift = r] PROVE PlayedKept /\ past'.adrift = r
  BY <1>1, <1>5 DEF PlayedKept, Pasts
<1>6. ASSUME NEW s, NEW r, past' = [past EXCEPT !.undone = @ \cup s, !.adrift = r] PROVE PlayedKept /\ past'.adrift = r
  BY <1>1, <1>6 DEF PlayedKept, Pasts
<1>7. ASSUME NEW s, NEW r, past' = [past EXCEPT !.undone = @ \ s, !.adrift = r] PROVE PlayedKept /\ past'.adrift = r
  BY <1>1, <1>7 DEF PlayedKept, Pasts
<1>8. ASSUME NewId PROVE PlayedKept /\ past'.adrift = past.adrift
  <2> DEFINE k == past.said + 1
  <2>1. past' = [past EXCEPT !.said = k] /\ past.said <= k
    BY <1>1, <1>8 DEF NewId
  <2> HIDE DEF k
  <2> QED BY <1>1, <2>1 DEF PlayedKept, Pasts
<1> QED BY <1>2, <1>3, <1>4, <1>5, <1>6, <1>7, <1>8

(* The same server. *)
LEMMA CalmSame == ASSUME ScreenInv, UNCHANGED <<chat, turn>> PROVE ChatCalm
BY PageForms DEF ChatCalm, ChatTrue

(* A post starts an execution that has played nothing. *)
LEMMA CalmPost ==
  ASSUME ScreenInv, NEW id \in Ids, NEW edit \in Nat, PostReceived(id, edit)
  PROVE  ChatCalm
<1>1. turn \in [Ids -> Turns] /\ \A x \in Ids : turn[x].events \in {0, 1}
  BY PageForms DEF BaseInv, PageTypes, ChatTrue
<1>2. CASE turn' = turn
  BY <1>1, <1>2 DEF PostReceived, ChatCalm
<1>3. CASE turn' = [turn EXCEPT ![id] = [state |-> "running", events |-> 0, edit |-> edit]]
  <2> DEFINE r == [state |-> "running", events |-> 0, edit |-> edit]
  <2>1. r.state = "running" /\ r.events = 0
    OBVIOUS
  <2> HIDE DEF r
  <2>2. turn' = [turn EXCEPT ![id] = r]
    BY <1>3 DEF r
  <2>3. \A x \in Ids : turn'[x] = IF x = id THEN r ELSE turn[x]
    BY <1>1, <2>2
  <2> QED BY <1>1, <2>1, <2>3 DEF PostReceived, ChatCalm
<1> QED BY <1>2, <1>3 DEF PostReceived

(* A stop plays nothing. *)
LEMMA CalmStop ==
  ASSUME ScreenInv, NEW id, Interrupted(id), chat' = chat
  PROVE  ChatCalm
<1>1. turn \in [Ids -> Turns] /\ \A x \in Ids : turn[x].events \in {0, 1}
  BY PageForms DEF BaseInv, PageTypes, ChatTrue
<1>2. CASE id \notin Ids
  BY <1>1, <1>2 DEF Interrupted, ChatCalm
<1>3. CASE id \in Ids
  <2> DEFINE s == IF turn[id].state = "running" THEN "cancelled" ELSE turn[id].state
             u == [turn[id] EXCEPT !.state = s]
  <2>1. turn[id] \in Turns /\ turn' = [turn EXCEPT ![id] = u]
    BY <1>1, <1>3 DEF Interrupted
  <2>2. s \in {"saved", "completed"} => turn[id].state \in {"saved", "completed"}
    OBVIOUS
  <2>3. u = [turn[id] EXCEPT !.state = s]
    OBVIOUS
  <2> HIDE DEF s, u
  <2>4. u.state = s /\ u.events = turn[id].events
    BY <2>1, <2>3 DEF Turns
  <2>5. \A x \in Ids : turn'[x] = IF x = id THEN u ELSE turn[x]
    BY <1>1, <2>1
  <2> QED BY <1>1, <1>3, <2>2, <2>4, <2>5 DEF ChatCalm
<1> QED BY <1>2, <1>3

(* An execution steps on. *)
LEMMA StepForms ==
  ASSUME ScreenInv, NEW id \in Ids, NEW from, NEW to, ServerSteps(id, from, to)
  PROVE  /\ UNCHANGED clientVars /\ turn[id].state = from
         /\ \A x \in Ids : turn'[x].events \in {0, 1}
         /\ \A x \in Ids : turn'[x].state = IF x = id THEN to ELSE turn[x].state
<1>1. turn \in [Ids -> Turns] /\ \A x \in Ids : turn[x].events \in {0, 1}
  BY PageForms DEF BaseInv, PageTypes, ChatTrue
<1> DEFINE u == [turn[id] EXCEPT !.state = to]
<1>2. u.state = to /\ u.events = turn[id].events
  BY <1>1 DEF Turns
<1>3. turn' = [turn EXCEPT ![id] = u]
  BY DEF ServerSteps
<1> HIDE DEF u
<1>4. \A x \in Ids : turn'[x] = IF x = id THEN u ELSE turn[x]
  BY <1>1, <1>3
<1> QED BY <1>1, <1>2, <1>4 DEF ServerSteps

(* A turn that is played is new in the chat. *)
LEMMA ChatPlays ==
  ASSUME ScreenInv, BaseInv', NEW id \in Ids, PlayTurn(id)
  PROVE  ChatTrue' /\ past.played \subseteq past'.played /\ past.adrift \subseteq past'.adrift
<1>1. /\ turn \in [Ids -> Turns] /\ chat \in Seq(Ids) /\ past \in Pasts
      /\ BaseInv /\ ChatTrue /\ UnplayedOut
  BY PageForms DEF BaseInv, PageTypes, ScreenInv, StopInv
<1>2. ServerSteps(id, "running", "saved") /\ turn[id].state = "running"
  BY DEF PlayTurn, ServerSteps
<1>3. ~ Holds(chat, id) /\ id <= past.said /\ past.said \in Nat
  BY <1>1, <1>2, SaidIsId DEF UnplayedOut, BaseInv, IdsSaid
<1>4. past'.played = past.played \cup {id} /\ past'.said = past.said /\ past'.adrift = past.adrift
  <2> DEFINE k == {id}
  <2>1. past' = [past EXCEPT !.played = @ \cup k]
    BY DEF PlayTurn
  <2> HIDE DEF k
  <2>2. past'.played = past.played \cup k /\ past'.said = past.said /\ past'.adrift = past.adrift
    BY <1>1, <2>1 DEF Pasts
  <2> QED BY <2>2 DEF k
<1>5. turn[id].edit \in Nat /\ turn[id].edit <= Len(chat)
  BY <1>1 DEF PlayTurn, Turns
<1> DEFINE b == IF turn[id].edit = 0 THEN chat ELSE SubSeq(chat, 1, turn[id].edit - 1)
<1>6. b \in Seq(Ids) /\ Len(b) <= Len(chat) /\ \A n \in 1 .. Len(b) : b[n] = chat[n]
  <2> DEFINE e == turn[id].edit
  <2>1. e \in Nat /\ e <= Len(chat)
    BY <1>5
  <2>2. b = IF e = 0 THEN chat ELSE SubSeq(chat, 1, e - 1)
    OBVIOUS
  <2> HIDE DEF e, b
  <2>3. CASE e = 0
    BY <1>1, <2>2, <2>3
  <2>4. CASE e # 0
    BY <1>1, <2>1, <2>2, <2>4
  <2> QED BY <2>3, <2>4
<1>7. chat' = Append(b, id)
  BY DEF PlayTurn
<1> HIDE DEF b
<1>8. /\ Len(b) \in Nat /\ Len(chat) \in Nat /\ DOMAIN chat = 1 .. Len(chat)
      /\ DOMAIN chat' = 1 .. Len(b) + 1 /\ chat'[Len(b) + 1] = id
      /\ \A n \in 1 .. Len(b) : chat'[n] = chat[n] /\ n \in DOMAIN chat
  BY <1>1, <1>6, <1>7
<1>9. \A n \in DOMAIN chat' : chat'[n] \in past'.played
  BY <1>1, <1>4, <1>8 DEF ChatTrue
<1>10. ASSUME NEW n \in DOMAIN chat', NEW m \in DOMAIN chat', chat'[n] = chat'[m] PROVE n = m
  <2>1. \A k \in 1 .. Len(b) : chat'[k] # id
    BY <1>3, <1>8 DEF Holds
  <2>2. CASE n \in 1 .. Len(b) /\ m \in 1 .. Len(b)
    BY <1>1, <1>8, <1>10, <2>2 DEF ChatTrue
  <2>3. CASE n = Len(b) + 1 /\ m = Len(b) + 1
    BY <2>3
  <2> QED BY <1>8, <1>10, <2>1, <2>2, <2>3
<1>11. /\ \A x \in Ids : turn'[x].events \in {0, 1}
       /\ \A x \in Ids : turn'[x].state = IF x = id THEN "saved" ELSE turn[x].state
  BY <1>2, StepForms
<1>12. \A x \in Ids : turn'[x].state \in {"saved", "completed"} => x \in past'.played
  BY <1>1, <1>4, <1>11 DEF ChatTrue
<1>13. past'.played \subseteq 1 .. past'.said
  BY <1>1, <1>3, <1>4 DEF ChatTrue, Ids
<1> QED BY <1>4, <1>9, <1>10, <1>11, <1>12, <1>13 DEF ChatTrue

(* A step that plays nothing: what holds of the page carries over. *)
LEMMA CarriedOn ==
  ASSUME ScreenInv, StopInv', ChatCalm, PlayedKept,
         PageTrue(screen', attempt', stop', past')
  PROVE  ScreenInv'
<1>1. ChatTrue'
  BY ChatKept DEF StopInv
<1> QED BY <1>1 DEF ScreenInv

LEMMA Carried ==
  ASSUME ScreenInv, StopInv', ChatCalm, PlayedKept, AdriftKept,
         PageTrue(screen', attempt', stop', past)
  PROVE  ScreenInv'
<1>1. PageTrue(screen', attempt', stop', past')
  BY PageGrows DEF PlayedKept, AdriftKept
<1> QED BY <1>1, CarriedOn

(* The page as it is. *)
LEMMA PageStays ==
  ASSUME ScreenInv, UNCHANGED clientVars
  PROVE  PageTrue(screen', attempt', stop', past)
BY DEF ScreenInv, clientVars

(* What the server does leaves the screen true. *)
LEMMA ServerScreen ==
  ASSUME ScreenInv, StopInv', NEW id \in Ids,
         TellPlayer(id) \/ PlayTurn(id) \/ TurnEnds(id) \/ StoppedElsewhere(id) \/ FeedDies(id) \/ ServerRestarts
  PROVE  ScreenInv'
<1>1. turn \in [Ids -> Turns] /\ BaseInv /\ ChatTrue
  BY PageForms DEF BaseInv, PageTypes
<1>2. CASE TellPlayer(id)
  <2>1. ChatCalm
    BY <1>1, <1>2 DEF TellPlayer, ChatCalm, Turns, ChatTrue
  <2> QED BY <1>1, <1>2, <2>1, PlayedForms, PageStays, Carried DEF TellPlayer
<1>3. CASE PlayTurn(id)
  <2>1. ChatTrue' /\ past.played \subseteq past'.played /\ past.adrift \subseteq past'.adrift
    BY <1>3, ChatPlays DEF StopInv
  <2>2. UNCHANGED clientVars
    BY <1>3 DEF PlayTurn, ServerSteps
  <2>3. PageTrue(screen', attempt', stop', past')
    BY <2>1, <2>2, PageStays, PageGrows
  <2> QED BY <2>1, <2>3 DEF ScreenInv
<1>4. CASE TurnEnds(id)
  <2>1. ServerSteps(id, "saved", "completed") \/ ServerSteps(id, "running", "failed")
    BY <1>4 DEF TurnEnds
  <2>2. UNCHANGED clientVars /\ ChatCalm
    BY <1>4, <2>1, StepForms DEF TurnEnds, ChatCalm
  <2> QED BY <1>1, <1>4, <2>2, PlayedForms, PageStays, Carried DEF TurnEnds
<1>5. CASE StoppedElsewhere(id)
  <2>1. UNCHANGED clientVars /\ ChatCalm
    BY <1>5, StepForms DEF StoppedElsewhere, ChatCalm
  <2> QED BY <1>1, <1>5, <2>1, PlayedForms, PageStays, Carried DEF StoppedElsewhere
<1>6. CASE FeedDies(id)
  <2>1. ChatCalm
    BY <1>1, <1>6 DEF FeedDies, ChatCalm, Turns, ChatTrue, NoTurn
  <2> QED BY <1>1, <1>6, <2>1, PlayedForms, PageStays, Carried DEF FeedDies
<1>7. CASE ServerRestarts
  <2>1. ChatCalm
    BY <1>1, <1>7 DEF ServerRestarts, ChatCalm, NoTurn
  <2> QED BY <1>1, <1>7, <2>1, PlayedForms, PageStays, Carried DEF ServerRestarts
<1> QED BY <1>2, <1>3, <1>4, <1>5, <1>6, <1>7

(* A post that comes late is not seen on the page. *)
LEMMA LateScreen ==
  ASSUME ScreenInv, StopInv', NEW p \in budget.transit, LateArrives(p)
  PROVE  ScreenInv'
<1>1. BaseInv /\ p.id \in Ids /\ p.edit \in Nat
  BY PageForms DEF BaseInv, PageTypes, Posts
<1>2. ChatCalm
  BY <1>1, CalmPost DEF LateArrives
<1>3. PlayedKept /\ AdriftKept
  BY <1>1, PlayedForms DEF LateArrives
<1> QED BY <1>2, <1>3, PageStays, Carried DEF LateArrives

(* The answers to an attempt. *)
LEMMA ConnectScreen ==
  ASSUME ScreenInv, StopInv', PostAnswered \/ PostRefused \/ AttachAnswered \/ ConnectBreaks
  PROVE  ScreenInv'
<1>1. attempt.stage = "connect" /\ attempt.stage \in Busy /\ Generating
  BY DEF PostAnswered, PostRefused, AttachAnswered, ConnectBreaks, Posting, Attaching, Busy, Generating
<1>2. attempt \in Attempts /\ attempt.id \in Ids /\ attempt.edit \in Nat /\ BaseInv
  BY <1>1, PageForms DEF BaseInv, PageTypes, Attempts
<1>3. stop' = stop /\ past' = past /\ PlayedKept /\ AdriftKept
  BY <1>2, PlayedForms DEF PostAnswered, PostRefused, AttachAnswered, ConnectBreaks
<1>4. ChatCalm
  <2>1. CASE PostReceived(attempt.id, attempt.edit)
    BY <1>2, <2>1, CalmPost
  <2>2. CASE UNCHANGED serverVars
    BY <2>2, CalmSame DEF serverVars
  <2> QED BY <2>1, <2>2 DEF PostAnswered, PostRefused, AttachAnswered, ConnectBreaks
<1>5. ASSUME StartReading PROVE PageTrue(screen', attempt', stop', past)
  <2>1. attempt'.stage = "read" /\ attempt'.id = attempt.id /\ attempt'.cursor = attempt.cursor
    BY <1>2, <1>5 DEF StartReading, Attempts
  <2> QED BY <1>1, <1>3, <1>5, <2>1, GoesOnOpen DEF StartReading
<1>6. PageTrue(screen', attempt', stop', past)
  <2>1. CASE PostAnswered
    BY <1>1, <1>3, <1>5, <2>1, ReplayedScreen DEF PostAnswered
  <2>2. CASE PostRefused
    BY <1>1, <1>3, <2>2, TakenBack DEF PostRefused, Results
  <2>3. CASE AttachAnswered
    BY <1>1, <1>3, <1>5, <2>3, ReplayedScreen, RetryOffered DEF AttachAnswered
  <2>4. CASE ConnectBreaks
    BY <1>1, <1>3, <2>4, BreaksScreen DEF ConnectBreaks
  <2> QED BY <2>1, <2>2, <2>3, <2>4
<1> QED BY <1>3, <1>4, <1>6, Carried

(* What a stream shows of a turn. *)
LEMMA ShownPlayer ==
  ASSUME ScreenInv, ShowPlayer
  PROVE  PageTrue(screen', attempt', stop', past)
<1>1. attempt.stage = "read" /\ attempt.stage \in Busy /\ stop' = stop
  BY DEF ShowPlayer, Busy
<1>2. attempt \in Attempts /\ attempt.id \in Ids /\ ChatTrue
  BY <1>1, PageForms DEF BaseInv, PageTypes
<1>3. attempt.cursor < turn[attempt.id].events /\ turn[attempt.id].events \in {0, 1} /\ attempt.cursor \in Nat
  BY <1>2 DEF ShowPlayer, ChatTrue, Attempts
<1>4. attempt.cursor = 0
  BY <1>3
<1>5. attempt'.cursor = 1 /\ attempt'.stage = "read" /\ attempt'.id = attempt.id
  <2> DEFINE k == attempt.cursor + 1
  <2>1. attempt' = [attempt EXCEPT !.cursor = k, !.seen = TRUE] /\ k = 1
    BY <1>4 DEF ShowPlayer
  <2> HIDE DEF k
  <2> QED BY <1>1, <1>2, <2>1 DEF Attempts
<1> DEFINE more == Append(screen.rows, Player(attempt.id, 0))
<1>6. more \in Rows
  BY <1>2, PageForms, RowAdded, RowsForms
<1>7. screen' \in Screens /\ screen'.rows = more /\ screen'.base = screen.base
  <2>1. screen' = [screen EXCEPT !.rows = more]
    BY DEF ShowPlayer
  <2> HIDE DEF more
  <2> QED BY <1>6, <2>1, PageForms DEF Screens
<1>8. screen.base # {} => Under(screen') = Under(screen)
  BY <1>7, PageForms, UnderForms
<1>9. screen'.base = {} \/ screen'.base = {Under(screen')}
  BY <1>7, <1>8, PageForms
<1>10. CASE attempt.id \in past.adrift /\ TrueRows(screen.rows, past.played, past.adrift)
  <2>1. TrueRows(more, past.played, past.adrift)
    BY <1>2, <1>10, TruePlayer DEF NewIn
  <2>2. TrueRows(Under(screen'), past.played, past.adrift)
    <3>1. CASE screen.base = {}
      BY <1>7, <2>1, <3>1, UnderForms
    <3>2. CASE screen.base # {}
      BY <1>8, <3>2, PageForms
    <3> QED BY <3>1, <3>2
  <2>3. OpenRows(screen', attempt', past)
    BY <1>5, <1>7, <1>10, <2>1 DEF OpenRows
  <2> QED BY <1>1, <1>7, <1>9, <2>2, <2>3, PageForms DEF PageTrue
<1>11. CASE /\ screen.base # {}
            /\ screen.rows = (IF attempt.cursor = 0 THEN Under(screen) ELSE Append(Under(screen), Player(attempt.id, 0)))
            /\ NewIn(Under(screen), attempt.id, past.adrift)
  <2>1. screen'.rows = Append(Under(screen'), Player(attempt'.id, 0))
    BY <1>4, <1>5, <1>7, <1>8, <1>11
  <2>2. OpenRows(screen', attempt', past)
    BY <1>5, <1>7, <1>8, <1>11, <2>1 DEF OpenRows
  <2> QED BY <1>1, <1>7, <1>8, <1>9, <1>11, <2>2, PageForms DEF PageTrue
<1> QED BY <1>1, <1>10, <1>11 DEF ScreenInv, PageTrue, OpenRows

(* A stream is read to its end, or breaks. *)
LEMMA ReadScreen ==
  ASSUME ScreenInv, StopInv', ShowPlayer \/ StreamBreaks \/ TurnDone \/ Reconnect
  PROVE  ScreenInv'
<1>1. attempt.stage \in {"read", "pause"} /\ attempt.stage \in Busy /\ Generating
  BY DEF ShowPlayer, StreamBreaks, TurnDone, Reconnect, Busy, Generating
<1>2. attempt \in Attempts /\ attempt.id \in Ids /\ BaseInv /\ ChatTrue
  BY <1>1, PageForms DEF BaseInv, PageTypes
<1>3. stop' = stop /\ ChatCalm
  BY CalmSame DEF ShowPlayer, StreamBreaks, TurnDone, Reconnect, serverVars
<1>4. PlayedKept /\ AdriftKept
  BY <1>2, PlayedForms DEF ShowPlayer, StreamBreaks, TurnDone, Reconnect
<1>5. CASE ShowPlayer
  BY <1>3, <1>4, <1>5, ShownPlayer, Carried
<1>6. CASE StreamBreaks
  BY <1>3, <1>4, <1>6, BreaksScreen, Carried DEF StreamBreaks
<1>7. CASE TurnDone
  <2>1. CASE TakeBack("cancelled", << >>)
    BY <1>1, <1>3, <1>4, <2>1, TakenBack, Carried DEF Results
  <2>2. CASE OfferRetry(FALSE) \/ TakeBack("refused", <<Problem>>)
    BY <1>1, <1>3, <1>4, <2>2, TakenBack, RetryOffered, Carried DEF Results
  <2>3. CASE /\ turn[attempt.id].state = "completed"
             /\ screen' = [screen EXCEPT !.base = {}]
             /\ attempt' = [attempt EXCEPT !.stage = "reload", !.result = "ok"]
             /\ UNCHANGED failed
    <3>1. attempt.id \in past.played
      BY <1>2, <2>3 DEF ChatTrue
    <3>2. TrueRows(screen.rows, past.played, past.adrift)
      <4>1. \/ TrueRows(screen.rows, past.played, past.adrift)
            \/ screen.rows = Under(screen)
            \/ /\ screen.rows = Append(Under(screen), Player(attempt.id, 0))
               /\ NewIn(Under(screen), attempt.id, past.adrift)
        BY <1>1 DEF ScreenInv, PageTrue, OpenRows
      <4>2. TrueRows(Under(screen), past.played, past.adrift)
        BY PageForms
      <4>3. attempt.id \in past.played \cup past.adrift
        BY <3>1
      <4> QED BY <1>2, <4>1, <4>2, <4>3, TruePlayer
    <3>3. screen' \in Screens /\ screen'.base = {} /\ screen'.rows = screen.rows
      BY <2>3, PageForms DEF Screens
    <3>4. TrueRows(Under(screen'), past.played, past.adrift)
      BY <3>2, <3>3, UnderForms
    <3>5. attempt'.stage = "reload"
      BY <1>2, <2>3 DEF Attempts
    <3>6. stop'.stage = "answered" => TrueRows(stop'.rows, past.played, {})
      BY <1>3, PageForms
    <3>7. PageTrue(screen', attempt', stop', past)
      BY <3>3, <3>4, <3>5, <3>6, PageClosed
    <3> QED BY <1>3, <1>4, <3>7, Carried
  <2> QED BY <1>7, <2>1, <2>2, <2>3 DEF TurnDone
<1>8. CASE Reconnect
  <2>1. attempt'.stage = "connect" /\ attempt'.id = attempt.id /\ attempt'.cursor = attempt.cursor
    BY <1>2, <1>8 DEF Reconnect, Attempts
  <2> QED BY <1>1, <1>3, <1>4, <1>8, <2>1, GoesOnOpen, Carried DEF Reconnect
<1> QED BY <1>5, <1>6, <1>7, <1>8

(* The end of an attempt leaves what the transcript says, or its error. *)
LEMMA EndScreen ==
  ASSUME ScreenInv, StopInv', Reload \/ ReloadFails \/ AttemptEnds
  PROVE  ScreenInv'
<1>1. attempt \in Attempts /\ BaseInv /\ ChatTrue /\ past \in Pasts
  BY PageForms DEF BaseInv, PageTypes
<1>2. stop' = stop /\ ChatCalm
  BY CalmSame DEF Reload, ReloadFails, AttemptEnds, serverVars
<1>3. attempt'.stage \in {"settle", "rest"}
  BY <1>1, EndForms, AttemptForms DEF Reload, ReloadFails, AttemptEnds, Results, Busy
<1>4. CASE Reload
  <2> DEFINE k == IF Generating THEN {attempt.id} ELSE {}
  <2>1. past' = [past EXCEPT !.adrift = k]
    BY <1>4 DEF Reload, Adrift
  <2> HIDE DEF k
  <2>2. PlayedKept
    BY <1>1, <2>1, PlayedForms
  <2>3. stop'.stage = "answered" => TrueRows(stop'.rows, past'.played, {})
    BY <1>2, <2>2, PageForms DEF PlayedKept
  <2>4. screen' \in Screens /\ screen'.base = {} /\ TrueRows(Under(screen'), past'.played, past'.adrift)
    BY <1>4, <2>2, TranscriptShown DEF Reload, PlayedKept
  <2>5. PageTrue(screen', attempt', stop', past')
    BY <1>3, <2>3, <2>4, PageClosed
  <2> QED BY <1>2, <2>2, <2>5, CarriedOn
<1>5. CASE ReloadFails
  <2> DEFINE k == IF attempt.result = "replayed" /\ screen.base = {} THEN {attempt.id} ELSE {}
             r == past.adrift \cup k
  <2>1. past' = [past EXCEPT !.adrift = r]
    BY <1>5 DEF ReloadFails
  <2>2. attempt.result = "replayed" /\ screen.base = {} => attempt.id \in r
    OBVIOUS
  <2>3. past.adrift \subseteq r
    OBVIOUS
  <2> HIDE DEF k, r
  <2>4. PlayedKept /\ past'.adrift = r /\ past'.played = past.played
    BY <1>1, <2>1, PlayedForms DEF PlayedKept
  <2>5. stop'.stage = "answered" => TrueRows(stop'.rows, past'.played, {})
    BY <1>2, <2>4, PageForms
  <2>6. \A rows : TrueRows(rows, past.played, past.adrift) => TrueRows(rows, past'.played, past'.adrift)
    BY <2>3, <2>4, TrueGrows
  <2>7. attempt.stage \in Busy
    BY <1>5 DEF ReloadFails, Busy
  <2>8. /\ screen' \in Screens /\ (screen'.base = {} \/ screen'.base = {Under(screen')})
        /\ TrueRows(Under(screen'), past'.played, past'.adrift)
    <3>1. CASE attempt.result # "replayed"
      <4>1. screen' = screen
        BY <1>5, <3>1 DEF ReloadFails
      <4> QED BY <2>6, <4>1, PageForms
    <3>2. CASE attempt.result = "replayed"
      <4>1. screen' = [screen EXCEPT !.rows = ErrorRows]
        BY <1>5, <3>2 DEF ReloadFails
      <4>2. screen' \in Screens /\ screen'.rows = ErrorRows /\ screen'.base = screen.base
        BY <2>7, <4>1, PageForms, ErrorForms DEF Screens
      <4>3. CASE screen.base # {}
        <5>1. Under(screen') = Under(screen)
          BY <4>2, <4>3, PageForms, UnderForms
        <5> QED BY <2>6, <4>2, <5>1, PageForms
      <4>4. CASE screen.base = {}
        <5>1. Under(screen) = screen.rows /\ Under(screen') = ErrorRows
          BY <4>2, <4>4, PageForms, UnderForms
        <5>2. TrueRows(screen.rows, past'.played, past'.adrift)
          BY <2>6, <5>1, PageForms
        <5>3. attempt.id \in past'.adrift
          BY <2>2, <2>4, <3>2, <4>4
        <5> QED BY <2>7, <4>2, <4>4, <5>1, <5>2, <5>3, ErrorForms
      <4> QED BY <4>3, <4>4
    <3> QED BY <3>1, <3>2
  <2>9. PageTrue(screen', attempt', stop', past')
    BY <1>3, <2>5, <2>8, PageClosed
  <2> QED BY <1>2, <2>4, <2>9, CarriedOn
<1>6. CASE AttemptEnds
  <2>1. UNCHANGED <<screen, past>>
    BY <1>6 DEF AttemptEnds
  <2>2. PageTrue(screen', attempt', stop', past)
    BY <1>2, <1>3, <2>1, PageForms, PageClosed
  <2>3. PlayedKept /\ AdriftKept
    BY <1>1, <2>1, PlayedForms
  <2> QED BY <1>2, <2>2, <2>3, Carried
<1> QED BY <1>4, <1>5, <1>6

(* A restore shows the transcript under whatever has begun since. *)
LEMMA RestoreScreen ==
  ASSUME ScreenInv, StopInv', RestoreChat \/ RestoreFails
  PROVE  ScreenInv'
<1>1. BaseInv /\ ChatTrue
  BY PageForms
<1>2. UNCHANGED <<attempt, stop>> /\ ChatCalm
  BY CalmSame DEF RestoreChat, RestoreFails, serverVars
<1>3. CASE RestoreChat
  <2>1. PlayedKept
    BY <1>1, <1>3, PlayedForms DEF RestoreChat, Adrift
  <2>2. \/ ShowTranscript
        \/ screen' = [rows |-> Append(Transcript, Problem), base |-> {Transcript}]
    BY <1>3 DEF RestoreChat
  <2>3. PageTrue(screen', attempt', stop', past')
    <3>1. CASE ShowTranscript
      BY <1>2, <1>3, <3>1, TranscriptShown, ShownBeside DEF RestoreChat
    <3>2. CASE screen' = [rows |-> Append(Transcript, Problem), base |-> {Transcript}]
      <4> DEFINE more == Append(Transcript, Problem)
      <4>1. \A t : TrueRows(Transcript, past.played, t) /\ TrueRows(more, past.played, t)
        BY <1>1, TrueTranscript, TrueProblem
      <4> HIDE DEF more
      <4>2. screen' = [rows |-> more, base |-> {Transcript}]
        BY <3>2 DEF more
      <4>3. Transcript \in Rows /\ more \in Rows
        BY <4>1 DEF TrueRows
      <4>4. screen' \in Screens /\ screen'.base = {Transcript} /\ screen'.rows = more
        BY <4>2, <4>3 DEF Screens
      <4>5. Under(screen') = Transcript
        BY <4>4, UnderForms
      <4> QED BY <1>2, <1>3, <4>1, <4>4, <4>5, ShownBeside DEF RestoreChat
    <3> QED BY <2>2, <3>1, <3>2
  <2> QED BY <1>2, <2>1, <2>3, CarriedOn
<1>4. CASE RestoreFails
  <2>1. UNCHANGED <<screen, past>>
    BY <1>4 DEF RestoreFails
  <2>2. PlayedKept /\ AdriftKept
    BY <1>1, <2>1, PlayedForms
  <2> QED BY <1>2, <2>1, <2>2, Carried DEF ScreenInv
<1> QED BY <1>3, <1>4

(* The answer to a stop is shown as it was read. *)
LEMMA StopScreen ==
  ASSUME ScreenInv, StopInv', StopTurn \/ CancelArrives \/ CancelBreaks \/ CancelAnswered
  PROVE  ScreenInv'
<1>1. attempt \in Attempts /\ BaseInv /\ ChatTrue
  BY PageForms DEF BaseInv, PageTypes
<1>2. ChatCalm
  <2>1. CASE Interrupted(attempt.id) /\ chat' = chat
    BY <2>1, CalmStop
  <2>2. CASE UNCHANGED <<chat, turn>>
    BY <2>2, CalmSame
  <2> QED BY <2>1, <2>2 DEF StopTurn, CancelArrives, CancelBreaks, CancelAnswered, serverVars
<1>3. ASSUME UNCHANGED <<screen, attempt>>, PlayedKept, AdriftKept,
             stop'.stage = "answered" => TrueRows(stop'.rows, past.played, {})
      PROVE  ScreenInv'
  <2>1. PageTrue(screen', attempt', stop', past)
    BY <1>3 DEF ScreenInv, PageTrue
  <2> QED BY <1>2, <1>3, <2>1, Carried
<1>4. ASSUME StopTurn \/ CancelArrives \/ CancelBreaks PROVE PlayedKept /\ AdriftKept
  BY <1>1, <1>4, PlayedForms DEF StopTurn, CancelArrives, CancelBreaks
<1>5. CASE StopTurn
  <2>1. stop'.stage = "asked"
    BY <1>5 DEF StopTurn, NoStop
  <2> QED BY <1>3, <1>4, <1>5, <2>1 DEF StopTurn
<1>6. CASE CancelArrives
  <2>1. stop' = NoStop \/ stop'.rows = Transcript
    BY <1>6 DEF CancelArrives
  <2>2. stop'.stage = "answered" => TrueRows(stop'.rows, past.played, {})
    BY <1>1, <2>1, TrueTranscript DEF NoStop
  <2> QED BY <1>3, <1>4, <1>6, <2>2 DEF CancelArrives
<1>7. CASE CancelBreaks
  BY <1>3, <1>4, <1>7 DEF CancelBreaks, NoStop
<1>8. CASE CancelAnswered
  <2>1. TrueRows(stop.rows, past.played, {}) /\ attempt.stage \in Busy
    BY <1>8, PageForms DEF CancelAnswered, ScreenInv, StopInv, StopBusy, NoStop
  <2>2. screen' = [rows |-> stop.rows, base |-> {}] /\ stop' = NoStop
    BY <1>8 DEF CancelAnswered
  <2>3. screen' \in Screens /\ screen'.base = {} /\ Under(screen') = stop.rows
    <3>1. screen' \in Screens /\ screen'.base = {} /\ screen'.rows = stop.rows
      BY <2>1, <2>2 DEF Screens, TrueRows
    <3> QED BY <3>1, UnderForms
  <2>4. attempt'.stage \in {"settle", "reload"}
    <3>1. CASE Generating
      BY <1>1, <1>8, <2>1, <3>1, EndForms DEF CancelAnswered, Results
    <3>2. CASE ~ Generating
      BY <1>8, <2>1, <3>2 DEF CancelAnswered, Generating, Busy
    <3> QED BY <3>1, <3>2
  <2>5. PlayedKept /\ past'.adrift = {}
    <3> DEFINE s == IF stop.status = "cancelled" THEN {attempt.id} ELSE {}
    <3>1. past' = [past EXCEPT !.undone = @ \cup s, !.adrift = {}]
      BY <1>8 DEF CancelAnswered
    <3> HIDE DEF s
    <3> QED BY <1>1, <3>1, PlayedForms
  <2>6. TrueRows(Under(screen'), past'.played, past'.adrift)
    BY <2>1, <2>3, <2>5 DEF PlayedKept
  <2>7. PageTrue(screen', attempt', stop', past')
    BY <2>2, <2>3, <2>4, <2>6, PageClosed DEF NoStop
  <2> QED BY <1>2, <2>5, <2>7, CarriedOn
<1> QED BY <1>5, <1>6, <1>7, <1>8

(* What is sent is shown over the rows there are. *)
LEMMA SentScreen ==
  ASSUME ScreenInv, NEW id \in Ids, NEW edit \in Nat, NEW staged \in BOOLEAN, NEW attach \in BOOLEAN,
         NEW s \in Screens, Send(id, edit, staged, attach, s), stop' = stop, PlayedKept, AdriftKept,
         TrueRows(s.rows, past.played, past.adrift), NewIn(s.rows, id, past'.adrift)
  PROVE  PageTrue(screen', attempt', stop', past')
<1>1. screen' \in Screens /\ screen'.rows = s.rows /\ screen'.base = {s.rows} /\ Under(screen') = s.rows
  BY BegunForms DEF Send
<1>2. attempt'.stage = "connect" /\ attempt'.id = id
  BY SendForms
<1>3. attempt'.cursor = 0
  <2>1. attempt' = [AtRest EXCEPT !.stage = "connect", !.id = id, !.edit = edit, !.staged = staged, !.attach = attach]
    BY DEF Send
  <2>2. AtRest.cursor = 0 /\ AtRest \in Attempts
    BY AttemptForms DEF AtRest
  <2> QED BY <2>1, <2>2 DEF Attempts
<1>4. OpenRows(screen', attempt', past')
  BY <1>1, <1>2, <1>3 DEF OpenRows
<1>5. TrueRows(Under(screen'), past'.played, past'.adrift)
  BY <1>1, TrueGrows DEF PlayedKept, AdriftKept
<1>6. stop'.stage = "answered" => TrueRows(stop'.rows, past'.played, {})
  BY PageForms DEF PlayedKept
<1> QED BY <1>1, <1>4, <1>5, <1>6 DEF PageTrue

(* What is sent again is adrift if it stands there. *)
LEMMA AgainForms ==
  ASSUME NEW id, NEW s
  PROVE  past.adrift \subseteq Again(id, s) /\ NewIn(s.rows, id, Again(id, s))
BY DEF Again, IdsIn, NewIn, Shows

(* The rows that a new, edited or repeated attempt is shown over. *)
LEMMA RowsBelow ==
  ASSUME ScreenInv
  PROVE  LET b == RolledBack(screen)
         IN  /\ b \in Screens /\ b.rows = Under(screen)
             /\ TrueRows(b.rows, past.played, past.adrift)
             /\ \A n : RowsOfTurn(b, n) # {} =>
                  /\ CutBefore(b, n) \in Screens
                  /\ TrueRows(CutBefore(b, n).rows, past.played, past.adrift)
<1> DEFINE b == RolledBack(screen)
<1>1. b \in Screens /\ b.rows = Under(screen) /\ TrueRows(b.rows, past.played, past.adrift)
  BY PageForms DEF Screens
<1> HIDE DEF b
<1>2. ASSUME NEW n, RowsOfTurn(b, n) # {}
      PROVE  /\ CutBefore(b, n) \in Screens
             /\ TrueRows(CutBefore(b, n).rows, past.played, past.adrift)
  <2> DEFINE k == CHOOSE i \in RowsOfTurn(b, n) : TRUE
             less == SubSeq(b.rows, 1, k - 1)
  <2>1. k \in DOMAIN b.rows
    BY <1>2 DEF RowsOfTurn
  <2>2. CutBefore(b, n) = [b EXCEPT !.rows = less]
    BY DEF CutBefore
  <2> HIDE DEF k
  <2>3. TrueRows(less, past.played, past.adrift)
    BY <1>1, <2>1, TruePrefix
  <2> HIDE DEF less
  <2>4. less \in Rows
    BY <2>3 DEF TrueRows
  <2>5. CutBefore(b, n) \in Screens /\ CutBefore(b, n).rows = less
    BY <1>1, <2>2, <2>4 DEF Screens
  <2> QED BY <2>3, <2>5
<1> QED BY <1>1, <1>2 DEF b

(* What the player does leaves the screen true. *)
LEMMA PlayerScreen ==
  ASSUME ScreenInv, StopInv', Say \/ RetryFailed \/ (\E n \in Ids : EditTurn(n))
  PROVE  ScreenInv'
<1>1. /\ BaseInv /\ ChatTrue /\ past.said \in 0 .. MaxActions /\ MaxActions \in Nat /\ failed \subseteq Tries
  BY PageForms, ClientBounds DEF BaseInv, PageTypes, Pasts
<1>2. ChatCalm
  BY CalmSame DEF Say, RetryFailed, EditTurn, Act, serverVars
<1> DEFINE b == RolledBack(screen)
<1>3. /\ b \in Screens
      /\ TrueRows(b.rows, past.played, past.adrift)
      /\ \A n : RowsOfTurn(b, n) # {} =>
           CutBefore(b, n) \in Screens /\ TrueRows(CutBefore(b, n).rows, past.played, past.adrift)
  BY RowsBelow
<1>4. ASSUME NewId, NEW edit \in Nat, NEW staged \in BOOLEAN, NEW s \in Screens,
             TrueRows(s.rows, past.played, past.adrift), Act(past.said + 1, edit, staged, FALSE, s)
      PROVE  ScreenInv'
  <2>1. past.said + 1 \in Ids /\ past.said + 1 \notin past.played
    BY <1>1, <1>4 DEF NewId, Ids, ChatTrue
  <2>2. PlayedKept /\ AdriftKept /\ past'.adrift = past.adrift
    BY <1>1, <1>4, PlayedForms DEF AdriftKept
  <2>3. NewIn(s.rows, past.said + 1, past'.adrift)
    BY <1>4, <2>1, <2>2 DEF TrueRows, NewIn, Shows
  <2>4. PageTrue(screen', attempt', stop', past')
    BY <1>4, <2>1, <2>2, <2>3, SentScreen DEF Act
  <2> QED BY <1>2, <2>2, <2>4, CarriedOn
<1>5. CASE Say
  BY <1>3, <1>4, <1>5 DEF Say
<1>6. ASSUME NEW n \in Ids, EditTurn(n) PROVE ScreenInv'
  <2>1. n \in Nat
    BY DEF Ids
  <2> QED BY <1>3, <1>4, <1>6, <2>1 DEF EditTurn
<1>7. CASE RetryFailed
  <2>1. PICK f \in failed :
          LET s == IF f.edit = 0 THEN b ELSE CutBefore(b, f.edit)
          IN  /\ f.edit # 0 => RowsOfTurn(b, f.edit) # {}
              /\ Act(f.id, f.edit, f.edit # 0, f.edit = 0 /\ f.attach, s)
              /\ past' = [past EXCEPT !.undone = @ \ {f.id}, !.adrift = Again(f.id, s)]
    BY <1>7 DEF RetryFailed
  <2> DEFINE s == IF f.edit = 0 THEN b ELSE CutBefore(b, f.edit)
  <2>2. s \in Screens /\ TrueRows(s.rows, past.played, past.adrift)
    BY <1>3, <2>1
  <2>3. /\ Act(f.id, f.edit, f.edit # 0, f.edit = 0 /\ f.attach, s)
        /\ past' = [past EXCEPT !.undone = @ \ {f.id}, !.adrift = Again(f.id, s)]
    BY <2>1
  <2> HIDE DEF s
  <2>4. f.id \in Ids /\ f.edit \in Nat /\ f.attach \in BOOLEAN
    BY <1>1 DEF Tries
  <2>5. PlayedKept /\ past'.adrift = Again(f.id, s)
    BY <1>1, <2>3, PlayedForms
  <2>6. AdriftKept /\ NewIn(s.rows, f.id, past'.adrift)
    BY <2>5, AgainForms DEF AdriftKept
  <2>7. PageTrue(screen', attempt', stop', past')
    BY <2>2, <2>3, <2>4, <2>5, <2>6, SentScreen DEF Act
  <2> QED BY <1>2, <2>5, <2>7, CarriedOn
<1> QED BY <1>5, <1>6, <1>7

(* The load of the page leaves the screen true. *)
LEMMA LoadScreen ==
  ASSUME ScreenInv, StopInv', OpenPage \/ LoadTranscript \/ ActiveAnswered \/ Discover
  PROVE  ScreenInv'
<1>1. BaseInv /\ ChatTrue /\ aside \in Asides
  BY PageForms DEF BaseInv, PageTypes
<1>2. ChatCalm
  BY CalmSame DEF OpenPage, LoadTranscript, ActiveAnswered, Discover, serverVars
<1>3. CASE UNCHANGED <<screen, attempt, stop, past>>
  <2>1. PlayedKept /\ AdriftKept
    BY <1>1, <1>3, PlayedForms
  <2> QED BY <1>2, <1>3, <2>1, Carried DEF ScreenInv
<1>4. CASE OpenPage
  <2>1. << >> \in Rows /\ \A q, r : TrueRows(<< >>, q, r)
    BY RowsForms DEF TrueRows
  <2>2. screen' = [rows |-> << >>, base |-> {}] /\ attempt'.stage = "rest" /\ stop' = NoStop
    BY <1>4, AttemptForms DEF OpenPage
  <2>3. screen' \in Screens /\ screen'.base = {} /\ Under(screen') = << >>
    <3>1. screen' \in Screens /\ screen'.base = {} /\ screen'.rows = << >>
      BY <2>1, <2>2 DEF Screens
    <3> QED BY <3>1, UnderForms
  <2>4. PageTrue(screen', attempt', stop', past')
    BY <2>1, <2>2, <2>3, PageClosed DEF NoStop
  <2>5. PlayedKept
    BY <1>1, <1>4, PlayedForms DEF OpenPage
  <2> QED BY <1>2, <2>4, <2>5, CarriedOn
<1>5. CASE LoadTranscript
  <2>1. CASE ShowTranscript /\ Adrift
    <3>1. PageTrue(screen', attempt', stop', past')
      BY <1>5, <2>1, TranscriptShown, ShownBeside DEF LoadTranscript
    <3>2. PlayedKept
      BY <1>1, <2>1, PlayedForms DEF Adrift
    <3> QED BY <1>2, <3>1, <3>2, CarriedOn
  <2> QED BY <1>3, <1>5, <2>1 DEF LoadTranscript
<1>6. CASE Discover
  <2>1. ASSUME NEW f \in aside.found, Send(f.id, f.edit, FALSE, TRUE, RolledBack(screen)),
               past' = [past EXCEPT !.adrift = Again(f.id, RolledBack(screen))]
        PROVE  ScreenInv'
    <3>1. f.id \in Ids /\ f.edit \in Nat
      BY <1>1 DEF Asides, Posts
    <3>2. PlayedKept /\ past'.adrift = Again(f.id, RolledBack(screen))
      BY <1>1, <2>1, PlayedForms
    <3>3. AdriftKept /\ NewIn(RolledBack(screen).rows, f.id, past'.adrift)
      BY <3>2, AgainForms DEF AdriftKept
    <3>4. PageTrue(screen', attempt', stop', past')
      BY <1>6, <2>1, <3>1, <3>2, <3>3, RowsBelow, SentScreen DEF Discover
    <3> QED BY <1>2, <3>2, <3>4, CarriedOn
  <2> QED BY <1>3, <1>6, <2>1 DEF Discover
<1> QED BY <1>3, <1>4, <1>5, <1>6 DEF ActiveAnswered

(* The beginning shows nothing. *)
LEMMA ScreenInit == ClientInit => ScreenInv
<1> SUFFICES ASSUME ClientInit PROVE ScreenInv
  OBVIOUS
<1>1. StopInv
  BY StopInit
<1>2. ChatTrue
  BY DEF ClientInit, ChatTrue, NoTurn
<1>3. << >> \in Rows /\ TrueRows(<< >>, past.played, past.adrift)
  BY RowsForms DEF TrueRows
<1>4. screen \in Screens /\ screen.base = {} /\ screen.rows = << >>
  BY <1>3 DEF ClientInit, Screens
<1>5. Under(screen) = << >>
  BY <1>4, UnderForms
<1>6. attempt.stage = "rest" /\ stop.stage = "none"
  BY AttemptForms DEF ClientInit, NoStop
<1> QED BY <1>1, <1>2, <1>3, <1>4, <1>5, <1>6, PageClosed DEF ScreenInv

(* Every step preserves the invariant. *)
LEMMA ScreenStep == ScreenInv /\ [ClientNext]_pageVars => ScreenInv'
<1> SUFFICES ASSUME ScreenInv, [ClientNext]_pageVars PROVE ScreenInv'
  OBVIOUS
<1>1. StopInv'
  BY StopStep DEF ScreenInv
<1>2. CASE UNCHANGED pageVars
  <2>1. UNCHANGED clientVars /\ UNCHANGED <<chat, turn>> /\ past' = past
    BY <1>2 DEF pageVars, serverVars
  <2> QED BY <1>1, <2>1, PageForms, PageStays, CalmSame, PlayedForms, Carried
<1>3. ASSUME NEW id \in Ids, TellPlayer(id) \/ PlayTurn(id) \/ TurnEnds(id) \/ StoppedElsewhere(id) \/ FeedDies(id)
      PROVE  ScreenInv'
  BY <1>1, <1>3, ServerScreen
<1>4. CASE ServerRestarts
  <2>1. PICK id \in Ids : TRUE
    BY <1>4 DEF ServerRestarts, Unfinished
  <2> QED BY <1>1, <1>4, <2>1, ServerScreen
<1>5. ASSUME NEW p \in budget.transit, LateArrives(p) PROVE ScreenInv'
  BY <1>1, <1>5, LateScreen
<1>6. CASE PostAnswered \/ PostRefused \/ AttachAnswered \/ ConnectBreaks
  BY <1>1, <1>6, ConnectScreen
<1>7. CASE ShowPlayer \/ StreamBreaks \/ TurnDone \/ Reconnect
  BY <1>1, <1>7, ReadScreen
<1>8. CASE Reload \/ ReloadFails \/ AttemptEnds \/ RestoreChat \/ RestoreFails
  BY <1>1, <1>8, EndScreen, RestoreScreen
<1>9. CASE StopTurn \/ CancelArrives \/ CancelBreaks \/ CancelAnswered
  BY <1>1, <1>9, StopScreen
<1>10. CASE Say \/ RetryFailed \/ (\E n \in Ids : EditTurn(n))
  BY <1>1, <1>10, PlayerScreen
<1>11. CASE OpenPage \/ LoadTranscript \/ ActiveAnswered \/ Discover
  BY <1>1, <1>11, LoadScreen
<1> QED BY <1>2, <1>3, <1>4, <1>5, <1>6, <1>7, <1>8, <1>9, <1>10, <1>11 DEF ClientNext

(* sendTurn, timelineStore, stopTurn and the load of the page: whatever    *)
(* the player sends while the page loads, the rows left on the screen are  *)
(* of turns that were played, each once, for any number of requests, edits,*)
(* broken streams, lost and late answers, retries, stops, restarts and page*)
(* loads, but for turns set adrift, until the transcript is shown next:    *)
(* those joined or sent again while they stand there, and those under which*)
(* a load or a restore has shown it.                                       *)
THEOREM ScreenStaysTrue == ClientSpec => []ScreenTrue
<1>1. ScreenInv => ScreenTrue
  BY DEF ScreenInv, PageTrue, TrueRows, Under, ScreenTrue
<1> QED BY <1>1, ScreenInit, ScreenStep, PTL DEF ClientSpec

-----------------------------------------------------------------------------
(* The bounds of the page: what is retried, on its way or registered asks  *)
(* for an edit that was made, and the attempts of one request are counted. *)

ServerBounded ==
  /\ latest \subseteq Ids \X Ids
  /\ \A id \in Ids : turn[id].edit <= MaxActions

AttemptBounded ==
  /\ attempt.edit <= MaxActions /\ attempt.tries <= Reconnects /\ attempt.cursor <= 1
  /\ \A f \in failed : f.edit <= MaxActions

TransitBounded == \A p \in budget.transit : p.edit <= MaxActions

AsideBounded == \A f \in aside.found \cup aside.restore : f.edit <= MaxActions

StopBounded == stop.stage \in {"none", "asked", "answered"} /\ stop.rows \in Rows

PageBounded == ServerBounded /\ AttemptBounded /\ AsideBounded /\ TransitBounded /\ StopBounded

(* The forms that the bounds need. *)
LEMMA BoundForms ==
  ASSUME BaseInv
  PROVE  /\ turn \in [Ids -> Turns] /\ attempt \in Attempts /\ failed \subseteq Tries
         /\ attempt.edit \in Nat /\ attempt.tries \in Nat /\ attempt.cursor \in Nat
         /\ budget.transit \subseteq Posts /\ "transit" \in DOMAIN budget
         /\ aside \in Asides
         /\ \A id \in Ids : turn[id].edit \in Nat
BY DEF BaseInv, PageTypes, Attempts, Turns

(* A post is registered, and asks for the edit it carries. *)
LEMMA PostBounded ==
  ASSUME BaseInv, ServerBounded, NEW id \in Ids, NEW edit \in Nat, edit <= MaxActions, PostReceived(id, edit)
  PROVE  ServerBounded'
<1>1. CASE UNCHANGED <<turn, latest>>
  BY <1>1 DEF ServerBounded
<1>2. CASE /\ turn' = [turn EXCEPT ![id] = [state |-> "running", events |-> 0, edit |-> edit]]
           /\ latest' = Without(id) \cup (Registered \ {id}) \X {id}
  <2>1. latest' \subseteq Ids \X Ids
    BY <1>2 DEF Without, Registered, ServerBounded
  <2>2. \A x \in Ids : turn'[x].edit = IF x = id THEN edit ELSE turn[x].edit
    BY <1>2, BoundForms
  <2> QED BY <2>1, <2>2 DEF ServerBounded
<1> QED BY <1>1, <1>2 DEF PostReceived

(* The state of an execution says nothing of its edit. *)
LEMMA StateBounded ==
  ASSUME BaseInv, ServerBounded, NEW id \in Ids, NEW to, latest' = latest, turn' = [turn EXCEPT ![id].state = to]
  PROVE  ServerBounded'
<1>1. \A x \in Ids : turn'[x].edit = turn[x].edit
  BY BoundForms DEF Turns
<1> QED BY <1>1 DEF ServerBounded

(* Trouble takes nothing out of the network but what is in it. *)
LEMMA TroubleBounded ==
  ASSUME BaseInv, NEW transit, Trouble(transit)
  PROVE  budget'.transit = transit
BY BoundForms DEF Trouble

(* The post of the attempt is one that can be on its way. *)
LEMMA TransitKept ==
  ASSUME BaseInv, PageBounded, budget'.transit \in {budget.transit, InTransit}
  PROVE  TransitBounded'
BY DEF PageBounded, TransitBounded, AttemptBounded, InTransit

(* An attempt that ends, and the retry it leaves. *)
LEMMA SettleBounded ==
  ASSUME BaseInv, AttemptBounded, NEW r, Settle(r),
         failed' = {} \/ failed' = failed \/ (\E a : CanRetry(attempt.id, attempt.edit, a) \/ CanRetry(attempt.id, 0, a))
  PROVE  AttemptBounded'
<1>1. attempt'.edit = attempt.edit /\ attempt'.tries = 0 /\ attempt'.cursor = 0
  BY DEF Settle, AtRest
<1>2. \A f \in failed' : f.edit <= MaxActions
  BY ClientBounds DEF AttemptBounded, CanRetry
<1> QED BY <1>1, <1>2, ClientBounds DEF AttemptBounded

(* An attempt that breaks is tried again, or offered to be. *)
LEMMA BreaksBounded ==
  ASSUME BaseInv, AttemptBounded, Breaks
  PROVE  AttemptBounded'
<1>1. CASE attempt.tries < Reconnects
  <2> DEFINE k == attempt.tries + 1
  <2>1. attempt' = [attempt EXCEPT !.stage = "pause", !.tries = k, !.seen = FALSE, !.cursor = 0] /\ failed' = failed
    BY <1>1, BoundForms DEF Breaks, Attempts
  <2>2. k <= Reconnects
    BY <1>1, BoundForms, ClientBounds
  <2> HIDE DEF k
  <2>3. attempt'.edit = attempt.edit /\ attempt'.tries = k /\ attempt'.cursor = 0
    BY <2>1, BoundForms DEF Attempts
  <2> QED BY <2>1, <2>2, <2>3 DEF AttemptBounded
<1>2. CASE ~ (attempt.tries < Reconnects)
  BY <1>2, SettleBounded DEF Breaks, OfferRetry
<1> QED BY <1>1, <1>2

(* An attempt is begun for an edit that was made. *)
LEMMA SendBounded ==
  ASSUME NEW id, NEW edit, edit <= MaxActions, NEW staged, NEW attach, NEW s, Send(id, edit, staged, attach, s)
  PROVE  AttemptBounded'
<1>1. attempt'.edit = edit /\ attempt'.tries = 0 /\ attempt'.cursor = 0 /\ failed' = {}
  BY DEF Send, AtRest
<1> QED BY <1>1, ClientBounds DEF AttemptBounded

(* Only the stage or the result of the attempt changes. *)
LEMMA StageBounded ==
  ASSUME BaseInv, AttemptBounded, NEW to, NEW result,
         attempt' = [attempt EXCEPT !.stage = to, !.result = result], failed' = failed
  PROVE  AttemptBounded'
<1>1. attempt'.edit = attempt.edit /\ attempt'.tries = attempt.tries /\ attempt'.cursor = attempt.cursor
  BY BoundForms DEF Attempts
<1> QED BY <1>1 DEF AttemptBounded

(* No attempt is open. *)
LEMMA RestBounded ==
  ASSUME AttemptBounded, attempt' = AtRest,
         \A f \in failed' : f.edit <= MaxActions
  PROVE  AttemptBounded'
<1>1. attempt'.edit = 0 /\ attempt'.tries = 0 /\ attempt'.cursor = 0
  BY DEF AtRest
<1> QED BY <1>1, ClientBounds DEF AttemptBounded

(* The server and the network keep the bounds. *)
LEMMA ServerStepBounded ==
  ASSUME BaseInv, PageBounded,
         \/ \E id \in Ids : TellPlayer(id) \/ PlayTurn(id) \/ TurnEnds(id) \/ StoppedElsewhere(id) \/ FeedDies(id)
         \/ ServerRestarts
         \/ \E p \in budget.transit : LateArrives(p)
  PROVE  PageBounded'
<1>0. ServerBounded /\ TransitBounded
  BY DEF PageBounded
<1>1. UNCHANGED clientVars
  BY DEF TellPlayer, PlayTurn, TurnEnds, StoppedElsewhere, FeedDies, ServerRestarts, ServerSteps, LateArrives
<1>2. AttemptBounded' /\ AsideBounded' /\ StopBounded'
  BY <1>1 DEF clientVars, PageBounded, AttemptBounded, AsideBounded, StopBounded
<1>3. ASSUME NEW id \in Ids, TellPlayer(id) PROVE ServerBounded' /\ TransitBounded'
  <2>1. \A x \in Ids : turn'[x].edit = turn[x].edit
    BY <1>3, BoundForms DEF TellPlayer, Turns
  <2> QED BY <1>0, <1>3, <2>1 DEF TellPlayer, ServerBounded, TransitBounded
<1>4. ASSUME NEW id \in Ids, PlayTurn(id) \/ TurnEnds(id) \/ StoppedElsewhere(id) PROVE ServerBounded' /\ TransitBounded'
  <2>1. \E from, to : ServerSteps(id, from, to)
    BY <1>4 DEF PlayTurn, TurnEnds, StoppedElsewhere
  <2>2. ServerBounded'
    BY <1>0, <2>1, StateBounded DEF ServerSteps
  <2>3. budget'.transit = budget.transit
    BY <1>4, TroubleBounded DEF PlayTurn, TurnEnds, StoppedElsewhere
  <2> QED BY <1>0, <2>2, <2>3 DEF TransitBounded
<1>5. ASSUME NEW id \in Ids, FeedDies(id) PROVE ServerBounded' /\ TransitBounded'
  <2>1. \A x \in Ids : turn'[x].edit = IF x = id THEN 0 ELSE turn[x].edit
    BY <1>5, BoundForms DEF FeedDies, NoTurn
  <2>2. latest' \subseteq latest
    BY <1>5 DEF FeedDies, Without
  <2> QED BY <1>0, <1>5, <2>1, <2>2, ClientBounds DEF FeedDies, ServerBounded, TransitBounded
<1>6. ASSUME ServerRestarts PROVE ServerBounded' /\ TransitBounded'
  <2>1. budget'.transit = budget.transit
    BY <1>6, TroubleBounded DEF ServerRestarts
  <2> QED BY <1>0, <1>6, <2>1, ClientBounds DEF ServerRestarts, ServerBounded, TransitBounded, NoTurn
<1>7. ASSUME NEW p \in budget.transit, LateArrives(p) PROVE ServerBounded' /\ TransitBounded'
  <2>1. p.id \in Ids /\ p.edit \in Nat /\ p.edit <= MaxActions
    BY <1>0, <1>7, BoundForms DEF TransitBounded, Posts
  <2>2. ServerBounded'
    BY <1>0, <1>7, <2>1, PostBounded DEF LateArrives
  <2>3. budget'.transit \subseteq budget.transit
    BY <1>7, BoundForms DEF LateArrives
  <2> QED BY <1>0, <2>2, <2>3 DEF TransitBounded
<1>8. ServerBounded' /\ TransitBounded'
  BY <1>3, <1>4, <1>5, <1>6, <1>7
<1> QED BY <1>2, <1>8 DEF PageBounded

(* So does an attempt that connects, *)
LEMMA ConnectBounded ==
  ASSUME ScreenInv, PageBounded, PostAnswered \/ PostRefused \/ AttachAnswered \/ ConnectBreaks \/ Reconnect
  PROVE  PageBounded'
<1>0. BaseInv /\ ServerBounded /\ AttemptBounded /\ AsideBounded /\ TransitBounded /\ StopBounded
  BY PageForms DEF PageBounded
<1>1. attempt.stage = "connect" => attempt.id \in Ids /\ attempt.edit \in Nat /\ attempt.edit <= MaxActions
  BY <1>0, SaidIsId, BoundForms DEF Busy, AttemptBounded
<1>2. StopBounded' /\ AsideBounded'
  BY <1>0 DEF StopBounded, AsideBounded, PostAnswered, PostRefused, AttachAnswered, ConnectBreaks, Reconnect
<1>3. ASSUME StartReading \/ Replayed PROVE AttemptBounded'
  <2>1. \E to, result : attempt' = [attempt EXCEPT !.stage = to, !.result = result] /\ failed' = failed
    <3>1. CASE StartReading
      <4>1. attempt' = [attempt EXCEPT !.stage = "read", !.result = attempt.result]
        BY <1>0, <3>1, BoundForms DEF StartReading, Attempts
      <4> QED BY <3>1, <4>1 DEF StartReading
    <3>2. CASE Replayed
      BY <3>2 DEF Replayed
    <3> QED BY <1>3, <3>1, <3>2
  <2> QED BY <1>0, <2>1, StageBounded
<1>4. CASE PostAnswered
  <2>1. ServerBounded'
    BY <1>0, <1>1, <1>4, PostBounded DEF PostAnswered, Posting
  <2>2. AttemptBounded'
    BY <1>3, <1>4 DEF PostAnswered
  <2> QED BY <1>0, <1>2, <1>4, <2>1, <2>2 DEF PostAnswered, PageBounded, TransitBounded
<1>5. CASE PostRefused
  <2>1. budget'.transit = budget.transit
    BY <1>0, <1>5, TroubleBounded DEF PostRefused
  <2>2. AttemptBounded'
    BY <1>0, <1>5, SettleBounded DEF PostRefused, TakeBack
  <2> QED BY <1>0, <1>2, <1>5, <2>1, <2>2 DEF PostRefused, PageBounded, TransitBounded, serverVars, ServerBounded
<1>6. CASE AttachAnswered
  <2>1. AttemptBounded'
    BY <1>0, <1>3, <1>6, SettleBounded DEF AttachAnswered, OfferRetry
  <2> QED BY <1>0, <1>2, <1>6, <2>1 DEF AttachAnswered, PageBounded, TransitBounded, serverVars, ServerBounded
<1>7. CASE ConnectBreaks
  <2>1. AttemptBounded'
    BY <1>0, <1>7, BreaksBounded DEF ConnectBreaks
  <2>2. budget'.transit \in {budget.transit, InTransit}
    BY <1>0, <1>7, TroubleBounded DEF ConnectBreaks
  <2>3. TransitBounded'
    BY <1>0, <2>2, TransitKept
  <2>4. ServerBounded'
    BY <1>0, <1>1, <1>7, PostBounded DEF ConnectBreaks, serverVars, ServerBounded
  <2> QED BY <1>2, <2>1, <2>3, <2>4 DEF PageBounded
<1>8. CASE Reconnect
  <2>1. attempt' = [attempt EXCEPT !.stage = "connect", !.result = attempt.result]
    BY <1>0, <1>8, BoundForms DEF Reconnect, Attempts
  <2>2. AttemptBounded'
    BY <1>0, <1>8, <2>1, StageBounded DEF Reconnect
  <2> QED BY <1>0, <1>2, <1>8, <2>2 DEF Reconnect, PageBounded, TransitBounded, serverVars, ServerBounded
<1> QED BY <1>4, <1>5, <1>6, <1>7, <1>8

(* one that reads, *)
LEMMA ReadBounded ==
  ASSUME ScreenInv, PageBounded, ShowPlayer \/ StreamBreaks \/ TurnDone
  PROVE  PageBounded'
<1>0. BaseInv /\ ServerBounded /\ AttemptBounded /\ AsideBounded /\ TransitBounded /\ StopBounded
  BY PageForms DEF PageBounded
<1>1. StopBounded' /\ ServerBounded' /\ AsideBounded'
  BY <1>0 DEF StopBounded, ServerBounded, AsideBounded, serverVars, ShowPlayer, StreamBreaks, TurnDone
<1>2. CASE ShowPlayer
  <2>1. attempt.id \in Ids /\ attempt.cursor < turn[attempt.id].events
    BY <1>0, <1>2, SaidIsId DEF ShowPlayer, Busy
  <2>2. turn[attempt.id].events \in {0, 1}
    BY <2>1, PageForms DEF ChatTrue
  <2>3. attempt.cursor = 0
    BY <1>0, <2>1, <2>2, BoundForms
  <2>4. attempt' = [attempt EXCEPT !.cursor = 1, !.seen = TRUE] /\ failed' = failed
    BY <1>0, <1>2, <2>3, BoundForms DEF ShowPlayer, Attempts
  <2>5. attempt'.edit = attempt.edit /\ attempt'.tries = attempt.tries /\ attempt'.cursor = 1
    BY <1>0, <2>4, BoundForms DEF Attempts
  <2>6. AttemptBounded'
    BY <1>0, <2>4, <2>5 DEF AttemptBounded
  <2> QED BY <1>0, <1>1, <1>2, <2>6 DEF ShowPlayer, PageBounded, TransitBounded
<1>3. CASE StreamBreaks
  <2>1. AttemptBounded'
    BY <1>0, <1>3, BreaksBounded DEF StreamBreaks
  <2>2. budget'.transit = budget.transit
    BY <1>0, <1>3, TroubleBounded DEF StreamBreaks
  <2> QED BY <1>0, <1>1, <2>1, <2>2 DEF PageBounded, TransitBounded
<1>4. CASE TurnDone
  <2>1. AttemptBounded'
    <3>1. ASSUME attempt' = [attempt EXCEPT !.stage = "reload", !.result = "ok"], failed' = failed PROVE AttemptBounded'
      BY <1>0, <3>1, StageBounded
    <3>2. ASSUME OfferRetry(FALSE) PROVE AttemptBounded'
      BY <1>0, <3>2, SettleBounded DEF OfferRetry
    <3>3. ASSUME NEW r, NEW rows, TakeBack(r, rows) PROVE AttemptBounded'
      BY <1>0, <3>3, SettleBounded DEF TakeBack
    <3> QED BY <1>4, <3>1, <3>2, <3>3 DEF TurnDone
  <2> QED BY <1>0, <1>1, <1>4, <2>1 DEF TurnDone, PageBounded, TransitBounded
<1> QED BY <1>2, <1>3, <1>4

(* one that ends, *)
LEMMA EndBounded ==
  ASSUME ScreenInv, PageBounded, Reload \/ ReloadFails \/ AttemptEnds
  PROVE  PageBounded'
<1>0. BaseInv /\ ServerBounded /\ AttemptBounded /\ AsideBounded /\ TransitBounded /\ StopBounded
  BY PageForms DEF PageBounded
<1>1. StopBounded' /\ ServerBounded'
  BY <1>0 DEF StopBounded, ServerBounded, serverVars, Reload, ReloadFails, AttemptEnds
<1>2. budget'.transit = budget.transit
  BY <1>0, TroubleBounded DEF Reload, ReloadFails, AttemptEnds
<1>3. TransitBounded'
  BY <1>0, <1>2 DEF TransitBounded
<1>4. AttemptBounded'
  <2>1. CASE Reload
    BY <1>0, <2>1, SettleBounded DEF Reload
  <2>2. CASE ReloadFails
    BY <1>0, <2>2, SettleBounded DEF ReloadFails
  <2>3. CASE AttemptEnds
    BY <1>0, <2>3, RestBounded DEF AttemptEnds, AttemptBounded
  <2> QED BY <2>1, <2>2, <2>3
<1>5. AsideBounded'
  <2>1. CASE aside' = aside
    BY <1>0, <2>1 DEF AsideBounded
  <2>2. CASE aside' = [aside EXCEPT !.restore = {[id |-> attempt.id, edit |-> attempt.edit, result |-> attempt.result]}]
    <3> DEFINE e == [id |-> attempt.id, edit |-> attempt.edit, result |-> attempt.result]
    <3>1. e.edit <= MaxActions
      BY <1>0 DEF AttemptBounded
    <3> HIDE DEF e
    <3>2. aside' = [aside EXCEPT !.restore = {e}]
      BY <2>2 DEF e
    <3> QED BY <1>0, <3>1, <3>2, BoundForms DEF AsideBounded, Asides
  <2> QED BY <2>1, <2>2 DEF Reload, ReloadFails, AttemptEnds
<1> QED BY <1>1, <1>3, <1>4, <1>5 DEF PageBounded

(* the restore of an edit that failed, *)
LEMMA RestoreBounded ==
  ASSUME ScreenInv, PageBounded, RestoreChat \/ RestoreFails
  PROVE  PageBounded'
<1>0. BaseInv /\ ServerBounded /\ AttemptBounded /\ AsideBounded /\ TransitBounded /\ StopBounded
  BY PageForms DEF PageBounded
<1>1. StopBounded' /\ ServerBounded'
  BY <1>0 DEF StopBounded, ServerBounded, serverVars, RestoreChat, RestoreFails
<1>2. budget'.transit = budget.transit
  BY <1>0, TroubleBounded DEF RestoreChat, RestoreFails
<1>3. AsideBounded'
  BY <1>0, BoundForms DEF RestoreChat, RestoreFails, Restored, AsideBounded, Asides
<1>4. \A f \in failed' : f.edit <= MaxActions
  BY <1>0 DEF RestoreChat, RestoreFails, CanRetry, AttemptBounded, AsideBounded
<1>5. attempt' = attempt
  BY DEF RestoreChat, RestoreFails
<1>6. AttemptBounded'
  BY <1>0, <1>4, <1>5 DEF AttemptBounded
<1> QED BY <1>0, <1>1, <1>2, <1>3, <1>6 DEF PageBounded, TransitBounded

(* and the stop button, *)
LEMMA StopKeepsBounds ==
  ASSUME ScreenInv, PageBounded, StopTurn \/ CancelArrives \/ CancelBreaks \/ CancelAnswered
  PROVE  PageBounded'
<1>0. BaseInv /\ ChatTrue /\ ServerBounded /\ AttemptBounded /\ AsideBounded /\ TransitBounded /\ StopBounded
  BY PageForms DEF PageBounded
<1>1. << >> \in Rows /\ Transcript \in Rows
  <2>1. << >> \in Rows
    BY RowsForms
  <2> QED BY <1>0, <2>1, TrueTranscript DEF TrueRows
<1>2. attempt.stage \in Busy => attempt.id \in Ids
  BY <1>0, SaidIsId
<1>3. stop # NoStop => attempt.stage \in Busy
  BY DEF ScreenInv, StopInv, StopBusy
<1>4. ASSUME Interrupted(attempt.id), latest' = latest, attempt.stage \in Busy PROVE ServerBounded'
  <2> DEFINE to == IF turn[attempt.id].state = "running" THEN "cancelled" ELSE turn[attempt.id].state
  <2>1. turn' = [turn EXCEPT ![attempt.id].state = to]
    BY <1>0, <1>4, BoundForms DEF Interrupted
  <2> HIDE DEF to
  <2> QED BY <1>0, <1>2, <1>4, <2>1, StateBounded
<1>5. CASE StopTurn
  <2>1. stop' = [NoStop EXCEPT !.stage = "asked"]
    BY <1>5 DEF StopTurn
  <2>2. StopBounded'
    BY <1>1, <2>1 DEF StopBounded, NoStop
  <2> QED BY <1>0, <1>5, <2>2 DEF StopTurn, PageBounded, ServerBounded, serverVars, AttemptBounded, AsideBounded, TransitBounded
<1>6. CASE CancelArrives
  <2>1. attempt.stage \in Busy
    BY <1>3, <1>6 DEF CancelArrives, NoStop
  <2>2. ServerBounded'
    BY <1>4, <1>6, <2>1 DEF CancelArrives
  <2>3. StopBounded'
    BY <1>1, <1>6 DEF CancelArrives, StopBounded, NoStop
  <2> QED BY <1>0, <1>6, <2>2, <2>3 DEF CancelArrives, PageBounded, AttemptBounded, AsideBounded, TransitBounded
<1>7. CASE CancelBreaks
  <2>1. attempt.stage \in Busy
    BY <1>3, <1>7 DEF CancelBreaks, NoStop
  <2>2. ServerBounded'
    BY <1>0, <1>4, <1>7, <2>1 DEF CancelBreaks, ServerBounded
  <2>3. budget'.transit = budget.transit
    BY <1>0, <1>7, TroubleBounded DEF CancelBreaks
  <2>4. StopBounded'
    BY <1>1, <1>7 DEF CancelBreaks, StopBounded, NoStop
  <2> QED BY <1>0, <1>7, <2>2, <2>3, <2>4 DEF CancelBreaks, PageBounded, AttemptBounded, AsideBounded, TransitBounded
<1>8. CASE CancelAnswered
  <2>1. budget'.transit \in {budget.transit, InTransit}
    BY <1>0, <1>8, BoundForms DEF CancelAnswered
  <2>2. TransitBounded'
    BY <1>0, <2>1, TransitKept
  <2>3. AttemptBounded'
    <3>1. failed' = {}
      BY <1>8 DEF CancelAnswered
    <3>2. CASE Settle("cancelled")
      BY <1>0, <3>1, <3>2, SettleBounded
    <3>3. CASE attempt' = attempt
      BY <1>0, <3>1, <3>3 DEF AttemptBounded
    <3> QED BY <1>8, <3>2, <3>3 DEF CancelAnswered
  <2>4. StopBounded'
    BY <1>1, <1>8 DEF CancelAnswered, StopBounded, NoStop
  <2> QED BY <1>0, <1>8, <2>2, <2>3, <2>4 DEF CancelAnswered, PageBounded, ServerBounded, AsideBounded, serverVars
<1> QED BY <1>5, <1>6, <1>7, <1>8

(* the player, *)
LEMMA PlayerBounded ==
  ASSUME ScreenInv, PageBounded, Say \/ RetryFailed \/ (\E n \in Ids : EditTurn(n))
  PROVE  PageBounded'
<1>0. BaseInv /\ ServerBounded /\ AttemptBounded /\ AsideBounded /\ TransitBounded /\ StopBounded
  BY PageForms DEF PageBounded
<1>1. UNCHANGED <<serverVars, stop, aside, budget>>
  BY DEF Say, RetryFailed, EditTurn, Act
<1>2. StopBounded' /\ ServerBounded' /\ AsideBounded' /\ TransitBounded'
  BY <1>0, <1>1 DEF StopBounded, ServerBounded, AsideBounded, TransitBounded, serverVars
<1>3. CASE Say
  <2>1. Send(past.said + 1, 0, FALSE, FALSE, RolledBack(screen))
    BY <1>3 DEF Say, Act
  <2>2. 0 <= MaxActions
    BY ClientBounds
  <2>3. AttemptBounded'
    BY <2>1, <2>2, SendBounded
  <2> QED BY <1>2, <2>3 DEF PageBounded
<1>4. CASE RetryFailed
  <2>1. PICK f \in failed :
          LET under == RolledBack(screen)
              s == IF f.edit = 0 THEN under ELSE CutBefore(under, f.edit)
          IN  Send(f.id, f.edit, f.edit # 0, f.edit = 0 /\ f.attach, s)
    BY <1>4 DEF RetryFailed, Act
  <2>2. f.edit <= MaxActions
    BY <1>0 DEF AttemptBounded
  <2>3. AttemptBounded'
    BY <2>1, <2>2, SendBounded
  <2> QED BY <1>2, <2>3 DEF PageBounded
<1>5. ASSUME NEW n \in Ids, EditTurn(n) PROVE AttemptBounded'
  <2>1. n <= MaxActions
    BY ClientBounds DEF Ids
  <2>2. Send(past.said + 1, n, TRUE, FALSE, CutBefore(RolledBack(screen), n))
    BY <1>5 DEF EditTurn, Act
  <2> QED BY <2>1, <2>2, SendBounded
<1> QED BY <1>2, <1>3, <1>4, <1>5 DEF PageBounded

(* and the load of the page. *)
LEMMA LoadBounded ==
  ASSUME ScreenInv, PageBounded, OpenPage \/ LoadTranscript \/ ActiveAnswered \/ Discover
  PROVE  PageBounded'
<1>0. BaseInv /\ ServerBounded /\ AttemptBounded /\ AsideBounded /\ TransitBounded /\ StopBounded
  BY PageForms DEF PageBounded
<1>1. << >> \in Rows
  BY RowsForms
<1>2. StopBounded' /\ ServerBounded'
  <2>1. stop' = stop \/ stop' = NoStop
    BY DEF OpenPage, LoadTranscript, ActiveAnswered, Discover
  <2>2. StopBounded'
    BY <1>0, <1>1, <2>1 DEF StopBounded, NoStop
  <2>3. UNCHANGED serverVars
    BY DEF OpenPage, LoadTranscript, ActiveAnswered, Discover
  <2> QED BY <1>0, <2>2, <2>3 DEF ServerBounded, serverVars
<1>3. budget'.transit \in {budget.transit, InTransit}
  BY <1>0, TroubleBounded DEF OpenPage, LoadTranscript, ActiveAnswered, Discover
<1>4. TransitBounded'
  BY <1>0, <1>3, TransitKept
<1>5. AttemptBounded'
  <2>1. CASE UNCHANGED <<attempt, failed>>
    BY <1>0, <2>1 DEF AttemptBounded
  <2>2. CASE OpenPage
    BY <1>0, <2>2, RestBounded DEF OpenPage
  <2>3. ASSUME NEW f \in aside.found, Send(f.id, f.edit, FALSE, TRUE, RolledBack(screen)) PROVE AttemptBounded'
    <3>1. f.edit <= MaxActions
      BY <1>0 DEF AsideBounded
    <3> QED BY <2>3, <3>1, SendBounded
  <2> QED BY <2>1, <2>2, <2>3 DEF LoadTranscript, ActiveAnswered, Discover
<1>6. AsideBounded'
  <2>1. aside \in Asides
    BY <1>0, BoundForms
  <2>2. CASE OpenPage
    BY <2>2 DEF OpenPage, Opening, AsideBounded
  <2>3. CASE LoadTranscript
    <3>1. aside'.found = aside.found /\ aside'.restore = aside.restore
      BY <2>1, <2>3 DEF LoadTranscript, Asides
    <3> QED BY <1>0, <3>1 DEF AsideBounded
  <2>4. CASE Discover
    <3>1. aside'.found = {} /\ aside'.restore = aside.restore
      BY <2>1, <2>4 DEF Discover, Asides
    <3> QED BY <1>0, <3>1 DEF AsideBounded
  <2>5. CASE ActiveAnswered
    <3>1. CASE aside' = [aside EXCEPT !.load = "done"]
      <4>1. aside'.found = aside.found /\ aside'.restore = aside.restore
        BY <2>1, <3>1 DEF Asides
      <4> QED BY <1>0, <4>1 DEF AsideBounded
    <3>2. ASSUME NEW id \in ActiveTurn,
                 aside' = [aside EXCEPT !.load = "found", !.found = {[id |-> id, edit |-> turn[id].edit]}]
          PROVE  AsideBounded'
      <4> DEFINE f == [id |-> id, edit |-> turn[id].edit]
      <4>1. f.edit <= MaxActions
        BY <1>0 DEF ActiveTurn, Unfinished, ServerBounded
      <4>2. aside' = [aside EXCEPT !.load = "found", !.found = {f}]
        BY <3>2
      <4> HIDE DEF f
      <4>3. aside'.found = {f} /\ aside'.restore = aside.restore
        BY <2>1, <4>2 DEF Asides
      <4> QED BY <1>0, <4>1, <4>3 DEF AsideBounded
    <3> QED BY <2>5, <3>1, <3>2 DEF ActiveAnswered
  <2> QED BY <2>2, <2>3, <2>4, <2>5
<1> QED BY <1>2, <1>4, <1>5, <1>6 DEF PageBounded

(* Every step keeps the bounds. *)
LEMMA PageStaysBounded ==
  ASSUME ScreenInv, PageBounded, [ClientNext]_pageVars
  PROVE  PageBounded'
<1>0. BaseInv
  BY PageForms
<1>1. CASE UNCHANGED pageVars
  BY <1>1 DEF pageVars, serverVars, clientVars, PageBounded, ServerBounded, AttemptBounded, AsideBounded, TransitBounded, StopBounded
<1> QED
  BY <1>0, <1>1, ServerStepBounded, ConnectBounded, ReadBounded, EndBounded, RestoreBounded, StopKeepsBounds,
     PlayerBounded, LoadBounded
  DEF ClientNext

(* The page begins within them. *)
LEMMA PageBoundedFirst == ClientInit => PageBounded
<1>1. << >> \in Rows
  BY RowsForms
<1> QED
  BY <1>1, ClientBounds
  DEF ClientInit, PageBounded, ServerBounded, AttemptBounded, AsideBounded, TransitBounded, StopBounded, NoTurn, AtRest, NoStop, Opening

(* The page and the server it talks to keep their types: no attempt is     *)
(* repeated more often than reconnects allow, an edit replaces a turn that *)
(* can be, and all rows on the screen, under it and in the answer to a     *)
(* stop are of the forms that the timeline shows.                          *)
THEOREM ClientStaysTyped == ClientSpec => []ClientTypeOK
<1>1. ScreenInv /\ PageBounded => ClientTypeOK
  <2> SUFFICES ASSUME ScreenInv, PageBounded PROVE ClientTypeOK
    OBVIOUS
  <2>1. BaseInv /\ ChatTrue /\ screen \in Screens
    BY PageForms
  <2>2. chat \in Seq(Ids) /\ latest \subseteq Ids \X Ids
    BY <2>1 DEF BaseInv, PageTypes, PageBounded, ServerBounded
  <2>3. ASSUME NEW id \in Ids
        PROVE  /\ turn[id].state \in {"none", "running", "saved", "completed", "cancelled", "failed"}
               /\ turn[id].events \in {0, 1} /\ turn[id].edit \in 0 .. MaxActions
    <3>1. turn[id] \in Turns /\ turn[id].edit \in Nat /\ turn[id].edit <= MaxActions
      BY <2>1, BoundForms DEF PageBounded, ServerBounded
    <3>2. turn[id].events \in {0, 1}
      BY <2>1 DEF ChatTrue
    <3>3. turn[id].edit \in 0 .. MaxActions
      BY <3>1, ClientBounds
    <3> QED BY <3>1, <3>2, <3>3 DEF Turns, TurnStates
  <2>4. screen.rows \in Rows /\ \A r \in screen.base : r \in Rows
    BY <2>1 DEF Screens
  <2>5. attempt.stage \in {"rest", "connect", "read", "pause", "reload", "settle"}
    BY <2>1, BoundForms DEF Attempts, PageStages, Busy
  <2>6. attempt.tries \in 0 .. Reconnects /\ attempt.cursor \in {0, 1}
    BY <2>1, BoundForms, ClientBounds DEF PageBounded, AttemptBounded
  <2>7. aside.load \in {"transcript", "active", "found", "done"}
    BY <2>1, BoundForms DEF Asides
  <2> QED BY <2>2, <2>3, <2>4, <2>5, <2>6, <2>7 DEF ClientTypeOK, PageBounded, StopBounded
<1>2. ClientSpec => []ScreenInv
  BY ScreenInit, ScreenStep, PTL DEF ClientSpec
<1>3. ClientSpec => []PageBounded
  BY <1>2, PageStaysBounded, PageBoundedFirst, PTL DEF ClientSpec
<1> QED BY <1>1, <1>2, <1>3, PTL

-----------------------------------------------------------------------------
(* Both ends together, as one run checks them.                             *)

\* A step of one end is a stutter of the other.
LEMMA EndsStep ==
  ASSUME [SafetyNext]_<<controlVars, pageVars, part>>
  PROVE  [ControlNext]_controlVars /\ [ClientNext]_pageVars
BY DEF SafetyNext, controlVars, pageVars

\* Each end follows its own specification.
LEMMA EndsFollow == SafetySpec => ControlSpec /\ ClientSpec
<1>1. SafetyInit => ControlInit /\ ClientInit
  BY DEF SafetyInit
<1> QED BY <1>1, EndsStep, PTL DEF SafetySpec, ControlSpec, ClientSpec

(* Every variable of the control and of the page keeps its type in the     *)
(* composition that the run checks.                                        *)
THEOREM TurnStaysTyped == SafetySpec => []TurnTypesOK
BY EndsFollow, TypeCorrect, ClientStaysTyped, PTL DEF TurnTypesOK
=============================================================================
