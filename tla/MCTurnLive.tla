----------------------------- MODULE MCTurnLive -----------------------------
(* Turns, cancels and deletes that must end, for TLC. *)
EXTENDS MCTurnControl

-----------------------------------------------------------------------------
(* Two scenarios of the liveness run, each with its own clients: cancels of  *)
(* two invocations, of one request id or of two that queue for their chat,   *)
(* and two deletes against one invocation.                                   *)

CONSTANTS
  Second,    \* the handler that only the cancels need
  Own        \* the request id of the other handlers: which one makes no difference

VARIABLE scenario

LiveInit == ControlInit /\ scenario \in {"cancels", "deletes"}

LiveNext ==
  /\ ControlNext
  /\ scenario = "cancels" => deleteStage' = deleteStage
  /\ scenario = "deletes" => cancelStage' = cancelStage /\ stage'[Second] = "free"
  /\ \A h \in Handlers \ {Second} : post'[h] # None => post'[h].req = Own
  /\ UNCHANGED scenario

LiveSpec == LiveInit /\ [][LiveNext]_<<controlVars, scenario>> /\ ControlFairness
=============================================================================
