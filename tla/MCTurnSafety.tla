---------------------------- MODULE MCTurnSafety ----------------------------
(* Both ends of a turn, checked in one run: its control on the server, and *)
(* the client that posts, follows, stops and repeats it.                   *)
EXTENDS MCTurnControl, Client

VARIABLE part

\* Bound: a page load is the only trouble so far, and no post is late, where a
\* turn races with it, and where rows are adrift and the last turn has been said.
Races == aside.load # "done" /\ attempt # AtRest
FewTroubles ==
  Races \/ (past.adrift # {} /\ past.said = MaxActions)
    => budget.troubles >= MaxTroubles - 1 /\ budget.transit = {}

SafetyInit == ControlInit /\ ClientInit /\ part \in {"server", "client"}

SafetyNext ==
  /\ \/ part = "server" /\ ControlNext /\ UNCHANGED pageVars
     \/ part = "client" /\ ClientNext /\ FewTroubles' /\ UNCHANGED controlVars
  /\ UNCHANGED part

SafetySpec == SafetyInit /\ [][SafetyNext]_<<controlVars, pageVars, part>>

(* Every variable has its type. *)
TurnTypesOK == ControlTypeOK /\ ClientTypeOK
=============================================================================
