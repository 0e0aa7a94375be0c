----------------------------- MODULE TurnPromise -----------------------------
(***************************************************************************)
(* What the turn service promises about one execution of a turn, without   *)
(* flags, fences or locks: it is persisted at most once, its receipt says  *)
(* truly whether it was, and once a cancel or a delete has settled it the  *)
(* question is closed.  TurnControl implements this specification.         *)
(***************************************************************************)
CONSTANT Turns    \* executions of turns

VARIABLES
  verdict,   \* "open", "committed" (in the database) or "dropped"
  receipt,   \* what subscribers were told: "none", "committed" or "dropped"
  settled    \* the turns whose commit race a cancel or a delete has resolved

promiseVars == <<verdict, receipt, settled>>

PromiseInit ==
  /\ verdict = [t \in Turns |-> "open"]
  /\ receipt = [t \in Turns |-> "none"]
  /\ settled = {}

\* The turn is persisted, which nobody may have been promised will not happen.
Commit(t) ==
  /\ verdict[t] = "open"
  /\ t \notin settled
  /\ verdict' = [verdict EXCEPT ![t] = "committed"]
  /\ UNCHANGED <<receipt, settled>>

\* The turn ends without a trace in the database.
Drop(t) ==
  /\ verdict[t] = "open"
  /\ verdict' = [verdict EXCEPT ![t] = "dropped"]
  /\ UNCHANGED <<receipt, settled>>

\* Subscribers learn the verdict.
Tell(t) ==
  /\ verdict[t] # "open"
  /\ receipt[t] = "none"
  /\ receipt' = [receipt EXCEPT ![t] = verdict[t]]
  /\ UNCHANGED <<verdict, settled>>

\* A cancel or a delete resolves the race of a turn, whatever the verdict.
Settle(t) ==
  /\ settled' = settled \cup {t}
  /\ UNCHANGED <<verdict, receipt>>

\* The process stops: the turns it had received are settled, what was open
\* among them is dropped.
Stop(received) ==
  /\ verdict' = [t \in Turns |-> IF t \in received /\ verdict[t] = "open"
                                 THEN "dropped" ELSE verdict[t]]
  /\ settled' = settled \cup received
  /\ UNCHANGED receipt

PromiseNext ==
  \/ \E received \in SUBSET Turns : Stop(received)
  \/ \E t \in Turns : Commit(t) \/ Drop(t) \/ Tell(t) \/ Settle(t)

PromiseSpec == PromiseInit /\ [][PromiseNext]_promiseVars

=============================================================================
