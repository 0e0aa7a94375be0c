----------------------------- MODULE FeedPromise -----------------------------
(***************************************************************************)
(* What the server promises to the requests about one turn, without        *)
(* buffers, cursors, watch channels or a registry: one execution runs at a *)
(* time, its receipt says truly whether the turn was saved and ends its    *)
(* log, a client that follows an execution gets its log from the first     *)
(* event to the receipt, and a client is told that there is no such turn   *)
(* only when no execution before its question has played it or still can.  *)
(* TurnFeed implements this specification.                                 *)
(***************************************************************************)
EXTENDS Naturals, Sequences

CONSTANTS
  Subscribers,  \* the HTTP requests about this turn
  Runs          \* the executions of the request, numbered as they begin

VARIABLES
  begun,     \* the executions that have begun
  length,    \* of each execution: how many events it has published
  receipt,   \* of each execution: "none", or how it ended
  saved,     \* the execution whose turn is in the database, if any
  client     \* of each request: what it has been told

promisedVars == <<begun, length, receipt, saved, client>>

Unasked == [phase |-> "idle", run |-> 0, before |-> {}, got |-> << >>, told |-> "none"]

PromisedInit ==
  /\ begun = {}
  /\ length = [r \in Runs |-> 0]
  /\ receipt = [r \in Runs |-> "none"]
  /\ saved = {}
  /\ client = [s \in Subscribers |-> Unasked]

Running == {r \in begun : receipt[r] = "none"}
Follows(s, r) == client[s].phase = "reads" /\ client[s].run = r
Newest(r) == \A q \in begun : q <= r

-----------------------------------------------------------------------------
(* The executions.                                                         *)

Extend(r) ==
  /\ r \in Running
  /\ length' = [length EXCEPT ![r] = @ + 1]
  /\ UNCHANGED <<begun, receipt, saved, client>>

\* The turn is in the database, by one execution.
Keep(r) ==
  /\ r \in Running
  /\ saved = {} /\ saved' = {r}
  /\ UNCHANGED <<begun, length, receipt, client>>

\* The receipt is given once; "completed" is said of a turn that is saved,
\* by this execution or an earlier one, "failed" of an execution that did not.
Seal(r, outcome) ==
  /\ r \in Running
  /\ \/ outcome = "completed" /\ saved # {}
     \/ outcome = "failed" /\ r \notin saved
  /\ receipt' = [receipt EXCEPT ![r] = outcome]
  /\ UNCHANGED <<begun, length, saved, client>>

-----------------------------------------------------------------------------
(* The requests.                                                           *)

Follow(s, r) ==
  /\ client[s].phase = "idle"
  /\ client' = [client EXCEPT ![s].phase = "reads", ![s].run = r]

\* A new execution begins for its client, when no other one runs.
Begin(s, r) ==
  /\ Running = {} /\ \A q \in begun : q < r
  /\ begun' = begun \cup {r}
  /\ Follow(s, r)
  /\ UNCHANGED <<length, receipt, saved>>

\* A client joins the newest execution, whether it runs or has ended.
Join(s, r) ==
  /\ Newest(r)
  /\ Follow(s, r)
  /\ UNCHANGED <<begun, length, receipt, saved>>

\* The next event of the execution.
Deliver(s, r) ==
  /\ Follows(s, r)
  /\ Len(client[s].got) < length[r]
  /\ client' = [client EXCEPT ![s].got = Append(@, Len(client[s].got) + 1)]
  /\ UNCHANGED <<begun, length, receipt, saved>>

\* The receipt, after every event.
Close(s, r) ==
  /\ Follows(s, r)
  /\ receipt[r] # "none"
  /\ Len(client[s].got) = length[r]
  /\ client' = [client EXCEPT ![s].phase = "closed", ![s].told = receipt[r]]
  /\ UNCHANGED <<begun, length, receipt, saved>>

\* A client asks about the turn while nothing runs it.
Ask(s) ==
  /\ client[s].phase = "idle"
  /\ Running = {}
  /\ client' = [client EXCEPT ![s].phase = "lookup", ![s].before = begun]
  /\ UNCHANGED <<begun, length, receipt, saved>>

Replay(s) ==
  /\ client[s].phase = "lookup"
  /\ saved # {}
  /\ client' = [client EXCEPT ![s].phase = "replayed"]
  /\ UNCHANGED <<begun, length, receipt, saved>>

\* There is no such turn: all that was begun for it before has failed.
Refuse(s) ==
  /\ client[s].phase = "lookup"
  /\ saved = {}
  /\ \A r \in client[s].before : receipt[r] = "failed"
  /\ client' = [client EXCEPT ![s].phase = "missing"]
  /\ UNCHANGED <<begun, length, receipt, saved>>

GoAway(s) ==
  /\ client[s].phase \in {"reads", "lookup"}
  /\ client' = [client EXCEPT ![s] = [Unasked EXCEPT !.phase = "left"]]
  /\ UNCHANGED <<begun, length, receipt, saved>>

PromisedNext ==
  \/ \E r \in begun : Extend(r) \/ Keep(r) \/ \E outcome \in {"completed", "failed"} : Seal(r, outcome)
  \/ \E s \in Subscribers :
       \/ Ask(s) \/ Replay(s) \/ Refuse(s) \/ GoAway(s)
       \/ \E r \in Runs \ begun : Begin(s, r)
       \/ \E r \in begun : Join(s, r) \/ Deliver(s, r) \/ Close(s, r)

PromisedSpec == PromisedInit /\ [][PromisedNext]_promisedVars
=============================================================================
