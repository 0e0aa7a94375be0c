------------------------------ MODULE TurnFeed ------------------------------
(***************************************************************************)
(* The event feed of one turn request: the server owns the model stream    *)
(* and buffers its events; every SSE response, the first one or one that   *)
(* attaches later, is a subscriber with a cursor of its own.  The registry *)
(* holds the feed weakly: it lives while the task that drives the turn or  *)
(* a subscriber holds it.  A request may be posted again: while it runs    *)
(* the post attaches, afterwards it starts another execution, which finds  *)
(* the turn saved or plays it.                                             *)
(*                                                                         *)
(* An event is its position in the feed.                                   *)
(***************************************************************************)
EXTENDS Integers, Sequences

CONSTANTS
  Subscribers,  \* the HTTP requests about this turn
  MaxRuns,      \* bound on the executions of the request
  MaxEvents     \* bound on the events of one execution

ASSUME FeedBounds == MaxRuns \in Nat \ {0} /\ MaxEvents \in Nat

Runs == 1..MaxRuns

VARIABLES
  feed,     \* of each execution: its task, its events, its terminal receipt
  entry,    \* the execution the registry names; 0: no entry
  savedBy,  \* the execution whose turn is in the database; 0: none
  reader    \* what each HTTP request has read

feedVars == <<feed, entry, savedBy, reader>>

Receipts == {"none", "completed", "failed"}

(* driver: the task of the execution; the driver that awaits it, and       *)
(* publishes the terminal; version: the value of the watch channel.        *)
FeedRecords ==
  [driver : {"unborn", "runs", "told", "panicked", "ended", "finished", "gone"},
   result : Receipts, events : Nat, terminal : Receipts, version : Nat]
ReaderRecords ==
  [stage : {"idle", "lookup", "subscribe", "read", "frames", "wait", "closed",
             "replayed", "missing", "left"},
   run : 0..MaxRuns, cursor : Nat, from : Nat, upto : Nat, seen : Nat,
   terminal : Receipts, got : Seq(Nat)]

Unborn == [driver |-> "unborn", result |-> "none", events |-> 0, terminal |-> "none", version |-> 0]
Idle == [stage |-> "idle", run |-> 0, cursor |-> 0, from |-> 0, upto |-> 0, seen |-> 0,
         terminal |-> "none", got |-> << >>]

FeedInit ==
  /\ feed = [r \in Runs |-> Unborn]
  /\ entry = 0
  /\ savedBy = 0
  /\ reader = [s \in Subscribers |-> Idle]

-----------------------------------------------------------------------------
(* The registry.                                                           *)

Streaming(s) == reader[s].stage \in {"subscribe", "read", "frames", "wait"}

\* Mutant of Alive: the driver does not hold the control it publishes to.
HeldByReaders(r) == \E s \in Subscribers : Streaming(s) /\ reader[s].run = r

(* Weak::upgrade.                                                          *)
Alive(r) ==
  \/ feed[r].driver \in {"runs", "told", "panicked", "ended", "finished"}
  \/ \E s \in Subscribers : Streaming(s) /\ reader[s].run = r

Named == entry # 0 /\ Alive(entry)

AttachTo(s, r) == [reader EXCEPT ![s].stage = "subscribe", ![s].run = r]

(* POST /turn: a live execution that has not finished is joined, else one  *)
(* is registered and started.                                              *)
PostJoins(s) ==
  /\ reader[s].stage = "idle"
  /\ Named /\ feed[entry].terminal = "none"
  /\ reader' = AttachTo(s, entry)
  /\ UNCHANGED <<feed, entry, savedBy>>

PostStarts(s) ==
  /\ reader[s].stage = "idle"
  /\ ~ (Named /\ feed[entry].terminal = "none")
  /\ \E r \in Runs :
       /\ feed[r].driver = "unborn"
       /\ \A q \in 1..(r - 1) : feed[q].driver # "unborn"
       /\ feed' = [feed EXCEPT ![r].driver = "runs"]
       /\ entry' = r
       /\ reader' = AttachTo(s, r)
  /\ UNCHANGED savedBy

(* GET /turn/{id}/stream: the feed, finished or not, as long as it lives.  *)
GetAttaches(s) ==
  /\ reader[s].stage = "idle"
  /\ Named
  /\ reader' = AttachTo(s, entry)
  /\ UNCHANGED <<feed, entry, savedBy>>

(* Otherwise the dead entry is dropped and the database is asked.  The     *)
(* request remembers the last execution that was registered before it.     *)
GetMisses(s) ==
  /\ reader[s].stage = "idle"
  /\ ~ Named
  /\ entry' = 0
  /\ \E r \in 0..MaxRuns :
       /\ \A q \in Runs : feed[q].driver # "unborn" <=> q <= r
       /\ reader' = [reader EXCEPT ![s].stage = "lookup", ![s].run = r]
  /\ UNCHANGED <<feed, savedBy>>

Lookup(s) ==
  /\ reader[s].stage = "lookup"
  /\ reader' = [reader EXCEPT ![s].stage = IF savedBy # 0 THEN "replayed" ELSE "missing"]
  /\ UNCHANGED <<feed, entry, savedBy>>

-----------------------------------------------------------------------------
(* The execution and its driver.                                           *)

(* publish: the event goes into the buffer, then the watch channel moves.  *)
Publish(r) ==
  /\ feed[r].driver = "runs"
  /\ savedBy = 0
  /\ feed[r].events < MaxEvents
  /\ feed' = [feed EXCEPT ![r].events = @ + 1, ![r].driver = "told"]
  /\ UNCHANGED <<entry, savedBy, reader>>

Notify(r) ==
  /\ feed[r].driver = "told"
  /\ feed' = [feed EXCEPT ![r].version = @ + 1, ![r].driver = "runs"]
  /\ UNCHANGED <<entry, savedBy, reader>>

(* execute_turn returns: the turn had been saved, is saved now, or failed  *)
(* or was cancelled.                                                       *)
Returns(r, receipt) == feed' = [feed EXCEPT ![r].driver = "ended", ![r].result = receipt]

Replays(r) ==
  /\ feed[r].driver = "runs"
  /\ savedBy # 0
  /\ Returns(r, "completed")
  /\ UNCHANGED <<entry, savedBy, reader>>

Saves(r) ==
  /\ feed[r].driver = "runs"
  /\ savedBy = 0
  /\ savedBy' = r
  /\ Returns(r, "completed")
  /\ UNCHANGED <<entry, reader>>

Fails(r) ==
  /\ feed[r].driver = "runs"
  /\ Returns(r, "failed")
  /\ UNCHANGED <<entry, savedBy, reader>>

Panics(r) ==
  /\ feed[r].driver = "runs"
  /\ feed' = [feed EXCEPT ![r].driver = "panicked"]
  /\ UNCHANGED <<entry, savedBy, reader>>

\* Mutant of Joins: without the nested spawn a panic takes the driver with it.
DiesWithIt(r) ==
  /\ feed[r].driver = "panicked"
  /\ feed' = [feed EXCEPT ![r].driver = "gone"]
  /\ UNCHANGED <<entry, savedBy, reader>>

(* The driver awaits the nested task: a panic becomes an error event and a *)
(* failed receipt.                                                         *)
Joins(r) ==
  /\ feed[r].driver = "panicked"
  /\ feed' = [feed EXCEPT ![r].driver = "ended", ![r].result = "failed",
                          ![r].events = @ + 1, ![r].version = @ + 1]
  /\ UNCHANGED <<entry, savedBy, reader>>

Finish(r) ==
  /\ feed[r].driver = "ended"
  /\ feed' = [feed EXCEPT ![r].terminal = feed[r].result, ![r].driver = "finished"]
  /\ UNCHANGED <<entry, savedBy, reader>>

NotifyFinish(r) ==
  /\ feed[r].driver = "finished"
  /\ feed' = [feed EXCEPT ![r].version = @ + 1, ![r].driver = "gone"]
  /\ UNCHANGED <<entry, savedBy, reader>>

-----------------------------------------------------------------------------
(* A subscriber.                                                           *)

Subscribe(s) ==
  /\ reader[s].stage = "subscribe"
  /\ reader' = [reader EXCEPT ![s].stage = "read", ![s].seen = feed[reader[s].run].version]
  /\ UNCHANGED <<feed, entry, savedBy>>

(* feed_snapshot: the events beyond the cursor.                            *)
Slice(s) ==
  LET n == feed[reader[s].run].events
      from == IF reader[s].cursor <= n THEN reader[s].cursor ELSE n
  IN  [from |-> from, upto |-> n, cursor |-> reader[s].cursor + (n - from)]

(* Events and terminal are copied under one lock.                          *)
CopyFeed(s) ==
  /\ reader[s].stage = "read"
  /\ reader' = [reader EXCEPT ![s].stage = "frames", ![s].from = Slice(s).from,
                              ![s].upto = Slice(s).upto, ![s].cursor = Slice(s).cursor,
                              ![s].terminal = feed[reader[s].run].terminal]
  /\ UNCHANGED <<feed, entry, savedBy>>

Frame(s) ==
  /\ reader[s].stage = "frames"
  /\ reader[s].from < reader[s].upto
  /\ reader' = [reader EXCEPT ![s].from = @ + 1, ![s].got = Append(@, reader[s].from + 1)]
  /\ UNCHANGED <<feed, entry, savedBy>>

\* Mutant of FramesEnd: the receipt is read from the feed once the frames
\* are out, not from the copy they came with.
EndsUnlocked(s) ==
  /\ reader[s].stage = "frames"
  /\ reader[s].from = reader[s].upto
  /\ reader' = [reader EXCEPT ![s].terminal = feed[reader[s].run].terminal,
                             ![s].stage = IF feed[reader[s].run].terminal = "none" THEN "wait" ELSE "closed"]
  /\ UNCHANGED <<feed, entry, savedBy>>

(* The frames are out: done, or wait.                                      *)
FramesEnd(s) ==
  /\ reader[s].stage = "frames"
  /\ reader[s].from = reader[s].upto
  /\ reader' = [reader EXCEPT ![s].stage = IF reader[s].terminal = "none" THEN "wait" ELSE "closed"]
  /\ UNCHANGED <<feed, entry, savedBy>>

(* changed(): the channel has moved since it was last seen.                *)
Wake(s) ==
  /\ reader[s].stage = "wait"
  /\ reader[s].seen # feed[reader[s].run].version
  /\ reader' = [reader EXCEPT ![s].stage = "read", ![s].seen = feed[reader[s].run].version]
  /\ UNCHANGED <<feed, entry, savedBy>>

(* The ping interval passes. *)
Ping(s) ==
  /\ reader[s].stage = "wait"
  /\ reader' = [reader EXCEPT ![s].stage = "read"]
  /\ UNCHANGED <<feed, entry, savedBy>>

(* The client goes away: only this subscription ends. *)
Leave(s) ==
  /\ Streaming(s) \/ reader[s].stage = "lookup"
  /\ reader' = [reader EXCEPT ![s] = [Idle EXCEPT !.stage = "left"]]
  /\ UNCHANGED <<feed, entry, savedBy>>

ReaderStep(s) ==
  \/ Subscribe(s) \/ CopyFeed(s) \/ Frame(s) \/ FramesEnd(s) \/ Wake(s)

DriverStep(r) == Notify(r) \/ Joins(r) \/ Finish(r) \/ NotifyFinish(r)

FeedNext ==
  \/ \E s \in Subscribers :
       \/ PostJoins(s) \/ PostStarts(s) \/ GetAttaches(s) \/ GetMisses(s) \/ Lookup(s)
       \/ ReaderStep(s) \/ Ping(s) \/ Leave(s)
  \/ \E r \in Runs :
       \/ Publish(r) \/ Replays(r) \/ Saves(r) \/ Fails(r) \/ Panics(r)
       \/ DriverStep(r)

(* The runtime schedules a driver whose task has ended, and the stream of  *)
(* a client that reads.  A model call may never return.                    *)
FeedFairness ==
  /\ \A r \in Runs : WF_feedVars(DriverStep(r))
  /\ \A s \in Subscribers : WF_feedVars(ReaderStep(s))

FeedSpec == FeedInit /\ [][FeedNext]_feedVars
FairFeedSpec == FeedSpec /\ FeedFairness

-----------------------------------------------------------------------------
FeedTypeOK ==
  /\ feed \in [Runs -> FeedRecords]
  /\ entry \in 0..MaxRuns
  /\ savedBy \in 0..MaxRuns
  /\ reader \in [Subscribers -> ReaderRecords]

(* Whenever a client attaches, and however its reads interleave with the   *)
(* events, it gets each event once and in order, and when its stream is    *)
(* closed by the receipt it has every event of the turn (turn_feed_response*)
(* "replay everything published so far, tail live events, then the single  *)
(* terminal frame").                                                       *)
FeedInOrder ==
  \A s \in Subscribers :
    LET d == reader[s]
    IN  /\ \A i \in 1..Len(d.got) : d.got[i] = i
        /\ d.stage = "closed" =>
             /\ Len(d.got) = feed[d.run].events
             /\ d.terminal = feed[d.run].terminal

(* GET /turn/{id}/stream answers 404 only about a turn that no execution   *)
(* registered before it has saved or still can: the lookup comes after the *)
(* registry was found empty (get_turn_stream).  The driver of an execution *)
(* that another one followed may be about to let go of its finished feed.  *)
NotFoundIsTrue ==
  \A s \in Subscribers :
    reader[s].stage = "missing" =>
      /\ savedBy = 0 \/ savedBy > reader[s].run
      /\ \A r \in 1..reader[s].run : feed[r].driver \in {"finished", "gone"}

(* Once the execution of a turn is over, by a panic too, every client that *)
(* stays gets the receipt (post_turn: "instead of a feed that never        *)
(* terminates").                                                           *)
FeedEnds ==
  \A s \in Subscribers : \A r \in Runs :
    (Streaming(s) /\ reader[s].run = r /\ feed[r].driver \notin {"runs", "told"})
      ~> ~ Streaming(s)

-----------------------------------------------------------------------------
(***************************************************************************)
(* The refinement mapping.  An execution has begun when its task is born;  *)
(* its receipt is given when it is stored.  A subscriber in any stage of   *)
(* its stream reads, and one that asks the database asks about the         *)
(* executions registered before.                                           *)
(***************************************************************************)
Started == {r \in Runs : feed[r].driver # "unborn"}

Heard(d) ==
  [phase |-> IF d.stage \in {"subscribe", "read", "frames", "wait"} THEN "reads" ELSE d.stage,
   run |-> IF d.stage \in {"lookup", "missing", "replayed"} THEN 0 ELSE d.run,
   before |-> IF d.stage \in {"lookup", "missing", "replayed"} THEN 1 .. d.run ELSE {},
   got |-> d.got,
   told |-> IF d.stage = "closed" THEN d.terminal ELSE "none"]

Promised ==
  INSTANCE FeedPromise
    WITH begun <- Started,
         length <- [r \in Runs |-> feed[r].events],
         receipt <- [r \in Runs |-> feed[r].terminal],
         saved <- Runs \cap {savedBy},
         client <- [s \in Subscribers |-> Heard(reader[s])]

(***************************************************************************)
(* The feed keeps the promise of FeedPromise (post_turn, get_turn_stream,  *)
(* turn_feed_response): one execution at a time; true receipts, given once *)
(* and after the last event; each subscriber gets each event once and in   *)
(* order and then the receipt, whenever it attaches and however its reads  *)
(* interleave with the events; and 404 only about a turn that nothing has  *)
(* saved or still can.                                                     *)
(***************************************************************************)
KeepsFeedPromise ==
  /\ Promised!PromisedInit
  /\ [][UNCHANGED feedVars \/ Promised!PromisedNext]_Promised!promisedVars
=============================================================================
