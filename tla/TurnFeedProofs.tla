--------------------------- MODULE TurnFeedProofs ---------------------------
(***************************************************************************)
(* How a turn comes to its readers, for any number of requests, executions *)
(* and events: every subscriber of a feed gets each event once and in order*)
(* and the receipt last, a turn is reported missing only when it is, and   *)
(* the feed implements FeedPromise.                                        *)
(***************************************************************************)
EXTENDS TurnFeed, TLAPS

-----------------------------------------------------------------------------
(* The feed of a turn.                                                     *)


(* An execution that is over has a receipt, and one with a receipt is over:*)
(* neither its events nor its receipt change any more.                     *)
RunOK(f) ==
  /\ f.driver = "ended" => f.result # "none"
  /\ f.terminal # "none" <=> f.driver \in {"finished", "gone"}

ReceiptInv == \A r \in Runs : RunOK(feed[r])

(* A subscriber has the events below its cursor, or below the part of its  *)
(* snapshot that it has not sent yet; a snapshot with a receipt is whole.  *)
CursorOK(d) ==
  /\ \A i \in 1..Len(d.got) : d.got[i] = i
  /\ d.stage = "idle" => d.got = << >> /\ d.cursor = 0
  /\ d.stage \in {"subscribe", "read", "frames", "wait", "closed"} => d.run \in Runs
  /\ d.stage \in {"subscribe", "read", "wait"} =>
       Len(d.got) = d.cursor /\ d.cursor <= feed[d.run].events
  /\ d.stage = "frames" =>
       /\ Len(d.got) = d.from /\ d.from <= d.upto
       /\ d.cursor = d.upto /\ d.upto <= feed[d.run].events
       /\ d.terminal # "none" =>
            d.terminal = feed[d.run].terminal /\ d.upto = feed[d.run].events
  /\ d.stage = "closed" =>
       /\ d.terminal # "none" /\ d.terminal = feed[d.run].terminal
       /\ Len(d.got) = feed[d.run].events

CursorInv == \A s \in Subscribers : CursorOK(reader[s])

(* Who looks a turn up has found the executions before finished.           *)
LookupOK(d) ==
  /\ d.stage \in {"lookup", "missing"} =>
       \A r \in 1 .. d.run : feed[r].driver \in {"finished", "gone"}
  /\ d.stage = "missing" => savedBy = 0 \/ savedBy > d.run

(* Only the execution the registry names can be without a receipt.         *)
RegistryInv ==
  /\ \A r \in Runs : feed[r].driver # "unborn" /\ r # entry => feed[r].terminal # "none"
  /\ entry # 0 => feed[entry].driver # "unborn"
  /\ \A s \in Subscribers : LookupOK(reader[s])

FeedInv == FeedTypeOK /\ ReceiptInv /\ CursorInv /\ RegistryInv

-----------------------------------------------------------------------------
LEMMA FeedInvInit == FeedInit => FeedInv
BY FeedBounds DEF FeedInit, FeedInv, FeedTypeOK, ReceiptInv, CursorInv, RegistryInv, FeedRecords,
  ReaderRecords, Receipts, Unborn, Idle, Runs, RunOK, CursorOK, LookupOK

\* A step of a reader that leaves the executions and the registry alone.
LEMMA ReaderMoves ==
  ASSUME FeedInv, NEW s \in Subscribers, NEW d \in ReaderRecords,
         reader' = [reader EXCEPT ![s] = d], UNCHANGED <<feed, entry, savedBy>>,
         CursorOK(d), LookupOK(d)
  PROVE  FeedInv'
<1>1. FeedTypeOK'
  BY DEF FeedInv, FeedTypeOK
<1>2. \A t \in Subscribers : reader'[t] = IF t = s THEN d ELSE reader[t]
  BY DEF FeedInv, FeedTypeOK
<1>3. CursorInv'
  BY <1>2 DEF FeedInv, CursorInv, CursorOK
<1>4. RegistryInv'
  BY <1>2 DEF FeedInv, RegistryInv, LookupOK
<1> QED BY <1>1, <1>3, <1>4 DEF FeedInv, ReceiptInv, RunOK

\* A step of an execution: events are added until there is a receipt.
LEMMA ExecutionMoves ==
  ASSUME FeedInv, NEW r \in Runs, NEW f \in FeedRecords,
         feed' = [feed EXCEPT ![r] = f], UNCHANGED <<entry, reader>>,
         savedBy' = savedBy \/ (savedBy' = r /\ feed[r].driver = "runs"),
         f.driver # "unborn", feed[r].driver # "unborn", RunOK(f),
         f.events >= feed[r].events,
         feed[r].terminal # "none" => f.terminal = feed[r].terminal /\ f.events = feed[r].events
  PROVE  FeedInv'
<1>1. FeedTypeOK'
  BY DEF FeedInv, FeedTypeOK, Runs
<1>2. \A q \in Runs : feed'[q] = IF q = r THEN f ELSE feed[q]
  BY DEF FeedInv, FeedTypeOK
<1>3. ReceiptInv'
  BY <1>2 DEF FeedInv, ReceiptInv
<1>4. \A q \in Runs : /\ feed[q].events \in Nat /\ feed'[q].events \in Nat
                      /\ feed'[q].events >= feed[q].events
                      /\ feed[q].terminal # "none" => /\ feed'[q].terminal = feed[q].terminal
                                                      /\ feed'[q].events = feed[q].events
  BY <1>2 DEF FeedInv, FeedTypeOK, FeedRecords
<1>5. ASSUME NEW s \in Subscribers PROVE CursorOK(reader[s])'
  <2>1. reader[s] \in ReaderRecords /\ CursorOK(reader[s])
    BY DEF FeedInv, FeedTypeOK, CursorInv
  <2> QED BY <1>4, <2>1 DEF CursorOK, ReaderRecords
<1>6. feed[r].terminal # "none" => f.terminal # "none"
  OBVIOUS
<1>7. \A q \in Runs : feed[q].driver \in {"finished", "gone"} => feed'[q].driver \in {"finished", "gone"}
  BY <1>2, <1>6 DEF FeedInv, ReceiptInv, RunOK
<1>8. ASSUME NEW s \in Subscribers PROVE LookupOK(reader[s])'
  <2>1. reader[s] \in ReaderRecords /\ LookupOK(reader[s]) /\ savedBy \in 0 .. MaxRuns
    BY DEF FeedInv, FeedTypeOK, RegistryInv
  <2>2. \A q \in 1 .. reader[s].run : q \in Runs
    BY <2>1, FeedBounds DEF ReaderRecords, Runs
  <2>3. reader[s].stage = "missing" /\ feed[r].driver = "runs" => r > reader[s].run
    BY <2>1, FeedBounds DEF LookupOK, ReaderRecords, Runs
  <2> QED BY <1>7, <2>1, <2>2, <2>3 DEF LookupOK
<1>9. RegistryInv'
  BY <1>2, <1>6, <1>8, FeedBounds DEF FeedInv, RegistryInv, FeedTypeOK, Runs
<1> QED BY <1>1, <1>3, <1>5, <1>9 DEF FeedInv, CursorInv

LEMMA FeedInvNext == FeedInv /\ [FeedNext]_feedVars => FeedInv'
<1> SUFFICES ASSUME FeedInv, [FeedNext]_feedVars PROVE FeedInv'
  OBVIOUS
<1> USE DEF FeedInv
<1>1. ASSUME NEW s \in Subscribers, PostJoins(s) PROVE FeedInv'
  <2>1. reader[s] \in ReaderRecords
    BY DEF FeedTypeOK
  <2> DEFINE d == [reader[s] EXCEPT !.stage = "subscribe", !.run = entry]
  <2>a. entry \in Runs /\ feed[entry] \in FeedRecords /\ reader[s].stage = "idle"
    BY <1>1, FeedBounds DEF PostJoins, Named, FeedTypeOK, Runs
  <2>b. entry \in 0 .. MaxRuns
    BY DEF FeedTypeOK
  <2>2. d \in ReaderRecords
    BY <2>1, <2>b DEF ReaderRecords
  <2>3. reader' = [reader EXCEPT ![s] = d] /\ UNCHANGED <<feed, entry, savedBy>>
    BY <1>1 DEF PostJoins, AttachTo, FeedTypeOK
  <2>4. CursorOK(d) /\ LookupOK(d)
    BY <2>1, <2>a DEF CursorOK, LookupOK, CursorInv, ReaderRecords, FeedRecords
  <2> QED BY <2>2, <2>3, <2>4, ReaderMoves
<1>2. ASSUME NEW s \in Subscribers, GetAttaches(s) PROVE FeedInv'
  <2>1. reader[s] \in ReaderRecords
    BY DEF FeedTypeOK
  <2> DEFINE d == [reader[s] EXCEPT !.stage = "subscribe", !.run = entry]
  <2>a. entry \in Runs /\ feed[entry] \in FeedRecords /\ reader[s].stage = "idle"
    BY <1>2, FeedBounds DEF GetAttaches, Named, FeedTypeOK, Runs
  <2>b. entry \in 0 .. MaxRuns
    BY DEF FeedTypeOK
  <2>2. d \in ReaderRecords
    BY <2>1, <2>b DEF ReaderRecords
  <2>3. reader' = [reader EXCEPT ![s] = d] /\ UNCHANGED <<feed, entry, savedBy>>
    BY <1>2 DEF GetAttaches, AttachTo, FeedTypeOK
  <2>4. CursorOK(d) /\ LookupOK(d)
    BY <2>1, <2>a DEF CursorOK, LookupOK, CursorInv, ReaderRecords, FeedRecords
  <2> QED BY <2>2, <2>3, <2>4, ReaderMoves
<1>3. ASSUME NEW s \in Subscribers, Lookup(s) PROVE FeedInv'
  <2>1. reader[s] \in ReaderRecords
    BY DEF FeedTypeOK
  <2> DEFINE d == [reader[s] EXCEPT !.stage = IF savedBy # 0 THEN "replayed" ELSE "missing"]
  <2>2. d \in ReaderRecords
    BY <1>3, <2>1, FeedBounds DEF ReaderRecords, Receipts, FeedTypeOK
  <2>3. reader' = [reader EXCEPT ![s] = d] /\ UNCHANGED <<feed, entry, savedBy>>
    BY <1>3 DEF Lookup, FeedTypeOK
  <2>4. CursorOK(d) /\ LookupOK(d)
    BY <1>3, <2>1 DEF Lookup, CursorOK, LookupOK, CursorInv, RegistryInv, ReaderRecords, FeedTypeOK
  <2> QED BY <2>2, <2>3, <2>4, ReaderMoves
<1>4. ASSUME NEW s \in Subscribers, Subscribe(s) PROVE FeedInv'
  <2>1. reader[s] \in ReaderRecords
    BY DEF FeedTypeOK
  <2> DEFINE d == [reader[s] EXCEPT !.stage = "read", !.seen = feed[reader[s].run].version]
  <2>a. reader[s].run \in Runs
    BY <1>4 DEF Subscribe, CursorInv, CursorOK
  <2>b. feed[reader[s].run] \in FeedRecords
    BY <2>a DEF FeedTypeOK
  <2>c. /\ feed[reader[s].run].version \in Nat /\ feed[reader[s].run].events \in Nat
        /\ feed[reader[s].run].terminal \in Receipts
    BY <2>b DEF FeedRecords
  <2>2. d \in ReaderRecords
    BY <2>1, <2>c DEF ReaderRecords
  <2>3. reader' = [reader EXCEPT ![s] = d] /\ UNCHANGED <<feed, entry, savedBy>>
    BY <1>4 DEF Subscribe, FeedTypeOK
  <2>4. CursorOK(d) /\ LookupOK(d)
    BY <1>4, <2>1 DEF Subscribe, CursorOK, LookupOK, CursorInv, RegistryInv, ReaderRecords, CursorInv, CursorOK, FeedTypeOK, FeedRecords
  <2> QED BY <2>2, <2>3, <2>4, ReaderMoves
<1>5. ASSUME NEW s \in Subscribers, CopyFeed(s) PROVE FeedInv'
  <2>1. reader[s] \in ReaderRecords
    BY DEF FeedTypeOK
  <2> DEFINE d == [reader[s] EXCEPT !.stage = "frames", !.from = Slice(s).from, !.upto = Slice(s).upto, !.cursor = Slice(s).cursor, !.terminal = feed[reader[s].run].terminal]
  <2>a. reader[s].run \in Runs
    BY <1>5 DEF CopyFeed, CursorInv, CursorOK
  <2>b. feed[reader[s].run] \in FeedRecords
    BY <2>a DEF FeedTypeOK
  <2>c. /\ feed[reader[s].run].version \in Nat /\ feed[reader[s].run].events \in Nat
        /\ feed[reader[s].run].terminal \in Receipts
    BY <2>b DEF FeedRecords
  <2>d. /\ Slice(s).from \in Nat /\ Slice(s).upto \in Nat /\ Slice(s).cursor \in Nat
    BY <2>1, <2>c DEF Slice, ReaderRecords
  <2>2. d \in ReaderRecords
    BY <2>1, <2>c, <2>d DEF ReaderRecords
  <2>3. reader' = [reader EXCEPT ![s] = d] /\ UNCHANGED <<feed, entry, savedBy>>
    BY <1>5 DEF CopyFeed, FeedTypeOK
  <2>4. CursorOK(d) /\ LookupOK(d)
    BY <1>5, <2>1 DEF CopyFeed, CursorOK, LookupOK, CursorInv, RegistryInv, ReaderRecords, Slice, CursorInv, CursorOK, FeedTypeOK, FeedRecords, ReceiptInv
  <2> QED BY <2>2, <2>3, <2>4, ReaderMoves
<1>6. ASSUME NEW s \in Subscribers, Frame(s) PROVE FeedInv'
  <2>1. reader[s] \in ReaderRecords
    BY DEF FeedTypeOK
  <2> DEFINE d == [reader[s] EXCEPT !.from = @ + 1, !.got = Append(@, reader[s].from + 1)]
  <2> DEFINE n == reader[s].from + 1  g == Append(reader[s].got, reader[s].from + 1)
  <2>a. n \in Nat /\ g \in Seq(Nat)
    BY <2>1 DEF ReaderRecords
  <2>b. d = [reader[s] EXCEPT !.from = n, !.got = g]
    OBVIOUS
  <2> HIDE DEF n, g
  <2>2. d \in ReaderRecords
    BY <2>1, <2>a, <2>b DEF ReaderRecords
  <2>3. reader' = [reader EXCEPT ![s] = d] /\ UNCHANGED <<feed, entry, savedBy>>
    BY <1>6 DEF Frame, FeedTypeOK
  <2>4. CursorOK(d) /\ LookupOK(d)
    BY <1>6, <2>1 DEF Frame, CursorOK, LookupOK, CursorInv, RegistryInv, ReaderRecords, CursorInv
  <2> QED BY <2>2, <2>3, <2>4, ReaderMoves
<1>7. ASSUME NEW s \in Subscribers, FramesEnd(s) PROVE FeedInv'
  <2>1. reader[s] \in ReaderRecords
    BY DEF FeedTypeOK
  <2> DEFINE d == [reader[s] EXCEPT !.stage = IF reader[s].terminal = "none" THEN "wait" ELSE "closed"]
  <2>2. d \in ReaderRecords
    BY <1>7, <2>1, FeedBounds DEF ReaderRecords, Receipts, CursorInv
  <2>3. reader' = [reader EXCEPT ![s] = d] /\ UNCHANGED <<feed, entry, savedBy>>
    BY <1>7 DEF FramesEnd, FeedTypeOK
  <2>4. CursorOK(d) /\ LookupOK(d)
    BY <1>7, <2>1 DEF FramesEnd, CursorOK, LookupOK, CursorInv, RegistryInv, ReaderRecords, CursorInv
  <2> QED BY <2>2, <2>3, <2>4, ReaderMoves
<1>8. ASSUME NEW s \in Subscribers, Wake(s) PROVE FeedInv'
  <2>1. reader[s] \in ReaderRecords
    BY DEF FeedTypeOK
  <2> DEFINE d == [reader[s] EXCEPT !.stage = "read", !.seen = feed[reader[s].run].version]
  <2>a. reader[s].run \in Runs
    BY <1>8 DEF Wake, CursorInv, CursorOK
  <2>b. feed[reader[s].run] \in FeedRecords
    BY <2>a DEF FeedTypeOK
  <2>c. /\ feed[reader[s].run].version \in Nat /\ feed[reader[s].run].events \in Nat
        /\ feed[reader[s].run].terminal \in Receipts
    BY <2>b DEF FeedRecords
  <2>2. d \in ReaderRecords
    BY <2>1, <2>c DEF ReaderRecords
  <2>3. reader' = [reader EXCEPT ![s] = d] /\ UNCHANGED <<feed, entry, savedBy>>
    BY <1>8 DEF Wake, FeedTypeOK
  <2>4. CursorOK(d) /\ LookupOK(d)
    BY <1>8, <2>1 DEF Wake, CursorOK, LookupOK, CursorInv, RegistryInv, ReaderRecords, CursorInv, CursorOK, FeedTypeOK, FeedRecords
  <2> QED BY <2>2, <2>3, <2>4, ReaderMoves
<1>9. ASSUME NEW s \in Subscribers, Ping(s) PROVE FeedInv'
  <2>1. reader[s] \in ReaderRecords
    BY DEF FeedTypeOK
  <2> DEFINE d == [reader[s] EXCEPT !.stage = "read"]
  <2>2. d \in ReaderRecords
    BY <1>9, <2>1, FeedBounds DEF ReaderRecords, Receipts, CursorInv
  <2>3. reader' = [reader EXCEPT ![s] = d] /\ UNCHANGED <<feed, entry, savedBy>>
    BY <1>9 DEF Ping, FeedTypeOK
  <2>4. CursorOK(d) /\ LookupOK(d)
    BY <1>9, <2>1 DEF Ping, CursorOK, LookupOK, CursorInv, RegistryInv, ReaderRecords, CursorInv
  <2> QED BY <2>2, <2>3, <2>4, ReaderMoves
<1>10. ASSUME NEW s \in Subscribers, Leave(s) PROVE FeedInv'
  <2>1. reader[s] \in ReaderRecords
    BY DEF FeedTypeOK
  <2> DEFINE d == [Idle EXCEPT !.stage = "left"]
  <2>a. Idle \in ReaderRecords
    BY FeedBounds DEF Idle, ReaderRecords, Receipts
  <2>2. d \in ReaderRecords
    BY <2>a DEF ReaderRecords
  <2>3. reader' = [reader EXCEPT ![s] = d] /\ UNCHANGED <<feed, entry, savedBy>>
    BY <1>10 DEF Leave, FeedTypeOK
  <2>4. CursorOK(d) /\ LookupOK(d)
    BY <1>10, <2>1 DEF Leave, CursorOK, LookupOK, CursorInv, RegistryInv, ReaderRecords, Idle
  <2> QED BY <2>2, <2>3, <2>4, ReaderMoves
<1>11. ASSUME NEW r \in Runs, Publish(r) PROVE FeedInv'
  <2>1. feed[r] \in FeedRecords
    BY DEF FeedTypeOK
  <2> DEFINE f == [feed[r] EXCEPT !.events = @ + 1, !.driver = "told"]
  <2>2. f \in FeedRecords /\ f.driver # "unborn" /\ feed[r].driver # "unborn"
    <3>1. /\ feed[r].driver # "unborn" /\ feed[r].events + 1 \in Nat /\ feed[r].version + 1 \in Nat
          /\ feed[r].result \in Receipts
      BY <1>11, <2>1 DEF Publish, FeedRecords
    <3> QED BY <2>1, <3>1 DEF FeedRecords, Receipts
  <2>a. feed' = [feed EXCEPT ![r] = f]
    BY <1>11 DEF Publish
  <2>3. UNCHANGED <<entry, savedBy, reader>>
    BY <1>11 DEF Publish
  <2>4. RunOK(f) /\ f.events >= feed[r].events
    BY <1>11, <2>1 DEF Publish, RunOK, ReceiptInv, FeedRecords, Receipts
  <2>5. feed[r].terminal # "none" => f.terminal = feed[r].terminal /\ f.events = feed[r].events
    BY <1>11, <2>1 DEF Publish, RunOK, ReceiptInv, FeedRecords
  <2>6. /\ UNCHANGED <<entry, reader>>
        /\ savedBy' = savedBy \/ (savedBy' = r /\ feed[r].driver = "runs")
    BY <2>3
  <2> QED BY <2>2, <2>a, <2>4, <2>5, <2>6, ExecutionMoves
<1>12. ASSUME NEW r \in Runs, Notify(r) PROVE FeedInv'
  <2>1. feed[r] \in FeedRecords
    BY DEF FeedTypeOK
  <2> DEFINE f == [feed[r] EXCEPT !.version = @ + 1, !.driver = "runs"]
  <2>2. f \in FeedRecords /\ f.driver # "unborn" /\ feed[r].driver # "unborn"
    <3>1. /\ feed[r].driver # "unborn" /\ feed[r].events + 1 \in Nat /\ feed[r].version + 1 \in Nat
          /\ feed[r].result \in Receipts
      BY <1>12, <2>1 DEF Notify, FeedRecords
    <3> QED BY <2>1, <3>1 DEF FeedRecords, Receipts
  <2>a. feed' = [feed EXCEPT ![r] = f]
    BY <1>12 DEF Notify
  <2>3. UNCHANGED <<entry, savedBy, reader>>
    BY <1>12 DEF Notify
  <2>4. RunOK(f) /\ f.events >= feed[r].events
    BY <1>12, <2>1 DEF Notify, RunOK, ReceiptInv, FeedRecords, Receipts
  <2>5. feed[r].terminal # "none" => f.terminal = feed[r].terminal /\ f.events = feed[r].events
    BY <1>12, <2>1 DEF Notify, RunOK, ReceiptInv, FeedRecords
  <2>6. /\ UNCHANGED <<entry, reader>>
        /\ savedBy' = savedBy \/ (savedBy' = r /\ feed[r].driver = "runs")
    BY <2>3
  <2> QED BY <2>2, <2>a, <2>4, <2>5, <2>6, ExecutionMoves
<1>13. ASSUME NEW r \in Runs, Replays(r) PROVE FeedInv'
  <2>1. feed[r] \in FeedRecords
    BY DEF FeedTypeOK
  <2> DEFINE f == [feed[r] EXCEPT !.driver = "ended", !.result = "completed"]
  <2>2. f \in FeedRecords /\ f.driver # "unborn" /\ feed[r].driver # "unborn"
    <3>1. /\ feed[r].driver # "unborn" /\ feed[r].events + 1 \in Nat /\ feed[r].version + 1 \in Nat
          /\ feed[r].result \in Receipts
      BY <1>13, <2>1 DEF Replays, FeedRecords
    <3> QED BY <2>1, <3>1 DEF FeedRecords, Receipts
  <2>a. feed' = [feed EXCEPT ![r] = f]
    BY <1>13 DEF Replays, Returns
  <2>3. UNCHANGED <<entry, savedBy, reader>>
    BY <1>13 DEF Replays
  <2>4. RunOK(f) /\ f.events >= feed[r].events
    BY <1>13, <2>1 DEF Replays, RunOK, ReceiptInv, FeedRecords, Receipts
  <2>5. feed[r].terminal # "none" => f.terminal = feed[r].terminal /\ f.events = feed[r].events
    BY <1>13, <2>1 DEF Replays, RunOK, ReceiptInv, FeedRecords
  <2>6. /\ UNCHANGED <<entry, reader>>
        /\ savedBy' = savedBy \/ (savedBy' = r /\ feed[r].driver = "runs")
    BY <2>3
  <2> QED BY <2>2, <2>a, <2>4, <2>5, <2>6, ExecutionMoves
<1>14. ASSUME NEW r \in Runs, Saves(r) PROVE FeedInv'
  <2>1. feed[r] \in FeedRecords
    BY DEF FeedTypeOK
  <2> DEFINE f == [feed[r] EXCEPT !.driver = "ended", !.result = "completed"]
  <2>2. f \in FeedRecords /\ f.driver # "unborn" /\ feed[r].driver # "unborn"
    <3>1. /\ feed[r].driver # "unborn" /\ feed[r].events + 1 \in Nat /\ feed[r].version + 1 \in Nat
          /\ feed[r].result \in Receipts
      BY <1>14, <2>1 DEF Saves, FeedRecords
    <3> QED BY <2>1, <3>1 DEF FeedRecords, Receipts
  <2>a. feed' = [feed EXCEPT ![r] = f]
    BY <1>14 DEF Saves, Returns
  <2>3. UNCHANGED <<entry, reader>> /\ savedBy' = r /\ feed[r].driver = "runs"
    BY <1>14 DEF Saves
  <2>4. RunOK(f) /\ f.events >= feed[r].events
    BY <1>14, <2>1 DEF Saves, RunOK, ReceiptInv, FeedRecords, Receipts
  <2>5. feed[r].terminal # "none" => f.terminal = feed[r].terminal /\ f.events = feed[r].events
    BY <1>14, <2>1 DEF Saves, RunOK, ReceiptInv, FeedRecords
  <2>6. /\ UNCHANGED <<entry, reader>>
        /\ savedBy' = savedBy \/ (savedBy' = r /\ feed[r].driver = "runs")
    BY <2>3
  <2> QED BY <2>2, <2>a, <2>4, <2>5, <2>6, ExecutionMoves
<1>15. ASSUME NEW r \in Runs, Fails(r) PROVE FeedInv'
  <2>1. feed[r] \in FeedRecords
    BY DEF FeedTypeOK
  <2> DEFINE f == [feed[r] EXCEPT !.driver = "ended", !.result = "failed"]
  <2>2. f \in FeedRecords /\ f.driver # "unborn" /\ feed[r].driver # "unborn"
    <3>1. /\ feed[r].driver # "unborn" /\ feed[r].events + 1 \in Nat /\ feed[r].version + 1 \in Nat
          /\ feed[r].result \in Receipts
      BY <1>15, <2>1 DEF Fails, FeedRecords
    <3> QED BY <2>1, <3>1 DEF FeedRecords, Receipts
  <2>a. feed' = [feed EXCEPT ![r] = f]
    BY <1>15 DEF Fails, Returns
  <2>3. UNCHANGED <<entry, savedBy, reader>>
    BY <1>15 DEF Fails
  <2>4. RunOK(f) /\ f.events >= feed[r].events
    BY <1>15, <2>1 DEF Fails, RunOK, ReceiptInv, FeedRecords, Receipts
  <2>5. feed[r].terminal # "none" => f.terminal = feed[r].terminal /\ f.events = feed[r].events
    BY <1>15, <2>1 DEF Fails, RunOK, ReceiptInv, FeedRecords
  <2>6. /\ UNCHANGED <<entry, reader>>
        /\ savedBy' = savedBy \/ (savedBy' = r /\ feed[r].driver = "runs")
    BY <2>3
  <2> QED BY <2>2, <2>a, <2>4, <2>5, <2>6, ExecutionMoves
<1>16. ASSUME NEW r \in Runs, Panics(r) PROVE FeedInv'
  <2>1. feed[r] \in FeedRecords
    BY DEF FeedTypeOK
  <2> DEFINE f == [feed[r] EXCEPT !.driver = "panicked"]
  <2>2. f \in FeedRecords /\ f.driver # "unborn" /\ feed[r].driver # "unborn"
    <3>1. /\ feed[r].driver # "unborn" /\ feed[r].events + 1 \in Nat /\ feed[r].version + 1 \in Nat
          /\ feed[r].result \in Receipts
      BY <1>16, <2>1 DEF Panics, FeedRecords
    <3> QED BY <2>1, <3>1 DEF FeedRecords, Receipts
  <2>a. feed' = [feed EXCEPT ![r] = f]
    BY <1>16 DEF Panics
  <2>3. UNCHANGED <<entry, savedBy, reader>>
    BY <1>16 DEF Panics
  <2>4. RunOK(f) /\ f.events >= feed[r].events
    BY <1>16, <2>1 DEF Panics, RunOK, ReceiptInv, FeedRecords, Receipts
  <2>5. feed[r].terminal # "none" => f.terminal = feed[r].terminal /\ f.events = feed[r].events
    BY <1>16, <2>1 DEF Panics, RunOK, ReceiptInv, FeedRecords
  <2>6. /\ UNCHANGED <<entry, reader>>
        /\ savedBy' = savedBy \/ (savedBy' = r /\ feed[r].driver = "runs")
    BY <2>3
  <2> QED BY <2>2, <2>a, <2>4, <2>5, <2>6, ExecutionMoves
<1>17. ASSUME NEW r \in Runs, Joins(r) PROVE FeedInv'
  <2>1. feed[r] \in FeedRecords
    BY DEF FeedTypeOK
  <2> DEFINE f == [feed[r] EXCEPT !.driver = "ended", !.result = "failed", !.events = @ + 1, !.version = @ + 1]
  <2>2. f \in FeedRecords /\ f.driver # "unborn" /\ feed[r].driver # "unborn"
    <3>1. /\ feed[r].driver # "unborn" /\ feed[r].events + 1 \in Nat /\ feed[r].version + 1 \in Nat
          /\ feed[r].result \in Receipts
      BY <1>17, <2>1 DEF Joins, FeedRecords
    <3> QED BY <2>1, <3>1 DEF FeedRecords, Receipts
  <2>a. feed' = [feed EXCEPT ![r] = f]
    BY <1>17 DEF Joins
  <2>3. UNCHANGED <<entry, savedBy, reader>>
    BY <1>17 DEF Joins
  <2>4. RunOK(f) /\ f.events >= feed[r].events
    BY <1>17, <2>1 DEF Joins, RunOK, ReceiptInv, FeedRecords, Receipts
  <2>5. feed[r].terminal # "none" => f.terminal = feed[r].terminal /\ f.events = feed[r].events
    BY <1>17, <2>1 DEF Joins, RunOK, ReceiptInv, FeedRecords
  <2>6. /\ UNCHANGED <<entry, reader>>
        /\ savedBy' = savedBy \/ (savedBy' = r /\ feed[r].driver = "runs")
    BY <2>3
  <2> QED BY <2>2, <2>a, <2>4, <2>5, <2>6, ExecutionMoves
<1>18. ASSUME NEW r \in Runs, Finish(r) PROVE FeedInv'
  <2>1. feed[r] \in FeedRecords
    BY DEF FeedTypeOK
  <2> DEFINE f == [feed[r] EXCEPT !.terminal = feed[r].result, !.driver = "finished"]
  <2>2. f \in FeedRecords /\ f.driver # "unborn" /\ feed[r].driver # "unborn"
    <3>1. /\ feed[r].driver # "unborn" /\ feed[r].events + 1 \in Nat /\ feed[r].version + 1 \in Nat
          /\ feed[r].result \in Receipts
      BY <1>18, <2>1 DEF Finish, FeedRecords
    <3> QED BY <2>1, <3>1 DEF FeedRecords, Receipts
  <2>a. feed' = [feed EXCEPT ![r] = f]
    BY <1>18 DEF Finish
  <2>3. UNCHANGED <<entry, savedBy, reader>>
    BY <1>18 DEF Finish
  <2>4. RunOK(f) /\ f.events >= feed[r].events
    BY <1>18, <2>1 DEF Finish, RunOK, ReceiptInv, FeedRecords, Receipts
  <2>5. feed[r].terminal # "none" => f.terminal = feed[r].terminal /\ f.events = feed[r].events
    BY <1>18, <2>1 DEF Finish, RunOK, ReceiptInv, FeedRecords
  <2>6. /\ UNCHANGED <<entry, reader>>
        /\ savedBy' = savedBy \/ (savedBy' = r /\ feed[r].driver = "runs")
    BY <2>3
  <2> QED BY <2>2, <2>a, <2>4, <2>5, <2>6, ExecutionMoves
<1>19. ASSUME NEW r \in Runs, NotifyFinish(r) PROVE FeedInv'
  <2>1. feed[r] \in FeedRecords
    BY DEF FeedTypeOK
  <2> DEFINE f == [feed[r] EXCEPT !.version = @ + 1, !.driver = "gone"]
  <2>2. f \in FeedRecords /\ f.driver # "unborn" /\ feed[r].driver # "unborn"
    <3>1. /\ feed[r].driver # "unborn" /\ feed[r].events + 1 \in Nat /\ feed[r].version + 1 \in Nat
          /\ feed[r].result \in Receipts
      BY <1>19, <2>1 DEF NotifyFinish, FeedRecords
    <3> QED BY <2>1, <3>1 DEF FeedRecords, Receipts
  <2>a. feed' = [feed EXCEPT ![r] = f]
    BY <1>19 DEF NotifyFinish
  <2>3. UNCHANGED <<entry, savedBy, reader>>
    BY <1>19 DEF NotifyFinish
  <2>4. RunOK(f) /\ f.events >= feed[r].events
    BY <1>19, <2>1 DEF NotifyFinish, RunOK, ReceiptInv, FeedRecords, Receipts
  <2>5. feed[r].terminal # "none" => f.terminal = feed[r].terminal /\ f.events = feed[r].events
    BY <1>19, <2>1 DEF NotifyFinish, RunOK, ReceiptInv, FeedRecords
  <2>6. /\ UNCHANGED <<entry, reader>>
        /\ savedBy' = savedBy \/ (savedBy' = r /\ feed[r].driver = "runs")
    BY <2>3
  <2> QED BY <2>2, <2>a, <2>4, <2>5, <2>6, ExecutionMoves
<1>20. ASSUME NEW s \in Subscribers, PostStarts(s) PROVE FeedInv'
  <2>1. PICK r \in Runs :
          /\ feed[r].driver = "unborn" /\ entry' = r
          /\ feed' = [feed EXCEPT ![r].driver = "runs"]
          /\ reader' = AttachTo(s, r)
    BY <1>20 DEF PostStarts
  <2>2. feed[r] \in FeedRecords /\ reader[s] \in ReaderRecords
    BY DEF FeedTypeOK
  <2> DEFINE f == [feed[r] EXCEPT !.driver = "runs"]
             d == [reader[s] EXCEPT !.stage = "subscribe", !.run = r]
  <2>3. f \in FeedRecords /\ d \in ReaderRecords
    BY <2>2, FeedBounds, r \in 0 .. MaxRuns DEF FeedRecords, ReaderRecords, Runs
  <2>4. feed' = [feed EXCEPT ![r] = f] /\ reader' = [reader EXCEPT ![s] = d] /\ UNCHANGED savedBy
    BY <1>20, <2>1 DEF PostStarts, AttachTo
  <2>5. FeedTypeOK'
    BY <2>1, <2>3, <2>4, FeedBounds DEF FeedTypeOK, Runs
  <2>6. RunOK(f)
    BY <2>1, <2>2 DEF RunOK, ReceiptInv, FeedRecords
  <2>7. f.events = feed[r].events /\ f.terminal = feed[r].terminal /\ f.driver = "runs"
    BY <2>2 DEF FeedRecords
  <2>8. ReceiptInv'
    BY <2>4, <2>6 DEF ReceiptInv, FeedTypeOK
  <2>9. CursorInv'
    <3>1. reader[s].stage = "idle"
      BY <1>20 DEF PostStarts
    <3>2. CursorOK(d)
      BY <2>2, <3>1 DEF CursorOK, CursorInv, ReaderRecords, FeedRecords
    <3>3. \A q \in Runs : feed'[q].events = feed[q].events /\ feed'[q].terminal = feed[q].terminal
      BY <2>4, <2>7 DEF FeedTypeOK
    <3>4. \A t \in Subscribers : reader'[t] = IF t = s THEN d ELSE reader[t]
      BY <2>4 DEF FeedTypeOK
    <3>5. ASSUME NEW t \in Subscribers PROVE CursorOK(reader[t])'
      <4>1. CursorOK(reader'[t])
        BY <3>2, <3>4 DEF CursorInv
      <4> QED BY <3>3, <4>1 DEF CursorOK
    <3> QED BY <3>5 DEF CursorInv
  <2>10. RegistryInv'
    <3>1. \A q \in Runs : feed[q].driver # "unborn" => feed[q].terminal # "none"
      <4>1. entry # 0 => feed[entry].terminal # "none"
        BY <1>20 DEF PostStarts, Named, Alive, RegistryInv, ReceiptInv, RunOK, FeedTypeOK, Runs, FeedRecords
      <4> QED BY <4>1 DEF RegistryInv, Runs
    <3>2. \A q \in Runs : feed'[q] = IF q = r THEN f ELSE feed[q]
      BY <2>4 DEF FeedTypeOK
    <3>3. \A t \in Subscribers : LookupOK(reader[t])'
      BY <2>1, <2>2, <2>4, <2>7, <3>2 DEF RegistryInv, LookupOK, FeedTypeOK, ReaderRecords, Runs
    <3> QED BY <2>1, <2>7, <3>1, <3>2, <3>3 DEF RegistryInv
  <2> QED BY <2>5, <2>8, <2>9, <2>10
<1>21. ASSUME NEW s \in Subscribers, GetMisses(s) PROVE FeedInv'
  <2>1. PICK r \in 0 .. MaxRuns :
          /\ \A q \in Runs : feed[q].driver # "unborn" <=> q <= r
          /\ reader' = [reader EXCEPT ![s].stage = "lookup", ![s].run = r]
    BY <1>21 DEF GetMisses
  <2>2. reader[s] \in ReaderRecords /\ reader[s].stage = "idle"
    BY <1>21 DEF FeedTypeOK, GetMisses
  <2> DEFINE d == [reader[s] EXCEPT !.stage = "lookup", !.run = r]
  <2>3. d \in ReaderRecords
    BY <2>2 DEF ReaderRecords
  <2>4. \A q \in Runs : feed[q].driver # "unborn" => feed[q].terminal # "none"
    <3>1. entry # 0 => feed[entry].terminal # "none"
      BY <1>21 DEF GetMisses, Named, Alive, RegistryInv, ReceiptInv, RunOK, FeedTypeOK, Runs, FeedRecords
    <3> QED BY <3>1 DEF RegistryInv, Runs
  <2>5. LookupOK(d)
    BY <2>1, <2>2, <2>4, FeedBounds DEF LookupOK, ReaderRecords, ReceiptInv, RunOK, Runs
  <2>6. CursorOK(d)
    BY <2>2 DEF CursorOK, CursorInv, ReaderRecords
  <2>7. reader' = [reader EXCEPT ![s] = d] /\ entry' = 0 /\ UNCHANGED <<feed, savedBy>>
    BY <1>21, <2>1 DEF GetMisses
  <2>8. FeedTypeOK'
    BY <2>3, <2>7, FeedBounds DEF FeedTypeOK
  <2>9. ReceiptInv' /\ CursorInv'
    BY <2>6, <2>7 DEF ReceiptInv, CursorInv, RunOK, CursorOK, FeedTypeOK
  <2>10. RegistryInv'
    BY <2>4, <2>5, <2>7 DEF RegistryInv, LookupOK, FeedTypeOK
  <2> QED BY <2>8, <2>9, <2>10
<1>22. CASE UNCHANGED feedVars
  BY <1>22 DEF feedVars, FeedTypeOK, ReceiptInv, CursorInv, RegistryInv, RunOK, CursorOK, LookupOK
<1> QED
  BY <1>1, <1>2, <1>3, <1>4, <1>5, <1>6, <1>7, <1>8, <1>9, <1>10, <1>11, <1>12, <1>13, <1>14, <1>15, <1>16, <1>17, <1>18, <1>19, <1>20, <1>21, <1>22
  DEF FeedNext, ReaderStep, DriverStep

LEMMA FeedInvariance == FeedSpec => []FeedInv
BY FeedInvInit, FeedInvNext, PTL DEF FeedSpec

(***************************************************************************)
(* Each subscriber gets every event of its feed once and in order, and has *)
(* all of them when the receipt closes its stream.                         *)
(***************************************************************************)
THEOREM FeedOrdered == FeedSpec => []FeedInOrder
<1>1. FeedInv => FeedInOrder
  BY DEF FeedInv, CursorInv, CursorOK, FeedInOrder
<1> QED BY <1>1, FeedInvariance, PTL

(***************************************************************************)
(* A client told that its turn is not running and was not committed can    *)
(* send it again: nothing registered before has played it or will.         *)
(***************************************************************************)
THEOREM NotFoundTrue == FeedSpec => []NotFoundIsTrue
<1>1. FeedInv => NotFoundIsTrue
  BY DEF FeedInv, RegistryInv, LookupOK, NotFoundIsTrue
<1> QED BY <1>1, FeedInvariance, PTL

-----------------------------------------------------------------------------
(***************************************************************************)
(* TurnFeed implements FeedPromise.  Beyond FeedInv the refinement needs   *)
(* that the executions begin in order and the registry names the last one, *)
(* that what an execution returns is true of the database, and that a      *)
(* request has nothing of the turn before it asks.                         *)
(***************************************************************************)

(* "completed" is said of a turn in the database, "failed" by an execution *)
(* that did not put it there; the receipt is what the execution returned.  *)
Outcome(r, f, by) ==
  /\ f.driver \in {"unborn", "runs", "told", "panicked"} => by # r
  /\ f.driver \in {"ended", "finished", "gone"} =>
       \/ f.result = "completed" /\ by # 0
       \/ f.result = "failed" /\ by # r
  /\ f.driver \in {"finished", "gone"} => f.terminal = f.result

OutcomeInv == \A r \in Runs : Outcome(r, feed[r], savedBy)

(* The executions are born in order, and the registry names the last one.  *)
OrderInv ==
  \A r \in Runs : feed[r].driver # "unborn" =>
    /\ \A q \in 1 .. r : feed[q].driver # "unborn"
    /\ entry # 0 => r <= entry

(* A request that has not asked has nothing of the turn, and a stream is   *)
(* of an execution that was born.                                          *)
RequestOK(d) ==
  /\ d.stage = "idle" => d = Idle
  /\ d.stage \in {"subscribe", "read", "frames", "wait", "closed"} => feed[d.run].driver # "unborn"

RequestInv == \A s \in Subscribers : RequestOK(reader[s])

StoryInv == OutcomeInv /\ OrderInv /\ RequestInv

-----------------------------------------------------------------------------
\* At first nothing is born, saved or asked.
LEMMA StoryInvInit == FeedInit => StoryInv
BY FeedBounds DEF FeedInit, StoryInv, OutcomeInv, Outcome, OrderInv, RequestInv, RequestOK, Unborn, Idle, Runs

\* A step of a request that has asked, or joins what was born.
LEMMA StoryOfReader ==
  ASSUME FeedInv, StoryInv, NEW s \in Subscribers, NEW d, RequestOK(d),
         reader' = [reader EXCEPT ![s] = d], UNCHANGED <<feed, savedBy>>, entry' \in {entry, 0}
  PROVE  StoryInv'
<1>1. \A t \in Subscribers : reader'[t] = IF t = s THEN d ELSE reader[t]
  BY DEF FeedInv, FeedTypeOK
<1>2. RequestInv'
  BY <1>1 DEF StoryInv, RequestInv, RequestOK
<1>3. OutcomeInv' /\ OrderInv'
  BY DEF StoryInv, OutcomeInv, Outcome, OrderInv
<1> QED BY <1>2, <1>3 DEF StoryInv

\* A step of an execution that was born.
LEMMA StoryOfRun ==
  ASSUME FeedInv, StoryInv, NEW r \in Runs, NEW f,
         feed' = [feed EXCEPT ![r] = f], UNCHANGED <<entry, reader>>,
         savedBy' = savedBy \/ (savedBy = 0 /\ savedBy' = r),
         feed[r].driver # "unborn", f.driver # "unborn", Outcome(r, f, savedBy')
  PROVE  StoryInv'
<1>1. \A q \in Runs : feed'[q] = IF q = r THEN f ELSE feed[q]
  BY DEF FeedInv, FeedTypeOK
<1>2. \A q \in Runs : feed'[q].driver # "unborn" <=> feed[q].driver # "unborn"
  BY <1>1
<1>3. OutcomeInv'
  <2> SUFFICES ASSUME NEW q \in Runs, q # r PROVE Outcome(q, feed[q], savedBy)'
    BY <1>1 DEF OutcomeInv
  <2>1. feed'[q] = feed[q] /\ Outcome(q, feed[q], savedBy)
    BY <1>1 DEF StoryInv, OutcomeInv
  <2>2. savedBy' = q => savedBy = q
    OBVIOUS
  <2>3. savedBy # 0 => savedBy' # 0
    OBVIOUS
  <2> QED BY <2>1, <2>2, <2>3 DEF Outcome
<1>4. OrderInv'
  BY <1>2, FeedBounds DEF StoryInv, OrderInv, Runs
<1>5. \A t \in Subscribers : RequestOK(reader[t])'
  <2> TAKE t \in Subscribers
  <2>1. RequestOK(reader[t]) /\ CursorOK(reader[t])
    BY DEF StoryInv, RequestInv, FeedInv, CursorInv
  <2> QED BY <1>2, <2>1 DEF RequestOK, CursorOK
<1> QED BY <1>3, <1>4, <1>5 DEF StoryInv, RequestInv

-----------------------------------------------------------------------------
\* What is born has a receipt when no live execution is named or it is over.
LEMMA AllOver ==
  ASSUME FeedInv, ~ (Named /\ feed[entry].terminal = "none")
  PROVE  \A q \in Runs : feed[q].driver # "unborn" => feed[q].terminal # "none"
<1>1. entry # 0 => feed[entry].terminal # "none"
  BY DEF Named, Alive, FeedInv, RegistryInv, ReceiptInv, RunOK, FeedTypeOK, Runs, FeedRecords
<1> QED BY <1>1 DEF FeedInv, RegistryInv, Runs

\* The steps of the requests that ask, join or read.
LEMMA StoryRequests ==
  ASSUME FeedInv, StoryInv, NEW s \in Subscribers,
         \/ PostJoins(s) \/ GetAttaches(s) \/ GetMisses(s) \/ Lookup(s)
         \/ ReaderStep(s) \/ Ping(s) \/ Leave(s)
  PROVE  StoryInv'
<1>1. reader[s] \in ReaderRecords /\ RequestOK(reader[s]) /\ CursorOK(reader[s])
  BY DEF FeedInv, FeedTypeOK, StoryInv, RequestInv, CursorInv
<1>2. CASE PostJoins(s) \/ GetAttaches(s)
  <2>1. entry # 0 /\ feed[entry].driver # "unborn" /\ entry \in Runs
    BY <1>2, FeedBounds DEF PostJoins, GetAttaches, Named, FeedInv, FeedTypeOK, RegistryInv, Runs
  <2> DEFINE d == [reader[s] EXCEPT !.stage = "subscribe", !.run = entry]
  <2>2. RequestOK(d)
    BY <1>1, <2>1 DEF RequestOK, ReaderRecords
  <2>3. reader' = [reader EXCEPT ![s] = d] /\ UNCHANGED <<feed, entry, savedBy>>
    BY <1>2 DEF PostJoins, GetAttaches, AttachTo
  <2> QED BY <2>2, <2>3, StoryOfReader
<1>3. CASE GetMisses(s)
  <2>1. PICK r \in 0 .. MaxRuns : reader' = [reader EXCEPT ![s].stage = "lookup", ![s].run = r]
    BY <1>3 DEF GetMisses
  <2> DEFINE d == [reader[s] EXCEPT !.stage = "lookup", !.run = r]
  <2>2. RequestOK(d)
    BY <1>1 DEF RequestOK, ReaderRecords
  <2>3. reader' = [reader EXCEPT ![s] = d] /\ UNCHANGED <<feed, savedBy>> /\ entry' = 0
    BY <1>3, <2>1 DEF GetMisses
  <2> QED BY <2>2, <2>3, StoryOfReader
<1>4. CASE Lookup(s)
  <2> DEFINE st == IF savedBy # 0 THEN "replayed" ELSE "missing"
             d == [reader[s] EXCEPT !.stage = st]
  <2>1. st \in {"replayed", "missing"}
    OBVIOUS
  <2>2. reader' = [reader EXCEPT ![s] = d] /\ UNCHANGED <<feed, entry, savedBy>>
    BY <1>4 DEF Lookup
  <2> HIDE DEF st
  <2>3. RequestOK(d)
    BY <1>1, <2>1 DEF RequestOK, ReaderRecords
  <2> QED BY <2>2, <2>3, StoryOfReader
<1>5. CASE Leave(s)
  <2> DEFINE d == [Idle EXCEPT !.stage = "left"]
  <2>1. RequestOK(d)
    BY DEF RequestOK, Idle
  <2>2. reader' = [reader EXCEPT ![s] = d] /\ UNCHANGED <<feed, entry, savedBy>>
    BY <1>5 DEF Leave
  <2> QED BY <2>1, <2>2, StoryOfReader
<1>6. CASE ReaderStep(s) \/ Ping(s)
  <2>1. reader[s].stage \in {"subscribe", "read", "frames", "wait"} /\ UNCHANGED <<feed, entry, savedBy>>
    BY <1>6 DEF ReaderStep, Ping, Subscribe, CopyFeed, Frame, FramesEnd, Wake
  <2>2. reader' = [reader EXCEPT ![s] = reader'[s]]
    BY <1>6 DEF ReaderStep, Ping, Subscribe, CopyFeed, Frame, FramesEnd, Wake, FeedInv, FeedTypeOK
  <2>3. reader'[s].run = reader[s].run /\ reader'[s].stage # "idle"
    BY <1>1, <1>6 DEF ReaderStep, Ping, Subscribe, CopyFeed, Frame, FramesEnd, Wake, FeedInv, FeedTypeOK, ReaderRecords
  <2>4. RequestOK(reader'[s])
    BY <1>1, <2>1, <2>3 DEF RequestOK
  <2> QED BY <2>1, <2>2, <2>4, StoryOfReader
<1> QED BY <1>2, <1>3, <1>4, <1>5, <1>6

\* A request posted when no live execution is named starts the next one.
LEMMA StoryStart ==
  ASSUME FeedInv, StoryInv, NEW s \in Subscribers, PostStarts(s)
  PROVE  StoryInv'
<1>1. PICK r \in Runs :
        /\ feed[r].driver = "unborn" /\ entry' = r
        /\ \A q \in 1..(r - 1) : feed[q].driver # "unborn"
        /\ feed' = [feed EXCEPT ![r].driver = "runs"]
        /\ reader' = AttachTo(s, r)
  BY DEF PostStarts
<1>2. UNCHANGED savedBy
  BY DEF PostStarts
<1>3. feed[r] \in FeedRecords /\ reader[s] \in ReaderRecords
  BY DEF FeedInv, FeedTypeOK
<1> DEFINE f == [feed[r] EXCEPT !.driver = "runs"]
           d == [reader[s] EXCEPT !.stage = "subscribe", !.run = r]
<1>4. f.driver = "runs" /\ d.stage = "subscribe" /\ d.run = r
  BY <1>3 DEF FeedRecords, ReaderRecords
<1>5. feed' = [feed EXCEPT ![r] = f] /\ reader' = [reader EXCEPT ![s] = d]
  BY <1>1 DEF AttachTo
<1>6. \A q \in Runs : feed'[q] = IF q = r THEN f ELSE feed[q]
  BY <1>5 DEF FeedInv, FeedTypeOK
<1>7. \A t \in Subscribers : reader'[t] = IF t = s THEN d ELSE reader[t]
  BY <1>5 DEF FeedInv, FeedTypeOK
<1> HIDE DEF f, d
<1>8. OutcomeInv'
  BY <1>1, <1>2, <1>4, <1>6 DEF StoryInv, OutcomeInv, Outcome
<1>9. OrderInv'
  <2>1. \A q \in Runs : feed[q].driver # "unborn" => q < r
    BY <1>1, FeedBounds DEF StoryInv, OrderInv, Runs
  <2>2. \A q \in Runs : feed'[q].driver # "unborn" <=> q <= r
    BY <1>1, <1>4, <1>6, <2>1, FeedBounds DEF Runs
  <2> QED BY <1>1, <2>2, FeedBounds DEF OrderInv, Runs
<1>10. RequestInv'
  <2>1. \A q \in Runs : feed[q].driver # "unborn" => feed'[q].driver # "unborn"
    BY <1>1, <1>6
  <2> SUFFICES ASSUME NEW t \in Subscribers PROVE RequestOK(reader[t])'
    BY DEF RequestInv
  <2>2. CASE t = s
    BY <1>1, <1>4, <1>6, <1>7, <2>2 DEF RequestOK
  <2>3. CASE t # s
    <3>1. reader'[t] = reader[t] /\ RequestOK(reader[t]) /\ CursorOK(reader[t])
      BY <1>7, <2>3 DEF StoryInv, RequestInv, FeedInv, CursorInv
    <3> QED BY <2>1, <3>1 DEF RequestOK, CursorOK
  <2> QED BY <2>2, <2>3
<1> QED BY <1>8, <1>9, <1>10 DEF StoryInv

\* The steps of an execution.
LEMMA StoryExecutions ==
  ASSUME FeedInv, StoryInv, NEW r \in Runs,
         Publish(r) \/ Replays(r) \/ Saves(r) \/ Fails(r) \/ Panics(r) \/ DriverStep(r)
  PROVE  StoryInv'
<1>1. feed[r] \in FeedRecords /\ Outcome(r, feed[r], savedBy) /\ RunOK(feed[r])
  BY DEF FeedInv, FeedTypeOK, StoryInv, OutcomeInv, ReceiptInv
<1>2. UNCHANGED <<entry, reader>> /\ feed' = [feed EXCEPT ![r] = feed'[r]]
  BY DEF Publish, Replays, Saves, Fails, Panics, DriverStep, Notify, Joins, Finish, NotifyFinish,
         Returns, FeedInv, FeedTypeOK
<1>3. savedBy' = savedBy \/ (savedBy = 0 /\ savedBy' = r)
  BY DEF Publish, Replays, Saves, Fails, Panics, DriverStep, Notify, Joins, Finish, NotifyFinish
<1>4. feed[r].driver # "unborn" /\ feed'[r].driver # "unborn"
  BY <1>1 DEF Publish, Replays, Saves, Fails, Panics, DriverStep, Notify, Joins, Finish, NotifyFinish,
         Returns, FeedInv, FeedTypeOK, FeedRecords
<1>5. Outcome(r, feed'[r], savedBy')
  <2>1. 0 \notin Runs
    BY FeedBounds DEF Runs
  <2>2. CASE Replays(r) \/ Saves(r) \/ Fails(r)
    BY <1>1, <2>1, <2>2 DEF Replays, Saves, Fails, Returns, Outcome, FeedInv, FeedTypeOK, FeedRecords
  <2>3. CASE Publish(r) \/ Panics(r) \/ Notify(r)
    BY <1>1, <2>3 DEF Publish, Panics, Notify, Outcome, FeedInv, FeedTypeOK, FeedRecords
  <2>4. CASE Joins(r) \/ Finish(r) \/ NotifyFinish(r)
    BY <1>1, <2>4 DEF Joins, Finish, NotifyFinish, Outcome, FeedInv, FeedTypeOK, FeedRecords
  <2> QED BY <2>2, <2>3, <2>4 DEF DriverStep
<1> QED BY <1>2, <1>3, <1>4, <1>5, StoryOfRun

LEMMA StoryInvNext == FeedInv /\ StoryInv /\ [FeedNext]_feedVars => StoryInv'
<1> SUFFICES ASSUME FeedInv, StoryInv, [FeedNext]_feedVars PROVE StoryInv'
  OBVIOUS
<1>1. CASE UNCHANGED feedVars
  BY <1>1 DEF feedVars, StoryInv, OutcomeInv, Outcome, OrderInv, RequestInv, RequestOK
<1> QED BY <1>1, StoryRequests, StoryStart, StoryExecutions DEF FeedNext

LEMMA StoryInvariance == FeedSpec => []StoryInv
BY FeedInvariance, StoryInvInit, StoryInvNext, PTL DEF FeedSpec

-----------------------------------------------------------------------------
\* At first nothing is promised to anybody.
LEMMA MappedStart == FeedInit => Promised!PromisedInit
<1> SUFFICES ASSUME FeedInit PROVE Promised!PromisedInit
  OBVIOUS
<1>1. Started = {}
  BY DEF FeedInit, Started, Unborn
<1>2. Runs \cap {savedBy} = {}
  BY FeedBounds DEF FeedInit, Runs
<1>3. [s \in Subscribers |-> Heard(reader[s])] = [s \in Subscribers |-> Promised!Unasked]
  BY DEF FeedInit, Heard, Idle, Promised!Unasked
<1>4. /\ [r \in Runs |-> feed[r].events] = [r \in Runs |-> 0]
      /\ [r \in Runs |-> feed[r].terminal] = [r \in Runs |-> "none"]
  BY DEF FeedInit, Unborn
<1> QED BY <1>1, <1>2, <1>3, <1>4 DEF Promised!PromisedInit

\* A step of an execution, seen from the promise.
LEMMA MappedExecution ==
  ASSUME FeedInv, StoryInv, NEW r \in Runs,
         Publish(r) \/ Replays(r) \/ Saves(r) \/ Fails(r) \/ Panics(r) \/ DriverStep(r)
  PROVE  Promised!PromisedNext \/ UNCHANGED Promised!promisedVars
<1> DEFINE events == [q \in Runs |-> feed[q].events]
           terminals == [q \in Runs |-> feed[q].terminal]
           kept == Runs \cap {savedBy}
           heard == [s \in Subscribers |-> Heard(reader[s])]
<1>1. feed[r] \in FeedRecords /\ Outcome(r, feed[r], savedBy) /\ RunOK(feed[r])
  BY DEF FeedInv, FeedTypeOK, StoryInv, OutcomeInv, ReceiptInv
<1>2. UNCHANGED <<entry, reader>> /\ feed' = [feed EXCEPT ![r] = feed'[r]]
  BY DEF Publish, Replays, Saves, Fails, Panics, DriverStep, Notify, Joins, Finish, NotifyFinish,
         Returns, FeedInv, FeedTypeOK
<1>3. feed[r].driver # "unborn" /\ feed'[r].driver # "unborn"
  BY <1>1 DEF Publish, Replays, Saves, Fails, Panics, DriverStep, Notify, Joins, Finish, NotifyFinish,
         Returns, FeedInv, FeedTypeOK, FeedRecords
<1>4. \A q \in Runs : q # r => feed'[q] = feed[q]
  BY <1>2 DEF FeedInv, FeedTypeOK
<1>5. Started' = Started /\ r \in Started
  BY <1>3, <1>4 DEF Started
<1>6. heard' = heard
  BY <1>2
<1>7. events' = [events EXCEPT ![r] = feed'[r].events] /\ terminals' = [terminals EXCEPT ![r] = feed'[r].terminal]
  BY <1>4
<1>8. events[r] = feed[r].events /\ terminals[r] = feed[r].terminal
  OBVIOUS
<1>a. events'[r] = feed'[r].events /\ terminals'[r] = feed'[r].terminal
  OBVIOUS
<1>9. feed'[r].events = feed[r].events => events' = events
  BY <1>7
<1>10. feed'[r].terminal = feed[r].terminal => terminals' = terminals
  BY <1>7
<1>11. savedBy' = savedBy => kept' = kept
  OBVIOUS
<1>12. CASE Publish(r) \/ Joins(r)
  <2>1. feed'[r].events = feed[r].events + 1 /\ feed'[r].terminal = feed[r].terminal /\ savedBy' = savedBy
    BY <1>1, <1>12 DEF Publish, Joins, FeedInv, FeedTypeOK, FeedRecords
  <2>2. feed[r].terminal = "none"
    BY <1>1, <1>12 DEF Publish, Joins, RunOK
  <2>3. Promised!Extend(r)
    BY <1>5, <1>6, <1>7, <1>8, <1>10, <1>11, <2>1, <2>2 DEF Promised!Extend, Promised!Running
  <2> QED BY <1>5, <2>3 DEF Promised!PromisedNext
<1>13. CASE Saves(r)
  <2>1. feed'[r].events = feed[r].events /\ feed'[r].terminal = feed[r].terminal /\ savedBy = 0 /\ savedBy' = r
    BY <1>1, <1>13 DEF Saves, Returns, FeedInv, FeedTypeOK, FeedRecords
  <2>2. feed[r].terminal = "none"
    BY <1>1, <1>13 DEF Saves, RunOK
  <2>3. kept = {} /\ kept' = {r}
    BY <2>1, FeedBounds DEF Runs
  <2>4. Promised!Keep(r)
    BY <1>5, <1>6, <1>8, <1>9, <1>10, <2>1, <2>2, <2>3 DEF Promised!Keep, Promised!Running
  <2> QED BY <1>5, <2>4 DEF Promised!PromisedNext
<1>14. CASE Finish(r)
  <2>1. feed'[r].events = feed[r].events /\ feed'[r].terminal = feed[r].result /\ savedBy' = savedBy
    BY <1>1, <1>14 DEF Finish, FeedInv, FeedTypeOK, FeedRecords
  <2>2. feed[r].terminal = "none" /\ feed[r].driver = "ended"
    BY <1>1, <1>14 DEF Finish, RunOK
  <2>3. savedBy \in 0 .. MaxRuns
    BY DEF FeedInv, FeedTypeOK
  <2>4. \/ feed[r].result = "completed" /\ kept # {}
        \/ feed[r].result = "failed" /\ r \notin kept
    BY <1>1, <2>2, <2>3, FeedBounds DEF Outcome, Runs
  <2>5. PICK outcome \in {"completed", "failed"} : outcome = feed[r].result
    BY <2>4
  <2>6. Promised!Seal(r, outcome)
    BY <1>5, <1>6, <1>7, <1>8, <1>9, <1>11, <2>1, <2>2, <2>4, <2>5 DEF Promised!Seal, Promised!Running
  <2> QED BY <1>5, <2>6 DEF Promised!PromisedNext
<1>15. CASE Replays(r) \/ Fails(r) \/ Panics(r) \/ Notify(r) \/ NotifyFinish(r)
  <2>1. feed'[r].events = feed[r].events /\ feed'[r].terminal = feed[r].terminal /\ savedBy' = savedBy
    BY <1>1, <1>15 DEF Replays, Fails, Panics, Notify, NotifyFinish, Returns, FeedInv, FeedTypeOK, FeedRecords
  <2> QED BY <1>5, <1>6, <1>9, <1>10, <1>11, <2>1 DEF Promised!promisedVars
<1> QED BY <1>12, <1>13, <1>14, <1>15 DEF DriverStep

-----------------------------------------------------------------------------
(* What a request has heard, as a value of its five parts, and how a step  *)
(* of the promise changes it.                                              *)
HeardParts(p, q, b, g, t) == [phase |-> p, run |-> q, before |-> b, got |-> g, told |-> t]

Following(u, r) == [u EXCEPT !.phase = "reads", !.run = r]
Asking(u, b) == [u EXCEPT !.phase = "lookup", !.before = b]
Answering(u, p) == [u EXCEPT !.phase = p]
Hearing(u, g) == [u EXCEPT !.got = g]
Closing(u, t) == [u EXCEPT !.phase = "closed", !.told = t]

\* What a request has heard, stage by stage.
LEMMA HeardStages ==
  ASSUME NEW d
  PROVE  /\ d.stage \in {"subscribe", "read", "frames", "wait"} =>
              Heard(d) = HeardParts("reads", d.run, {}, d.got, "none")
         /\ d.stage \in {"idle", "left"} =>
              Heard(d) = HeardParts(d.stage, d.run, {}, d.got, "none")
         /\ d.stage = "closed" =>
              Heard(d) = HeardParts("closed", d.run, {}, d.got, d.terminal)
         /\ d.stage \in {"lookup", "missing", "replayed"} =>
              Heard(d) = HeardParts(d.stage, 0, 1 .. d.run, d.got, "none")
BY DEF Heard, HeardParts

\* What a request has heard changes with its own steps only.
LEMMA HeardMoves ==
  ASSUME FeedInv, NEW s \in Subscribers, NEW d, reader' = [reader EXCEPT ![s] = d]
  PROVE  [t \in Subscribers |-> Heard(reader[t])]' =
           [[t \in Subscribers |-> Heard(reader[t])] EXCEPT ![s] = Heard(d)]
<1> DEFINE heard == [t \in Subscribers |-> Heard(reader[t])]
<1>1. \A t \in Subscribers : reader'[t] = IF t = s THEN d ELSE reader[t]
  BY DEF FeedInv, FeedTypeOK
<1>2. \A t \in Subscribers : Heard(reader'[t]) = IF t = s THEN Heard(d) ELSE Heard(reader[t])
  BY <1>1
<1>3. heard' = [t \in Subscribers |-> IF t = s THEN Heard(d) ELSE Heard(reader[t])]
  BY <1>2
<1>4. [heard EXCEPT ![s] = Heard(d)] = [t \in Subscribers |-> IF t = s THEN Heard(d) ELSE Heard(reader[t])]
  OBVIOUS
<1> QED BY <1>3, <1>4

\* A request that has not asked has heard nothing.
LEMMA HeardIdle ==
  ASSUME StoryInv, NEW s \in Subscribers, reader[s].stage = "idle"
  PROVE  /\ reader[s] = Idle /\ Heard(reader[s]) = Promised!Unasked
         /\ Promised!Unasked = HeardParts("idle", 0, {}, << >>, "none")
<1>1. reader[s] = Idle
  BY DEF StoryInv, RequestInv, RequestOK
<1>2. Idle.stage = "idle" /\ Idle.run = 0 /\ Idle.got = << >>
  BY DEF Idle
<1>3. Heard(Idle) = HeardParts("idle", 0, {}, << >>, "none")
  BY <1>2, HeardStages
<1> QED BY <1>1, <1>3 DEF Promised!Unasked, HeardParts

\* Each change, part by part.
LEMMA HeardNext ==
  ASSUME NEW u, NEW p, NEW q, NEW b, NEW g, NEW t, NEW x, u = HeardParts(p, q, b, g, t)
  PROVE  /\ Following(u, x) = HeardParts("reads", x, b, g, t)
         /\ Asking(u, x) = HeardParts("lookup", q, x, g, t)
         /\ Answering(u, x) = HeardParts(x, q, b, g, t)
         /\ Hearing(u, x) = HeardParts(p, q, b, x, t)
         /\ Closing(u, x) = HeardParts("closed", q, b, g, x)
<1>1. u = [f \in {"phase", "run", "before", "got", "told"} |-> u[f]]
  BY DEF HeardParts
<1>2. Answering(u, x) = HeardParts(x, q, b, g, t)
  BY DEF HeardParts, Answering
<1>3. Hearing(u, x) = HeardParts(p, q, b, x, t)
  BY DEF HeardParts, Hearing
<1>4. Following(u, x) = HeardParts("reads", x, b, g, t)
  <2>1. Following(u, x) =
          [f \in DOMAIN u |-> IF f = "run" THEN x ELSE IF f = "phase" THEN "reads" ELSE u[f]]
    BY DEF Following
  <2> QED BY <1>1, <2>1 DEF HeardParts
<1>5. Asking(u, x) = HeardParts("lookup", q, x, g, t)
  <2>1. Asking(u, x) =
          [f \in DOMAIN u |-> IF f = "before" THEN x ELSE IF f = "phase" THEN "lookup" ELSE u[f]]
    BY DEF Asking
  <2> QED BY <1>1, <2>1 DEF HeardParts
<1>6. Closing(u, x) = HeardParts("closed", q, b, g, x)
  <2>1. Closing(u, x) =
          [f \in DOMAIN u |-> IF f = "told" THEN x ELSE IF f = "phase" THEN "closed" ELSE u[f]]
    BY DEF Closing
  <2> QED BY <1>1, <2>1 DEF HeardParts
<1> QED BY <1>2, <1>3, <1>4, <1>5, <1>6

\* A request that asks, joins or begins.
LEMMA MappedPost ==
  ASSUME FeedInv, StoryInv, NEW s \in Subscribers, PostJoins(s) \/ GetAttaches(s)
  PROVE  Promised!PromisedNext
<1> DEFINE d == [reader[s] EXCEPT !.stage = "subscribe", !.run = entry]
           heard == [t \in Subscribers |-> Heard(reader[t])]
<1>1. reader' = [reader EXCEPT ![s] = d] /\ UNCHANGED <<feed, savedBy>>
  BY DEF PostJoins, GetAttaches, AttachTo
<1>2. reader[s] = Idle /\ heard[s] = Promised!Unasked /\ heard[s] = HeardParts("idle", 0, {}, << >>, "none")
  BY HeardIdle DEF PostJoins, GetAttaches
<1>3. Heard(d) = Following(heard[s], entry)
  <2>1. d.stage = "subscribe" /\ d.run = entry /\ d.got = << >>
    BY <1>2 DEF Idle
  <2>2. Heard(d) = HeardParts("reads", entry, {}, << >>, "none")
    BY <2>1, HeardStages
  <2> HIDE DEF d, heard
  <2> QED BY <1>2, <2>2, HeardNext
<1>4. heard' = [heard EXCEPT ![s] = Heard(d)]
  BY <1>1, HeardMoves
<1>5. heard[s].phase = "idle"
  BY <1>2 DEF Promised!Unasked
<1>6. entry \in Started /\ \A q \in Started : q <= entry
  BY FeedBounds DEF PostJoins, GetAttaches, Named, FeedInv, FeedTypeOK, RegistryInv, StoryInv, OrderInv, Started, Runs
<1>7. Promised!Follow(s, entry)
  <2>1. heard' = [heard EXCEPT ![s].phase = "reads", ![s].run = entry]
    <3> HIDE DEF d, heard
    <3> QED BY <1>3, <1>4 DEF Following
  <2> QED BY <1>5, <2>1 DEF Promised!Follow
<1>8. Promised!Join(s, entry)
  BY <1>1, <1>6, <1>7 DEF Promised!Join, Promised!Newest, Started
<1> QED BY <1>6, <1>8 DEF Promised!PromisedNext

\* A request that begins the next execution.
LEMMA MappedStartOf ==
  ASSUME FeedInv, StoryInv, NEW s \in Subscribers, PostStarts(s)
  PROVE  Promised!PromisedNext
<1>1. PICK r \in Runs :
        /\ feed[r].driver = "unborn" /\ entry' = r
        /\ \A q \in 1..(r - 1) : feed[q].driver # "unborn"
        /\ feed' = [feed EXCEPT ![r].driver = "runs"]
        /\ reader' = AttachTo(s, r)
  BY DEF PostStarts
<1> DEFINE d == [reader[s] EXCEPT !.stage = "subscribe", !.run = r]
           heard == [t \in Subscribers |-> Heard(reader[t])]
<1>2. reader' = [reader EXCEPT ![s] = d] /\ UNCHANGED savedBy
  BY <1>1 DEF PostStarts, AttachTo
<1>3. reader[s] = Idle /\ heard[s] = Promised!Unasked /\ heard[s] = HeardParts("idle", 0, {}, << >>, "none")
  BY HeardIdle DEF PostStarts
<1>4. Heard(d) = Following(heard[s], r)
  <2>1. d.stage = "subscribe" /\ d.run = r /\ d.got = << >>
    BY <1>3 DEF Idle
  <2>2. Heard(d) = HeardParts("reads", r, {}, << >>, "none")
    BY <2>1, HeardStages
  <2> HIDE DEF d, heard
  <2> QED BY <1>3, <2>2, HeardNext
<1>5. heard' = [heard EXCEPT ![s] = Heard(d)]
  BY <1>2, HeardMoves
<1>6. Promised!Follow(s, r)
  <2>1. heard' = [heard EXCEPT ![s].phase = "reads", ![s].run = r]
    <3> HIDE DEF d, heard
    <3> QED BY <1>4, <1>5 DEF Following
  <2>2. heard[s].phase = "idle"
    BY <1>3 DEF Promised!Unasked
  <2> QED BY <2>1, <2>2 DEF Promised!Follow
<1>7. \A q \in Runs : /\ feed'[q].events = feed[q].events /\ feed'[q].terminal = feed[q].terminal
                      /\ feed'[q].driver # "unborn" <=> (feed[q].driver # "unborn" \/ q = r)
  BY <1>1 DEF FeedInv, FeedTypeOK, FeedRecords
<1>8. /\ [q \in Runs |-> feed[q].events]' = [q \in Runs |-> feed[q].events]
      /\ [q \in Runs |-> feed[q].terminal]' = [q \in Runs |-> feed[q].terminal]
      /\ Started' = Started \cup {r}
  BY <1>7 DEF Started
<1>9. Promised!Running = {}
  BY AllOver DEF PostStarts, Promised!Running, Started
<1>10. \A q \in Started : q < r
  BY <1>1, FeedBounds DEF StoryInv, OrderInv, Started, Runs
<1>11. Promised!Begin(s, r)
  BY <1>2, <1>6, <1>8, <1>9, <1>10 DEF Promised!Begin
<1>12. r \in Runs \ Started
  BY <1>1 DEF Started
<1> QED BY <1>11, <1>12 DEF Promised!PromisedNext

\* A request that finds nothing running asks the database.
LEMMA MappedAsk ==
  ASSUME FeedInv, StoryInv, NEW s \in Subscribers, GetMisses(s)
  PROVE  Promised!PromisedNext
<1>1. PICK r \in 0 .. MaxRuns :
        /\ \A q \in Runs : feed[q].driver # "unborn" <=> q <= r
        /\ reader' = [reader EXCEPT ![s].stage = "lookup", ![s].run = r]
  BY DEF GetMisses
<1> DEFINE d == [reader[s] EXCEPT !.stage = "lookup", !.run = r]
           heard == [t \in Subscribers |-> Heard(reader[t])]
<1>2. reader' = [reader EXCEPT ![s] = d] /\ UNCHANGED <<feed, savedBy>>
  BY <1>1 DEF GetMisses
<1>3. reader[s] = Idle /\ heard[s] = Promised!Unasked /\ heard[s] = HeardParts("idle", 0, {}, << >>, "none")
  BY HeardIdle DEF GetMisses
<1>4. Started = 1 .. r
  BY <1>1, FeedBounds DEF Started, Runs
<1>5. Heard(d) = Asking(heard[s], Started)
  <2>1. d.stage = "lookup" /\ d.run = r /\ d.got = << >>
    BY <1>3 DEF Idle
  <2>2. Heard(d) = HeardParts("lookup", 0, 1 .. r, << >>, "none")
    BY <2>1, HeardStages
  <2> HIDE DEF d, heard
  <2> QED BY <1>3, <1>4, <2>2, HeardNext
<1>6. heard' = [heard EXCEPT ![s] = Heard(d)]
  BY <1>2, HeardMoves
<1>7. Promised!Running = {}
  BY AllOver DEF GetMisses, Promised!Running, Started
<1>8. Started' = Started
  BY <1>2 DEF Started
<1>9. heard' = [heard EXCEPT ![s].phase = "lookup", ![s].before = Started]
  <2> HIDE DEF d, heard
  <2> QED BY <1>5, <1>6 DEF Asking
<1>10. heard[s].phase = "idle"
  BY <1>3 DEF Promised!Unasked
<1>11. Promised!Ask(s)
  BY <1>2, <1>7, <1>8, <1>9, <1>10 DEF Promised!Ask
<1> QED BY <1>11 DEF Promised!PromisedNext

\* The database answers.
LEMMA MappedLookup ==
  ASSUME FeedInv, StoryInv, NEW s \in Subscribers, Lookup(s)
  PROVE  Promised!PromisedNext
<1> DEFINE st == IF savedBy # 0 THEN "replayed" ELSE "missing"
           d == [reader[s] EXCEPT !.stage = st]
           heard == [t \in Subscribers |-> Heard(reader[t])]
<1>1. reader' = [reader EXCEPT ![s] = d] /\ UNCHANGED <<feed, savedBy>> /\ Started' = Started
  BY DEF Lookup, Started
<1>2. reader[s] \in ReaderRecords /\ reader[s].stage = "lookup" /\ savedBy \in 0 .. MaxRuns
  BY DEF Lookup, FeedInv, FeedTypeOK
<1>3. st \in {"replayed", "missing"}
  OBVIOUS
<1>4. heard[s] = HeardParts("lookup", 0, 1 .. reader[s].run, reader[s].got, "none")
  BY <1>2, HeardStages
<1>5. heard[s].phase = "lookup" /\ heard[s].before = 1 .. reader[s].run
  BY <1>4 DEF HeardParts
<1>6. Heard(d) = Answering(heard[s], st)
  <2> HIDE DEF st
  <2>1. d.stage = st /\ d.run = reader[s].run /\ d.got = reader[s].got
    BY <1>2 DEF ReaderRecords
  <2>2. Heard(d) = HeardParts(st, 0, 1 .. reader[s].run, reader[s].got, "none")
    BY <1>3, <2>1, HeardStages
  <2> HIDE DEF d, heard
  <2> QED BY <1>4, <2>2, HeardNext
<1>7. heard' = [heard EXCEPT ![s] = Heard(d)]
  BY <1>1, HeardMoves
<1>8. heard' = [heard EXCEPT ![s].phase = st]
  <2> HIDE DEF d, heard, st
  <2> QED BY <1>7, <1>6 DEF Answering
<1>9. CASE savedBy # 0
  <2>1. Runs \cap {savedBy} # {} /\ st = "replayed"
    BY <1>2, <1>9, FeedBounds DEF Runs
  <2>2. Promised!Replay(s)
    BY <1>1, <1>5, <1>8, <2>1 DEF Promised!Replay
  <2> QED BY <2>2 DEF Promised!PromisedNext
<1>10. CASE savedBy = 0
  <2>1. Runs \cap {savedBy} = {} /\ st = "missing"
    BY <1>2, <1>10, FeedBounds DEF Runs
  <2>2. \A q \in 1 .. reader[s].run : q \in Runs /\ feed[q].driver \in {"finished", "gone"}
    BY <1>2, FeedBounds DEF FeedInv, RegistryInv, LookupOK, ReaderRecords, Runs
  <2>3. \A q \in 1 .. reader[s].run : q \in Runs /\ feed[q].terminal = "failed"
    BY <1>10, <2>2 DEF StoryInv, OutcomeInv, Outcome
  <2>4. Promised!Refuse(s)
    BY <1>1, <1>5, <1>8, <2>1, <2>3 DEF Promised!Refuse
  <2> QED BY <2>4 DEF Promised!PromisedNext
<1> QED BY <1>9, <1>10

\* A client goes away.
LEMMA MappedLeave ==
  ASSUME FeedInv, StoryInv, NEW s \in Subscribers, Leave(s)
  PROVE  Promised!PromisedNext
<1> DEFINE d == [Idle EXCEPT !.stage = "left"]
           heard == [t \in Subscribers |-> Heard(reader[t])]
<1>1. reader' = [reader EXCEPT ![s] = d] /\ UNCHANGED <<feed, savedBy>> /\ Started' = Started
  BY DEF Leave, Started
<1>2. Heard(d) = Answering(Promised!Unasked, "left")
  <2>1. d.stage = "left" /\ d.run = 0 /\ d.got = << >>
    BY DEF Idle
  <2>2. Heard(d) = HeardParts("left", 0, {}, << >>, "none")
    BY <2>1, HeardStages
  <2>3. Promised!Unasked = HeardParts("idle", 0, {}, << >>, "none")
    BY DEF Promised!Unasked, HeardParts
  <2> HIDE DEF d
  <2> QED BY <2>2, <2>3, HeardNext
<1>3. heard' = [heard EXCEPT ![s] = Heard(d)]
  BY <1>1, HeardMoves
<1>4. heard[s].phase \in {"reads", "lookup"}
  BY DEF Leave, Streaming, Heard
<1>5. heard' = [heard EXCEPT ![s] = [Promised!Unasked EXCEPT !.phase = "left"]]
  <2> HIDE DEF d, heard
  <2> QED BY <1>2, <1>3 DEF Answering
<1>6. Promised!GoAway(s)
  BY <1>1, <1>4, <1>5 DEF Promised!GoAway
<1> QED BY <1>6 DEF Promised!PromisedNext

\* A stream delivers the next event or the receipt, or reads on.
LEMMA MappedReader ==
  ASSUME FeedInv, StoryInv, NEW s \in Subscribers, ReaderStep(s) \/ Ping(s)
  PROVE  Promised!PromisedNext \/ UNCHANGED Promised!promisedVars
<1> DEFINE heard == [t \in Subscribers |-> Heard(reader[t])]
           run == reader[s].run
<1>1. reader[s] \in ReaderRecords /\ reader'[s] \in ReaderRecords /\ CursorOK(reader[s])
  BY FeedInvNext DEF FeedInv, FeedTypeOK, FeedNext, CursorInv
<1>2. reader[s].stage \in {"subscribe", "read", "frames", "wait"} /\ UNCHANGED <<feed, entry, savedBy>>
  BY DEF ReaderStep, Ping, Subscribe, CopyFeed, Frame, FramesEnd, Wake
<1>3. reader' = [reader EXCEPT ![s] = reader'[s]]
  BY DEF ReaderStep, Ping, Subscribe, CopyFeed, Frame, FramesEnd, Wake, FeedInv, FeedTypeOK
<1>4. heard' = [heard EXCEPT ![s] = Heard(reader'[s])] /\ Started' = Started
  BY <1>2, <1>3, HeardMoves DEF Started
<1>5. Heard(reader[s]) = HeardParts("reads", run, {}, reader[s].got, "none")
  BY <1>2, HeardStages
<1>6. run \in Runs /\ run \in Started
  BY <1>1, <1>2 DEF CursorOK, StoryInv, RequestInv, RequestOK, Started
<1>7. heard[s] = Heard(reader[s])
  OBVIOUS
<1>8. CASE Subscribe(s) \/ CopyFeed(s) \/ Wake(s) \/ Ping(s)
  <2>1. /\ reader'[s].stage \in {"subscribe", "read", "frames", "wait"}
        /\ reader'[s].run = run /\ reader'[s].got = reader[s].got
    BY <1>1, <1>8 DEF Subscribe, CopyFeed, Wake, Ping, FeedInv, FeedTypeOK, ReaderRecords
  <2>2. Heard(reader'[s]) = heard[s]
    BY <1>1, <1>5, <2>1, HeardStages
  <2>3. heard' = heard
    BY <1>4, <2>2
  <2> QED BY <1>2, <1>4, <2>3 DEF Promised!promisedVars
<1>9. CASE Frame(s)
  <2> DEFINE n == reader[s].from + 1
  <2>1. /\ reader'[s].stage = "frames" /\ reader'[s].run = run
        /\ reader'[s].got = Append(reader[s].got, n)
    BY <1>1, <1>9 DEF Frame, FeedInv, FeedTypeOK, ReaderRecords
  <2>2. Len(reader[s].got) + 1 = n /\ Len(reader[s].got) < feed[run].events
    BY <1>1, <1>6, <1>9 DEF Frame, CursorOK, ReaderRecords, FeedInv, FeedTypeOK, FeedRecords
  <2>3. Heard(reader'[s]) = Hearing(heard[s], Append(reader[s].got, n))
    <3> DEFINE g == Append(reader[s].got, n)
    <3>1. reader'[s].got = g
      BY <2>1
    <3> HIDE DEF n, g
    <3>2. Heard(reader'[s]) = HeardParts("reads", run, {}, g, "none")
      BY <2>1, <3>1, HeardStages
    <3> HIDE DEF heard, run
    <3> QED BY <1>5, <1>7, <3>2, HeardNext DEF g
  <2>4. Promised!Follows(s, run) /\ heard[s].got = reader[s].got
    BY <1>5, <1>7 DEF Promised!Follows, HeardParts
  <2>5. heard' = [heard EXCEPT ![s].got = Append(@, Len(heard[s].got) + 1)]
    <3> HIDE DEF heard, run, n
    <3> QED BY <1>4, <2>2, <2>3, <2>4 DEF Hearing
  <2>6. Promised!Deliver(s, run)
    BY <1>2, <1>4, <1>6, <2>2, <2>4, <2>5 DEF Promised!Deliver
  <2> QED BY <1>6, <2>6 DEF Promised!PromisedNext
<1>10. CASE FramesEnd(s) /\ reader[s].terminal = "none"
  <2>1. reader'[s].stage = "wait" /\ reader'[s].run = run /\ reader'[s].got = reader[s].got
    BY <1>1, <1>10 DEF FramesEnd, FeedInv, FeedTypeOK, ReaderRecords
  <2>2. Heard(reader'[s]) = heard[s]
    BY <1>1, <1>5, <2>1, HeardStages
  <2>3. heard' = heard
    BY <1>4, <2>2
  <2> QED BY <1>2, <1>4, <2>3 DEF Promised!promisedVars
<1>11. CASE FramesEnd(s) /\ reader[s].terminal # "none"
  <2>1. /\ reader'[s].stage = "closed" /\ reader'[s].run = run /\ reader'[s].got = reader[s].got
        /\ reader'[s].terminal = reader[s].terminal
    BY <1>1, <1>11 DEF FramesEnd, FeedInv, FeedTypeOK, ReaderRecords
  <2>2. Len(reader[s].got) = feed[run].events /\ reader[s].terminal = feed[run].terminal
    BY <1>1, <1>11 DEF FramesEnd, CursorOK
  <2>3. Heard(reader'[s]) = Closing(heard[s], feed[run].terminal)
    <3> DEFINE tm == feed[run].terminal
    <3>1. reader'[s].terminal = tm
      BY <2>1, <2>2
    <3> HIDE DEF tm
    <3>2. Heard(reader'[s]) = HeardParts("closed", run, {}, reader[s].got, tm)
      BY <2>1, <3>1, HeardStages
    <3> HIDE DEF heard, run
    <3> QED BY <1>5, <1>7, <3>2, HeardNext DEF tm
  <2>4. Promised!Follows(s, run) /\ heard[s].got = reader[s].got
    BY <1>5, <1>7 DEF Promised!Follows, HeardParts
  <2>5. heard' = [heard EXCEPT ![s].phase = "closed", ![s].told = feed[run].terminal]
    <3> HIDE DEF heard, run
    <3> QED BY <1>4, <2>3 DEF Closing
  <2>6. Promised!Close(s, run)
    BY <1>2, <1>4, <1>6, <1>11, <2>2, <2>4, <2>5 DEF Promised!Close
  <2> QED BY <1>6, <2>6 DEF Promised!PromisedNext
<1> QED BY <1>8, <1>9, <1>10, <1>11 DEF ReaderStep

\* Every step of the feed is a step of the promise or a stutter.
LEMMA MappedStep ==
  ASSUME FeedInv, StoryInv, [FeedNext]_feedVars
  PROVE  [UNCHANGED feedVars \/ Promised!PromisedNext]_Promised!promisedVars
<1>1. CASE FeedNext
  BY <1>1, MappedExecution, MappedPost, MappedStartOf, MappedAsk, MappedLookup, MappedLeave, MappedReader
     DEF FeedNext
<1>2. CASE UNCHANGED feedVars
  BY <1>2
<1> QED BY <1>1, <1>2

(***************************************************************************)
(* The feed implements the promise, for any number of requests, executions *)
(* and events.                                                             *)
(***************************************************************************)
THEOREM FeedPromiseKept == FeedSpec => KeepsFeedPromise
BY FeedInvariance, StoryInvariance, MappedStart, MappedStep, PTL DEF FeedSpec, KeepsFeedPromise

(***************************************************************************)
(* Every behaviour of the feed of a turn (post_turn, get_turn_stream,      *)
(* turn_feed_response), seen through the refinement mapping, is one that   *)
(* FeedPromise allows: KeepsFeedPromise as one specification implementing  *)
(* another.                                                                *)
(***************************************************************************)
THEOREM FeedImplements == FeedSpec => Promised!PromisedSpec
<1>1. ASSUME FeedInv, StoryInv, [FeedNext]_feedVars
      PROVE  [Promised!PromisedNext]_Promised!promisedVars
  <2>1. UNCHANGED feedVars => UNCHANGED Promised!promisedVars
    BY DEF feedVars, Promised!promisedVars, Started, Heard
  <2> QED BY <1>1, <2>1, MappedStep
<1> QED BY <1>1, FeedInvariance, StoryInvariance, MappedStart, PTL DEF FeedSpec, Promised!PromisedSpec
=============================================================================
