------------------------- MODULE DialogStoreProofs -------------------------
(***************************************************************************)
(* Proofs about DialogStore for every number of chats, requests, workers   *)
(* and calls, every rewind window and transcripts of any length.           *)
(***************************************************************************)
EXTENDS DialogStore, FiniteSetTheorems, WellFoundedInduction, TLAPS

-----------------------------------------------------------------------------
(* What a worker's call holds at each of its stages. *)
TurnJobOK(j) ==
  /\ j.call \in TurnCalls =>
       j.chat \in Chats /\ j.dest \in Chats /\ j.request \in Requests
  /\ j.call \in {"edit", "branch"} => j.turn \in Nat \ {0}
  /\ j.call = "edit" => j.dest = j.chat
  /\ j.stage \in {"lookup", "load", "prepare", "model", "put"} => j.call \in TurnCalls
  /\ j.stage = "prepare" => j.call \in {"edit", "branch"}
  /\ j.stage \in {"model", "put"} => j.seen \in Runtimes
  /\ j.stage = "model" /\ j.call \in {"edit", "branch"} => j.source \in Runtimes

ChatJobOK(j) ==
  /\ j.stage \in {"lock", "probe", "fetch", "fill", "use", "file", "dress", "sign"} =>
       j.dest \in Chats
  /\ j.stage \in {"fill", "file", "sign"} => j.seen \in Runtimes
  /\ j.stage = "check" => j.call = "activate"
  /\ j.stage = "point" /\ j.call = "create" => j.seen \in Runtimes
  /\ j.stage \in {"check", "point", "heal"} => j.dest \in Chats
  /\ j.stage \in {"check", "point", "delete", "evict"} => j.chat \in Chats
  /\ j.stage \in {"delete", "evict", "resolve"} => j.call \notin TurnCalls

JobOK(j) == j \in JobRecords /\ TurnJobOK(j) /\ ChatJobOK(j)

TablesOK ==
  /\ rows \in [Chats -> Runtimes \cup {None}]
  /\ checkpoints \subseteq Checkpoints
  /\ receipts \subseteq Receipts
  /\ active \in Chats \cup {None}
  /\ drawn \subseteq Chats

CacheOK == cache \in [Chats -> Runtimes \cup {None}]

GuardsOK ==
  /\ gate \in Workers \cup {None}
  /\ lock \in [Chats -> Workers \cup {None}]

JobsOK ==
  /\ job = [w \in Workers |-> job[w]]
  /\ \A w \in Workers : JobOK(job[w])

TypeInv == TablesOK /\ CacheOK /\ GuardsOK /\ JobsOK

(* A step that gives one worker a sound call keeps all calls sound. *)
LEMMA OneJob ==
  ASSUME JobsOK, NEW w \in Workers, NEW j, JobOK(j), job' = [job EXCEPT ![w] = j]
  PROVE  JobsOK'
BY DEF JobsOK, JobOK, TurnJobOK, ChatJobOK

(* An idle worker is sound. *)
LEMMA IdleOK == JobOK(Idle)
BY DEF JobOK, TurnJobOK, ChatJobOK, Idle, JobRecords, Stages, AllCalls, TurnCalls

(* Leaving keeps the guards and the calls sound. *)
LEMMA LeaveOK ==
  ASSUME JobsOK, GuardsOK, NEW w \in Workers, Leave(w)
  PROVE  JobsOK' /\ GuardsOK'
<1>1. JobsOK'
  BY OneJob, IdleOK DEF Leave
<1>2. GuardsOK'
  BY DEF GuardsOK, Leave
<1> QED
  BY <1>1, <1>2

(* So does moving on to another stage, when the call is sound there. *)
LEMMA GotoOK ==
  ASSUME JobsOK, NEW w \in Workers, NEW s \in Stages, Goto(w, s),
         TurnJobOK([job[w] EXCEPT !.stage = s]), ChatJobOK([job[w] EXCEPT !.stage = s])
  PROVE  JobsOK'
<1> DEFINE j == [job[w] EXCEPT !.stage = s]
<1>1. job[w] \in JobRecords /\ job = [v \in Workers |-> job[v]]
  BY DEF JobsOK, JobOK
<1>2. job' = [job EXCEPT ![w] = j]
  BY <1>1 DEF Goto
<1>3. j \in JobRecords
  BY <1>1 DEF JobRecords
<1>4. JobOK(j)
  BY <1>3 DEF JobOK
<1> QED
  BY <1>2, <1>4, OneJob

(* What a commit leaves of a table of checkpoints comes from the table or  *)
(* is the new checkpoint.                                                  *)
LEMMA StampParts ==
  ASSUME NEW table, NEW c, NEW n, NEW q, NEW s,
         NEW k \in Stamp(table, c, n, q, s)
  PROVE  \/ k \in table /\ ~(k.chat = c /\ k.turn = n)
         \/ k = [chat |-> c, turn |-> n, request |-> q, snapshot |-> s]
BY DEF Stamp, Prune, Upsert

-----------------------------------------------------------------------------
(* Type correctness, one lemma per group of steps.                         *)

(* The initial state is well typed. *)
LEMMA TypeInit == StoreInit => TypeInv
BY IdleOK DEF StoreInit, TypeInv, TablesOK, CacheOK, GuardsOK, JobsOK

(* A request begins. *)
LEMMA TypeStart ==
  ASSUME TypeInv, NEW w \in Workers, Start(w)
  PROVE  TypeInv'
<1> USE DEF TypeInv
<1>1. ASSUME NEW c \in Chats, NEW q \in Requests, NEW n \in Nat,
             NEW call \in {"turn", "edit", "branch"},
             n # 0 \/ call = "turn", StartTurn(w, call, c, q, n)
      PROVE  TypeInv'
  <2> DEFINE j == [Idle EXCEPT !.call = call, !.stage = "lock",
                                !.chat = c, !.dest = c, !.turn = n, !.request = q]
  <2>1. JobOK(j)
    BY <1>1 DEF JobOK, TurnJobOK, ChatJobOK, Idle, JobRecords, Stages, AllCalls, TurnCalls
  <2>2. JobsOK'
    BY <1>1, <2>1, OneJob DEF StartTurn
  <2> QED
    BY <1>1, <2>2 DEF StartTurn, disk, TablesOK, CacheOK, GuardsOK
<1>2. ASSUME NEW call \in StateCalls, StartStateCall(w, call)
      PROVE  TypeInv'
  <2> DEFINE j == [Idle EXCEPT !.call = call, !.stage = "resolve"]
  <2>1. JobOK(j)
    BY <1>2 DEF JobOK, TurnJobOK, ChatJobOK, Idle, JobRecords, Stages, AllCalls,
                TurnCalls, StateCalls
  <2>2. JobsOK'
    BY <1>2, <2>1, OneJob DEF StartStateCall
  <2> QED
    BY <1>2, <2>2 DEF StartStateCall, disk, TablesOK, CacheOK, GuardsOK
<1>3. ASSUME NEW c \in Chats, NEW activate \in BOOLEAN, CreateChat(w, c, activate)
      PROVE  TypeInv'
  <2> DEFINE j == [Idle EXCEPT !.call = "create",
                                !.stage = IF activate THEN "point" ELSE "file",
                                !.chat = c, !.dest = c, !.seen = NewRuntime]
  <2>3. NewRuntime \in Runtimes
    BY DEF NewRuntime, Runtimes
  <2>1. JobOK(j)
    <3>1. j \in JobRecords
      BY <1>3, <2>3 DEF Idle, JobRecords, Stages, AllCalls
    <3>2. j.call = "create" /\ j.chat = c /\ j.dest = c /\ j.seen = NewRuntime
          /\ j.stage \in {"point", "file"}
      BY DEF Idle
    <3> HIDE DEF j
    <3> QED
      BY <2>3, <3>1, <3>2 DEF JobOK, TurnJobOK, ChatJobOK, TurnCalls
  <2>2. JobsOK'
    BY <1>3, <2>1, OneJob DEF CreateChat
  <2> QED
    BY <1>3, <2>2, <2>3 DEF CreateChat, TablesOK, CacheOK, GuardsOK
<1>4. ASSUME NEW c \in Chats, StartActivate(w, c)
      PROVE  TypeInv'
  <2> DEFINE j == [Idle EXCEPT !.call = "activate", !.stage = "check", !.chat = c, !.dest = c]
  <2>1. JobOK(j)
    BY <1>4 DEF JobOK, TurnJobOK, ChatJobOK, Idle, JobRecords, Stages, AllCalls, TurnCalls
  <2>2. JobsOK'
    BY <1>4, <2>1, OneJob DEF StartActivate
  <2> QED
    BY <1>4, <2>2 DEF StartActivate, disk, TablesOK, CacheOK, GuardsOK
<1>5. ASSUME NEW c \in Chats, StartPeek(w, c)
      PROVE  TypeInv'
  <2> DEFINE j == [Idle EXCEPT !.call = "peek", !.stage = "heal", !.chat = c, !.dest = c]
  <2>1. JobOK(j)
    BY <1>5 DEF JobOK, TurnJobOK, ChatJobOK, Idle, JobRecords, Stages, AllCalls, TurnCalls
  <2>2. JobsOK'
    BY <1>5, <2>1, OneJob DEF StartPeek
  <2> QED
    BY <1>5, <2>2 DEF StartPeek, disk, TablesOK, CacheOK, GuardsOK
<1>6. ASSUME NEW c \in Chats, StartDelete(w, c)
      PROVE  TypeInv'
  <2> DEFINE j == [Idle EXCEPT !.call = "delete", !.stage = "delete", !.chat = c]
  <2>1. JobOK(j)
    BY <1>6 DEF JobOK, TurnJobOK, ChatJobOK, Idle, JobRecords, Stages, AllCalls, TurnCalls
  <2>2. ASSUME NEW v \in Workers
        PROVE  JobOK([job[v] EXCEPT !.cancelled = TRUE])
    <3>1. JobOK(job[v])
      BY DEF JobsOK
    <3>2. [job[v] EXCEPT !.cancelled = TRUE] \in JobRecords
      BY <3>1 DEF JobOK, JobRecords
    <3>3. TurnJobOK([job[v] EXCEPT !.cancelled = TRUE])
      BY <3>1 DEF JobOK, TurnJobOK, JobRecords
    <3>4. ChatJobOK([job[v] EXCEPT !.cancelled = TRUE])
      BY <3>1 DEF JobOK, ChatJobOK, JobRecords
    <3> QED
      BY <3>2, <3>3, <3>4 DEF JobOK
  <2>3. JobsOK'
    BY <1>6, <2>1, <2>2 DEF StartDelete, JobsOK
  <2> QED
    BY <1>6, <2>3 DEF StartDelete, disk, TablesOK, CacheOK, GuardsOK
<1>7. \A n \in 1..MaxTurns : n \in Nat /\ n # 0
  BY BoundAssumption
<1> QED
  BY <1>1, <1>2, <1>3, <1>4, <1>5, <1>6, <1>7 DEF Start

(* What a turn leaves is a runtime, one turn longer. *)
LEMMA PlayedOK ==
  ASSUME NEW r \in Runtimes, NEW q \in Requests
  PROVE  /\ Played(r, q) \in Runtimes
         /\ Len(Played(r, q).turns) = Len(r.turns) + 1
         /\ Len(r.turns) \in Nat
BY DEF Played, Runtimes

(* A turn, from the chat lock to its cache_put. *)
LEMMA TypeTurn ==
  ASSUME TypeInv, NEW w \in Workers, TurnStep(w)
  PROVE  TypeInv'
<1> USE DEF TypeInv
<1>a. JobOK(job[w]) /\ job[w] \in JobRecords
  BY DEF JobsOK, JobOK
<1>b. job = [v \in Workers |-> job[v]]
  BY DEF JobsOK
<1>1. CASE EnterTurn(w)
  <2>1. JobsOK'
    BY <1>1, <1>a, GotoOK DEF EnterTurn, At, JobOK, TurnJobOK, ChatJobOK, Stages, JobRecords
  <2>2. job[w].chat \in Chats
    BY <1>1, <1>a DEF EnterTurn, JobOK, TurnJobOK
  <2> QED
    BY <1>1, <2>1, <2>2 DEF EnterTurn, disk, TablesOK, CacheOK, GuardsOK
<1>2. CASE LookupReceipt(w)
  <2>1. UNCHANGED <<disk, cache, gate, lock>>
    BY <1>2 DEF LookupReceipt
  <2>2. JobsOK'
    <3>1. CASE Goto(w, "load")
      BY <1>2, <1>a, <3>1, GotoOK
      DEF LookupReceipt, At, JobOK, TurnJobOK, ChatJobOK, Stages, JobRecords
    <3>2. ASSUME NEW r \in receipts,
                 job[w].call # "turn", r.kind = job[w].call,
                 job' = [job EXCEPT ![w].call = "retry", ![w].stage = "load",
                                    ![w].dest = r.dest]
          PROVE  JobsOK'
      <4> DEFINE j == [job[w] EXCEPT !.call = "retry", !.stage = "load", !.dest = r.dest]
      <4>1. r.dest \in Chats /\ r.kind \in {"edit", "branch"}
        BY DEF TablesOK, Receipts
      <4>2. j \in JobRecords
        BY <1>a, <4>1 DEF JobRecords, Stages, AllCalls
      <4>3. JobOK(j)
        BY <1>2, <1>a, <4>1, <4>2, <3>2 DEF LookupReceipt, At, JobOK, TurnJobOK, ChatJobOK,
                                      JobRecords, TurnCalls
      <4>4. job' = [job EXCEPT ![w] = j]
        BY <3>2, <1>a, <1>b
      <4> QED
        BY <4>3, <4>4, OneJob
    <3> QED
      BY <1>2, <3>1, <3>2 DEF LookupReceipt
  <2> QED
    BY <2>1, <2>2 DEF disk, TablesOK, CacheOK, GuardsOK
<1>3. CASE LoadTurn(w)
  <2> DEFINE j == [job[w] EXCEPT !.stage = "model", !.seen = rows[job[w].dest]]
  <2>1. rows[job[w].dest] \in Runtimes
    BY <1>3, <1>a DEF LoadTurn, TablesOK, JobOK, TurnJobOK, TurnCalls
  <2>2. j \in JobRecords
    BY <1>a, <2>1 DEF JobRecords, Stages
  <2>3. JobOK(j)
    BY <1>3, <1>a, <2>1, <2>2 DEF LoadTurn, At, JobOK, TurnJobOK, ChatJobOK, JobRecords, TurnCalls
  <2>4. job' = [job EXCEPT ![w] = j]
    BY <1>3, <1>a, <1>b DEF LoadTurn
  <2>5. JobsOK'
    BY <2>3, <2>4, OneJob
  <2> QED
    BY <1>3, <2>5 DEF LoadTurn, disk, TablesOK, CacheOK, GuardsOK
<1>4. CASE LoadSource(w)
  <2>1. JobsOK'
    BY <1>4, <1>a, GotoOK DEF LoadSource, At, JobOK, TurnJobOK, ChatJobOK, Stages,
                              JobRecords, TurnCalls
  <2> QED
    BY <1>4, <2>1 DEF LoadSource, disk, TablesOK, CacheOK, GuardsOK
<1>5. CASE PrepareHistory(w)
  <2>1. PICK k \in CheckpointsOf(checkpoints, job[w].chat), d \in Chats :
          /\ drawn' = drawn \/ drawn' = drawn \cup {d}
          /\ job[w].call = "edit" => d = job[w].chat
          /\ job' = [job EXCEPT ![w].stage = "model", ![w].dest = d,
                                ![w].seen = k.snapshot,
                                ![w].source = rows[job[w].chat]]
    BY <1>5 DEF PrepareHistory
  <2> DEFINE j == [job[w] EXCEPT !.stage = "model", !.dest = d, !.seen = k.snapshot,
                                 !.source = rows[job[w].chat]]
  <2>2. job[w].chat \in Chats /\ job[w].call \in {"edit", "branch"}
    BY <1>5, <1>a DEF PrepareHistory, At, JobOK, TurnJobOK, TurnCalls
  <2>3. k.snapshot \in Runtimes /\ rows[job[w].chat] \in Runtimes
    BY <1>5, <2>2 DEF PrepareHistory, CheckpointsOf, TablesOK, Checkpoints
  <2>4. j \in JobRecords
    BY <1>a, <2>3 DEF JobRecords, Stages
  <2>5. JobOK(j)
    BY <1>5, <1>a, <2>1, <2>2, <2>3, <2>4
    DEF PrepareHistory, At, JobOK, TurnJobOK, ChatJobOK, JobRecords, TurnCalls
  <2>6. job' = [job EXCEPT ![w] = j]
    BY <2>1, <1>a, <1>b
  <2>7. JobsOK'
    BY <2>5, <2>6, OneJob
  <2> QED
    BY <1>5, <2>1, <2>7 DEF PrepareHistory, TablesOK, CacheOK, GuardsOK
<1>6. CASE AbandonTurn(w)
  BY <1>6, LeaveOK DEF AbandonTurn, disk, TablesOK, CacheOK
<1>7. ASSUME At(w, "model"), job[w].call \in TurnCalls,
             job' = [job EXCEPT ![w].stage = "put",
                                ![w].seen = Played(job[w].seen, job[w].request)]
      PROVE  /\ JobsOK'
             /\ job[w].seen \in Runtimes /\ Played(job[w].seen, job[w].request) \in Runtimes
             /\ job[w].chat \in Chats /\ job[w].dest \in Chats /\ job[w].request \in Requests
             /\ Len(Played(job[w].seen, job[w].request).turns) \in Nat \ {0}
  <2> DEFINE after == Played(job[w].seen, job[w].request)
             j == [job[w] EXCEPT !.stage = "put", !.seen = after]
  <2>1. job[w].seen \in Runtimes /\ job[w].request \in Requests
        /\ job[w].chat \in Chats /\ job[w].dest \in Chats
    BY <1>7, <1>a DEF At, JobOK, TurnJobOK
  <2>2. after \in Runtimes /\ Len(after.turns) \in Nat \ {0}
    BY <2>1, PlayedOK
  <2>3. j \in JobRecords
    BY <1>a, <2>2 DEF JobRecords, Stages
  <2>4. JobOK(j)
    BY <1>7, <1>a, <2>2, <2>3 DEF At, JobOK, TurnJobOK, ChatJobOK, JobRecords, TurnCalls
  <2>5. job' = [job EXCEPT ![w] = j]
    BY <1>7, <1>a, <1>b
  <2> QED
    BY <2>1, <2>2, <2>4, <2>5, OneJob
<1>8. CASE CommitTurn(w)
  <2> DEFINE after == Played(job[w].seen, job[w].request)
             count == Len(after.turns)
             k == [chat |-> job[w].dest, turn |-> count, request |-> job[w].request,
                   snapshot |-> job[w].seen]
  <2>1. /\ At(w, "model") /\ job[w].call \in TurnCalls
        /\ job' = [job EXCEPT ![w].stage = "put", ![w].seen = after]
        /\ rows' = [rows EXCEPT ![job[w].dest] = after]
        /\ checkpoints' = Stamp(KeepBelow(job[w].dest, count + 1), job[w].dest, count,
                                job[w].request, job[w].seen)
        /\ UNCHANGED <<receipts, active, drawn, cache, gate, lock>>
    BY <1>8 DEF CommitTurn, TurnCalls
  <2>2. JobsOK' /\ after \in Runtimes /\ k \in Checkpoints
    BY <2>1, <1>7 DEF Checkpoints
  <2>3. checkpoints' \subseteq checkpoints \cup {k}
    BY <2>1, StampParts DEF KeepBelow
  <2> QED
    BY <2>1, <2>2, <2>3 DEF TablesOK, CacheOK, GuardsOK
<1>9. CASE CommitEdit(w)
  <2> DEFINE after == Played(job[w].seen, job[w].request)
             k == [chat |-> job[w].chat, turn |-> job[w].turn, request |-> job[w].request,
                   snapshot |-> job[w].seen]
  <2>1. /\ At(w, "model") /\ job[w].call = "edit"
        /\ job' = [job EXCEPT ![w].stage = "put", ![w].seen = after]
        /\ rows' = [rows EXCEPT ![job[w].chat] = after]
        /\ checkpoints' = Stamp(KeepBelow(job[w].chat, job[w].turn), job[w].chat,
                                job[w].turn, job[w].request, job[w].seen)
        /\ receipts' = ReceiptsBefore(job[w].chat, job[w].turn) \cup {Receipt(w)}
        /\ gate' = w
        /\ UNCHANGED <<active, drawn, cache, lock>>
    BY <1>9 DEF CommitEdit
  <2>2. job[w].turn \in Nat \ {0}
    BY <1>a, <2>1 DEF JobOK, TurnJobOK
  <2>3. JobsOK' /\ after \in Runtimes /\ k \in Checkpoints /\ Receipt(w) \in Receipts
    BY <2>1, <2>2, <1>7 DEF Checkpoints, Receipts, Receipt, TurnCalls
  <2>4. checkpoints' \subseteq checkpoints \cup {k}
    BY <2>1, StampParts DEF KeepBelow
  <2>5. receipts' \subseteq Receipts
    BY <2>1, <2>3 DEF ReceiptsBefore, TablesOK
  <2> QED
    BY <2>1, <2>3, <2>4, <2>5 DEF TablesOK, CacheOK, GuardsOK
<1>10. CASE CommitBranch(w)
  <2> DEFINE after == Played(job[w].seen, job[w].request)
             inherited == {[i EXCEPT !.chat = job[w].dest] :
                             i \in {i \in CheckpointsOf(checkpoints, job[w].chat) :
                                      i.turn < job[w].turn}}
             k == [chat |-> job[w].dest, turn |-> job[w].turn, request |-> job[w].request,
                   snapshot |-> job[w].seen]
  <2>1. /\ At(w, "model") /\ job[w].call = "branch"
        /\ job' = [job EXCEPT ![w].stage = "put", ![w].seen = after]
        /\ rows' = [rows EXCEPT ![job[w].dest] = after]
        /\ checkpoints' = Stamp(checkpoints \cup inherited, job[w].dest,
                                job[w].turn, job[w].request, job[w].seen)
        /\ receipts' = receipts \cup {Receipt(w)}
        /\ active' = job[w].dest
        /\ gate' = w
        /\ UNCHANGED <<drawn, cache, lock>>
    BY <1>10 DEF CommitBranch
  <2>2. job[w].turn \in Nat \ {0}
    BY <1>a, <2>1 DEF JobOK, TurnJobOK
  <2>3. JobsOK' /\ after \in Runtimes /\ k \in Checkpoints /\ Receipt(w) \in Receipts
        /\ job[w].dest \in Chats
    BY <2>1, <2>2, <1>7 DEF Checkpoints, Receipts, Receipt, TurnCalls
  <2>4. inherited \subseteq Checkpoints
    BY <2>3 DEF TablesOK, CheckpointsOf, Checkpoints
  <2>5. checkpoints' \subseteq checkpoints \cup inherited \cup {k}
    BY <2>1, StampParts
  <2> QED
    BY <2>1, <2>3, <2>4, <2>5 DEF TablesOK, CacheOK, GuardsOK
<1>11. CASE CacheTurn(w)
  <2>1. job[w].seen \in Runtimes
    BY <1>11, <1>a DEF CacheTurn, At, JobOK, TurnJobOK
  <2> QED
    BY <1>11, <2>1, LeaveOK DEF CacheTurn, disk, TablesOK, CacheOK
<1> QED
  BY <1>1, <1>2, <1>3, <1>4, <1>5, <1>6, <1>8, <1>9, <1>10, <1>11 DEF TurnStep

(* The pointer and the cache. *)
LEMMA TypeState ==
  ASSUME TypeInv, NEW w \in Workers, StateStep(w)
  PROVE  TypeInv'
<1> USE DEF TypeInv
<1>a. JobOK(job[w]) /\ job[w] \in JobRecords
  BY DEF JobsOK, JobOK
<1>b. job = [v \in Workers |-> job[v]]
  BY DEF JobsOK
<1>c. NewRuntime \in Runtimes
  BY DEF NewRuntime, Runtimes
<1>d. ASSUME NEW c \in Chats, At(w, "resolve"),
             job' = [job EXCEPT ![w].stage = "probe", ![w].dest = c]
      PROVE  JobsOK'
  <2> DEFINE j == [job[w] EXCEPT !.stage = "probe", !.dest = c]
  <2>1. j \in JobRecords
    BY <1>a DEF JobRecords, Stages
  <2>2. JobOK(j)
    <3>1. j.call = job[w].call /\ j.stage = "probe" /\ j.dest = c
      BY <1>a DEF JobRecords
    <3>2. job[w].call \notin TurnCalls
      BY <1>a, <1>d DEF At, JobOK, ChatJobOK
    <3>3. TurnJobOK(j)
      BY <3>1, <3>2 DEF TurnJobOK, TurnCalls
    <3>4. ChatJobOK(j)
      BY <3>1 DEF ChatJobOK
    <3> QED
      BY <2>1, <3>3, <3>4 DEF JobOK
  <2>3. job' = [job EXCEPT ![w] = j]
    BY <1>d, <1>a, <1>b
  <2> QED
    BY <2>2, <2>3, OneJob
<1>e. ASSUME job[w].stage \in {"probe", "fetch", "fill"}, AfterCached(w)
      PROVE  JobsOK' /\ gate' \in Workers \cup {None}
  <2>1. PICK s \in {"lock", "probe", "use"} : Goto(w, s)
    BY <1>e DEF AfterCached
  <2>2. JobsOK'
    BY <1>a, <1>e, <2>1, GotoOK DEF At, JobOK, TurnJobOK, ChatJobOK, Stages, JobRecords
  <2> QED
    BY <1>e, <2>2 DEF AfterCached, GuardsOK
<1>1. CASE GetActive(w)
  <2>1. PICK c \in Existing :
          active' = c /\ job' = [job EXCEPT ![w].stage = "probe", ![w].dest = c]
    BY <1>1 DEF GetActive
  <2>2. c \in Chats
    BY DEF Existing
  <2>3. JobsOK'
    BY <1>1, <1>d, <2>1, <2>2 DEF GetActive
  <2> QED
    BY <1>1, <2>1, <2>2, <2>3 DEF GetActive, TablesOK, CacheOK, GuardsOK
<1>2. CASE GetActiveCreates(w)
  <2>1. PICK c \in Chats \ drawn :
          /\ drawn' = drawn \cup {c}
          /\ rows' = [rows EXCEPT ![c] = NewRuntime]
          /\ cache' = [cache EXCEPT ![c] = NewRuntime]
          /\ active' = c
          /\ job' = [job EXCEPT ![w].stage = "probe", ![w].dest = c]
    BY <1>2 DEF GetActiveCreates
  <2>2. JobsOK'
    BY <1>2, <1>d, <2>1 DEF GetActiveCreates
  <2> QED
    BY <1>2, <1>c, <2>1, <2>2 DEF GetActiveCreates, TablesOK, CacheOK, GuardsOK
<1>3. CASE NoIdLeft(w)
  BY <1>3, LeaveOK DEF NoIdLeft, disk, TablesOK, CacheOK
<1>4. CASE ActivateFinds(w)
  <2>1. CASE Leave(w)
    BY <1>4, <2>1, LeaveOK DEF ActivateFinds, disk, TablesOK, CacheOK
  <2>2. CASE gate' = w /\ Goto(w, "point") /\ UNCHANGED lock
    <3>1. JobsOK'
      BY <1>4, <1>a, <2>2, GotoOK DEF ActivateFinds, At, JobOK, TurnJobOK, ChatJobOK,
                                      Stages, JobRecords
    <3> QED
      BY <1>4, <2>2, <3>1 DEF ActivateFinds, disk, TablesOK, CacheOK, GuardsOK
  <2> QED
    BY <1>4, <2>1, <2>2 DEF ActivateFinds
<1>5. CASE ActivatePoints(w)
  <2>1. /\ job[w].chat \in Chats /\ job[w].dest \in Chats
        /\ job[w].call = "create" => job[w].seen \in Runtimes
    BY <1>5, <1>a DEF ActivatePoints, At, JobOK, ChatJobOK
  <2>2. PICK s \in {"file", "probe"} :
          Goto(w, s) /\ (s = "file" => job[w].call = "create")
    BY <1>5 DEF ActivatePoints
  <2>3. JobsOK'
    <3> DEFINE j == [job[w] EXCEPT !.stage = s]
    <3>1. j.call = job[w].call /\ j.stage = s /\ j.dest = job[w].dest
          /\ j.seen = job[w].seen /\ j.chat = job[w].chat /\ j.turn = job[w].turn
          /\ j.request = job[w].request
      BY <1>a DEF JobRecords
    <3>2. TurnJobOK(j) /\ ChatJobOK(j)
      BY <1>a, <2>1, <2>2, <3>1 DEF JobOK, TurnJobOK, ChatJobOK
    <3>3. s \in Stages
      BY <2>2 DEF Stages
    <3> QED
      BY <2>2, <3>2, <3>3, GotoOK
  <2> QED
    BY <1>5, <2>1, <2>3 DEF ActivatePoints, TablesOK, CacheOK, GuardsOK
<1>17. CASE FileChat(w)
  <2>1. job[w].dest \in Chats /\ job[w].seen \in Runtimes
    BY <1>17, <1>a DEF FileChat, At, JobOK, ChatJobOK
  <2>2. JobsOK'
    <3>1. CASE Goto(w, "heal")
      BY <1>17, <1>a, <2>1, <3>1, GotoOK
      DEF FileChat, At, JobOK, TurnJobOK, ChatJobOK, Stages, JobRecords
    <3>2. CASE job' = [job EXCEPT ![w].call = "portrait", ![w].stage = "dress"]
      <4> DEFINE j == [job[w] EXCEPT !.call = "portrait", !.stage = "dress"]
      <4>1. j \in JobRecords
        BY <1>a DEF JobRecords, Stages, AllCalls
      <4>2. j.call = "portrait" /\ j.stage = "dress" /\ j.dest = job[w].dest
        BY <1>a DEF JobRecords
      <4>3. JobOK(j)
        BY <2>1, <4>1, <4>2 DEF JobOK, TurnJobOK, ChatJobOK, TurnCalls
      <4>4. job' = [job EXCEPT ![w] = j]
        BY <3>2, <1>a, <1>b
      <4> QED
        BY <4>3, <4>4, OneJob
    <3> QED
      BY <1>17, <3>1, <3>2 DEF FileChat
  <2> QED
    BY <1>17, <2>1, <2>2 DEF FileChat, disk, TablesOK, CacheOK, GuardsOK
<1>18. CASE LoadBare(w)
  <2>1. CASE Leave(w)
    BY <1>18, <2>1, LeaveOK DEF LoadBare, disk, TablesOK, CacheOK
  <2>2. CASE ~Leave(w)
    <3> DEFINE j == [job[w] EXCEPT !.stage = "sign", !.seen = rows[job[w].dest]]
    <3>1. job[w].dest \in Chats /\ rows[job[w].dest] \in Runtimes
      BY <1>18, <1>a, <2>2 DEF LoadBare, At, TablesOK, JobOK, ChatJobOK
    <3>2. j \in JobRecords
      BY <1>a, <3>1 DEF JobRecords, Stages
    <3>3. j.call = job[w].call /\ j.stage = "sign" /\ j.dest = job[w].dest
          /\ j.seen = rows[job[w].dest] /\ j.chat = job[w].chat /\ j.turn = job[w].turn
          /\ j.request = job[w].request
      BY <1>a DEF JobRecords
    <3>4. JobOK(j)
      BY <1>a, <3>1, <3>2, <3>3 DEF JobOK, TurnJobOK, ChatJobOK
    <3>5. job' = [job EXCEPT ![w] = j]
      BY <1>18, <2>2, <1>a, <1>b DEF LoadBare
    <3>6. JobsOK'
      BY <3>4, <3>5, OneJob
    <3> QED
      BY <1>18, <2>2, <3>6 DEF LoadBare, disk, TablesOK, CacheOK, GuardsOK
  <2> QED
    BY <2>1, <2>2
<1>19. CASE SavePortrait(w)
  <2>1. job[w].dest \in Chats /\ job[w].seen \in Runtimes
    BY <1>19, <1>a DEF SavePortrait, At, JobOK, ChatJobOK
  <2>2. JobsOK'
    BY <1>19, <1>a, <2>1, GotoOK DEF SavePortrait, At, JobOK, TurnJobOK, ChatJobOK,
                                     Stages, JobRecords
  <2> QED
    BY <1>19, <2>1, <2>2 DEF SavePortrait, TablesOK, CacheOK, GuardsOK
<1>6. CASE HealActive(w)
  <2>1. job[w].dest \in Chats
    BY <1>6, <1>a DEF HealActive, At, JobOK, ChatJobOK
  <2>2. JobsOK'
    BY <1>6, <1>a, <2>1, GotoOK DEF HealActive, At, JobOK, TurnJobOK, ChatJobOK,
                                    Stages, JobRecords
  <2>3. active' \in Chats \cup {None}
    BY <1>6 DEF HealActive, Existing, TablesOK
  <2> QED
    BY <1>6, <2>2, <2>3 DEF HealActive, TablesOK, CacheOK, GuardsOK
<1>7. CASE CacheHit(w)
  BY <1>7, <1>e DEF CacheHit, At, disk, TablesOK, CacheOK, GuardsOK
<1>8. CASE CacheMiss(w)
  <2>1. JobsOK'
    BY <1>8, <1>a, GotoOK DEF CacheMiss, At, JobOK, TurnJobOK, ChatJobOK, Stages, JobRecords
  <2> QED
    BY <1>8, <2>1 DEF CacheMiss, disk, TablesOK, CacheOK, GuardsOK
<1>9. CASE LoadChat(w)
  <2> DEFINE j == [job[w] EXCEPT !.stage = "fill", !.seen = rows[job[w].dest]]
  <2>1. rows[job[w].dest] \in Runtimes
    BY <1>9, <1>a DEF LoadChat, At, TablesOK, JobOK, ChatJobOK
  <2>2. j \in JobRecords
    BY <1>a, <2>1 DEF JobRecords, Stages
  <2>3. JobOK(j)
    BY <1>9, <1>a, <2>1, <2>2 DEF LoadChat, At, JobOK, TurnJobOK, ChatJobOK, JobRecords
  <2>4. job' = [job EXCEPT ![w] = j]
    BY <1>9, <1>a, <1>b DEF LoadChat
  <2> QED
    BY <1>9, <2>3, <2>4, OneJob DEF LoadChat, disk, TablesOK, CacheOK, GuardsOK
<1>10. CASE ChatNotFound(w)
  BY <1>10, <1>e DEF ChatNotFound, At, disk, TablesOK, CacheOK, GuardsOK
<1>11. CASE CachePut(w)
  <2>1. job[w].seen \in Runtimes
    BY <1>11, <1>a DEF CachePut, At, JobOK, ChatJobOK
  <2> QED
    BY <1>11, <2>1, <1>e DEF CachePut, At, disk, TablesOK, CacheOK, GuardsOK
<1>12. CASE EnterChat(w)
  <2>1. JobsOK'
    BY <1>12, <1>a, GotoOK DEF EnterChat, At, JobOK, TurnJobOK, ChatJobOK, Stages, JobRecords
  <2> QED
    BY <1>12, <2>1 DEF EnterChat, disk, TablesOK, CacheOK, GuardsOK
<1>13. CASE UseRuntime(w)
  BY <1>13, LeaveOK DEF UseRuntime, disk, TablesOK, CacheOK
<1>14. ASSUME At(w, "use"), cache[job[w].dest] # None, NEW after \in Mutations(w)
       PROVE  after \in Runtimes /\ job[w].dest \in Chats
  <2>1. job[w].dest \in Chats
    BY <1>14, <1>a DEF At, JobOK, ChatJobOK
  <2>2. cache[job[w].dest] \in Runtimes
    BY <1>14, <2>1 DEF CacheOK
  <2> QED
    BY <1>14, <1>c, <2>1, <2>2 DEF Mutations, Runtimes
<1>15. CASE SaveChat(w)
  BY <1>15, <1>14, LeaveOK DEF SaveChat, TablesOK, CacheOK
<1>16. CASE SaveChatFails(w)
  BY <1>16, <1>14, LeaveOK DEF SaveChatFails, disk, TablesOK, CacheOK
<1> QED
  BY <1>1, <1>2, <1>3, <1>4, <1>5, <1>6, <1>7, <1>8, <1>9, <1>10, <1>11, <1>12, <1>13,
     <1>15, <1>16, <1>17, <1>18, <1>19 DEF StateStep

(* A delete. *)
LEMMA TypeDelete ==
  ASSUME TypeInv, NEW w \in Workers, DeleteStep(w)
  PROVE  TypeInv'
<1> USE DEF TypeInv
<1>a. JobOK(job[w]) /\ job[w] \in JobRecords
  BY DEF JobsOK, JobOK
<1>1. CASE DeleteChat(w)
  <2>1. JobsOK'
    BY <1>1, <1>a, GotoOK DEF DeleteChat, At, JobOK, TurnJobOK, ChatJobOK, Stages, JobRecords
  <2>2. active' \in Chats \cup {None}
    BY <1>1 DEF DeleteChat, Existing, TablesOK
  <2> QED
    BY <1>1, <2>1, <2>2 DEF DeleteChat, TablesOK, CacheOK, GuardsOK
<1>2. CASE NothingToDelete(w)
  BY <1>2, LeaveOK DEF NothingToDelete, disk, TablesOK, CacheOK
<1>3. CASE EvictChat(w)
  <2>1. JobsOK'
    BY <1>3, <1>a, GotoOK DEF EvictChat, At, JobOK, TurnJobOK, ChatJobOK, Stages, JobRecords
  <2> QED
    BY <1>3, <2>1 DEF EvictChat, disk, TablesOK, CacheOK, GuardsOK
<1> QED
  BY <1>1, <1>2, <1>3 DEF DeleteStep

(* A restart. *)
LEMMA TypeRestart == TypeInv /\ Restart => TypeInv'
BY IdleOK DEF Restart, disk, TypeInv, TablesOK, CacheOK, GuardsOK, JobsOK

(* Every step keeps the types. *)
LEMMA TypeStep == TypeInv /\ [StoreNext]_vars => TypeInv'
<1> SUFFICES ASSUME TypeInv, [StoreNext]_vars PROVE TypeInv'
  OBVIOUS
<1>1. CASE UNCHANGED vars
  BY <1>1 DEF vars, TypeInv, TablesOK, CacheOK, GuardsOK, JobsOK
<1>2. CASE Restart
  BY <1>2, TypeRestart
<1>3. ASSUME NEW w \in Workers, Start(w) \/ Advance(w)
      PROVE  TypeInv'
  BY <1>3, TypeStart, TypeTurn, TypeState, TypeDelete DEF Advance
<1> QED
  BY <1>1, <1>2, <1>3 DEF StoreNext

-----------------------------------------------------------------------------
(* The tables agree with each other.                                       *)

(* Steps that touch neither checkpoints nor receipts and remove no row.    *)
LEMMA TableFrame ==
  ASSUME NoDangling, SnapshotFits, TypeInv, UNCHANGED <<checkpoints, receipts>>,
         \A c \in Chats : rows[c] # None => rows'[c] # None
  PROVE  NoDangling' /\ SnapshotFits'
BY DEF NoDangling, SnapshotFits, TypeInv, TablesOK, Checkpoints, Receipts

(* Stamping a checkpoint that fits on a table of checkpoints that fit.     *)
LEMMA StampFits ==
  ASSUME NEW table, NEW c, NEW n, NEW q, NEW s,
         Len(s.turns) + 1 = n,
         \A k \in table : Len(k.snapshot.turns) + 1 = k.turn,
         \A j, k \in table : j.chat = k.chat /\ j.turn = k.turn => j = k
  PROVE  /\ \A k \in Stamp(table, c, n, q, s) : Len(k.snapshot.turns) + 1 = k.turn
         /\ \A j, k \in Stamp(table, c, n, q, s) :
              j.chat = k.chat /\ j.turn = k.turn => j = k
<1> DEFINE new == [chat |-> c, turn |-> n, request |-> q, snapshot |-> s]
<1>1. \A k \in Stamp(table, c, n, q, s) :
        k = new \/ (k \in table /\ ~(k.chat = c /\ k.turn = n))
  BY StampParts
<1>2. new.chat = c /\ new.turn = n /\ new.snapshot = s
  OBVIOUS
<1> QED
  BY <1>1, <1>2

(* One receipt more, with a chat that gained or kept its row at each end,  *)
(* and checkpoints of that chat or of before.                              *)
LEMMA ReceiptAdded ==
  ASSUME NoDangling, TypeInv, checkpoints' \subseteq Checkpoints,
         NEW r, NEW left, left \subseteq receipts, receipts' = left \cup {r},
         NEW d \in Chats,
         \A x \in Chats : rows[x] # None \/ x = d => rows'[x] # None,
         \A k \in checkpoints' : k \in checkpoints \/ k.chat = d,
         r.source \in Chats, r.dest = d, r.source = d \/ rows[r.source] # None,
         \A s \in left : ~(s.source = r.source /\ s.request = r.request)
  PROVE  NoDangling'
<1>1. \A k \in checkpoints' : k.chat \in Chats
  BY DEF Checkpoints
<1>2. \A s \in left : s.source \in Chats /\ s.dest \in Chats
  BY DEF TypeInv, TablesOK, Receipts
<1> QED
  BY <1>1, <1>2 DEF NoDangling

(* Nothing but a delete removes a row. *)
LEMMA RowsKept ==
  ASSUME TypeInv, NEW w \in Workers, Start(w) \/ Advance(w), ~DeleteChat(w)
  PROVE  \A c \in Chats : rows[c] # None => rows'[c] # None
<1>a. JobOK(job[w]) /\ job[w] \in JobRecords
  BY DEF TypeInv, JobsOK, JobOK
<1>b. NewRuntime \in Runtimes
  BY DEF NewRuntime, Runtimes
<1>c. \A r \in Runtimes : r # None
  BY AbsentAssumption DEF Runtimes
<1>d. rows \in [Chats -> Runtimes \cup {None}]
  BY DEF TypeInv, TablesOK
<1>1. CASE Start(w)
  BY <1>1, <1>b, <1>c, <1>d DEF Start, StartTurn, StartStateCall, CreateChat, StartActivate,
                                StartPeek, StartDelete, disk
<1>2. CASE SaveChat(w)
  <2>1. PICK after \in Mutations(w) : rows' = [rows EXCEPT ![job[w].dest] = after]
    BY <1>2 DEF SaveChat
  <2>2. job[w].dest \in Chats /\ cache[job[w].dest] \in Runtimes
    BY <1>2, <1>a DEF SaveChat, At, JobOK, ChatJobOK, TypeInv, CacheOK
  <2>3. after \in Runtimes
    BY <2>1, <2>2, <1>b DEF Mutations, Runtimes
  <2> QED
    BY <2>1, <2>3, <1>c, <1>d
<1>3. CASE GetActiveCreates(w)
  BY <1>3, <1>b, <1>c, <1>d DEF GetActiveCreates
<1>4. CASE CommitTurn(w) \/ CommitEdit(w) \/ CommitBranch(w)
  <2>1. Played(job[w].seen, job[w].request) \in Runtimes
    BY <1>4, <1>a, PlayedOK DEF CommitTurn, CommitEdit, CommitBranch, At, JobOK, TurnJobOK,
                                TurnCalls
  <2>2. \E c \in Chats : rows' = [rows EXCEPT ![c] = Played(job[w].seen, job[w].request)]
    BY <1>4, <1>a DEF CommitTurn, CommitEdit, CommitBranch, JobOK, TurnJobOK, TurnCalls
  <2> QED
    BY <2>1, <2>2, <1>c, <1>d
<1>7. CASE SavePortrait(w)
  <2>1. job[w].dest \in Chats /\ job[w].seen \in Runtimes
    BY <1>7, <1>a DEF SavePortrait, At, JobOK, ChatJobOK
  <2> QED
    BY <1>7, <2>1, <1>c, <1>d DEF SavePortrait
<1>5. CASE StateStep(w) /\ ~SaveChat(w) /\ ~GetActiveCreates(w) /\ ~SavePortrait(w)
  BY <1>5 DEF StateStep, GetActive, NoIdLeft, FileChat, LoadBare, ActivateFinds,
              ActivatePoints, HealActive,
              CacheHit, CacheMiss, LoadChat, ChatNotFound, CachePut, EnterChat, UseRuntime,
              SaveChatFails, disk
<1>6. CASE \/ NothingToDelete(w) \/ EvictChat(w) \/ EnterTurn(w) \/ LookupReceipt(w)
           \/ LoadTurn(w) \/ LoadSource(w) \/ PrepareHistory(w) \/ AbandonTurn(w)
           \/ CacheTurn(w)
  BY <1>6 DEF NothingToDelete, EvictChat, EnterTurn, LookupReceipt, LoadTurn, LoadSource,
              PrepareHistory, AbandonTurn, CacheTurn, disk
<1> QED
  BY <1>1, <1>2, <1>3, <1>4, <1>5, <1>6, <1>7 DEF Advance, TurnStep, DeleteStep

(* A commit or a delete keeps the tables in agreement.                     *)
LEMMA TableStep ==
  ASSUME TypeInv, TypeInv', NoDangling, SnapshotFits, NEW w \in Workers,
         Start(w) \/ Advance(w)
  PROVE  NoDangling' /\ SnapshotFits'
<1>a. JobOK(job[w]) /\ job[w] \in JobRecords
  BY DEF TypeInv, JobsOK, JobOK
<1>b. NewRuntime \in Runtimes
  BY DEF NewRuntime, Runtimes
<1>c. \A r \in Runtimes : r # None
  BY AbsentAssumption DEF Runtimes
<1>d. ASSUME At(w, "model"), job[w].call \in TurnCalls
      PROVE  /\ Played(job[w].seen, job[w].request) # None
             /\ job[w].chat \in Chats /\ job[w].dest \in Chats
             /\ Len(Played(job[w].seen, job[w].request).turns) = Len(job[w].seen.turns) + 1
  BY <1>d, <1>a, <1>c, PlayedOK DEF At, JobOK, TurnJobOK
<1>e. checkpoints \subseteq Checkpoints /\ receipts \subseteq Receipts
      /\ rows \in [Chats -> Runtimes \cup {None}]
  BY DEF TypeInv, TablesOK
<1>1. CASE CommitTurn(w)
  <2> DEFINE after == Played(job[w].seen, job[w].request)
             c == job[w].dest
             count == Len(after.turns)
             kept == KeepBelow(c, count + 1)
  <2>1. /\ At(w, "model") /\ job[w].call \in TurnCalls
        /\ rows' = [rows EXCEPT ![c] = after]
        /\ checkpoints' = Stamp(kept, c, count, job[w].request, job[w].seen)
        /\ receipts' = receipts
    BY <1>1 DEF CommitTurn, TurnCalls
  <2>2. Len(job[w].seen.turns) + 1 = count
    BY <2>1, <1>d
  <2>3. SnapshotFits'
    <3>1. /\ \A k \in kept : Len(k.snapshot.turns) + 1 = k.turn
          /\ \A j, k \in kept : j.chat = k.chat /\ j.turn = k.turn => j = k
      BY DEF KeepBelow, SnapshotFits
    <3> HIDE DEF kept, count, c
    <3>2. LET after_ == Stamp(kept, c, count, job[w].request, job[w].seen)
          IN  /\ \A k \in after_ : Len(k.snapshot.turns) + 1 = k.turn
              /\ \A j, k \in after_ : j.chat = k.chat /\ j.turn = k.turn => j = k
      BY <2>2, <3>1, StampFits
    <3> QED
      BY <2>1, <3>2 DEF SnapshotFits
  <2>4. \A x \in Chats : rows[x] # None \/ x = c => rows'[x] # None
    BY <2>1, <1>d, <1>e
  <2>5. \A k \in checkpoints' : k \in checkpoints \/ k.chat = c
    BY <2>1, StampParts DEF KeepBelow
  <2>6. NoDangling'
    <3>1. \A k \in checkpoints' : k.chat \in Chats
      BY DEF TypeInv, TablesOK, Checkpoints
    <3>2. \A r \in receipts : r.source \in Chats /\ r.dest \in Chats
      BY <1>e DEF Receipts
    <3> HIDE DEF c
    <3> QED
      BY <2>1, <2>4, <2>5, <3>1, <3>2 DEF NoDangling
  <2> QED
    BY <2>3, <2>6
<1>2. CASE CommitEdit(w)
  <2> DEFINE after == Played(job[w].seen, job[w].request)
             c == job[w].chat
             n == job[w].turn
             kept == KeepBelow(c, n)
  <2>1. /\ At(w, "model") /\ job[w].call = "edit"
        /\ rows' = [rows EXCEPT ![c] = after]
        /\ checkpoints' = Stamp(kept, c, n, job[w].request, job[w].seen)
        /\ receipts' = ReceiptsBefore(c, n) \cup {Receipt(w)}
        /\ NoReceiptYet(w, ReceiptsBefore(c, n))
        /\ Len(job[w].seen.turns) + 1 = n
        /\ SourceHolds(w)
    BY <1>2 DEF CommitEdit, CanCommitHistory
  <2>2. SnapshotFits'
    <3>1. /\ \A k \in kept : Len(k.snapshot.turns) + 1 = k.turn
          /\ \A j, k \in kept : j.chat = k.chat /\ j.turn = k.turn => j = k
      BY DEF KeepBelow, SnapshotFits
    <3>2. Len(job[w].seen.turns) + 1 = n
      BY <2>1
    <3> HIDE DEF kept, n, c
    <3>3. LET after_ == Stamp(kept, c, n, job[w].request, job[w].seen)
          IN  /\ \A k \in after_ : Len(k.snapshot.turns) + 1 = k.turn
              /\ \A j, k \in after_ : j.chat = k.chat /\ j.turn = k.turn => j = k
      BY <3>1, <3>2, StampFits
    <3> QED
      BY <2>1, <3>3 DEF SnapshotFits
  <2>3. /\ \A x \in Chats : rows[x] # None \/ x = c => rows'[x] # None
        /\ c \in Chats
    BY <2>1, <1>d, <1>e DEF TurnCalls
  <2>4. \A k \in checkpoints' : k \in checkpoints \/ k.chat = c
    BY <2>1, StampParts DEF KeepBelow
  <2>5. Receipt(w).source = c /\ Receipt(w).dest = c /\ Receipt(w).request = job[w].request
    BY <2>1, <1>a DEF Receipt, JobOK, TurnJobOK
  <2>6. NoDangling'
    <3> DEFINE left == ReceiptsBefore(c, n)
    <3>1. left \subseteq receipts
      BY DEF ReceiptsBefore
    <3>2. \A s \in left : ~(s.source = c /\ s.request = job[w].request)
      BY <2>1 DEF NoReceiptYet
    <3>3. checkpoints' \subseteq Checkpoints
      BY DEF TypeInv, TablesOK
    <3>4. receipts' = left \cup {Receipt(w)}
      BY <2>1
    <3> DEFINE r == Receipt(w)
    <3>5. r.source = c /\ r.dest = c /\ r.request = job[w].request
      BY <2>5
    <3> HIDE DEF left, c, r
    <3>6. \A s \in left : ~(s.source = r.source /\ s.request = r.request)
      BY <3>2, <3>5
    <3>7. c \in Chats
      BY <2>3
    <3>8. r.source \in Chats /\ (r.source = c \/ rows[r.source] # None)
      BY <3>5, <3>7
    <3>9. receipts' = left \cup {r}
      BY <3>4 DEF r
    <3> QED
      BY <2>3, <2>4, <3>1, <3>3, <3>5, <3>6, <3>7, <3>8, <3>9, ReceiptAdded
  <2> QED
    BY <2>2, <2>6
<1>3. CASE CommitBranch(w)
  <2> DEFINE after == Played(job[w].seen, job[w].request)
             c == job[w].chat
             d == job[w].dest
             n == job[w].turn
             inherited == {[i EXCEPT !.chat = d] :
                             i \in {i \in CheckpointsOf(checkpoints, c) : i.turn < n}}
             table == checkpoints \cup inherited
  <2>1. /\ At(w, "model") /\ job[w].call = "branch"
        /\ rows[d] = None
        /\ rows' = [rows EXCEPT ![d] = after]
        /\ checkpoints' = Stamp(table, d, n, job[w].request, job[w].seen)
        /\ receipts' = receipts \cup {Receipt(w)}
        /\ NoReceiptYet(w, receipts)
        /\ Len(job[w].seen.turns) + 1 = n
        /\ rows[c] = job[w].source
    BY <1>3 DEF CommitBranch, CanCommitHistory, SourceHolds
  <2>2. c \in Chats /\ d \in Chats /\ rows[c] # None
    BY <2>1, <1>a, <1>c, <1>d DEF At, TurnCalls, JobOK, TurnJobOK
  <2>3. \A i \in inherited : \E k \in checkpoints :
          i.chat = d /\ i.turn = k.turn /\ i.request = k.request
          /\ i.snapshot = k.snapshot /\ k.chat = c /\ i = [k EXCEPT !.chat = d]
    BY <1>e DEF CheckpointsOf, Checkpoints
  <2>4. \A k \in checkpoints : k.chat # d
    BY <2>1 DEF NoDangling
  <2>5. SnapshotFits'
    <3>1. \A k \in table : Len(k.snapshot.turns) + 1 = k.turn
      BY <2>3 DEF SnapshotFits
    <3>2. \A j, k \in table : j.chat = k.chat /\ j.turn = k.turn => j = k
      <4> HIDE DEF inherited, d, c, n
      <4> QED
        BY <2>3, <2>4 DEF SnapshotFits
    <3>3. Len(job[w].seen.turns) + 1 = n
      BY <2>1
    <3> HIDE DEF table, n, d
    <3>4. LET after_ == Stamp(table, d, n, job[w].request, job[w].seen)
          IN  /\ \A k \in after_ : Len(k.snapshot.turns) + 1 = k.turn
              /\ \A j, k \in after_ : j.chat = k.chat /\ j.turn = k.turn => j = k
      BY <3>1, <3>2, <3>3, StampFits
    <3> QED
      BY <2>1, <3>4 DEF SnapshotFits
  <2>6. \A x \in Chats : rows[x] # None \/ x = d => rows'[x] # None
    BY <2>1, <1>d, <1>e, <2>2 DEF TurnCalls
  <2>7. \A k \in checkpoints' : k \in checkpoints \/ k.chat = d
    BY <2>1, <2>3, StampParts
  <2>8. Receipt(w).source = c /\ Receipt(w).dest = d /\ Receipt(w).request = job[w].request
    BY DEF Receipt
  <2>9. NoDangling'
    <3>1. \A s \in receipts : ~(s.source = c /\ s.request = job[w].request)
      BY <2>1 DEF NoReceiptYet
    <3>2. checkpoints' \subseteq Checkpoints
      BY DEF TypeInv, TablesOK
    <3>3. receipts' = receipts \cup {Receipt(w)}
      BY <2>1
    <3> DEFINE r == Receipt(w)
    <3>4. r.source = c /\ r.dest = d /\ r.request = job[w].request
      BY <2>8
    <3> HIDE DEF c, d, r
    <3>5. \A s \in receipts : ~(s.source = r.source /\ s.request = r.request)
      BY <3>1, <3>4
    <3>6. d \in Chats /\ r.source \in Chats /\ (r.source = d \/ rows[r.source] # None)
      BY <2>2, <3>4
    <3>7. receipts' = receipts \cup {r}
      BY <3>3 DEF r
    <3> QED
      BY <2>6, <2>7, <3>2, <3>4, <3>5, <3>6, <3>7, ReceiptAdded
  <2> QED
    BY <2>5, <2>9
<1>4. CASE DeleteChat(w)
  <2>1. SnapshotFits'
    BY <1>4 DEF DeleteChat, SnapshotFits
  <2>2. job[w].chat \in Chats
    BY <1>4, <1>a DEF DeleteChat, At, JobOK, ChatJobOK
  <2>3. NoDangling'
    BY <1>4, <1>e, <2>2 DEF DeleteChat, ReceiptsOf, NoDangling, Checkpoints, Receipts
  <2> QED
    BY <2>1, <2>3
<1>5. CASE \/ Start(w) \/ StateStep(w) \/ NothingToDelete(w) \/ EvictChat(w)
           \/ EnterTurn(w) \/ LookupReceipt(w) \/ LoadTurn(w) \/ LoadSource(w)
           \/ PrepareHistory(w) \/ AbandonTurn(w) \/ CacheTurn(w)
  <2>1. UNCHANGED <<checkpoints, receipts>>
    <3>1. CASE Start(w)
      BY <3>1 DEF Start, StartTurn, StartStateCall, CreateChat, StartActivate, StartPeek,
                  StartDelete, disk
    <3>2. CASE StateStep(w)
      BY <3>2 DEF StateStep, GetActive, GetActiveCreates, NoIdLeft, FileChat, LoadBare,
                  SavePortrait, ActivateFinds,
                  ActivatePoints, HealActive, CacheHit, CacheMiss, LoadChat, ChatNotFound,
                  CachePut, EnterChat, UseRuntime, SaveChat, SaveChatFails, disk
    <3>3. CASE \/ NothingToDelete(w) \/ EvictChat(w) \/ EnterTurn(w) \/ LookupReceipt(w)
               \/ LoadTurn(w) \/ LoadSource(w) \/ PrepareHistory(w) \/ AbandonTurn(w)
               \/ CacheTurn(w)
      BY <3>3 DEF NothingToDelete, EvictChat, EnterTurn, LookupReceipt, LoadTurn, LoadSource,
                  PrepareHistory, AbandonTurn, CacheTurn, disk
    <3> QED
      BY <1>5, <3>1, <3>2, <3>3
  <2>2. CASE ~DeleteChat(w)
    BY <2>1, <2>2, RowsKept, TableFrame
  <2> QED
    BY <1>4, <2>2
<1> QED
  BY <1>1, <1>2, <1>3, <1>4, <1>5 DEF Advance, TurnStep, DeleteStep

-----------------------------------------------------------------------------
(* The active pointer and the gate.                                        *)

(* The gate is in the hands of the call that found a chat to point to,     *)
(* and of the one that has just deleted a row: the chat found is there.    *)
GateInv ==
  /\ \A w \in Workers : job[w].stage \in {"point", "evict"} => gate = w
  /\ \A w \in Workers : job[w].stage = "point" => rows[job[w].chat] # None

(* A worker's step leaves the other calls as they are, but for a flag of a  *)
(* delete.                                                                 *)
LEMMA OthersStay ==
  ASSUME TypeInv, NEW w \in Workers, Start(w) \/ Advance(w), NEW v \in Workers, v # w
  PROVE  job'[v] \in {job[v], [job[v] EXCEPT !.cancelled = TRUE]}
<1>0. /\ job = [u \in Workers |-> job[u]]
      /\ job[v] \in JobRecords
  BY DEF TypeInv, JobsOK, JobOK
<1>1. CASE Leave(w)
  BY <1>0, <1>1 DEF Leave
<1>2. ASSUME NEW s, Goto(w, s)
      PROVE  job'[v] = job[v]
  BY <1>0, <1>2 DEF Goto
<1>3. CASE Start(w)
  <2>1. ASSUME NEW c \in Chats, StartDelete(w, c)
        PROVE  job'[v] \in {job[v], [job[v] EXCEPT !.cancelled = TRUE]}
    BY <1>0, <2>1 DEF StartDelete, JobRecords
  <2>2. ASSUME NEW c, NEW q, NEW n, NEW call, StartTurn(w, call, c, q, n)
        PROVE  job'[v] = job[v]
    BY <1>0, <2>2 DEF StartTurn
  <2>3. ASSUME NEW call, StartStateCall(w, call)
        PROVE  job'[v] = job[v]
    BY <1>0, <2>3 DEF StartStateCall
  <2>4. ASSUME NEW c, NEW activate,
               CreateChat(w, c, activate) \/ StartActivate(w, c) \/ StartPeek(w, c)
        PROVE  job'[v] = job[v]
    BY <1>0, <2>4 DEF CreateChat, StartActivate, StartPeek
  <2> QED
    BY <1>3, <2>1, <2>2, <2>3, <2>4 DEF Start
<1>4. CASE StateStep(w)
  <2>1. CASE GetActive(w) \/ GetActiveCreates(w) \/ LoadChat(w)
    BY <1>0, <2>1 DEF GetActive, GetActiveCreates, LoadChat
  <2>2. CASE AfterCached(w)
    BY <1>2, <2>2 DEF AfterCached
  <2>3. CASE NoIdLeft(w) \/ ActivateFinds(w) \/ UseRuntime(w) \/ SaveChat(w) \/ SaveChatFails(w)
    BY <1>1, <1>2, <2>3 DEF NoIdLeft, ActivateFinds, UseRuntime, SaveChat, SaveChatFails
  <2>4. CASE \/ ActivatePoints(w) \/ HealActive(w) \/ CacheMiss(w) \/ EnterChat(w)
             \/ SavePortrait(w)
    BY <1>2, <2>4 DEF ActivatePoints, HealActive, CacheMiss, EnterChat, SavePortrait
  <2>6. CASE FileChat(w)
    BY <1>0, <1>2, <2>6 DEF FileChat
  <2>7. CASE LoadBare(w)
    BY <1>0, <1>1, <2>7 DEF LoadBare
  <2>5. CASE CacheHit(w) \/ ChatNotFound(w) \/ CachePut(w)
    BY <2>2, <2>5 DEF CacheHit, ChatNotFound, CachePut
  <2> QED
    BY <1>4, <2>1, <2>3, <2>4, <2>5, <2>6, <2>7 DEF StateStep
<1>5. CASE DeleteStep(w)
  BY <1>1, <1>2, <1>5 DEF DeleteStep, DeleteChat, NothingToDelete, EvictChat
<1>6. CASE TurnStep(w)
  <2>1. CASE LookupReceipt(w)
    BY <1>0, <1>2, <2>1 DEF LookupReceipt
  <2>2. CASE PrepareHistory(w)
    BY <1>0, <2>2 DEF PrepareHistory
  <2>3. CASE LoadTurn(w) \/ CommitTurn(w)
    BY <1>0, <2>3 DEF LoadTurn, CommitTurn
  <2>4. CASE CommitEdit(w) \/ CommitBranch(w)
    BY <1>0, <2>4 DEF CommitEdit, CommitBranch
  <2>5. CASE EnterTurn(w) \/ LoadSource(w) \/ AbandonTurn(w) \/ CacheTurn(w)
    BY <1>1, <1>2, <2>5 DEF EnterTurn, LoadSource, AbandonTurn, CacheTurn
  <2> QED
    BY <1>6, <2>1, <2>2, <2>3, <2>4, <2>5 DEF TurnStep
<1> QED
  BY <1>3, <1>4, <1>5, <1>6 DEF Advance

(* The other calls stay where they are. *)
LEMMA OthersRest ==
  ASSUME TypeInv, NEW w \in Workers, Start(w) \/ Advance(w), NEW v \in Workers, v # w
  PROVE  /\ job'[v].call = job[v].call /\ job'[v].stage = job[v].stage
         /\ job'[v].chat = job[v].chat /\ job'[v].dest = job[v].dest
         /\ job'[v].request = job[v].request /\ job'[v].seen = job[v].seen
         /\ job[v].cancelled => job'[v].cancelled
<1>1. job[v] \in JobRecords
  BY DEF TypeInv, JobsOK, JobOK
<1> QED
  BY <1>1, OthersStay DEF JobRecords

(* Nobody's gate is taken from him, and the two calls that come to the     *)
(* stages of interest take it.                                             *)
LEMMA GateMoves ==
  ASSUME TypeInv, GateInv, NEW w \in Workers, Start(w) \/ Advance(w)
  PROVE  /\ gate' = gate \/ gate \in {None, w}
         /\ job'[w].stage \in {"point", "evict"} => gate' = w
         /\ job'[w].stage = "point" => rows'[job'[w].chat] # None
<1>z. \A x \in JobRecords : DOMAIN x = {"call", "stage", "chat", "dest", "turn", "request",
                                       "seen", "source", "cancelled"}
  BY DEF JobRecords
<1> DEFINE Elsewhere == job'[w].stage \notin {"point", "evict"}
           Kept == gate' = gate \/ gate \in {None, w}
<1>0. /\ job = [u \in Workers |-> job[u]]
      /\ job[w] \in JobRecords
  BY DEF TypeInv, JobsOK, JobOK
<1>1. CASE Leave(w)
  <2>1. Elsewhere
    BY <1>0, <1>1 DEF Leave, Idle
  <2>2. Kept
    BY <1>1 DEF Leave
  <2> QED
    BY <2>1, <2>2
<1>2. ASSUME NEW s, s \notin {"point", "evict"}, Goto(w, s)
      PROVE  Elsewhere
  BY <1>0, <1>2 DEF Goto, JobRecords
<1>r. \A r \in Runtimes : r # None
  BY AbsentAssumption DEF Runtimes
<1>m. NewRuntime \in Runtimes
  BY DEF NewRuntime, Runtimes
<1>n. NewRuntime # None
  BY <1>r, <1>m
<1>3. CASE Start(w)
  <2>1. CASE \E c \in Chats, activate \in BOOLEAN : CreateChat(w, c, activate)
    <3>1. PICK c \in Chats, activate \in BOOLEAN : CreateChat(w, c, activate)
      BY <2>1
    <3>2. job'[w].stage = (IF activate THEN "point" ELSE "file") /\ job'[w].chat = c
      BY <1>0, <3>1 DEF CreateChat, Idle
    <3>3. rows'[c] # None
      BY <1>n, <3>1 DEF CreateChat, TypeInv, TablesOK
    <3>4. gate' = (IF activate THEN w ELSE gate) /\ (activate => gate = None)
      BY <3>1 DEF CreateChat
    <3> QED
      BY <3>2, <3>3, <3>4
  <2>2. ASSUME NEW c, NEW q, NEW n, NEW call, StartTurn(w, call, c, q, n)
        PROVE  job'[w].stage = "lock" /\ gate' = gate
    BY <1>0, <2>2 DEF StartTurn, Idle
  <2>3. ASSUME NEW call, StartStateCall(w, call)
        PROVE  job'[w].stage = "resolve" /\ gate' = gate
    BY <1>0, <2>3 DEF StartStateCall, Idle
  <2>4. ASSUME NEW c \in Chats, StartActivate(w, c) \/ StartPeek(w, c) \/ StartDelete(w, c)
        PROVE  job'[w].stage \in {"check", "heal", "delete"} /\ gate' = gate
    BY <1>0, <2>4 DEF StartActivate, StartPeek, StartDelete, Idle
  <2> QED
    BY <1>3, <2>1, <2>2, <2>3, <2>4 DEF Start
<1>4. CASE ActivateFinds(w)
  <2>1. CASE Leave(w)
    BY <1>1, <2>1
  <2>2. CASE ~Leave(w)
    <3>1. gate = None /\ gate' = w /\ Goto(w, "point") /\ rows' = rows
          /\ rows[job[w].chat] # None
      BY <1>4, <2>2 DEF ActivateFinds, disk
    <3>2. job'[w].chat = job[w].chat
      BY <1>0, <3>1 DEF Goto, JobRecords
    <3> QED
      BY <3>1, <3>2
  <2> QED
    BY <2>1, <2>2
<1>5. ASSUME Kept, Elsewhere
      PROVE  /\ Kept
             /\ job'[w].stage \in {"point", "evict"} => gate' = w
             /\ job'[w].stage = "point" => rows'[job'[w].chat] # None
  BY <1>5
<1> HIDE DEF Elsewhere, Kept
<1>6. CASE AfterCached(w)
  <2>1. Kept
    BY <1>6 DEF AfterCached, Kept
  <2>2. Elsewhere
    BY <1>2, <1>6 DEF AfterCached
  <2> QED
    BY <1>5, <2>1, <2>2 DEF Kept
<1>7. CASE StateStep(w) /\ ~ActivateFinds(w)
  <2>1. CASE NoIdLeft(w) \/ UseRuntime(w) \/ SaveChat(w) \/ SaveChatFails(w)
    BY <1>1, <2>1 DEF NoIdLeft, UseRuntime, SaveChat, SaveChatFails
  <2>2. CASE CacheHit(w) \/ ChatNotFound(w) \/ CachePut(w)
    BY <1>6, <2>2 DEF CacheHit, ChatNotFound, CachePut
  <2>3. CASE GetActive(w) \/ GetActiveCreates(w) \/ LoadChat(w)
    <3>1. Kept
      BY <2>3 DEF GetActive, GetActiveCreates, LoadChat, Kept
    <3>2. job'[w].stage \in {"probe", "fill"}
      <4>1. CASE GetActive(w)
        BY <1>0, <1>z, <4>1 DEF GetActive
      <4>2. CASE GetActiveCreates(w)
        BY <1>0, <1>z, <4>2 DEF GetActiveCreates
      <4>3. CASE LoadChat(w)
        BY <1>0, <1>z, <4>3 DEF LoadChat
      <4> QED
        BY <2>3, <4>1, <4>2, <4>3
    <3> QED
      BY <1>5, <3>1, <3>2 DEF Kept, Elsewhere
  <2>4. CASE \/ ActivatePoints(w) \/ HealActive(w) \/ CacheMiss(w) \/ EnterChat(w)
             \/ SavePortrait(w)
    <3>1. Kept
      BY <2>4 DEF ActivatePoints, HealActive, CacheMiss, EnterChat, SavePortrait, Kept
    <3>2. Elsewhere
      BY <1>2, <2>4 DEF ActivatePoints, HealActive, CacheMiss, EnterChat, SavePortrait
    <3> QED
      BY <1>5, <3>1, <3>2 DEF Kept
  <2>5. CASE FileChat(w)
    <3>1. Kept
      BY <2>5 DEF FileChat, Kept
    <3>2. Elsewhere
      <4>1. ASSUME job' = [job EXCEPT ![w].call = "portrait", ![w].stage = "dress"]
            PROVE  job'[w].stage = "dress"
        BY <1>0, <1>z, <4>1
      <4> QED
        BY <1>2, <2>5, <4>1 DEF FileChat, Elsewhere
    <3> QED
      BY <1>5, <3>1, <3>2 DEF Kept
  <2>6. CASE LoadBare(w)
    <3>1. CASE Leave(w)
      BY <1>1, <3>1
    <3>2. CASE ~Leave(w)
      <4>1. Kept
        BY <2>6, <3>2 DEF LoadBare, Kept
      <4>2. job'[w].stage = "sign"
        BY <1>0, <1>z, <2>6, <3>2 DEF LoadBare
      <4> QED
        BY <1>5, <4>1, <4>2 DEF Kept, Elsewhere
    <3> QED
      BY <3>1, <3>2
  <2> QED
    BY <1>7, <2>1, <2>2, <2>3, <2>4, <2>5, <2>6 DEF StateStep
<1>8. CASE DeleteChat(w)
  <2>1. gate = None /\ gate' = w /\ Goto(w, "evict")
    BY <1>8 DEF DeleteChat
  <2>2. job'[w].stage = "evict"
    BY <1>0, <2>1 DEF Goto, JobRecords
  <2> QED
    BY <2>1, <2>2
<1>9. CASE NothingToDelete(w)
  BY <1>1, <1>9 DEF NothingToDelete
<1>10. CASE EvictChat(w)
  <2>1. Kept
    BY <1>10 DEF EvictChat, At, GateInv, Kept
  <2>2. Elsewhere
    BY <1>2, <1>10 DEF EvictChat
  <2> QED
    BY <1>5, <2>1, <2>2 DEF Kept
<1>11. CASE TurnStep(w)
  <2>1. CASE AbandonTurn(w) \/ CacheTurn(w)
    BY <1>1, <2>1 DEF AbandonTurn, CacheTurn
  <2>2. CASE \/ EnterTurn(w) \/ LookupReceipt(w) \/ LoadSource(w) \/ LoadTurn(w)
             \/ PrepareHistory(w)
    <3>1. Kept
      BY <2>2 DEF EnterTurn, LookupReceipt, LoadSource, LoadTurn, PrepareHistory, Kept
    <3>2. ASSUME EnterTurn(w) \/ LoadSource(w)
          PROVE  Elsewhere
      BY <1>2, <3>2 DEF EnterTurn, LoadSource
    <3>3. ASSUME LookupReceipt(w)
          PROVE  job'[w].stage = "load"
      <4>1. CASE Goto(w, "load")
        BY <1>0, <1>z, <4>1 DEF Goto
      <4>2. CASE \E r \in receipts :
                   job' = [job EXCEPT ![w].call = "retry", ![w].stage = "load",
                                      ![w].dest = r.dest]
        BY <1>0, <1>z, <4>2
      <4> QED
        BY <3>3, <4>1, <4>2 DEF LookupReceipt
    <3>4. ASSUME LoadTurn(w)
          PROVE  job'[w].stage = "model"
      BY <1>0, <1>z, <3>4 DEF LoadTurn
    <3>5. ASSUME PrepareHistory(w)
          PROVE  job'[w].stage = "model"
      BY <1>0, <1>z, <3>5 DEF PrepareHistory
    <3>6. Elsewhere
      BY <2>2, <3>2, <3>3, <3>4, <3>5 DEF Elsewhere
    <3> QED
      BY <1>5, <3>1, <3>6 DEF Kept
  <2>3. CASE CommitTurn(w) \/ CommitEdit(w) \/ CommitBranch(w)
    <3>1. Kept
      BY <2>3 DEF CommitTurn, CommitEdit, CommitBranch, CanCommitHistory, Kept
    <3>2. Elsewhere
      BY <1>0, <2>3 DEF CommitTurn, CommitEdit, CommitBranch, Elsewhere, JobRecords
    <3> QED
      BY <1>5, <3>1, <3>2 DEF Kept
  <2> QED
    BY <1>11, <2>1, <2>2, <2>3 DEF TurnStep
<1> QED
  BY <1>3, <1>4, <1>7, <1>8, <1>9, <1>10, <1>11 DEF Advance, DeleteStep

(* The gate keeps the chat found. *)
LEMMA GateStep ==
  ASSUME TypeInv, GateInv, NEW w \in Workers, Start(w) \/ Advance(w)
  PROVE  GateInv'
<1>1. \A v \in Workers : v # None
  BY AbsentAssumption
<1>2. \A v \in Workers : job[v].stage = "point" => job[v].chat \in Chats
  BY DEF TypeInv, JobsOK, JobOK, ChatJobOK
<1>3. ASSUME NEW v \in Workers, v # w
      PROVE  /\ job'[v].stage \in {"point", "evict"} => gate' = v
             /\ job'[v].stage = "point" => rows'[job'[v].chat] # None
  <2>1. job'[v].stage = job[v].stage /\ job'[v].chat = job[v].chat
    BY <1>3, OthersRest
  <2>2. job[v].stage \in {"point", "evict"} => gate = v
    BY DEF GateInv
  <2>3. job[v].stage \in {"point", "evict"} => gate' = v
    BY <1>1, <1>3, <2>2, GateMoves
  <2>4. job[v].stage = "point" => ~DeleteChat(w)
    BY <1>1, <2>2 DEF DeleteChat
  <2> QED
    BY <1>2, <2>1, <2>3, <2>4, RowsKept DEF GateInv
<1> QED
  BY <1>3, GateMoves DEF GateInv

(* The pointer follows the chats. *)
LEMMA PointerStep ==
  ASSUME TypeInv, PointerLive, GateInv, NEW w \in Workers, Start(w) \/ Advance(w)
  PROVE  PointerLive'
<1>a. JobOK(job[w]) /\ job[w] \in JobRecords
  BY DEF TypeInv, JobsOK, JobOK
<1>b. /\ rows \in [Chats -> Runtimes \cup {None}]
      /\ active \in Chats \cup {None}
  BY DEF TypeInv, TablesOK
<1>r. \A r \in Runtimes : r # None
  BY AbsentAssumption DEF Runtimes
<1>n. NewRuntime \in Runtimes
  BY DEF NewRuntime, Runtimes
<1>c. NewRuntime # None
  BY <1>r, <1>n
<1>1. CASE active' = active /\ ~DeleteChat(w)
  BY <1>1, <1>b, RowsKept DEF PointerLive
<1>2. CASE \E c \in Existing : active' = c /\ rows' = rows
  BY <1>2 DEF PointerLive, Existing
<1>3. CASE \E c \in Chats : active' = c /\ rows' = [rows EXCEPT ![c] = NewRuntime]
  BY <1>3, <1>b, <1>c DEF PointerLive
<1>4. CASE CommitBranch(w)
  <2>0. /\ job[w].dest \in Chats /\ job[w].seen \in Runtimes
        /\ job[w].request \in Requests
    BY <1>4, <1>a DEF CommitBranch, At, JobOK, TurnJobOK, TurnCalls
  <2>1. job[w].dest \in Chats /\ Played(job[w].seen, job[w].request) # None
    BY <1>r, <2>0, PlayedOK
  <2> QED
    BY <1>4, <1>b, <2>1 DEF CommitBranch, PointerLive
<1>5. CASE DeleteChat(w)
  BY <1>5, <1>b DEF DeleteChat, PointerLive, Existing
<1>6. CASE ActivatePoints(w)
  BY <1>6 DEF ActivatePoints, At, GateInv, PointerLive
<1>7. CASE Start(w)
  <2>1. active' = active
    BY <1>7 DEF Start, StartTurn, StartStateCall, CreateChat, StartActivate, StartPeek,
                StartDelete, disk
  <2> QED
    BY <1>1, <1>5, <2>1
<1>8. CASE GetActive(w) \/ GetActiveCreates(w) \/ HealActive(w)
  <2>1. \/ active' = active
        \/ \E c \in Existing : active' = c /\ rows' = rows
        \/ \E c \in Chats : active' = c /\ rows' = [rows EXCEPT ![c] = NewRuntime]
    BY <1>8 DEF GetActive, GetActiveCreates, HealActive
  <2> QED
    BY <1>1, <1>2, <1>3, <1>5, <2>1
<1>9. CASE \/ NoIdLeft(w) \/ ActivateFinds(w) \/ CacheHit(w) \/ CacheMiss(w) \/ LoadChat(w)
           \/ ChatNotFound(w) \/ CachePut(w) \/ EnterChat(w) \/ UseRuntime(w) \/ SaveChat(w)
           \/ SaveChatFails(w) \/ FileChat(w) \/ LoadBare(w) \/ SavePortrait(w)
           \/ NothingToDelete(w) \/ EvictChat(w)
  <2>1. active' = active
    BY <1>9 DEF FileChat, LoadBare, SavePortrait, NoIdLeft, ActivateFinds, CacheHit, CacheMiss,
                LoadChat, ChatNotFound, CachePut, EnterChat, UseRuntime, SaveChat, SaveChatFails,
                NothingToDelete, EvictChat, disk
  <2> QED
    BY <1>1, <1>5, <2>1
<1>10. CASE TurnStep(w) /\ ~CommitBranch(w)
  <2>1. active' = active
    BY <1>10 DEF TurnStep, EnterTurn, LookupReceipt, LoadTurn, LoadSource, PrepareHistory,
                 AbandonTurn, CommitTurn, CommitEdit, CacheTurn, disk
  <2> QED
    BY <1>1, <1>5, <2>1
<1> QED
  BY <1>4, <1>5, <1>6, <1>7, <1>8, <1>9, <1>10 DEF Advance, StateStep, DeleteStep

-----------------------------------------------------------------------------
(* The rewind window.                                                      *)

(* A nonempty set of numbers has a least one. *)
LEMMA LeastNumber ==
  ASSUME NEW T, T \subseteq Nat, T # {}
  PROVE  \E n \in T : \A m \in T : n <= m
<1> DEFINE R == {pair \in Nat \X Nat : pair[1] < pair[2]}
<1>1. IsWellFoundedOn(R, Nat)
  BY NatLessThanWellFounded DEF OpToRel
<1> HIDE DEF R
<1>2. PICK n \in T : \A m \in T : ~(<<m, n>> \in R)
  BY <1>1, WFMin
<1>3. \A m \in T : m \in Nat /\ (m < n => <<m, n>> \in R)
  BY DEF R
<1>4. ASSUME NEW m \in T
      PROVE  n <= m
  <2>1. m \in Nat /\ n \in Nat
    BY <1>3
  <2>2. ~(m < n)
    BY <1>2, <1>3
  <2> QED
    BY <2>1, <2>2
<1> QED
  BY <1>4

(* Pruning a table with one checkpoint per turn leaves a chat no more than *)
(* the window: all but the oldest survivor are newer than that one, which  *)
(* survived because fewer than MaxRewind are.                              *)
LEMMA PruneBounds ==
  ASSUME NEW table, NEW c, IsFiniteSet(table),
         \A k \in table : k.turn \in Nat,
         \A j, k \in table : j.chat = k.chat /\ j.turn = k.turn => j = k
  PROVE  Cardinality(CheckpointsOf(Prune(table, c), c)) <= MaxRewind
<1> DEFINE mine == CheckpointsOf(table, c)
           newer(k) == {j \in mine : j.turn > k.turn}
           kept == CheckpointsOf(Prune(table, c), c)
<1>1. kept = {k \in mine : Cardinality(newer(k)) < MaxRewind}
  BY DEF CheckpointsOf, Prune
<1>2. mine \subseteq table /\ IsFiniteSet(mine)
  BY FS_Subset DEF CheckpointsOf
<1>3. IsFiniteSet(kept) /\ kept \subseteq mine
  BY <1>1, <1>2, FS_Subset
<1>4. CASE kept = {}
  <2>1. Cardinality(kept) = 0
    BY <1>4, FS_EmptySet
  <2> QED
    BY <2>1, RewindAssumption
<1>5. CASE kept # {}
  <2> DEFINE turns == {k.turn : k \in kept}
  <2>1. turns \subseteq Nat /\ turns # {}
    BY <1>2, <1>3, <1>5
  <2>2. PICK n \in turns : \A m \in turns : n <= m
    BY <2>1, LeastNumber
  <2>3. PICK oldest \in kept : oldest.turn = n
    BY <2>2
  <2>4. \A k \in kept : k.turn \in Nat /\ oldest.turn <= k.turn
    BY <1>2, <1>3, <2>2, <2>3
  <2>5. \A k \in kept : k.turn = oldest.turn => k = oldest
    BY <1>2, <1>3 DEF CheckpointsOf
  <2>6. kept \subseteq newer(oldest) \cup {oldest}
    BY <1>3, <2>4, <2>5
  <2>7. IsFiniteSet(newer(oldest)) /\ Cardinality(newer(oldest)) < MaxRewind
    BY <1>1, <1>2, FS_Subset
  <2> HIDE DEF newer, kept, mine, turns
  <2>8. /\ IsFiniteSet(newer(oldest) \cup {oldest})
        /\ Cardinality(newer(oldest) \cup {oldest}) <= Cardinality(newer(oldest)) + 1
    <3> DEFINE rest == newer(oldest)
    <3>1. IsFiniteSet(rest)
      BY <2>7
    <3> HIDE DEF rest
    <3>2. Cardinality(rest) \in Nat
      BY <3>1, FS_CardinalityType
    <3>3. /\ IsFiniteSet(rest \cup {oldest})
          /\ Cardinality(rest \cup {oldest}) =
               IF oldest \in rest THEN Cardinality(rest) ELSE Cardinality(rest) + 1
      BY <3>1, FS_AddElement
    <3> QED
      BY <3>2, <3>3 DEF rest
  <2>9. Cardinality(kept) <= Cardinality(newer(oldest) \cup {oldest})
    BY <2>6, <2>8, FS_Subset
  <2>10. /\ Cardinality(kept) \in Nat /\ Cardinality(newer(oldest)) \in Nat
         /\ Cardinality(newer(oldest) \cup {oldest}) \in Nat
    BY <1>3, <2>7, <2>8, FS_CardinalityType
  <2>11. Cardinality(kept) <= MaxRewind
    BY <2>7, <2>8, <2>9, <2>10, RewindAssumption
  <2> QED
    BY <2>11 DEF kept
<1> QED
  BY <1>4, <1>5

WindowInv == IsFiniteSet(checkpoints) /\ RewindWindow

(* Fewer checkpoints stay within the window. *)
LEMMA WindowShrinks ==
  ASSUME WindowInv, checkpoints' \subseteq checkpoints
  PROVE  WindowInv'
<1>1. IsFiniteSet(checkpoints')
  BY FS_Subset DEF WindowInv
<1>2. ASSUME NEW c \in Chats
      PROVE  Cardinality(CheckpointsOf(checkpoints', c)) <= MaxRewind
  <2>1. /\ IsFiniteSet(CheckpointsOf(checkpoints, c))
        /\ CheckpointsOf(checkpoints', c) \subseteq CheckpointsOf(checkpoints, c)
    BY FS_Subset DEF WindowInv, CheckpointsOf
  <2>2. Cardinality(CheckpointsOf(checkpoints, c)) <= MaxRewind
    BY DEF WindowInv, RewindWindow
  <2>3. Cardinality(CheckpointsOf(checkpoints', c))
          <= Cardinality(CheckpointsOf(checkpoints, c))
    BY <2>1, FS_Subset
  <2>4. /\ Cardinality(CheckpointsOf(checkpoints, c)) \in Nat
        /\ Cardinality(CheckpointsOf(checkpoints', c)) \in Nat
    BY <2>1, FS_Subset, FS_CardinalityType
  <2> QED
    BY <2>2, <2>3, <2>4, RewindAssumption
<1> QED
  BY <1>1, <1>2 DEF WindowInv, RewindWindow, CheckpointsOf

(* A stamped table that grew only in the stamped chat stays within it.     *)
LEMMA StampBounds ==
  ASSUME WindowInv, NEW table, IsFiniteSet(table),
         NEW c \in Chats, NEW n \in Nat, NEW q, NEW s,
         \A k \in table : k \in checkpoints \/ k.chat = c,
         \A k \in table : k.turn \in Nat,
         \A j, k \in table : j.chat = k.chat /\ j.turn = k.turn => j = k,
         checkpoints' = Stamp(table, c, n, q, s)
  PROVE  WindowInv'
<1> DEFINE new == [chat |-> c, turn |-> n, request |-> q, snapshot |-> s]
           upserted == Upsert(table, new)
<1>1. upserted = {j \in table : j.chat # c \/ j.turn # n} \cup {new}
  BY DEF Upsert
<1>2. IsFiniteSet(upserted)
  <2> DEFINE others == {j \in table : j.chat # c \/ j.turn # n}
  <2>1. IsFiniteSet(others)
    BY FS_Subset
  <2>2. upserted = others \cup {new}
    BY <1>1
  <2> HIDE DEF others, upserted, new
  <2> QED
    BY <2>1, <2>2, FS_AddElement
<1>3. /\ \A k \in upserted : k.turn \in Nat
      /\ \A j, k \in upserted : j.chat = k.chat /\ j.turn = k.turn => j = k
  BY <1>1
<1>4. checkpoints' = Prune(upserted, c)
  BY DEF Stamp
<1>5. \A k \in upserted : k \in checkpoints \/ k.chat = c
  BY <1>1
<1> HIDE DEF upserted, new
<1>6. Prune(upserted, c) \subseteq upserted
  BY DEF Prune
<1>7. IsFiniteSet(checkpoints')
  BY <1>2, <1>4, <1>6, FS_Subset
<1>8. ASSUME NEW x \in Chats
      PROVE  Cardinality(CheckpointsOf(checkpoints', x)) <= MaxRewind
  <2>1. CASE x = c
    BY <1>2, <1>3, <1>4, <2>1, PruneBounds
  <2>2. CASE x # c
    <3>1. /\ IsFiniteSet(CheckpointsOf(checkpoints, x))
          /\ CheckpointsOf(checkpoints', x) \subseteq CheckpointsOf(checkpoints, x)
      BY <1>4, <1>5, <1>6, <2>2, FS_Subset DEF WindowInv, CheckpointsOf
    <3>2. Cardinality(CheckpointsOf(checkpoints, x)) <= MaxRewind
      BY DEF WindowInv, RewindWindow
    <3>3. Cardinality(CheckpointsOf(checkpoints', x))
            <= Cardinality(CheckpointsOf(checkpoints, x))
      BY <3>1, FS_Subset
    <3>4. /\ Cardinality(CheckpointsOf(checkpoints, x)) \in Nat
          /\ Cardinality(CheckpointsOf(checkpoints', x)) \in Nat
      BY <3>1, FS_Subset, FS_CardinalityType
    <3> QED
      BY <3>2, <3>3, <3>4, RewindAssumption
  <2> QED
    BY <2>1, <2>2
<1> QED
  BY <1>7, <1>8 DEF WindowInv, RewindWindow, CheckpointsOf

(* Only commits and deletes touch the checkpoints. *)
LEMMA CheckpointsRest ==
  ASSUME NEW w \in Workers, Start(w) \/ Advance(w),
         ~CommitTurn(w), ~CommitEdit(w), ~CommitBranch(w)
  PROVE  checkpoints' \subseteq checkpoints
<1>1. CASE Start(w)
  BY <1>1 DEF Start, StartTurn, StartStateCall, CreateChat, StartActivate, StartPeek,
              StartDelete, disk
<1>2. CASE StateStep(w)
  BY <1>2 DEF StateStep, GetActive, GetActiveCreates, NoIdLeft, FileChat, LoadBare,
                  SavePortrait, ActivateFinds,
              ActivatePoints, HealActive, CacheHit, CacheMiss, LoadChat, ChatNotFound,
              CachePut, EnterChat, UseRuntime, SaveChat, SaveChatFails, disk
<1>3. CASE TurnStep(w)
  BY <1>3 DEF TurnStep, EnterTurn, LookupReceipt, LoadTurn, LoadSource, PrepareHistory,
              AbandonTurn, CacheTurn, disk
<1>4. CASE DeleteStep(w)
  BY <1>4 DEF DeleteStep, DeleteChat, NothingToDelete, EvictChat, disk
<1> QED
  BY <1>1, <1>2, <1>3, <1>4 DEF Advance

(* No step takes a chat out of the window. *)
LEMMA WindowStep ==
  ASSUME TypeInv, NoDangling, SnapshotFits, WindowInv, NEW w \in Workers,
         Start(w) \/ Advance(w)
  PROVE  WindowInv'
<1>a. JobOK(job[w])
  BY DEF TypeInv, JobsOK
<1>b. /\ \A k \in checkpoints : k.turn \in Nat
      /\ \A j, k \in checkpoints : j.chat = k.chat /\ j.turn = k.turn => j = k
      /\ IsFiniteSet(checkpoints)
  BY DEF TypeInv, TablesOK, Checkpoints, SnapshotFits, WindowInv
<1>1. ASSUME NEW c \in Chats, NEW n \in Nat, NEW m,
             checkpoints' = Stamp(KeepBelow(c, m), c, n, job[w].request, job[w].seen)
      PROVE  WindowInv'
  <2>1. KeepBelow(c, m) \subseteq checkpoints
    BY DEF KeepBelow
  <2>2. IsFiniteSet(KeepBelow(c, m))
    BY <1>b, <2>1, FS_Subset
  <2> QED
    BY <1>1, <1>b, <2>1, <2>2, StampBounds
<1>2. CASE CommitTurn(w)
  <2>1. /\ job[w].dest \in Chats /\ job[w].seen \in Runtimes /\ job[w].request \in Requests
    BY <1>2, <1>a DEF CommitTurn, At, JobOK, TurnJobOK, TurnCalls
  <2>2. Len(Played(job[w].seen, job[w].request).turns) \in Nat
    BY <2>1, PlayedOK
  <2> QED
    BY <1>1, <1>2, <2>1, <2>2 DEF CommitTurn
<1>3. CASE CommitEdit(w)
  <2>1. job[w].chat \in Chats /\ job[w].turn \in Nat
    BY <1>3, <1>a DEF CommitEdit, JobOK, TurnJobOK, TurnCalls
  <2> QED
    BY <1>1, <1>3, <2>1 DEF CommitEdit
<1>4. CASE CommitBranch(w)
  <2> DEFINE c == job[w].chat
             d == job[w].dest
             n == job[w].turn
             older == {i \in CheckpointsOf(checkpoints, c) : i.turn < n}
             inherited == {[i EXCEPT !.chat = d] : i \in older}
             table == checkpoints \cup inherited
             copy == [i \in older |-> [i EXCEPT !.chat = d]]
  <2>1. /\ c \in Chats /\ d \in Chats /\ n \in Nat
        /\ rows[d] = None
        /\ checkpoints' = Stamp(table, d, n, job[w].request, job[w].seen)
    BY <1>4, <1>a DEF CommitBranch, JobOK, TurnJobOK, TurnCalls
  <2>2. \A i \in inherited : \E k \in checkpoints :
          i.chat = d /\ i.turn = k.turn /\ k.chat = c /\ i = [k EXCEPT !.chat = d]
    BY DEF CheckpointsOf, Checkpoints, TypeInv, TablesOK
  <2>3. \A k \in checkpoints : k.chat # d
    BY <2>1 DEF NoDangling
  <2>4. IsFiniteSet(table)
    <3>1. IsFiniteSet(older)
      BY <1>b, FS_Subset DEF CheckpointsOf
    <3>2. copy \in Surjection(older, inherited)
      BY DEF Surjection
    <3> HIDE DEF older, inherited, copy
    <3>3. IsFiniteSet(inherited)
      BY <3>1, <3>2, FS_Surjection
    <3> QED
      BY <1>b, <3>3, FS_Union
  <2> HIDE DEF inherited, c, d, n, copy, older
  <2>5. /\ \A k \in table : k \in checkpoints \/ k.chat = d
        /\ \A k \in table : k.turn \in Nat
    BY <1>b, <2>2
  <2>6. \A j, k \in table : j.chat = k.chat /\ j.turn = k.turn => j = k
    BY <1>b, <2>2, <2>3
  <2> HIDE DEF table
  <2> QED
    BY <2>1, <2>4, <2>5, <2>6, StampBounds
<1>5. CASE ~CommitTurn(w) /\ ~CommitEdit(w) /\ ~CommitBranch(w)
  BY <1>5, CheckpointsRest, WindowShrinks
<1> QED
  BY <1>2, <1>3, <1>4, <1>5

-----------------------------------------------------------------------------
(* The invariant of the store: the types, the tables in agreement, a       *)
(* pointer to a chat that is there, which needs to know who holds the gate,*)
(* and the window, which needs one checkpoint per turn.                    *)
StoreInv == TypeInv /\ NoDangling /\ SnapshotFits /\ GateInv /\ PointerLive /\ WindowInv

(* An empty store satisfies it. *)
LEMMA InvInit == StoreInit => StoreInv
<1> SUFFICES ASSUME StoreInit PROVE StoreInv
  OBVIOUS
<1>1. TypeInv
  BY TypeInit
<1>2. NoDangling /\ SnapshotFits /\ PointerLive
  BY DEF StoreInit, NoDangling, SnapshotFits, PointerLive
<1>3. GateInv
  BY DEF StoreInit, GateInv, Idle
<1>4. WindowInv
  <2>1. \A c \in Chats : CheckpointsOf(checkpoints, c) = {}
    BY DEF StoreInit, CheckpointsOf
  <2> QED
    BY <2>1, FS_EmptySet, RewindAssumption DEF StoreInit, WindowInv, RewindWindow
<1> QED
  BY <1>1, <1>2, <1>3, <1>4 DEF StoreInv

(* A restart leaves the tables as they are and nobody at work. *)
LEMMA InvRestart == StoreInv /\ Restart => StoreInv'
<1> SUFFICES ASSUME StoreInv, Restart PROVE StoreInv'
  OBVIOUS
<1>1. TypeInv'
  BY TypeRestart DEF StoreInv
<1>2. NoDangling' /\ SnapshotFits'
  BY TableFrame DEF StoreInv, Restart, disk
<1>3. GateInv'
  BY DEF Restart, GateInv, Idle
<1>4. PointerLive'
  BY DEF StoreInv, Restart, disk, PointerLive
<1>5. WindowInv'
  BY WindowShrinks DEF StoreInv, Restart, disk
<1> QED
  BY <1>1, <1>2, <1>3, <1>4, <1>5 DEF StoreInv

(* A step that changes nothing. *)
LEMMA InvStutter == StoreInv /\ UNCHANGED vars => StoreInv'
<1> SUFFICES ASSUME StoreInv, UNCHANGED vars PROVE StoreInv'
  OBVIOUS
<1>1. TypeInv'
  BY TypeStep DEF StoreInv
<1>2. NoDangling' /\ SnapshotFits'
  BY TableFrame DEF StoreInv, vars
<1>3. GateInv' /\ PointerLive'
  BY DEF StoreInv, vars, GateInv, PointerLive
<1>4. WindowInv'
  BY WindowShrinks DEF StoreInv, vars
<1> QED
  BY <1>1, <1>2, <1>3, <1>4 DEF StoreInv

(* Every step keeps the invariant. *)
LEMMA InvStep == StoreInv /\ [StoreNext]_vars => StoreInv'
<1> SUFFICES ASSUME StoreInv, [StoreNext]_vars PROVE StoreInv'
  OBVIOUS
<1>1. ASSUME NEW w \in Workers, Start(w) \/ Advance(w)
      PROVE  StoreInv'
  <2>1. TypeInv'
    BY <1>1, TypeStep DEF StoreInv
  <2>2. NoDangling' /\ SnapshotFits'
    BY <1>1, <2>1, TableStep DEF StoreInv
  <2>3. GateInv'
    BY <1>1, GateStep DEF StoreInv
  <2>4. PointerLive'
    BY <1>1, PointerStep DEF StoreInv
  <2>5. WindowInv'
    BY <1>1, WindowStep DEF StoreInv
  <2> QED
    BY <2>1, <2>2, <2>3, <2>4, <2>5 DEF StoreInv
<1> QED
  BY <1>1, InvRestart, InvStutter DEF StoreNext

(* The invariant holds of every state of every execution. *)
LEMMA StoreInvariance == StoreSpec => []StoreInv
BY InvInit, InvStep, PTL DEF StoreSpec

(***************************************************************************)
(* The tables, the cache, the locks and the calls hold what they should.   *)
(***************************************************************************)
THEOREM TypeCorrect == StoreSpec => []StoreTypeOK
<1>1. StoreInv => StoreTypeOK
  BY DEF StoreInv, TypeInv, TablesOK, CacheOK, GuardsOK, JobsOK, JobOK, StoreTypeOK
<1> QED BY <1>1, StoreInvariance, PTL

(***************************************************************************)
(* No checkpoint and no receipt outlives a chat it mentions, and a request *)
(* has one receipt per chat.                                               *)
(***************************************************************************)
THEOREM NothingDangles == StoreSpec => []NoDangling
<1>1. StoreInv => NoDangling
  BY DEF StoreInv
<1> QED BY <1>1, StoreInvariance, PTL

(***************************************************************************)
(* The checkpoint of a turn restores the transcript of that length, and    *)
(* there is one per turn.                                                  *)
(***************************************************************************)
THEOREM SnapshotsFit == StoreSpec => []SnapshotFits
<1>1. StoreInv => SnapshotFits
  BY DEF StoreInv
<1> QED BY <1>1, StoreInvariance, PTL

(***************************************************************************)
(* The active pointer names a chat that is there, however creates,         *)
(* activations, branches, deletes and healing reads interleave.            *)
(***************************************************************************)
THEOREM PointerStaysLive == StoreSpec => []PointerLive
<1>1. StoreInv => PointerLive
  BY DEF StoreInv
<1> QED BY <1>1, StoreInvariance, PTL

(***************************************************************************)
(* No chat has more than MAX_REWIND_TURNS checkpoints.                     *)
(***************************************************************************)
THEOREM WindowHolds == StoreSpec => []RewindWindow
<1>1. StoreInv => RewindWindow
  BY DEF StoreInv, WindowInv
<1> QED BY <1>1, StoreInvariance, PTL

(***************************************************************************)
(* The three tables fit each other.                                        *)
(***************************************************************************)
THEOREM TablesStayFit == StoreSpec => []TablesFit
<1>1. NoDangling /\ SnapshotFits /\ RewindWindow => TablesFit
  BY DEF TablesFit
<1> QED BY <1>1, NothingDangles, SnapshotsFit, WindowHolds, PTL

-----------------------------------------------------------------------------
(* The path of a chat, where only turns save a runtime.                    *)

\* The stages at which a turn holds the lock of its chat.
Fenced == {"lookup", "load", "prepare", "model", "put"}

(* The calls are those the clients make, each at stages of its own.        *)
CallsInv ==
  \A w \in Workers :
    /\ job[w].call \in Calls \cup {"retry", "idle"}
    /\ job[w].stage \in {"dress", "sign"} => job[w].call = "portrait"
    /\ job[w].stage \in {"delete", "evict"} => job[w].call = "delete"
    /\ job[w].call \in TurnCalls => job[w].stage \in Fenced \cup {"lock"}

(* A turn holds the lock of its chat from its first read to its cache_put. *)
LocksInv ==
  \A w \in Workers :
    job[w].call \in TurnCalls /\ job[w].stage \in Fenced => lock[job[w].chat] = w

(* What has a row was drawn, and so were the chats that turns work on.     *)
DrawnInv ==
  /\ \A c \in Chats : rows[c] # None => c \in drawn
  /\ \A w \in Workers : job[w].call \in TurnCalls => {job[w].chat, job[w].dest} \subseteq drawn

(* A turn that is not cancelled has its chat, and no delete is at it.      *)
LiveInv ==
  \A w \in Workers : job[w].call \in TurnCalls /\ ~job[w].cancelled =>
    rows[job[w].chat] # None /\ ~BeingDeleted(job[w].chat)

(* What a turn holds on the path: the row it has loaded is still the row   *)
(* of its chat, a retry finds its request there and goes no further, and a *)
(* request that is on its way to a commit has no receipt.                  *)
TurnOnPath(w) ==
  /\ job[w].call = "turn" => job[w].dest = job[w].chat
  /\ job[w].call = "turn" /\ job[w].stage = "model" /\ ~job[w].cancelled =>
       job[w].seen = rows[job[w].chat]
  /\ job[w].call = "branch" => job[w].stage \notin {"model", "put"}
  /\ job[w].call = "retry" =>
       /\ job[w].stage = "load" /\ job[w].dest = job[w].chat
       /\ rows[job[w].chat] # None => job[w].request \in Committed(rows[job[w].chat])
  /\ job[w].call \in TurnCalls \ {"retry"} /\ job[w].stage \in {"load", "prepare", "model"} =>
       NoReceiptYet(w, receipts)

(* The receipts of the path are those of edits, and name the turn that stands. *)
ReceiptNamesTurn(r) ==
  /\ r.kind = "edit" /\ r.dest = r.source
  /\ r.turn <= Len(rows[r.source].turns)
  /\ rows[r.source].turns[r.turn] = r.request

(* The invariant of the path, and that of all chats it needs.              *)
PathBody ==
  /\ \A w \in Workers : TurnOnPath(w)
  /\ \A r \in receipts : ReceiptNamesTurn(r)
  /\ CheckpointNamesTurn

PathInv == OnPath => PathBody

BaseInv == CallsInv /\ LocksInv /\ DrawnInv /\ LiveInv

(* What a worker's own call becomes when it goes on. *)
LEMMA OwnMoves ==
  ASSUME TypeInv, CallsInv, NEW w \in Workers, Advance(w)
  PROVE  \/ job'[w] = Idle
         \/ /\ job'[w].chat = job[w].chat /\ job'[w].request = job[w].request
            /\ job'[w].cancelled = job[w].cancelled
            /\ \/ job'[w].call = job[w].call
               \/ job[w].call = "create" /\ job'[w].call = "portrait" /\ "portrait" \in Calls
               \/ job[w].call \in {"edit", "branch"} /\ job'[w].call = "retry"
            /\ job'[w].stage \in {"dress", "sign"} => job'[w].call = "portrait"
            /\ job'[w].stage \in {"delete", "evict"} => job'[w].call = "delete"
            /\ job'[w].call \in TurnCalls => job'[w].stage \in Fenced
<1> DEFINE Moved == \/ job'[w] = Idle
                    \/ /\ job'[w].chat = job[w].chat /\ job'[w].request = job[w].request
                       /\ job'[w].cancelled = job[w].cancelled
                       /\ \/ job'[w].call = job[w].call
                          \/ job[w].call = "create" /\ job'[w].call = "portrait" /\ "portrait" \in Calls
                          \/ job[w].call \in {"edit", "branch"} /\ job'[w].call = "retry"
                       /\ job'[w].stage \in {"dress", "sign"} => job'[w].call = "portrait"
                       /\ job'[w].stage \in {"delete", "evict"} => job'[w].call = "delete"
                       /\ job'[w].call \in TurnCalls => job'[w].stage \in Fenced
<1>0. /\ job = [u \in Workers |-> job[u]]
      /\ job[w] \in JobRecords /\ JobOK(job[w])
  BY DEF TypeInv, JobsOK, JobOK
<1>c. /\ job[w].stage \in {"dress", "sign"} => job[w].call = "portrait"
      /\ job[w].stage \in {"delete", "evict"} => job[w].call = "delete"
      /\ job[w].call \in TurnCalls => job[w].stage \in Fenced \cup {"lock"}
  BY DEF CallsInv
<1>1. CASE Leave(w)
  BY <1>0, <1>1 DEF Leave
<1>2. ASSUME NEW s, Goto(w, s),
             s \in {"dress", "sign"} => job[w].call = "portrait",
             s \in {"delete", "evict"} => job[w].call = "delete",
             job[w].call \in TurnCalls => s \in Fenced
      PROVE  Moved
  <2>1. job'[w] = [job[w] EXCEPT !.stage = s]
    BY <1>0, <1>2 DEF Goto
  <2> QED
    BY <1>0, <1>2, <2>1 DEF JobRecords
<1>4. CASE StateStep(w)
  <2>t. ASSUME job[w].stage \notin Fenced \cup {"lock"}
        PROVE  job[w].call \notin TurnCalls
    BY <1>c, <2>t
  <2>1. CASE GetActive(w) \/ GetActiveCreates(w)
    <3>1. job[w].call \notin TurnCalls
      BY <2>1, <2>t DEF GetActive, GetActiveCreates, At, Fenced
    <3>2. PICK c : job' = [job EXCEPT ![w].stage = "probe", ![w].dest = c]
      BY <2>1 DEF GetActive, GetActiveCreates
    <3>3. job'[w] = [job[w] EXCEPT !.stage = "probe", !.dest = c]
      BY <1>0, <3>2
    <3> QED
      BY <1>0, <3>1, <3>3 DEF JobRecords
  <2>8. CASE LoadChat(w)
    BY <1>0, <2>8, <2>t DEF LoadChat, At, Fenced, JobRecords
  <2>2. CASE CacheHit(w) \/ ChatNotFound(w) \/ CachePut(w)
    <3>1. job[w].call \notin TurnCalls
      BY <2>2, <2>t DEF CacheHit, ChatNotFound, CachePut, At, Fenced
    <3>2. AfterCached(w)
      BY <2>2 DEF CacheHit, ChatNotFound, CachePut
    <3> QED
      BY <1>2, <3>1, <3>2 DEF AfterCached
  <2>3. CASE NoIdLeft(w) \/ UseRuntime(w) \/ SaveChat(w) \/ SaveChatFails(w)
    BY <1>1, <2>3 DEF NoIdLeft, UseRuntime, SaveChat, SaveChatFails
  <2>4. CASE ActivateFinds(w)
    BY <1>1, <1>2, <2>4, <2>t DEF ActivateFinds, At, Fenced
  <2>5. CASE ActivatePoints(w) \/ HealActive(w) \/ CacheMiss(w)
    BY <1>2, <2>5, <2>t DEF ActivatePoints, HealActive, CacheMiss, At, Fenced
  <2>9. CASE EnterChat(w)
    BY <1>2, <2>9 DEF EnterChat, StateCalls, TurnCalls
  <2>10. CASE SavePortrait(w)
    BY <1>2, <2>10, <2>t DEF SavePortrait, At, Fenced
  <2>6. CASE FileChat(w)
    <3>1. job[w].call \notin TurnCalls
      BY <2>6, <2>t DEF FileChat, At, Fenced
    <3>2. CASE Goto(w, "heal")
      BY <1>2, <3>1, <3>2
    <3>3. CASE /\ job[w].call = "create" /\ "portrait" \in Calls
               /\ job' = [job EXCEPT ![w].call = "portrait", ![w].stage = "dress"]
      <4>1. job'[w] = [job[w] EXCEPT !.call = "portrait", !.stage = "dress"]
        BY <1>0, <3>3
      <4> QED
        BY <1>0, <3>3, <4>1 DEF JobRecords, TurnCalls
    <3> QED
      BY <2>6, <3>2, <3>3 DEF FileChat
  <2>7. CASE LoadBare(w)
    <3>1. job[w].call = "portrait"
      BY <2>7, <1>c DEF LoadBare, At
    <3>2. CASE job' = [job EXCEPT ![w].stage = "sign", ![w].seen = rows[job[w].dest]]
      <4>1. job'[w] = [job[w] EXCEPT !.stage = "sign", !.seen = rows[job[w].dest]]
        BY <1>0, <3>2
      <4> QED
        BY <1>0, <3>1, <4>1 DEF JobRecords, TurnCalls
    <3> QED
      BY <1>1, <2>7, <3>2 DEF LoadBare
  <2> QED
    BY <1>4, <2>1, <2>2, <2>3, <2>4, <2>5, <2>6, <2>7, <2>8, <2>9, <2>10 DEF StateStep
<1>5. CASE DeleteStep(w)
  <2>1. job[w].stage \in {"delete", "evict"} \/ Leave(w)
    BY <1>5 DEF DeleteStep, DeleteChat, NothingToDelete, EvictChat, At
  <2>2. Leave(w) \/ Goto(w, "evict") \/ Goto(w, "resolve")
    BY <1>5 DEF DeleteStep, DeleteChat, NothingToDelete, EvictChat, At
  <2> QED
    BY <1>1, <1>2, <1>c, <2>1, <2>2 DEF TurnCalls
<1>6. CASE TurnStep(w)
  <2>1. CASE LookupReceipt(w)
    <3>1. CASE Goto(w, "load")
      BY <1>2, <3>1 DEF Fenced
    <3>2. ASSUME NEW r \in receipts, job[w].call # "turn", r.kind = job[w].call,
                 job' = [job EXCEPT ![w].call = "retry", ![w].stage = "load",
                                    ![w].dest = r.dest]
          PROVE  Moved
      <4>1. job'[w] = [job[w] EXCEPT !.call = "retry", !.stage = "load", !.dest = r.dest]
        BY <1>0, <3>2
      <4>2. job[w].call \in {"edit", "branch"}
        BY <3>2 DEF TypeInv, TablesOK, Receipts
      <4> QED
        BY <1>0, <4>1, <4>2 DEF JobRecords, Fenced
    <3> QED
      BY <2>1, <3>1, <3>2 DEF LookupReceipt
  <2>2. CASE PrepareHistory(w)
    <3>1. PICK k, d : job' = [job EXCEPT ![w].stage = "model", ![w].dest = d,
                                  ![w].seen = k.snapshot,
                                  ![w].source = rows[job[w].chat]]
      BY <2>2 DEF PrepareHistory
    <3>2. job'[w] = [job[w] EXCEPT !.stage = "model", !.dest = d, !.seen = k.snapshot,
                                   !.source = rows[job[w].chat]]
      BY <1>0, <3>1
    <3> QED
      BY <1>0, <3>2 DEF JobRecords, Fenced
  <2>3. CASE LoadTurn(w)
    <3>1. job'[w] = [job[w] EXCEPT !.stage = "model", !.seen = rows[job[w].dest]]
      BY <1>0, <2>3 DEF LoadTurn
    <3> QED
      BY <1>0, <3>1 DEF JobRecords, Fenced
  <2>4. CASE CommitTurn(w) \/ CommitEdit(w) \/ CommitBranch(w)
    <3>1. job'[w] = [job[w] EXCEPT !.stage = "put",
                                   !.seen = Played(job[w].seen, job[w].request)]
      BY <1>0, <2>4 DEF CommitTurn, CommitEdit, CommitBranch
    <3> QED
      BY <1>0, <3>1 DEF JobRecords, Fenced
  <2>5. CASE EnterTurn(w) \/ LoadSource(w)
    BY <1>2, <2>5 DEF EnterTurn, LoadSource, Fenced
  <2>6. CASE AbandonTurn(w) \/ CacheTurn(w)
    BY <1>1, <2>6 DEF AbandonTurn, CacheTurn
  <2> QED
    BY <1>6, <2>1, <2>2, <2>3, <2>4, <2>5, <2>6 DEF TurnStep
<1> QED
  BY <1>4, <1>5, <1>6 DEF Advance

(* Only a step of a turn is taken by a call that is a turn. *)
LEMMA TurnSteps ==
  ASSUME CallsInv, NEW w \in Workers, Advance(w), job[w].call \in TurnCalls
  PROVE  TurnStep(w)
<1>1. job[w].stage \in Fenced \cup {"lock"}
  BY DEF CallsInv
<1>2. ~DeleteStep(w)
  BY <1>1 DEF DeleteStep, DeleteChat, NothingToDelete, EvictChat, At, Fenced
<1>3. ~StateStep(w)
  BY <1>1 DEF StateStep, GetActive, GetActiveCreates, NoIdLeft, FileChat, LoadBare,
              SavePortrait, ActivateFinds, ActivatePoints, HealActive, CacheHit, CacheMiss,
              LoadChat, ChatNotFound, CachePut, EnterChat, UseRuntime, SaveChat,
              SaveChatFails, At, Fenced, TurnCalls, StateCalls
<1> QED
  BY <1>2, <1>3 DEF Advance

(* What a worker's call is when it begins. *)
LEMMA OwnStarts ==
  ASSUME TypeInv, NEW w \in Workers, Start(w)
  PROVE  /\ job'[w].call \in Calls
         /\ job'[w].stage \in {"lock", "resolve", "point", "file", "check", "heal", "delete"}
         /\ job'[w].stage = "delete" => job'[w].call = "delete"
         /\ job'[w].call \in TurnCalls =>
              /\ job'[w].stage = "lock" /\ job'[w].dest = job'[w].chat
              /\ job'[w].chat \in Chats
              /\ rows[job'[w].chat] # None /\ ~BeingDeleted(job'[w].chat)
              /\ job'[w].call # "retry"
              /\ UNCHANGED rows
<1>0. job = [u \in Workers |-> job[u]]
  BY DEF TypeInv, JobsOK
<1>1. ASSUME NEW c \in Chats, NEW q \in Requests, NEW n,
             NEW call \in {"turn", "edit", "branch"}, StartTurn(w, call, c, q, n)
      PROVE  /\ job'[w].call = call /\ call \in Calls
             /\ job'[w].stage = "lock" /\ job'[w].chat = c /\ job'[w].dest = c
             /\ rows[c] # None /\ ~BeingDeleted(c) /\ UNCHANGED rows
  BY <1>0, <1>1 DEF StartTurn, Idle, disk
<1>2. ASSUME NEW call \in StateCalls, StartStateCall(w, call)
      PROVE  job'[w].call = call /\ call \in Calls /\ job'[w].stage = "resolve"
  BY <1>0, <1>2 DEF StartStateCall, Idle
<1>3. ASSUME NEW c \in Chats, NEW activate \in BOOLEAN, CreateChat(w, c, activate)
      PROVE  /\ job'[w].call = "create" /\ "create" \in Calls
             /\ job'[w].stage \in {"point", "file"}
  BY <1>0, <1>3 DEF CreateChat, Idle
<1>4. ASSUME NEW c \in Chats, StartActivate(w, c)
      PROVE  job'[w].call = "activate" /\ "activate" \in Calls /\ job'[w].stage = "check"
  BY <1>0, <1>4 DEF StartActivate, Idle
<1>5. ASSUME NEW c \in Chats, StartPeek(w, c)
      PROVE  job'[w].call = "peek" /\ "peek" \in Calls /\ job'[w].stage = "heal"
  BY <1>0, <1>5 DEF StartPeek, Idle
<1>6. ASSUME NEW c \in Chats, StartDelete(w, c)
      PROVE  job'[w].call = "delete" /\ "delete" \in Calls /\ job'[w].stage = "delete"
  BY <1>0, <1>6 DEF StartDelete, Idle
<1>7. StateCalls \cap TurnCalls = {}
  BY DEF StateCalls, TurnCalls
<1>8. CASE \/ \E c \in Chats, q \in Requests : StartTurn(w, "turn", c, q, 0)
           \/ \E c \in Chats, q \in Requests, n \in 1..MaxTurns, call \in {"edit", "branch"} :
                StartTurn(w, call, c, q, n)
  BY <1>1, <1>8
<1>9. CASE \E call \in StateCalls : StartStateCall(w, call)
  BY <1>2, <1>7, <1>9
<1>10. CASE \/ \E c \in Chats, activate \in BOOLEAN : CreateChat(w, c, activate)
            \/ \E c \in Chats : StartActivate(w, c) \/ StartPeek(w, c) \/ StartDelete(w, c)
  BY <1>3, <1>4, <1>5, <1>6, <1>10 DEF TurnCalls
<1> QED
  BY <1>8, <1>9, <1>10 DEF Start

(* Ids are drawn, never given back. *)
LEMMA DrawnGrows ==
  ASSUME NEW w \in Workers, Start(w) \/ Advance(w)
  PROVE  drawn \subseteq drawn'
<1>1. CASE Start(w)
  BY <1>1 DEF Start, StartTurn, StartStateCall, CreateChat, StartActivate, StartPeek,
              StartDelete, disk
<1>2. CASE StateStep(w)
  BY <1>2 DEF StateStep, GetActive, GetActiveCreates, NoIdLeft, FileChat, LoadBare,
              SavePortrait, ActivateFinds, ActivatePoints, HealActive, CacheHit, CacheMiss,
              LoadChat, ChatNotFound, CachePut, EnterChat, UseRuntime, SaveChat,
              SaveChatFails, disk
<1>3. CASE TurnStep(w)
  BY <1>3 DEF TurnStep, EnterTurn, LookupReceipt, LoadTurn, LoadSource, PrepareHistory,
              AbandonTurn, CommitTurn, CommitEdit, CommitBranch, CacheTurn, disk
<1>4. CASE DeleteStep(w)
  BY <1>4 DEF DeleteStep, DeleteChat, NothingToDelete, EvictChat, disk
<1> QED
  BY <1>1, <1>2, <1>3, <1>4 DEF Advance

(* Where only turns save, a row changes by a commit, a delete or the       *)
(* creation of its chat under an id just drawn.                            *)
LEMMA RowMoves ==
  ASSUME OnlyTurnsSave, TypeInv, CallsInv, NEW w \in Workers, Start(w) \/ Advance(w)
  PROVE  \/ rows' = rows
         \/ \E c \in Chats \ drawn : /\ rows' = [rows EXCEPT ![c] = NewRuntime]
                                     /\ c \in drawn'
         \/ CommitTurn(w) \/ CommitEdit(w) \/ CommitBranch(w) \/ DeleteChat(w)
<1>c. /\ job[w].call \in Calls \cup {"retry", "idle"}
      /\ job[w].stage \in {"dress", "sign"} => job[w].call = "portrait"
  BY DEF CallsInv
<1>1. CASE Start(w)
  <2>1. CASE \E c \in Chats, activate \in BOOLEAN : CreateChat(w, c, activate)
    BY <2>1 DEF CreateChat
  <2> QED
    BY <1>1, <2>1 DEF Start, StartTurn, StartStateCall, StartActivate, StartPeek,
                      StartDelete, disk
<1>2. ~SavePortrait(w) /\ ~SaveChat(w)
  BY <1>c DEF SavePortrait, SaveChat, At, OnlyTurnsSave
<1>3. CASE StateStep(w)
  BY <1>2, <1>3 DEF StateStep, GetActive, GetActiveCreates, NoIdLeft, FileChat, LoadBare,
              ActivateFinds, ActivatePoints, HealActive, CacheHit, CacheMiss,
              LoadChat, ChatNotFound, CachePut, EnterChat, UseRuntime,
              SaveChatFails, disk
<1>4. CASE TurnStep(w)
  BY <1>4 DEF TurnStep, EnterTurn, LookupReceipt, LoadTurn, LoadSource, PrepareHistory,
              AbandonTurn, CacheTurn, disk
<1>5. CASE DeleteStep(w)
  BY <1>5 DEF DeleteStep, NothingToDelete, EvictChat, disk
<1> QED
  BY <1>1, <1>3, <1>4, <1>5 DEF Advance

(* Only a commit of an edit or a branch and a delete touch the receipts.   *)
LEMMA ReceiptMoves ==
  ASSUME NEW w \in Workers, Start(w) \/ Advance(w)
  PROVE  receipts' = receipts \/ CommitEdit(w) \/ CommitBranch(w) \/ DeleteChat(w)
<1>1. CASE Start(w)
  BY <1>1 DEF Start, StartTurn, StartStateCall, CreateChat, StartActivate, StartPeek,
              StartDelete, disk
<1>2. CASE StateStep(w)
  BY <1>2 DEF StateStep, GetActive, GetActiveCreates, NoIdLeft, FileChat, LoadBare,
              SavePortrait, ActivateFinds, ActivatePoints, HealActive, CacheHit, CacheMiss,
              LoadChat, ChatNotFound, CachePut, EnterChat, UseRuntime, SaveChat,
              SaveChatFails, disk
<1>3. CASE TurnStep(w)
  BY <1>3 DEF TurnStep, EnterTurn, LookupReceipt, LoadTurn, LoadSource, PrepareHistory,
              AbandonTurn, CommitTurn, CacheTurn, disk
<1>4. CASE DeleteStep(w)
  BY <1>4 DEF DeleteStep, NothingToDelete, EvictChat, disk
<1> QED
  BY <1>1, <1>2, <1>3, <1>4 DEF Advance

(* Nobody's lock is taken from him. *)
LEMMA LockMoves ==
  ASSUME TypeInv, NEW w \in Workers, Start(w) \/ Advance(w),
         NEW v \in Workers, v # w, NEW c \in Chats, lock[c] = v
  PROVE  lock'[c] = v
<1>0. lock \in [Chats -> Workers \cup {None}] /\ v # None /\ JobOK(job[w])
  BY AbsentAssumption DEF TypeInv, GuardsOK, JobsOK
<1>1. CASE Leave(w)
  BY <1>0, <1>1 DEF Leave
<1>2. CASE UNCHANGED lock
  BY <1>2
<1>3. CASE EnterTurn(w) \/ EnterChat(w)
  BY <1>0, <1>3 DEF EnterTurn, EnterChat
<1>4. CASE Start(w)
  <2>1. UNCHANGED lock
    BY <1>4 DEF Start, StartTurn, StartStateCall, CreateChat, StartActivate, StartPeek,
              StartDelete, disk
  <2> QED
    BY <1>2, <2>1
<1>5. CASE StateStep(w)
  <2>1. UNCHANGED lock \/ Leave(w) \/ EnterChat(w)
    BY <1>5 DEF StateStep, GetActive, GetActiveCreates, NoIdLeft, FileChat, LoadBare,
              SavePortrait, ActivateFinds, ActivatePoints, HealActive, CacheHit, CacheMiss,
              LoadChat, ChatNotFound, CachePut, UseRuntime, SaveChat, SaveChatFails
  <2> QED
    BY <1>1, <1>2, <1>3, <2>1
<1>6. CASE TurnStep(w)
  <2>1. UNCHANGED lock \/ Leave(w) \/ EnterTurn(w)
    BY <1>6 DEF TurnStep, LookupReceipt, LoadTurn, LoadSource, PrepareHistory,
              AbandonTurn, CommitTurn, CommitEdit, CommitBranch, CacheTurn
  <2> QED
    BY <1>1, <1>2, <1>3, <2>1
<1>7. CASE DeleteStep(w)
  <2>1. UNCHANGED lock \/ Leave(w)
    BY <1>7 DEF DeleteStep, DeleteChat, NothingToDelete, EvictChat
  <2> QED
    BY <1>1, <1>2, <2>1
<1> QED
  BY <1>4, <1>5, <1>6, <1>7 DEF Advance

(* The calls are those the clients make, each at stages of its own. *)
LEMMA CallsStep ==
  ASSUME TypeInv, CallsInv, NEW w \in Workers, Start(w) \/ Advance(w)
  PROVE  CallsInv'
<1>1. ASSUME NEW v \in Workers, v # w
      PROVE  /\ job'[v].call \in Calls \cup {"retry", "idle"}
             /\ job'[v].stage \in {"dress", "sign"} => job'[v].call = "portrait"
             /\ job'[v].stage \in {"delete", "evict"} => job'[v].call = "delete"
             /\ job'[v].call \in TurnCalls => job'[v].stage \in Fenced \cup {"lock"}
  <2>1. job'[v].call = job[v].call /\ job'[v].stage = job[v].stage
    BY <1>1, OthersRest
  <2> QED
    BY <2>1 DEF CallsInv
<1>2. CASE Start(w)
  BY <1>1, <1>2, OwnStarts DEF CallsInv
<1>3. CASE Advance(w)
  <2>1. job[w].call \in Calls \cup {"retry", "idle"}
    BY DEF CallsInv
  <2>2. Idle.call = "idle" /\ Idle.stage = "idle"
    BY DEF Idle
  <2>3. /\ job'[w].call \in Calls \cup {"retry", "idle"}
        /\ job'[w].stage \in {"dress", "sign"} => job'[w].call = "portrait"
        /\ job'[w].stage \in {"delete", "evict"} => job'[w].call = "delete"
        /\ job'[w].call \in TurnCalls => job'[w].stage \in Fenced \cup {"lock"}
    BY <1>3, <2>1, <2>2, OwnMoves DEF TurnCalls
  <2> QED
    BY <1>1, <2>3 DEF CallsInv
<1> QED
  BY <1>2, <1>3

(* A turn holds the lock of its chat from its first read to its cache_put. *)
LEMMA LocksStep ==
  ASSUME TypeInv, CallsInv, LocksInv, NEW w \in Workers, Start(w) \/ Advance(w)
  PROVE  LocksInv'
<1>0. /\ \A v \in Workers : job[v].call \in TurnCalls => job[v].chat \in Chats
      /\ lock \in [Chats -> Workers \cup {None}]
      /\ job = [u \in Workers |-> job[u]] /\ job[w] \in JobRecords
  BY DEF TypeInv, GuardsOK, JobsOK, JobOK, TurnJobOK
<1>i. Idle.call \notin TurnCalls
  BY DEF Idle, TurnCalls
<1>1. ASSUME NEW v \in Workers, v # w,
             job'[v].call \in TurnCalls, job'[v].stage \in Fenced
      PROVE  lock'[job'[v].chat] = v
  <2>1. /\ job'[v].call = job[v].call /\ job'[v].stage = job[v].stage
        /\ job'[v].chat = job[v].chat
    BY <1>1, OthersRest
  <2>2. lock[job[v].chat] = v /\ job[v].chat \in Chats
    BY <1>0, <1>1, <2>1 DEF LocksInv
  <2> QED
    BY <1>1, <2>1, <2>2, LockMoves
<1>2. ASSUME job'[w].call \in TurnCalls, job'[w].stage \in Fenced
      PROVE  lock'[job'[w].chat] = w
  <2>1. Advance(w)
    BY <1>2, OwnStarts DEF Fenced
  <2>2. job[w].call \in TurnCalls /\ job'[w].chat = job[w].chat
    BY <1>2, <1>i, <2>1, OwnMoves DEF TurnCalls
  <2>3. TurnStep(w)
    BY <2>1, <2>2, TurnSteps
  <2>4. ~Leave(w)
    BY <1>0, <1>2, <1>i DEF Leave
  <2>5. CASE EnterTurn(w)
    BY <1>0, <2>2, <2>5 DEF EnterTurn
  <2>6. CASE ~EnterTurn(w)
    <3>1. UNCHANGED lock /\ job[w].stage \in Fenced
      BY <2>3, <2>4, <2>6 DEF TurnStep, LookupReceipt, LoadTurn, LoadSource, PrepareHistory,
              AbandonTurn, CommitTurn, CommitEdit, CommitBranch, CacheTurn, At, Fenced
    <3> QED
      BY <2>2, <3>1 DEF LocksInv
  <2> QED
    BY <2>5, <2>6
<1> QED
  BY <1>1, <1>2 DEF LocksInv

(* A turn works on chats that exist or have existed. *)
LEMMA DrawnStep ==
  ASSUME OnlyTurnsSave, TypeInv, NoDangling, CallsInv, DrawnInv,
         NEW w \in Workers, Start(w) \/ Advance(w)
  PROVE  DrawnInv'
<1>0. /\ \A v \in Workers : job[v].call \in TurnCalls =>
           job[v].chat \in Chats /\ job[v].dest \in Chats
      /\ rows \in [Chats -> Runtimes \cup {None}]
      /\ job = [u \in Workers |-> job[u]] /\ job[w] \in JobRecords
      /\ JobOK(job[w])
  BY DEF TypeInv, TablesOK, JobsOK, JobOK, TurnJobOK
<1>g. drawn \subseteq drawn'
  BY DrawnGrows
<1>i. Idle.call \notin TurnCalls
  BY DEF Idle, TurnCalls
<1>1. ASSUME NEW c \in Chats, rows'[c] # None
      PROVE  c \in drawn'
  <2>1. CASE rows' = rows
    BY <1>1, <1>g, <2>1 DEF DrawnInv
  <2>2. ASSUME NEW d \in Chats \ drawn, rows' = [rows EXCEPT ![d] = NewRuntime], d \in drawn'
        PROVE  c \in drawn'
    BY <1>0, <1>1, <1>g, <2>2 DEF DrawnInv
  <2>3. CASE CommitTurn(w) \/ CommitEdit(w) \/ CommitBranch(w)
    <3>1. job[w].call \in TurnCalls
      BY <2>3 DEF CommitTurn, CommitEdit, CommitBranch, TurnCalls
    <3>2. job[w].chat \in drawn /\ job[w].dest \in drawn
      BY <3>1 DEF DrawnInv
    <3>3. \E d \in {job[w].chat, job[w].dest} :
            rows' = [rows EXCEPT ![d] = Played(job[w].seen, job[w].request)]
      BY <2>3 DEF CommitTurn, CommitEdit, CommitBranch
    <3> QED
      BY <1>0, <1>1, <1>g, <3>2, <3>3 DEF DrawnInv
  <2>4. CASE DeleteChat(w)
    BY <1>0, <1>1, <1>g, <2>4 DEF DeleteChat, DrawnInv
  <2> QED
    BY <2>1, <2>2, <2>3, <2>4, RowMoves
<1>2. ASSUME NEW v \in Workers, v # w, job'[v].call \in TurnCalls
      PROVE  {job'[v].chat, job'[v].dest} \subseteq drawn'
  <2>1. /\ job'[v].call = job[v].call
        /\ job'[v].chat = job[v].chat /\ job'[v].dest = job[v].dest
    BY <1>2, OthersRest
  <2> QED
    BY <1>2, <1>g, <2>1 DEF DrawnInv
<1>3. ASSUME job'[w].call \in TurnCalls
      PROVE  {job'[w].chat, job'[w].dest} \subseteq drawn'
  <2>1. CASE Start(w)
    BY <1>3, <1>g, <2>1, OwnStarts DEF DrawnInv
  <2>2. CASE Advance(w)
    <3>1. job[w].call \in TurnCalls /\ job'[w].chat = job[w].chat
      BY <1>3, <1>i, <2>2, OwnMoves DEF TurnCalls
    <3>2. job[w].chat \in drawn /\ job[w].dest \in drawn
      BY <3>1 DEF DrawnInv
    <3>3. TurnStep(w)
      BY <2>2, <3>1, TurnSteps
    <3>4. ~Leave(w)
      BY <1>0, <1>3, <1>i DEF Leave
    <3>5. job'[w].dest \in drawn'
      <4>1. CASE LookupReceipt(w)
        <5>1. ASSUME NEW r \in receipts,
                     job' = [job EXCEPT ![w].call = "retry", ![w].stage = "load",
                                        ![w].dest = r.dest]
              PROVE  job'[w].dest \in drawn
          <6>1. job'[w] = [job[w] EXCEPT !.call = "retry", !.stage = "load", !.dest = r.dest]
            BY <1>0, <5>1
          <6>2. r.dest \in Chats /\ rows[r.dest] # None
            BY DEF NoDangling, TypeInv, TablesOK, Receipts
          <6> QED
            BY <1>0, <6>1, <6>2 DEF DrawnInv, JobRecords
        <5>2. CASE Goto(w, "load")
          <6>1. job'[w] = [job[w] EXCEPT !.stage = "load"]
            BY <1>0, <5>2 DEF Goto
          <6> QED
            BY <1>0, <1>g, <3>2, <6>1 DEF JobRecords
        <5> QED
          BY <1>g, <4>1, <5>1, <5>2 DEF LookupReceipt
      <4>2. CASE PrepareHistory(w)
        <5>1. PICK k, d : /\ job' = [job EXCEPT ![w].stage = "model", ![w].dest = d,
                                  ![w].seen = k.snapshot,
                                  ![w].source = rows[job[w].chat]]
                          /\ d = job[w].chat \/ d \in drawn'
          BY <4>2 DEF PrepareHistory
        <5>2. job'[w] = [job[w] EXCEPT !.stage = "model", !.dest = d, !.seen = k.snapshot,
                                       !.source = rows[job[w].chat]]
          BY <1>0, <5>1
        <5> QED
          BY <1>0, <1>g, <3>2, <5>1, <5>2 DEF JobRecords
      <4>3. CASE LoadTurn(w)
        <5>1. job'[w] = [job[w] EXCEPT !.stage = "model", !.seen = rows[job[w].dest]]
          BY <1>0, <4>3 DEF LoadTurn
        <5> QED
          BY <1>0, <1>g, <3>2, <5>1 DEF JobRecords
      <4>4. CASE CommitTurn(w) \/ CommitEdit(w) \/ CommitBranch(w)
        <5>1. job'[w] = [job[w] EXCEPT !.stage = "put",
                                       !.seen = Played(job[w].seen, job[w].request)]
          BY <1>0, <4>4 DEF CommitTurn, CommitEdit, CommitBranch
        <5> QED
          BY <1>0, <1>g, <3>2, <5>1 DEF JobRecords
      <4>5. CASE EnterTurn(w) \/ LoadSource(w)
        <5>1. \E s : job'[w] = [job[w] EXCEPT !.stage = s]
          BY <1>0, <4>5 DEF EnterTurn, LoadSource, Goto
        <5> QED
          BY <1>0, <1>g, <3>2, <5>1 DEF JobRecords
      <4>6. ~AbandonTurn(w) /\ ~CacheTurn(w)
        BY <3>4 DEF AbandonTurn, CacheTurn
      <4> QED
        BY <3>3, <4>1, <4>2, <4>3, <4>4, <4>5, <4>6 DEF TurnStep
    <3> QED
      BY <1>g, <3>1, <3>2, <3>5
  <2> QED
    BY <2>1, <2>2
<1> QED
  BY <1>1, <1>2, <1>3 DEF DrawnInv

(* A turn that is not cancelled has its chat, and no delete is at it. *)
LEMMA LiveStep ==
  ASSUME OnlyTurnsSave, TypeInv, CallsInv, LiveInv, DrawnInv,
         NEW w \in Workers, Start(w) \/ Advance(w)
  PROVE  LiveInv'
<1>0. /\ \A v \in Workers : job[v].call \in TurnCalls =>
           job[v].chat \in Chats /\ job[v].dest \in Chats
      /\ rows \in [Chats -> Runtimes \cup {None}]
      /\ job = [u \in Workers |-> job[u]] /\ job[w] \in JobRecords
      /\ JobOK(job[w])
  BY DEF TypeInv, TablesOK, JobsOK, JobOK, TurnJobOK
<1>i. Idle.call = "idle"
  BY DEF Idle
<1>1. ASSUME NEW c \in Chats, rows[c] # None, ~BeingDeleted(c)
      PROVE  rows'[c] # None
  <2>1. ~DeleteChat(w) \/ job[w].chat # c
    BY <1>1 DEF CallsInv, DeleteChat, At, BeingDeleted
  <2>2. CASE DeleteChat(w)
    BY <1>0, <1>1, <2>1, <2>2 DEF DeleteChat
  <2> QED
    BY <1>1, <2>2, RowsKept
<1>2. ASSUME NEW v \in Workers, job'[v].call \in TurnCalls, ~job'[v].cancelled
      PROVE  /\ job'[v].chat \in Chats /\ rows[job'[v].chat] # None
             /\ ~BeingDeleted(job'[v].chat)
  <2>1. CASE v # w
    <3>1. /\ job'[v].call = job[v].call /\ job'[v].chat = job[v].chat
          /\ job[v].cancelled => job'[v].cancelled
      BY <2>1, OthersRest
    <3> QED
      BY <1>0, <1>2, <3>1 DEF LiveInv
  <2>2. CASE v = w /\ Start(w)
    BY <1>2, <2>2, OwnStarts
  <2>3. CASE v = w /\ Advance(w)
    <3>1. /\ job[w].call \in TurnCalls /\ job'[w].chat = job[w].chat
          /\ job'[w].cancelled = job[w].cancelled
      BY <1>2, <1>i, <2>3, OwnMoves DEF TurnCalls
    <3> QED
      BY <1>0, <1>2, <2>3, <3>1 DEF LiveInv
  <2> QED
    BY <2>1, <2>2, <2>3
<1>3. ASSUME NEW v \in Workers, job'[v].call \in TurnCalls, ~job'[v].cancelled,
             NEW u \in Workers, job'[u].call = "delete", job'[u].chat = job'[v].chat
      PROVE  FALSE
  <2>0. ~BeingDeleted(job'[v].chat)
    BY <1>2, <1>3
  <2>1. CASE u # w
    <3>1. job'[u].call = job[u].call /\ job'[u].chat = job[u].chat
      BY <2>1, OthersRest
    <3> QED
      BY <1>3, <2>0, <3>1 DEF BeingDeleted
  <2>2. CASE u = w /\ Advance(w)
    <3>1. job[w].call = "delete" /\ job'[w].chat = job[w].chat
      BY <1>3, <1>i, <2>2, OwnMoves
    <3> QED
      BY <1>3, <2>0, <2>2, <3>1 DEF BeingDeleted
  <2>3. CASE u = w /\ Start(w)
    <3>0. v # w
      BY <1>3, <2>3 DEF TurnCalls
    <3>1. PICK c \in Chats : StartDelete(w, c)
      <4>1. ASSUME NEW c \in Chats, NEW q \in Requests, NEW n,
                   NEW call \in {"turn", "edit", "branch"}, StartTurn(w, call, c, q, n)
            PROVE  job'[w].call # "delete"
        BY <1>0, <4>1 DEF StartTurn, Idle
      <4>2. ASSUME NEW call \in StateCalls, StartStateCall(w, call)
            PROVE  job'[w].call # "delete"
        BY <1>0, <4>2 DEF StartStateCall, Idle, StateCalls
      <4>3. ASSUME NEW c \in Chats, NEW activate \in BOOLEAN, CreateChat(w, c, activate)
            PROVE  job'[w].call # "delete"
        BY <1>0, <4>3 DEF CreateChat, Idle
      <4>4. ASSUME NEW c \in Chats, StartActivate(w, c) \/ StartPeek(w, c)
            PROVE  job'[w].call # "delete"
        BY <1>0, <4>4 DEF StartActivate, StartPeek, Idle
      <4> QED
        BY <1>3, <2>3, <4>1, <4>2, <4>3, <4>4 DEF Start
    <3>2. job'[w].chat = c
      BY <1>0, <3>1 DEF StartDelete, Idle
    <3>3. job[v] \in JobRecords
      BY DEF TypeInv, JobsOK, JobOK
    <3>4. job'[v].call = job[v].call /\ job'[v].chat = job[v].chat
      BY <3>0, OthersRest
    <3>5. job'[v] = [job[v] EXCEPT !.cancelled = TRUE]
      BY <1>3, <2>3, <3>0, <3>1, <3>2, <3>4 DEF StartDelete
    <3> QED
      BY <1>3, <3>3, <3>5 DEF JobRecords
  <2> QED
    BY <2>1, <2>2, <2>3
<1>4. \A c \in Chats : rows[c] # None /\ ~BeingDeleted(c) => rows'[c] # None
  BY <1>1
<1> QED
  BY <1>2, <1>3, <1>4 DEF LiveInv, BeingDeleted

(* The turn a checkpoint is about, in a transcript. *)
Names(k, turns) ==
  /\ k.turn <= Len(turns) /\ turns[k.turn] = k.request
  /\ SubSeq(turns, 1, k.turn - 1) = k.snapshot.turns

(* CheckpointNamesTurn says this of every checkpoint. *)
LEMMA NamesMeans == CheckpointNamesTurn <=> \A k \in checkpoints : Names(k, rows[k.chat].turns)
BY DEF CheckpointNamesTurn, Names

(* So it does of the next state. *)
LEMMA NamesMeansNext ==
  (\A k \in checkpoints' : Names(k, rows'[k.chat].turns)) => CheckpointNamesTurn'
BY DEF CheckpointNamesTurn, Names

(* A transcript that grows keeps the turns it has. *)
LEMMA AppendNames ==
  ASSUME NEW turns \in Seq(Requests), NEW q \in Requests,
         NEW k, k.turn \in Nat \ {0}, Names(k, turns)
  PROVE  Names(k, Append(turns, q))
<1>1. /\ Len(Append(turns, q)) = Len(turns) + 1
      /\ \A i \in 1..Len(turns) : Append(turns, q)[i] = turns[i]
  OBVIOUS
<1>2. SubSeq(Append(turns, q), 1, k.turn - 1) = SubSeq(turns, 1, k.turn - 1)
  BY <1>1 DEF Names
<1> QED
  BY <1>1, <1>2 DEF Names

(* So does a transcript that is cut behind them. *)
LEMMA CutNames ==
  ASSUME NEW turns \in Seq(Requests), NEW n \in Nat \ {0}, n <= Len(turns),
         NEW k, k.turn \in Nat \ {0}, k.turn < n, Names(k, turns)
  PROVE  Names(k, SubSeq(turns, 1, n - 1))
<1> DEFINE cut == SubSeq(turns, 1, n - 1)
<1>1. /\ Len(cut) = n - 1 /\ cut \in Seq(Requests)
      /\ \A i \in 1..(n - 1) : cut[i] = turns[i]
  OBVIOUS
<1>2. SubSeq(cut, 1, k.turn - 1) = SubSeq(turns, 1, k.turn - 1)
  BY <1>1
<1>3. k.turn <= Len(cut) /\ cut[k.turn] = turns[k.turn]
  BY <1>1
<1> HIDE DEF cut
<1>4. Names(k, cut)
  BY <1>2, <1>3 DEF Names
<1> QED
  BY <1>4 DEF cut

(* The checkpoint of a turn names it. *)
LEMMA OwnNames ==
  ASSUME NEW turns \in Seq(Requests), NEW q \in Requests,
         NEW k, k.turn = Len(turns) + 1, k.request = q, k.snapshot.turns = turns
  PROVE  Names(k, Append(turns, q))
<1>1. /\ Len(Append(turns, q)) = Len(turns) + 1
      /\ Append(turns, q)[Len(turns) + 1] = q
      /\ SubSeq(Append(turns, q), 1, Len(turns)) = turns
  OBVIOUS
<1>2. Len(turns) \in Nat
  OBVIOUS
<1> QED
  BY <1>1, <1>2 DEF Names

(* The turn a receipt is about, in a transcript. *)
Stands(r, turns) == r.turn <= Len(turns) /\ turns[r.turn] = r.request

(* A transcript that grows keeps the turns receipts name. *)
LEMMA AppendStands ==
  ASSUME NEW turns \in Seq(Requests), NEW q \in Requests,
         NEW r, r.turn \in Nat \ {0}, Stands(r, turns)
  PROVE  Stands(r, Append(turns, q))
BY DEF Stands

(* A cut keeps those before it. *)
LEMMA CutStands ==
  ASSUME NEW turns \in Seq(Requests), NEW n \in Nat \ {0}, n <= Len(turns),
         NEW r, r.turn \in Nat \ {0}, r.turn < n, Stands(r, turns)
  PROVE  Stands(r, SubSeq(turns, 1, n - 1))
BY DEF Stands

(* A request that stands in a transcript is committed in it. *)
LEMMA StandsCommitted ==
  ASSUME NEW x \in Runtimes, NEW r, r.turn \in Nat \ {0}, Stands(r, x.turns)
  PROVE  r.request \in Committed(x)
<1>1. x.turns \in Seq(Requests)
  BY DEF Runtimes
<1>2. r.turn \in DOMAIN x.turns
  BY <1>1 DEF Stands
<1> QED
  BY <1>2 DEF Stands, Committed, ToSet

(* A transcript is a prefix of what a turn makes of it. *)
LEMMA AppendPrefix ==
  ASSUME NEW turns \in Seq(Requests), NEW q \in Requests
  PROVE  IsPrefix(turns, Append(turns, q))
<1>1. /\ Len(Append(turns, q)) = Len(turns) + 1 /\ Len(turns) \in Nat
      /\ SubSeq(Append(turns, q), 1, Len(turns)) = turns
      /\ SubSeq(turns, 1, Len(turns)) = turns
  OBVIOUS
<1> QED
  BY <1>1 DEF IsPrefix

(* A transcript is a prefix of itself. *)
LEMMA SamePrefix ==
  ASSUME NEW turns \in Seq(Requests)
  PROVE  IsPrefix(turns, turns)
BY DEF IsPrefix

(* A cut transcript is a prefix of itself played on. *)
LEMMA CutPrefix ==
  ASSUME NEW turns \in Seq(Requests), NEW n \in Nat \ {0}, n <= Len(turns), NEW q \in Requests
  PROVE  IsPrefix(SubSeq(turns, 1, n - 1), Append(SubSeq(turns, 1, n - 1), q))
<1>1. SubSeq(turns, 1, n - 1) \in Seq(Requests)
  OBVIOUS
<1> QED
  BY <1>1, AppendPrefix

(* What the edit starts from is what stands before its turn. *)
LEMMA EditSource ==
  ASSUME TypeInv, CheckpointNamesTurn, NEW w \in Workers, CommitEdit(w)
  PROVE  /\ job[w].chat \in Chats /\ rows[job[w].chat] \in Runtimes
         /\ job[w].turn \in Nat \ {0} /\ job[w].request \in Requests
         /\ job[w].turn <= Len(rows[job[w].chat].turns)
         /\ job[w].seen \in Runtimes
         /\ job[w].seen.turns = SubSeq(rows[job[w].chat].turns, 1, job[w].turn - 1)
<1>1. /\ JobOK(job[w]) /\ job[w].call = "edit" /\ job[w].stage = "model"
  BY DEF TypeInv, JobsOK, CommitEdit, At
<1>2. /\ job[w].chat \in Chats /\ job[w].turn \in Nat \ {0} /\ job[w].request \in Requests
      /\ job[w].seen \in Runtimes /\ job[w].source \in Runtimes
  BY <1>1 DEF JobOK, TurnJobOK, TurnCalls
<1>3. PICK k \in checkpoints : /\ k.chat = job[w].chat /\ k.turn = job[w].turn
                               /\ k.snapshot = job[w].seen
  BY DEF CommitEdit, CanCommitHistory, SourceHolds, CheckpointsOf
<1>4. rows[job[w].chat] = job[w].source
  BY DEF CommitEdit, CanCommitHistory, SourceHolds
<1>5. Names(k, rows[job[w].chat].turns)
  BY <1>3, NamesMeans
<1> QED
  BY <1>2, <1>3, <1>4, <1>5 DEF Names

(* On the path a turn commits on the row it loaded, and no branch commits. *)
LEMMA PathCommits ==
  ASSUME TypeInv, LiveInv, PathBody, NEW w \in Workers
  PROVE  /\ ~CommitBranch(w)
         /\ CommitTurn(w) =>
              /\ job[w].call = "turn"
              /\ job[w].dest = job[w].chat /\ job[w].chat \in Chats
              /\ job[w].seen = rows[job[w].chat] /\ job[w].seen \in Runtimes
              /\ job[w].request \in Requests
<1>1. TurnOnPath(w) /\ JobOK(job[w])
  BY DEF PathBody, TypeInv, JobsOK
<1>2. ~CommitBranch(w)
  BY <1>1 DEF TurnOnPath, CommitBranch, At
<1>3. ASSUME CommitTurn(w)
      PROVE  /\ job[w].call = "turn"
             /\ job[w].dest = job[w].chat /\ job[w].chat \in Chats
             /\ job[w].seen = rows[job[w].chat] /\ job[w].seen \in Runtimes
             /\ job[w].request \in Requests
  <2>1. /\ job[w].stage = "model" /\ job[w].call = "turn" /\ ~job[w].cancelled
    BY <1>1, <1>3 DEF TurnOnPath, CommitTurn, At
  <2> QED
    BY <1>1, <2>1 DEF TurnOnPath, JobOK, TurnJobOK, TurnCalls
<1> QED
  BY <1>2, <1>3

(* Two turns at work are at different chats. *)
LEMMA LocksApart ==
  ASSUME LocksInv, NEW v \in Workers, NEW w \in Workers, v # w,
         job[v].call \in TurnCalls, job[v].stage \in Fenced,
         job[w].call \in TurnCalls, job[w].stage \in Fenced
  PROVE  job[v].chat # job[w].chat
BY DEF LocksInv

(* A row that is there stays as it is, unless a commit or a delete is at it. *)
LEMMA RowStays ==
  ASSUME OnlyTurnsSave, TypeInv, CallsInv, DrawnInv, LiveInv, PathBody,
         NEW w \in Workers, Start(w) \/ Advance(w), NEW c \in Chats, c \in drawn,
         CommitTurn(w) \/ CommitEdit(w) \/ DeleteChat(w) => job[w].chat # c
  PROVE  rows'[c] = rows[c]
<1>0. rows \in [Chats -> Runtimes \cup {None}]
  BY DEF TypeInv, TablesOK
<1>1. CASE CommitTurn(w)
  BY <1>0, <1>1, PathCommits DEF CommitTurn
<1>2. CASE CommitEdit(w)
  BY <1>0, <1>2 DEF CommitEdit
<1>3. CASE DeleteChat(w)
  BY <1>0, <1>3 DEF DeleteChat
<1>4. CASE \E d \in Chats \ drawn : rows' = [rows EXCEPT ![d] = NewRuntime]
  BY <1>0, <1>4
<1> QED
  BY <1>1, <1>2, <1>3, <1>4, RowMoves, PathCommits

(* The tables name the turns of the path. *)
LEMMA PathTablesStep ==
  ASSUME OnlyTurnsSave, TypeInv, NoDangling, CallsInv, DrawnInv, LiveInv, PathBody,
         NEW w \in Workers, Start(w) \/ Advance(w)
  PROVE  /\ \A r \in receipts' : /\ r.kind = "edit" /\ r.dest = r.source
                                 /\ Stands(r, rows'[r.source].turns)
         /\ CheckpointNamesTurn'
<1>0. /\ rows \in [Chats -> Runtimes \cup {None}]
      /\ \A k \in checkpoints : k.chat \in Chats /\ k.turn \in Nat \ {0}
      /\ \A r \in receipts : r.source \in Chats /\ r.turn \in Nat \ {0}
  BY DEF TypeInv, TablesOK, Checkpoints, Receipts
<1>1. /\ \A k \in checkpoints : k.chat \in drawn /\ rows[k.chat] \in Runtimes
      /\ \A r \in receipts : r.source \in drawn /\ rows[r.source] \in Runtimes
  BY <1>0 DEF NoDangling, DrawnInv
<1>n. /\ \A k \in checkpoints : Names(k, rows[k.chat].turns)
      /\ \A r \in receipts : /\ r.kind = "edit" /\ r.dest = r.source
                             /\ Stands(r, rows[r.source].turns)
  BY NamesMeans DEF PathBody, ReceiptNamesTurn, Stands
<1>2. CASE CommitTurn(w)
  <2> DEFINE c == job[w].chat
             s == job[w].seen.turns
             q == job[w].request
  <2>1. /\ c \in Chats /\ job[w].dest = c /\ q \in Requests
        /\ rows[c] = job[w].seen /\ job[w].seen \in Runtimes /\ s \in Seq(Requests)
    BY <1>2, PathCommits DEF Runtimes
  <2>2. /\ rows' = [rows EXCEPT ![c] = Played(job[w].seen, q)]
        /\ receipts' = receipts
        /\ checkpoints' = Stamp(KeepBelow(c, Len(Played(job[w].seen, q).turns) + 1), c,
                                Len(Played(job[w].seen, q).turns), q, job[w].seen)
    BY <1>2, <2>1 DEF CommitTurn
  <2>3. Played(job[w].seen, q).turns = Append(s, q) /\ Len(Append(s, q)) = Len(s) + 1
    BY <2>1 DEF Played, Runtimes
  <2>4. \A d \in Chats : rows'[d].turns = IF d = c THEN Append(s, q) ELSE rows[d].turns
    BY <1>0, <2>2, <2>3
  <2>5. ASSUME NEW r \in receipts'
        PROVE  r.kind = "edit" /\ r.dest = r.source /\ Stands(r, rows'[r.source].turns)
    <3>1. r \in receipts
      BY <2>2
    <3>2. CASE r.source = c
      BY <1>0, <1>n, <2>1, <2>4, <3>1, <3>2, AppendStands
    <3> QED
      BY <1>0, <1>n, <2>4, <3>1, <3>2
  <2>6. ASSUME NEW k \in checkpoints'
        PROVE  Names(k, rows'[k.chat].turns)
    <3>1. \/ k \in checkpoints
          \/ k = [chat |-> c, turn |-> Len(Played(job[w].seen, q).turns), request |-> q,
                  snapshot |-> job[w].seen]
      BY <2>2, StampParts DEF KeepBelow
    <3>2. CASE k \in checkpoints /\ k.chat = c
      BY <1>0, <1>n, <2>1, <2>4, <3>2, AppendNames
    <3>3. CASE k \in checkpoints /\ k.chat # c
      BY <1>0, <1>n, <2>4, <3>3
    <3>4. CASE k = [chat |-> c, turn |-> Len(Played(job[w].seen, q).turns), request |-> q,
                    snapshot |-> job[w].seen]
      <4>1. /\ k.chat = c /\ k.turn = Len(s) + 1 /\ k.request = q /\ k.snapshot.turns = s
        BY <2>3, <3>4
      <4> QED
        BY <2>1, <2>4, <4>1, OwnNames
    <3> QED
      BY <3>1, <3>2, <3>3, <3>4
  <2> QED
    BY <2>5, <2>6, NamesMeansNext
<1>3. CASE CommitEdit(w)
  <2> DEFINE c == job[w].chat
             n == job[w].turn
             s == job[w].seen.turns
             q == job[w].request
             old == rows[c].turns
  <2>1. /\ c \in Chats /\ rows[c] \in Runtimes /\ n \in Nat \ {0} /\ q \in Requests
        /\ n <= Len(old) /\ job[w].seen \in Runtimes /\ s = SubSeq(old, 1, n - 1)
    BY <1>3, EditSource DEF PathBody
  <2>2. /\ rows' = [rows EXCEPT ![c] = Played(job[w].seen, q)]
        /\ receipts' = ReceiptsBefore(c, n) \cup {Receipt(w)}
        /\ checkpoints' = Stamp(KeepBelow(c, n), c, n, q, job[w].seen)
        /\ job[w].call = "edit"
    BY <1>3 DEF CommitEdit
  <2>3. /\ old \in Seq(Requests) /\ s \in Seq(Requests)
        /\ Len(s) + 1 = n
        /\ Played(job[w].seen, q).turns = Append(s, q)
    BY <2>1 DEF Played, Runtimes
  <2>4. \A d \in Chats : rows'[d].turns = IF d = c THEN Append(s, q) ELSE rows[d].turns
    BY <1>0, <2>2, <2>3
  <2>5. ASSUME NEW r \in receipts'
        PROVE  r.kind = "edit" /\ r.dest = r.source /\ Stands(r, rows'[r.source].turns)
    <3>1. r \in ReceiptsBefore(c, n) \/ r = Receipt(w)
      BY <2>2
    <3>2. CASE r \in receipts /\ r.source # c
      BY <1>0, <1>n, <2>4, <3>2
    <3>3. CASE r \in ReceiptsBefore(c, n) /\ r.source = c
      <4>1. r \in receipts /\ r.dest = c /\ r.turn < n
        BY <1>0, <1>n, <2>1, <3>3 DEF ReceiptsBefore
      <4>2. Stands(r, old)
        BY <1>n, <3>3, <4>1
      <4>3. Stands(r, s)
        BY <1>0, <2>1, <2>3, <4>1, <4>2, CutStands
      <4> QED
        BY <1>0, <1>n, <2>1, <2>3, <2>4, <3>3, <4>1, <4>3, AppendStands
    <3>4. CASE r = Receipt(w)
      <4>1. JobOK(job[w])
        BY DEF TypeInv, JobsOK
      <4>2. /\ r.kind = "edit" /\ r.source = c /\ r.dest = c /\ r.turn = n /\ r.request = q
        BY <2>2, <3>4, <4>1 DEF Receipt, JobOK, TurnJobOK
      <4>3. Stands(r, Append(s, q))
        BY <2>1, <2>3, <4>2 DEF Stands
      <4> QED
        BY <2>1, <2>4, <4>2, <4>3
    <3> QED
      BY <3>1, <3>2, <3>3, <3>4 DEF ReceiptsBefore
  <2>6. ASSUME NEW k \in checkpoints'
        PROVE  Names(k, rows'[k.chat].turns)
    <3>1. \/ k \in KeepBelow(c, n)
          \/ k = [chat |-> c, turn |-> n, request |-> q, snapshot |-> job[w].seen]
      BY <2>2, StampParts
    <3>2. CASE k \in checkpoints /\ k.chat # c
      BY <1>0, <1>n, <2>4, <3>2
    <3>3. CASE k \in KeepBelow(c, n) /\ k.chat = c
      <4>1. k \in checkpoints /\ k.turn < n
        BY <3>3 DEF KeepBelow
      <4>2. Names(k, s)
        BY <1>0, <1>n, <2>1, <2>3, <3>3, <4>1, CutNames
      <4> QED
        BY <1>0, <2>1, <2>3, <2>4, <3>3, <4>1, <4>2, AppendNames
    <3>4. CASE k = [chat |-> c, turn |-> n, request |-> q, snapshot |-> job[w].seen]
      <4>1. /\ k.chat = c /\ k.turn = Len(s) + 1 /\ k.request = q /\ k.snapshot.turns = s
        BY <2>3, <3>4
      <4> QED
        BY <2>1, <2>3, <2>4, <4>1, OwnNames
    <3> QED
      BY <3>1, <3>2, <3>3, <3>4 DEF KeepBelow
  <2> QED
    BY <2>5, <2>6, NamesMeansNext
<1>4. CASE DeleteChat(w)
  <2>1. job[w].chat \in Chats
    BY <1>4 DEF DeleteChat, At, TypeInv, JobsOK, JobOK, ChatJobOK
  <2>2. /\ \A d \in Chats : d # job[w].chat => rows'[d] = rows[d]
        /\ \A k \in checkpoints' : k \in checkpoints /\ k.chat # job[w].chat
        /\ \A r \in receipts' : r \in receipts /\ r.source # job[w].chat
    BY <1>0, <1>4, <2>1 DEF DeleteChat, ReceiptsOf
  <2>3. \A k \in checkpoints' : Names(k, rows'[k.chat].turns)
    BY <1>0, <1>n, <2>2
  <2> QED
    BY <1>0, <1>n, <2>2, <2>3, NamesMeansNext
<1>5. CASE ~CommitTurn(w) /\ ~CommitEdit(w) /\ ~DeleteChat(w)
  <2>1. ~CommitBranch(w)
    BY PathCommits
  <2>2. receipts' = receipts /\ checkpoints' \subseteq checkpoints
    BY <1>5, <2>1, ReceiptMoves, CheckpointsRest
  <2>3. \A c \in Chats : c \in drawn => rows'[c] = rows[c]
    BY <1>5, RowStays
  <2>4. \A k \in checkpoints' : Names(k, rows'[k.chat].turns)
    BY <1>0, <1>1, <1>n, <2>2, <2>3
  <2> QED
    BY <1>0, <1>1, <1>n, <2>2, <2>3, <2>4, NamesMeansNext
<1> QED
  BY <1>2, <1>3, <1>4, <1>5

(* The path can be left, not entered. *)
LEMMA OnPathBefore ==
  ASSUME NEW w \in Workers, Start(w) \/ Advance(w), OnPath'
  PROVE  OnPath
BY DrawnGrows DEF OnPath

(* What the other turns hold stays true: the locks keep the chats apart,   *)
(* and a delete cancels the turns of its chat.                             *)
LEMMA OthersOnPath ==
  ASSUME OnlyTurnsSave, TypeInv, CallsInv, LocksInv, DrawnInv, LiveInv, PathBody,
         NEW w \in Workers, Start(w) \/ Advance(w), NEW v \in Workers, v # w
  PROVE  TurnOnPath(v)'
<1>0. /\ job'[v].call = job[v].call /\ job'[v].stage = job[v].stage
      /\ job'[v].chat = job[v].chat /\ job'[v].dest = job[v].dest
      /\ job'[v].request = job[v].request /\ job'[v].seen = job[v].seen
      /\ job[v].cancelled => job'[v].cancelled
  BY OthersRest
<1>1. TurnOnPath(v) /\ JobOK(job[v])
  BY DEF PathBody, TypeInv, JobsOK
<1>2. ASSUME job[v].call \in TurnCalls, job[v].stage \in Fenced,
             CommitTurn(w) \/ CommitEdit(w)
      PROVE  job[w].chat # job[v].chat
  <2>1. job[w].call \in TurnCalls /\ job[w].stage \in Fenced
    BY <1>2 DEF CommitTurn, CommitEdit, At, TurnCalls, Fenced
  <2> QED
    BY <1>2, <2>1, LocksApart
<1>3. ASSUME job[v].call \in TurnCalls, ~job[v].cancelled, DeleteChat(w)
      PROVE  job[w].chat # job[v].chat
  BY <1>3 DEF LiveInv, CallsInv, DeleteChat, At, BeingDeleted
<1>4. ASSUME job[v].call \in TurnCalls
      PROVE  job[v].chat \in Chats /\ job[v].chat \in drawn
  BY <1>1, <1>4 DEF JobOK, TurnJobOK, DrawnInv
<1>5. ASSUME job[v].call = "turn", job[v].stage = "model", ~job'[v].cancelled
      PROVE  job[v].seen = rows'[job[v].chat]
  <2>1. job[v].call \in TurnCalls /\ job[v].stage \in Fenced /\ ~job[v].cancelled
    BY <1>0, <1>5 DEF TurnCalls, Fenced
  <2>2. rows'[job[v].chat] = rows[job[v].chat]
    BY <1>2, <1>3, <1>4, <2>1, RowStays
  <2> QED
    BY <1>1, <1>5, <2>1, <2>2 DEF TurnOnPath
<1>6. ASSUME job[v].call = "retry", rows'[job[v].chat] # None
      PROVE  job[v].request \in Committed(rows'[job[v].chat])
  <2>1. job[v].call \in TurnCalls /\ job[v].stage \in Fenced
    BY <1>1, <1>6 DEF TurnOnPath, TurnCalls, Fenced
  <2>2. ~(DeleteChat(w) /\ job[w].chat = job[v].chat)
    BY <1>4, <1>6, <2>1 DEF DeleteChat, TypeInv, TablesOK
  <2>3. rows'[job[v].chat] = rows[job[v].chat]
    BY <1>2, <1>4, <2>1, <2>2, RowStays
  <2> QED
    BY <1>1, <1>6, <2>3 DEF TurnOnPath
<1>7. ASSUME job[v].call \in TurnCalls \ {"retry"},
             job[v].stage \in {"load", "prepare", "model"}, NEW r \in receipts'
      PROVE  ~(r.source = job[v].chat /\ r.request = job[v].request)
  <2>1. \A s \in receipts : ~(s.source = job[v].chat /\ s.request = job[v].request)
    BY <1>1, <1>7 DEF TurnOnPath, NoReceiptYet
  <2>2. CASE CommitEdit(w)
    <3>1. r \in receipts \/ r = Receipt(w)
      BY <1>7, <2>2 DEF CommitEdit, ReceiptsBefore
    <3>2. job[w].chat # job[v].chat
      BY <1>2, <1>7, <2>2 DEF Fenced
    <3> QED
      BY <2>1, <3>1, <3>2 DEF Receipt
  <2>3. CASE DeleteChat(w)
    BY <1>7, <2>1, <2>3 DEF DeleteChat
  <2>4. ~CommitBranch(w)
    BY PathCommits
  <2> QED
    BY <1>7, <2>1, <2>2, <2>3, <2>4, ReceiptMoves
<1> QED
  BY <1>0, <1>1, <1>5, <1>6, <1>7 DEF TurnOnPath, NoReceiptYet

(* A turn goes on along the path. *)
LEMMA OwnOnPath ==
  ASSUME OnlyTurnsSave, TypeInv, CallsInv, DrawnInv, LiveInv, PathBody,
         NEW w \in Workers, Start(w) \/ Advance(w), OnPath'
  PROVE  TurnOnPath(w)'
<1>0. /\ job = [u \in Workers |-> job[u]] /\ job[w] \in JobRecords
      /\ JobOK(job[w]) /\ TurnOnPath(w)
  BY DEF TypeInv, JobsOK, JobOK, PathBody
<1>i. Idle.call \notin TurnCalls
  BY DEF Idle, TurnCalls
<1>n. ASSUME job'[w].call \notin TurnCalls
      PROVE  TurnOnPath(w)'
  BY <1>n DEF TurnOnPath, TurnCalls
<1>1. CASE Start(w)
  <2>1. CASE job'[w].call \in TurnCalls
    BY <1>1, <2>1, OwnStarts DEF TurnOnPath
  <2> QED
    BY <1>n, <2>1
<1>2. CASE Advance(w) /\ job[w].call \notin TurnCalls
  BY <1>2, <1>i, <1>n, OwnMoves DEF TurnCalls
<1>3. CASE Advance(w) /\ job[w].call \in TurnCalls
  <2>0. TurnStep(w)
    BY <1>3, TurnSteps
  <2>r. job[w].call = "retry" => job[w].stage = "load"
    BY <1>0 DEF TurnOnPath
  <2>1. CASE EnterTurn(w)
    <3>1. job'[w] = [job[w] EXCEPT !.stage = "lookup"]
      BY <1>0, <2>1 DEF EnterTurn, Goto
    <3>2. job[w].call # "retry"
      BY <2>1, <2>r DEF EnterTurn, At
    <3>3. /\ job'[w].stage = "lookup" /\ job'[w].call = job[w].call
          /\ job'[w].dest = job[w].dest /\ job'[w].chat = job[w].chat
      BY <1>0, <3>1 DEF JobRecords
    <3> QED
      BY <1>0, <3>2, <3>3 DEF TurnOnPath
  <2>2. CASE LookupReceipt(w)
    <3>0. job[w].call # "retry" /\ receipts' = receipts /\ rows' = rows
      BY <2>2, <2>r DEF LookupReceipt, At, disk
    <3>1. CASE Goto(w, "load") /\ \A r \in receipts : ~(r.source = job[w].chat /\ r.request = job[w].request)
      <4>1. job'[w] = [job[w] EXCEPT !.stage = "load"]
        BY <1>0, <3>1 DEF Goto
      <4>2. /\ job'[w].stage = "load" /\ job'[w].call = job[w].call
            /\ job'[w].dest = job[w].dest /\ job'[w].chat = job[w].chat
            /\ job'[w].request = job[w].request
        BY <1>0, <4>1 DEF JobRecords
      <4> QED
        BY <1>0, <3>0, <3>1, <4>2 DEF TurnOnPath, NoReceiptYet
    <3>2. ASSUME NEW r \in receipts, r.source = job[w].chat, r.request = job[w].request,
                 job' = [job EXCEPT ![w].call = "retry", ![w].stage = "load",
                                    ![w].dest = r.dest]
          PROVE  TurnOnPath(w)'
      <4>1. job'[w] = [job[w] EXCEPT !.call = "retry", !.stage = "load", !.dest = r.dest]
        BY <1>0, <3>2
      <4>2. /\ job'[w].stage = "load" /\ job'[w].call = "retry"
            /\ job'[w].dest = r.dest /\ job'[w].chat = job[w].chat
            /\ job'[w].request = job[w].request
        BY <1>0, <4>1 DEF JobRecords
      <4>3. /\ r.source \in Chats /\ r.turn \in Nat \ {0}
            /\ rows \in [Chats -> Runtimes \cup {None}]
        BY DEF TypeInv, TablesOK, Receipts
      <4>4. r.dest = r.source /\ Stands(r, rows[r.source].turns)
        BY DEF PathBody, ReceiptNamesTurn, Stands
      <4>5. rows[r.source] # None => r.request \in Committed(rows[r.source])
        BY <4>3, <4>4, StandsCommitted
      <4> QED
        BY <3>0, <3>2, <4>2, <4>4, <4>5 DEF TurnOnPath
    <3> QED
      BY <2>2, <3>1, <3>2 DEF LookupReceipt
  <2>3. CASE LoadTurn(w)
    <3>0. job[w].call = "turn" /\ receipts' = receipts /\ rows' = rows /\ job[w].stage = "load"
      BY <1>0, <2>3 DEF LoadTurn, TurnOnPath, disk, At
    <3>1. job'[w] = [job[w] EXCEPT !.stage = "model", !.seen = rows[job[w].dest]]
      BY <1>0, <2>3 DEF LoadTurn
    <3>2. /\ job'[w].stage = "model" /\ job'[w].call = "turn"
          /\ job'[w].dest = job[w].dest /\ job'[w].chat = job[w].chat
          /\ job'[w].request = job[w].request /\ job'[w].seen = rows[job[w].dest]
      BY <1>0, <3>0, <3>1 DEF JobRecords
    <3> QED
      BY <1>0, <3>0, <3>2 DEF TurnOnPath, NoReceiptYet, TurnCalls
  <2>4. CASE LoadSource(w)
    <3>0. job[w].call # "retry" /\ receipts' = receipts /\ job[w].stage = "load"
      BY <2>4 DEF LoadSource, disk, At
    <3>1. job'[w] = [job[w] EXCEPT !.stage = "prepare"]
      BY <1>0, <2>4 DEF LoadSource, Goto
    <3>2. /\ job'[w].stage = "prepare" /\ job'[w].call = job[w].call
          /\ job'[w].dest = job[w].dest /\ job'[w].chat = job[w].chat
          /\ job'[w].request = job[w].request
      BY <1>0, <3>1 DEF JobRecords
    <3> QED
      BY <1>0, <3>0, <3>2 DEF TurnOnPath, NoReceiptYet
  <2>5. CASE PrepareHistory(w)
    <3>0. /\ job[w].stage = "prepare" /\ receipts' = receipts
          /\ job[w].call \in {"edit", "branch"}
      BY <1>0, <2>5 DEF PrepareHistory, At, JobOK, TurnJobOK
    <3>1. PICK k, d : /\ job' = [job EXCEPT ![w].stage = "model", ![w].dest = d,
                                   ![w].seen = k.snapshot,
                                   ![w].source = rows[job[w].chat]]
                      /\ job[w].call = "branch" => d \notin drawn /\ d \in drawn'
      BY <2>5 DEF PrepareHistory
    <3>2. job'[w] = [job[w] EXCEPT !.stage = "model", !.dest = d, !.seen = k.snapshot,
                                   !.source = rows[job[w].chat]]
      BY <1>0, <3>1
    <3>3. /\ job'[w].stage = "model" /\ job'[w].call = job[w].call
          /\ job'[w].chat = job[w].chat /\ job'[w].request = job[w].request
      BY <1>0, <3>2 DEF JobRecords
    <3>4. job[w].call # "branch"
      <4>1. SUFFICES ASSUME job[w].call = "branch" PROVE FALSE
        OBVIOUS
      <4>2. "branch" \in Calls
        BY <4>1 DEF CallsInv
      <4>3. job[w].chat \in drawn
        BY <4>1 DEF DrawnInv, TurnCalls
      <4>4. job[w].chat \in drawn' /\ d \in drawn' /\ d # job[w].chat
        BY <3>1, <4>1, <4>3, DrawnGrows
      <4> QED
        BY <4>2, <4>4 DEF OnPath
    <3>5. job[w].call = "edit"
      BY <3>0, <3>4
    <3> QED
      BY <1>0, <3>0, <3>3, <3>5 DEF TurnOnPath, NoReceiptYet, TurnCalls
  <2>6. CASE AbandonTurn(w) \/ CacheTurn(w)
    <3>1. job'[w] = Idle
      BY <1>0, <2>6 DEF AbandonTurn, CacheTurn, Leave
    <3> QED
      BY <1>i, <1>n, <3>1
  <2>7. CASE CommitTurn(w) \/ CommitEdit(w)
    <3>0. job[w].call # "retry" /\ job[w].call # "branch"
      BY <1>0, <2>7, <2>r DEF CommitTurn, CommitEdit, At
    <3>1. job'[w] = [job[w] EXCEPT !.stage = "put",
                                   !.seen = Played(job[w].seen, job[w].request)]
      BY <1>0, <2>7 DEF CommitTurn, CommitEdit
    <3>2. /\ job'[w].stage = "put" /\ job'[w].call = job[w].call
          /\ job'[w].chat = job[w].chat /\ job'[w].dest = job[w].dest
      BY <1>0, <3>1 DEF JobRecords
    <3> QED
      BY <1>0, <3>0, <3>2 DEF TurnOnPath
  <2>8. ~CommitBranch(w)
    BY PathCommits
  <2> QED
    BY <2>0, <2>1, <2>2, <2>3, <2>4, <2>5, <2>6, <2>7, <2>8 DEF TurnStep
<1> QED
  BY <1>1, <1>2, <1>3

WholeInv == StoreInv /\ BaseInv /\ PathInv

(* An empty store, and one that has just started, have nobody at work.     *)
LEMMA NobodyAtWork ==
  ASSUME job = [w \in Workers |-> Idle], \A c \in Chats : rows[c] # None => c \in drawn
  PROVE  BaseInv /\ \A w \in Workers : TurnOnPath(w)
BY DEF BaseInv, CallsInv, LocksInv, DrawnInv, LiveInv, TurnOnPath, Idle, TurnCalls, Fenced

(* The store begins so. *)
LEMMA WholeInit == StoreInit => WholeInv
<1> SUFFICES ASSUME StoreInit PROVE WholeInv
  OBVIOUS
<1>1. StoreInv
  BY InvInit
<1>2. BaseInv /\ \A w \in Workers : TurnOnPath(w)
  BY NobodyAtWork DEF StoreInit
<1>3. PathInv
  BY <1>2 DEF StoreInit, PathInv, PathBody, CheckpointNamesTurn
<1> QED
  BY <1>1, <1>2, <1>3 DEF WholeInv

(* A restart keeps the tables and forgets the calls. *)
LEMMA WholeRestart == WholeInv /\ Restart => WholeInv'
<1> SUFFICES ASSUME WholeInv, Restart PROVE WholeInv'
  OBVIOUS
<1>1. StoreInv'
  BY InvRestart DEF WholeInv
<1>2. /\ job' = [w \in Workers |-> Idle] /\ rows' = rows /\ drawn' = drawn
      /\ checkpoints' = checkpoints /\ receipts' = receipts
  BY DEF Restart, disk
<1>3. \A c \in Chats : rows[c] # None => c \in drawn
  BY DEF WholeInv, BaseInv, DrawnInv
<1>4. BaseInv' /\ \A w \in Workers : TurnOnPath(w)'
  BY <1>2, <1>3 DEF BaseInv, CallsInv, LocksInv, DrawnInv, LiveInv, TurnOnPath, Idle, TurnCalls,
                    Fenced
<1>5. PathInv'
  <2>1. OnPath' => OnPath
    BY <1>2 DEF OnPath
  <2>2. (\A r \in receipts : ReceiptNamesTurn(r)) => (\A r \in receipts : ReceiptNamesTurn(r))'
    BY <1>2 DEF ReceiptNamesTurn
  <2>3. CheckpointNamesTurn => CheckpointNamesTurn'
    BY <1>2 DEF CheckpointNamesTurn
  <2> QED
    BY <1>4, <2>1, <2>2, <2>3 DEF WholeInv, PathInv, PathBody
<1> QED
  BY <1>1, <1>4, <1>5 DEF WholeInv

(* A step that changes nothing. *)
LEMMA WholeStutter == WholeInv /\ UNCHANGED vars => WholeInv'
<1> SUFFICES ASSUME WholeInv, UNCHANGED vars PROVE WholeInv'
  OBVIOUS
<1>1. StoreInv'
  BY InvStutter DEF WholeInv
<1>2. BaseInv'
  BY DEF WholeInv, vars, BaseInv, CallsInv, LocksInv, DrawnInv, LiveInv, BeingDeleted
<1>3. PathInv'
  BY DEF WholeInv, vars, PathInv, PathBody, OnPath, TurnOnPath, NoReceiptYet, ReceiptNamesTurn,
         CheckpointNamesTurn
<1> QED
  BY <1>1, <1>2, <1>3 DEF WholeInv

(* Every step keeps the calls, the locks and the path. *)
LEMMA WholeStep ==
  ASSUME OnlyTurnsSave
  PROVE  WholeInv /\ [StoreNext]_vars => WholeInv'
<1> SUFFICES ASSUME WholeInv, [StoreNext]_vars PROVE WholeInv'
  OBVIOUS
<1>1. ASSUME NEW w \in Workers, Start(w) \/ Advance(w)
      PROVE  WholeInv'
  <2>1. StoreInv' /\ StoreInv /\ TypeInv /\ NoDangling
    BY InvStep DEF WholeInv, StoreInv
  <2>2. CallsInv /\ LocksInv /\ DrawnInv /\ LiveInv
    BY DEF WholeInv, BaseInv
  <2>3. BaseInv'
    BY <1>1, <2>1, <2>2, CallsStep, LocksStep, DrawnStep, LiveStep DEF BaseInv
  <2>4. ASSUME OnPath'
        PROVE  PathBody'
    <3>1. PathBody
      BY <1>1, <2>4, OnPathBefore DEF WholeInv, PathInv
    <3>2. \A v \in Workers : TurnOnPath(v)'
      BY <1>1, <2>1, <2>2, <2>4, <3>1, OthersOnPath, OwnOnPath
    <3>3. /\ \A r \in receipts' : /\ r.kind = "edit" /\ r.dest = r.source
                                  /\ Stands(r, rows'[r.source].turns)
          /\ CheckpointNamesTurn'
      BY <1>1, <2>1, <2>2, <3>1, PathTablesStep
    <3> QED
      BY <3>2, <3>3 DEF PathBody, ReceiptNamesTurn, Stands
  <2> QED
    BY <2>1, <2>3, <2>4 DEF WholeInv, PathInv
<1> QED
  BY <1>1, WholeRestart, WholeStutter DEF StoreNext

(* The whole holds of every state of every execution. *)
LEMMA WholeInvariance ==
  ASSUME OnlyTurnsSave
  PROVE  StoreSpec => []WholeInv
BY WholeInit, WholeStep, PTL DEF StoreSpec

(* The receipts of the path are those of edits. *)
LEMMA ReceiptsCurrent ==
  ASSUME TypeInv, NoDangling, PathBody
  PROVE  EditReceiptCurrent
<1> SUFFICES ASSUME NEW r \in receipts PROVE r.request \in Committed(rows[r.source])
  BY DEF EditReceiptCurrent
<1>1. /\ r.source \in Chats /\ r.turn \in Nat \ {0}
      /\ rows[r.source] \in Runtimes
  BY DEF TypeInv, TablesOK, Receipts, NoDangling
<1>2. Stands(r, rows[r.source].turns)
  BY DEF PathBody, ReceiptNamesTurn, Stands
<1> QED
  BY <1>1, <1>2, StandsCommitted

(* A step of the path leaves every transcript that stays a prefix of       *)
(* itself, or is an edit.                                                  *)
LEMMA PathStays ==
  ASSUME OnlyTurnsSave, WholeInv, OnPath, NEW w \in Workers, Start(w) \/ Advance(w)
  PROVE  CommitStays
<1> SUFFICES ASSUME NEW c \in Chats, rows[c] # None, rows'[c] # None
             PROVE  \/ IsPrefix(rows[c].turns, rows'[c].turns)
                    \/ \E v \in Workers : At(v, "model") /\ At(v, "put")' /\ EditedBy(v, c)
  BY DEF CommitStays
<1>1. /\ TypeInv /\ CallsInv /\ DrawnInv /\ LiveInv /\ PathBody /\ c \in drawn
  BY DEF WholeInv, StoreInv, BaseInv, PathInv, DrawnInv
<1>2. /\ rows \in [Chats -> Runtimes \cup {None}] /\ rows[c] \in Runtimes
      /\ rows[c].turns \in Seq(Requests)
  BY <1>1 DEF TypeInv, TablesOK, Runtimes
<1>3. CASE rows'[c] = rows[c]
  BY <1>2, <1>3, SamePrefix
<1>4. CASE CommitTurn(w) /\ job[w].chat = c
  <2>1. /\ rows' = [rows EXCEPT ![c] = Played(rows[c], job[w].request)]
        /\ job[w].request \in Requests
    BY <1>1, <1>4, PathCommits DEF CommitTurn
  <2>2. rows'[c].turns = Append(rows[c].turns, job[w].request)
    BY <1>2, <2>1 DEF Played, Runtimes
  <2> QED
    BY <1>2, <2>1, <2>2, AppendPrefix
<1>5. CASE CommitEdit(w) /\ job[w].chat = c
  <2> DEFINE s == SubSeq(rows[c].turns, 1, job[w].turn - 1)
  <2>1. /\ job[w].turn \in Nat \ {0} /\ job[w].turn <= Len(rows[c].turns)
        /\ job[w].request \in Requests /\ job[w].seen \in Runtimes
        /\ job[w].seen.turns = s
    BY <1>1, <1>5, EditSource DEF PathBody
  <2>2. rows'[c].turns = Append(s, job[w].request)
    BY <1>2, <1>5, <2>1 DEF CommitEdit, Played, Runtimes
  <2>3. IsPrefix(s, rows'[c].turns)
    BY <1>2, <2>1, <2>2, CutPrefix
  <2>4. job[w].call = "edit" /\ At(w, "model") /\ At(w, "put")'
    <3>1. job = [u \in Workers |-> job[u]] /\ job[w] \in JobRecords
      BY <1>1 DEF TypeInv, JobsOK, JobOK
    <3> QED
      BY <1>5, <3>1 DEF CommitEdit, At, JobRecords
  <2>5. EditedBy(w, c)
    BY <1>5, <2>3, <2>4 DEF EditedBy
  <2> QED
    BY <2>4, <2>5
<1>6. CASE DeleteChat(w) /\ job[w].chat = c
  BY <1>2, <1>6 DEF DeleteChat
<1>7. CASE ~((CommitTurn(w) \/ CommitEdit(w) \/ DeleteChat(w)) /\ job[w].chat = c)
  BY <1>1, <1>3, <1>7, RowStays
<1> QED
  BY <1>4, <1>5, <1>6, <1>7

(* No turn of the path that is about to commit has a receipt. *)
LEMMA PathOnce ==
  ASSUME WholeInv, OnPath
  PROVE  PlayedOnce
<1> SUFFICES ASSUME NEW w \in Workers, At(w, "model") PROVE NoReceiptYet(w, receipts)
  BY DEF PlayedOnce
<1>1. TurnOnPath(w) /\ JobOK(job[w]) /\ job[w].stage = "model"
  BY DEF WholeInv, StoreInv, TypeInv, JobsOK, PathInv, PathBody, At
<1>2. job[w].call \in TurnCalls \ {"retry"}
  BY <1>1 DEF JobOK, TurnJobOK, TurnOnPath
<1> QED
  BY <1>1, <1>2 DEF TurnOnPath

(***************************************************************************)
(* Where only turns save, every checkpoint of the path names the turn that *)
(* stands in the transcript and every request with the receipt of an edit  *)
(* is in it: for any number of chats while no client branches, and for the *)
(* one chat there is until a branch has drawn a second.                    *)
(***************************************************************************)
THEOREM PathTablesHold ==
  ASSUME OnlyTurnsSave
  PROVE  StoreSpec => []PathTables
<1>1. WholeInv => PathTables
  BY ReceiptsCurrent DEF WholeInv, StoreInv, PathInv, PathBody, PathTables
<1> QED
  BY <1>1, WholeInvariance, PTL

(***************************************************************************)
(* No turn of the path is lost but by an edit at or before it, or with its *)
(* chat, whatever requests, reads, deletes and restarts interleave.        *)
(***************************************************************************)
THEOREM PathTurnsStick ==
  ASSUME OnlyTurnsSave
  PROVE  StoreSpec => PathSticks
<1>1. WholeInv /\ [StoreNext]_vars => [OnPath => CommitStays]_vars
  <2> SUFFICES ASSUME WholeInv, StoreNext, OnPath PROVE CommitStays \/ UNCHANGED vars
    OBVIOUS
  <2>1. CASE Restart
    <3>1. /\ rows' = rows
          /\ \A c \in Chats : rows[c] # None => rows[c].turns \in Seq(Requests)
      BY <2>1 DEF Restart, disk, WholeInv, StoreInv, TypeInv, TablesOK, Runtimes
    <3> QED
      BY <3>1, SamePrefix DEF CommitStays
  <2> QED
    BY <2>1, PathStays DEF StoreNext
<1> QED
  BY <1>1, WholeInvariance, PTL DEF StoreSpec, PathSticks

(***************************************************************************)
(* A request of the path that has a receipt never commits a turn again:    *)
(* not when it is sent twice at once, nor after a restart between its      *)
(* commit and its answer.                                                  *)
(***************************************************************************)
THEOREM PathPlaysOnce ==
  ASSUME OnlyTurnsSave
  PROVE  StoreSpec => PathPlayedOnce
<1>1. WholeInv => (OnPath => PlayedOnce)
  BY PathOnce
<1>2. WholeInv /\ [StoreNext]_vars => [OnPath => PlayedOnce]_vars
  BY <1>1
<1> QED
  BY <1>2, WholeInvariance, PTL DEF StoreSpec, PathPlayedOnce
=============================================================================
