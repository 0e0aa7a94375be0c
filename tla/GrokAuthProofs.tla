--------------------------- MODULE GrokAuthProofs ---------------------------
(***************************************************************************)
(* Proofs about GrokAuth, for any number of requests, device logins and    *)
(* logouts: who holds the credential lock is alone to replace the          *)
(* credential, which is never mislaid nor presented twice, and a logout    *)
(* stands.                                                                 *)
(***************************************************************************)
EXTENDS GrokAuth, TLAPS

-----------------------------------------------------------------------------
(* The inductive invariant.                                                *)

Holding == {"held", "mend", "decide", "exchange", "store", "again"}
Saving == {"store", "again"}

(* keeper is the one task that is between acquire_credential_lock and the  *)
(* end of its guard.                                                       *)
OneKeeper ==
  /\ \A r \in Requests : req[r].stage \in Holding <=> keeper = r
  /\ \A f \in Flows : poller[f].stage \in Saving \cup {"rotate"} <=> keeper = f
  /\ \A l \in Logouts : leaving[l] = "remove" <=> keeper = l

(* starter is the one handler that holds start_lock.                       *)
OneStarter ==
  /\ \A f \in Flows : handler[f] \in {"ask", "register"} <=> starter = f
  /\ \A l \in Logouts : leaving[l] \in {"lock", "remove"} <=> starter = l

(* A login that no abort() has met, and whose client has not left: it may  *)
(* still save what the provider answers.                                   *)
Unaborted(f) ==
  /\ poller[f].stage \in {"polling", "claim", "queue"} \cup Saving
  /\ ~ poller[f].aborted /\ handler[f] # "left"

(* The next login or logout will reach it, and no logout is under way.     *)
Filed ==
  /\ \A f \in Flows : handler[f] \in {"new", "ask"} => poller[f] = NoPoller
  /\ \A f \in Flows : handler[f] = "ask" => authFlow.generation = f /\ authFlow.phase = "starting"
  /\ \A f \in Flows : Unaborted(f) =>
       /\ authFlow.generation = f
       /\ \/ handler[f] = "register" /\ authFlow.phase = "starting"
          \/ handler[f] = "done" /\ authFlow.phase = "polling" /\ authFlow.abort = f
  /\ authFlow.phase = "polling" => authFlow.abort \in Flows /\ handler[authFlow.abort] = "done"
  /\ \A l \in Logouts, f \in Flows : leaving[l] \in {"lock", "remove"} => ~ Unaborted(f)

(* Since a logout, nobody has a credential to save.                        *)
NothingUnderWay ==
  signedOut =>
    /\ \A f \in Flows : /\ poller[f].stage \notin Saving
                        /\ poller[f].stage \in {"claim", "queue"} => ~ Unaborted(f)
    /\ \A r \in Requests : req[r].stage \in Holding => req[r].stage = "held"

(* Credentials come from the provider.                                     *)
Known(c) == c = Absent \/ c <= issued
Issued ==
  /\ \A c \in exchanged : c <= issued
  /\ Known(disk) /\ Known(newest) /\ (volatile # Absent => volatile.cred <= issued)
  /\ \A r \in Requests : Known(req[r].cred)
  /\ \A f \in Flows : Known(poller[f].cred)

(* A credential that was not saved yet is in one place: with the login or  *)
(* the request that got it, or pending.  No reader can have met it on disk.*)
PendingIs(c) == volatile # Absent /\ volatile.cred = c
Unread(c) == c # disk /\ \A q \in Requests : req[q].stage = "judge" => req[q].cred # c
Carrying(f) == poller[f].stage \in {"claim", "queue"} \cup Saving

LoginPrivate(f) ==
  LET c == poller[f].cred
  IN  /\ c # Absent /\ c # disk /\ ~ PendingIs(c) /\ c \notin exchanged
      /\ \A r \in Requests : req[r].cred # c
      /\ \A g \in Flows : Carrying(g) /\ poller[g].cred = c => g = f

AnswerPrivate(r) ==
  LET c == req[r].cred
  IN  /\ c # Absent /\ c # disk /\ ~ PendingIs(c) /\ c \notin exchanged
      /\ \A q \in Requests : req[q].cred = c => q = r

Private ==
  /\ \A f \in Flows : Carrying(f) => LoginPrivate(f)
  /\ \A r \in Requests : req[r].stage \in Saving => AnswerPrivate(r)
  /\ volatile # Absent => Unread(volatile.cred)
  /\ \A r \in Requests : req[r].stage = "mend" => req[r].cred # Absent /\ Unread(req[r].cred)

(* What the holder of the lock has in hand is the newest credential.       *)
BeingSaved(c) ==
  \/ \E r \in Requests : req[r].stage \in Saving /\ req[r].cred = c
  \/ \E f \in Flows : poller[f].stage \in Saving /\ poller[f].cred = c

Handed ==
  /\ \A r \in Requests : req[r].stage \in Saving => newest = req[r].cred
  /\ \A f \in Flows : poller[f].stage \in Saving => newest = poller[f].cred
  /\ \A r \in Requests : req[r].stage = "mend" => newest = req[r].cred \/ newest \in lost
  /\ \A r \in Requests : req[r].stage \in {"decide", "exchange"} =>
       req[r].cred # Absent /\ (newest \in {req[r].cred, Absent} \/ newest \in lost)
  /\ volatile # Absent => newest = volatile.cred \/ newest \in lost \/ BeingSaved(newest)
  /\ newest # Absent => newest \notin exchanged

(* NewestKept, said of its places one by one. *)
Kept == \/ newest = Absent \/ newest = disk \/ PendingIs(newest) \/ newest \in lost \/ BeingSaved(newest)

GrokInv ==
  /\ GrokTypeOK
  /\ OneKeeper /\ OneStarter /\ Filed
  /\ NothingUnderWay /\ LogoutSticks
  /\ Issued /\ Private /\ Handed /\ Kept

(* It is NewestKept. *)
LEMMA KeptMeans == Kept <=> NewestKept
<1> DEFINE inRequests == {req[r].cred : r \in {r \in Requests : req[r].stage \in Saving}}
           inLogins == {poller[f].cred : f \in {f \in Flows : poller[f].stage \in Saving}}
           pending == IF volatile = Absent THEN {} ELSE {volatile.cred}
<1>1. BeingSaved(newest) <=> newest \in inRequests \cup inLogins
  BY DEF BeingSaved
<1>2. InHand = {disk} \cup pending \cup inRequests \cup inLogins
  BY DEF InHand, Saving
<1>3. PendingIs(newest) <=> newest \in pending
  BY DEF PendingIs
<1> HIDE DEF inRequests, inLogins, pending
<1> QED BY <1>1, <1>2, <1>3 DEF Kept, NewestKept

-----------------------------------------------------------------------------
(* Changes of one request.                                                 *)

(* Of the requests q only r differs in n: it is at s, with c.              *)
Becomes(q, r, n, s, c) ==
  /\ n \in [Requests -> RequestRecords]
  /\ n[r].stage = s /\ n[r].cred = c
  /\ \A o \in Requests : o # r => n[o] = q[o]

SetStage(q, r, s) == [q EXCEPT ![r].stage = s]
SetCred(q, r, c) == [q EXCEPT ![r].cred = c]
SetStale(q, r, c) == [q EXCEPT ![r].stale = c]
SetRejected(q, r, c) == [q EXCEPT ![r].rejected = c]
SetTries(q, r, n) == [q EXCEPT ![r].tries = n]
SetEpoch(q, r, n) == [q EXCEPT ![r].epoch = n]
SetCall(q, r, k) == [q EXCEPT ![r].call = k]

Tokens == Serials \cup {Absent}

(* A field is set. *)
LEMMA FieldSet ==
  ASSUME NEW q \in [Requests -> RequestRecords], NEW r \in Requests
  PROVE  /\ \A s \in RequestStages : Becomes(q, r, SetStage(q, r, s), s, q[r].cred)
         /\ \A c \in Tokens : Becomes(q, r, SetCred(q, r, c), q[r].stage, c)
         /\ \A c \in Tokens : Becomes(q, r, SetStale(q, r, c), q[r].stage, q[r].cred)
         /\ \A c \in Tokens : Becomes(q, r, SetRejected(q, r, c), q[r].stage, q[r].cred)
         /\ \A n \in Nat : Becomes(q, r, SetTries(q, r, n), q[r].stage, q[r].cred)
         /\ \A n \in Nat : Becomes(q, r, SetEpoch(q, r, n), q[r].stage, q[r].cred)
         /\ \A k \in {"request", "status"} : Becomes(q, r, SetCall(q, r, k), q[r].stage, q[r].cred)
BY
DEF RequestRecords, Tokens, Becomes, SetStage, SetCred, SetStale, SetRejected, SetTries, SetEpoch,
     SetCall

(* One change and then another. *)
LEMMA ThenBecomes ==
  ASSUME NEW q, NEW r, NEW n, NEW m, NEW s, NEW c, NEW t, NEW d,
         Becomes(q, r, n, s, c), Becomes(n, r, m, t, d)
  PROVE  Becomes(q, r, m, t, d)
BY DEF Becomes

(* A request that ends or begins again as a status has no credential.      *)
LEMMA RequestReset ==
  ASSUME NEW q \in [Requests -> RequestRecords], NEW r \in Requests
  PROVE  /\ Becomes(q, r, [q EXCEPT ![r] = IdleRequest], "idle", Absent)
         /\ Becomes(q, r, [q EXCEPT ![r] = [IdleRequest EXCEPT !.call = "status", !.stage = "peek"]], "peek", Absent)
<1>1. IdleRequest \in RequestRecords /\ IdleRequest.stage = "idle" /\ IdleRequest.cred = Absent
  BY DEF IdleRequest, RequestRecords, RequestStages
<1>2. LET x == [IdleRequest EXCEPT !.call = "status", !.stage = "peek"]
      IN  x \in RequestRecords /\ x.stage = "peek" /\ x.cred = Absent
  BY DEF IdleRequest, RequestRecords, RequestStages
<1> HIDE DEF IdleRequest
<1>3. ASSUME NEW x \in RequestRecords
      PROVE  Becomes(q, r, [q EXCEPT ![r] = x], x.stage, x.cred)
  BY DEF Becomes
<1> QED BY <1>1, <1>2, <1>3

(* What the code finds when it looks for the credential.                   *)
LEMMA CredentialFound ==
  ASSUME volatile \in Pending \cup {Absent}, NEW read \in Tokens
  PROVE  LET found == CurrentCredential(read)
         IN  /\ found.cred \in Tokens /\ found.stale \in Tokens /\ found.keep \in BOOLEAN /\ found.pending \in BOOLEAN
             /\ \/ volatile = Absent /\ found.keep /\ ~ found.pending /\ found.cred = read
                \/ volatile \in Pending /\ found.keep /\ found.pending /\ found.cred = volatile.cred
                \/ /\ volatile \in Pending /\ ~ found.keep /\ ~ found.pending
                   /\ read \in Serials /\ found.cred = read
BY AbsentAssumption DEF CurrentCredential, Candidate, Pending, Tokens

-----------------------------------------------------------------------------
(* What a step of a request does.                                          *)

RequestMoves(r, s, c) == Becomes(req, r, req', s, c)

(* It concerns no login and no logout. *)
Aside == UNCHANGED <<aged, session, starter, authFlow, handler, poller, leaving, signedOut>>
SameFile == UNCHANGED <<disk, volatile>>
SameTokens == UNCHANGED <<issued, exchanged, newest>>

(* A step of one that does not hold the lock. *)
Idles(r) ==
  /\ req[r].stage \notin Holding
  /\ \E s \in RequestStages \ Holding, c \in {req[r].cred, disk, Absent} :
       RequestMoves(r, s, c) /\ (s = "judge" => c \in {disk, Absent})
  /\ SameTokens /\ SameFile /\ UNCHANGED <<keeper, lost>>

(* The pending credential is dropped for what the file was found to hold.  *)
LetsGo(read) ==
  /\ volatile # Absent /\ volatile' = Absent
  /\ lost' = IF volatile.cred = read THEN lost ELSE lost \cup {volatile.cred}

Judges(r) ==
  /\ req[r].stage = "judge"
  /\ UNCHANGED <<volatile, lost>> \/ LetsGo(req[r].cred)
  /\ \E s \in {"idle", "lock", "send"}, c \in Tokens :
       RequestMoves(r, s, c) /\ (c \in {Absent, req[r].cred} \/ PendingIs(c))
  /\ SameTokens /\ UNCHANGED <<disk, keeper>>

Takes(r) ==
  /\ req[r].stage = "lock" /\ keeper = Absent /\ keeper' = r
  /\ RequestMoves(r, "held", req[r].cred)
  /\ SameTokens /\ SameFile /\ UNCHANGED lost

(* It finds a pending credential, one on disk, or none and gives up.       *)
Finds(r) ==
  /\ req[r].stage = "held"
  /\ \/ /\ volatile # Absent /\ RequestMoves(r, "mend", volatile.cred)
        /\ UNCHANGED <<volatile, lost, keeper>>
     \/ /\ disk # Absent /\ RequestMoves(r, "decide", disk)
        /\ (volatile = Absent /\ UNCHANGED <<volatile, lost>>) \/ LetsGo(disk)
        /\ UNCHANGED keeper
     \/ /\ \E s \in {"idle", "peek"} : RequestMoves(r, s, Absent)
        /\ UNCHANGED <<volatile, lost>> /\ keeper' = Absent
  /\ SameTokens /\ UNCHANGED disk

Mends(r) ==
  /\ req[r].stage = "mend" /\ RequestMoves(r, "decide", req[r].cred)
  /\ \/ disk' = req[r].cred /\ volatile' = Absent
     \/ disk' = disk /\ volatile' \in Pending /\ volatile'.cred = req[r].cred
  /\ SameTokens /\ UNCHANGED <<keeper, lost>>

Presents(r) ==
  /\ req[r].stage = "decide" /\ RequestMoves(r, "exchange", req[r].cred)
  /\ SameTokens /\ SameFile /\ UNCHANGED <<keeper, lost>>

(* It lets go of the lock and has changed nothing, or has lost what it had.*)
Leaves(r) ==
  /\ req[r].stage \in {"mend", "decide", "exchange", "again"} /\ keeper' = Absent
  /\ \E s \in {"idle", "peek", "send"}, c \in {req[r].cred, Absent} : RequestMoves(r, s, c)
  /\ lost' = IF req[r].stage = "again" THEN lost \cup {req[r].cred} ELSE lost
  /\ SameTokens /\ SameFile

(* The provider takes its token: the answer arrives, or is lost.           *)
Exchanges(r) ==
  /\ req[r].stage = "exchange"
  /\ issued' = issued + 1 /\ issued' \in Serials /\ newest' = issued'
  /\ exchanged' = exchanged \cup {req[r].cred}
  /\ \/ RequestMoves(r, "store", issued') /\ UNCHANGED <<keeper, lost>>
     \/ RequestMoves(r, "idle", Absent) /\ keeper' = Absent /\ lost' = lost \cup {issued'}
  /\ SameFile

(* ... or refuses it.                                                      *)
Refused(r) ==
  /\ req[r].stage = "exchange" /\ RequestMoves(r, "idle", Absent) /\ keeper' = Absent
  /\ newest' = Absent /\ disk' \in {disk, Absent} /\ volatile' = Absent
  /\ UNCHANGED <<issued, exchanged, lost>>

(* The answer is saved, kept pending, or to be saved again.                *)
RequestSaves(r) ==
  /\ req[r].stage \in Saving
  /\ \/ RequestMoves(r, "send", req[r].cred) /\ keeper' = Absent
        /\ \/ disk' = req[r].cred /\ volatile' = Absent
           \/ disk' = disk /\ volatile' \in Pending /\ volatile'.cred = req[r].cred
     \/ (\E s \in Saving : RequestMoves(r, s, req[r].cred)) /\ SameFile /\ UNCHANGED keeper
  /\ SameTokens /\ UNCHANGED lost

RequestDoes(r) ==
  \/ Idles(r) \/ Judges(r) \/ Takes(r) \/ Finds(r) \/ Mends(r) \/ Presents(r)
  \/ Leaves(r) \/ Exchanges(r) \/ Refused(r) \/ RequestSaves(r)

(* Fields of requests are of their types. *)
LEMMA RequestTypes ==
  ASSUME GrokTypeOK, NEW r \in Requests
  PROVE  /\ req \in [Requests -> RequestRecords]
         /\ req[r].cred \in Tokens /\ req[r].stale \in Tokens /\ req[r].tries \in Nat
         /\ req[r].stage \in RequestStages
         /\ disk \in Tokens /\ volatile \in Pending \cup {Absent}
         /\ session.epoch \in Nat /\ issued \in Nat
BY DEF GrokTypeOK, RequestRecords, Tokens, Serials

(* Each action does one of these. *)
LEMMA IdlesDoes ==
  ASSUME GrokTypeOK, NEW r \in Requests,
         BeginRequest(r) \/ BeginStatus(r) \/ PeekDisk(r) \/ Send(r) \/ Resend(r) \/ Unauthorized(r) \/ RequestEnds(r)
  PROVE  Idles(r)
<1> USE RequestTypes DEF SameTokens, SameFile, provider, stored, history
<1>1. CASE BeginRequest(r)
  <2>1. req' = SetEpoch(SetStage(req, r, "peek"), r, session.epoch) /\ req[r].stage = "idle"
    BY <1>1 DEF BeginRequest, SetEpoch, SetStage, AtRequest
  <2>2. Becomes(req, r, SetStage(req, r, "peek"), "peek", req[r].cred)
    BY FieldSet DEF RequestStages
  <2> DEFINE q == SetStage(req, r, "peek")
  <2> HIDE DEF q
  <2>3. Becomes(q, r, SetEpoch(q, r, session.epoch), "peek", req[r].cred)
    BY <2>2, FieldSet DEF Becomes, q
  <2>4. RequestMoves(r, "peek", req[r].cred)
    BY <2>1, <2>2, <2>3, ThenBecomes DEF RequestMoves, q
  <2> QED BY <1>1, <2>1, <2>4 DEF BeginRequest, Idles, Holding, RequestStages
<1>2. CASE BeginStatus(r)
  <2> DEFINE s == IF volatile = Absent THEN "peek" ELSE "lock"
             q == SetCall(req, r, "status")
  <2>1. req' = SetStage(q, r, s) /\ req[r].stage = "idle"
    BY <1>2 DEF BeginStatus, SetStage, SetCall, AtRequest
  <2>2. Becomes(req, r, q, "idle", req[r].cred) /\ s \in RequestStages
    BY <2>1, FieldSet DEF RequestStages
  <2> HIDE DEF q
  <2>3. Becomes(q, r, SetStage(q, r, s), s, req[r].cred)
    BY <2>2, FieldSet DEF Becomes
  <2>4. RequestMoves(r, s, req[r].cred)
    BY <2>1, <2>2, <2>3, ThenBecomes DEF RequestMoves
  <2> QED BY <1>2, <2>1, <2>4 DEF BeginStatus, Idles, Holding, RequestStages
<1>3. CASE PeekDisk(r)
  <2>1. PICK read \in Readings : req' = SetCred(SetStage(req, r, "judge"), r, read)
    BY <1>3 DEF PeekDisk, SetStage, SetCred
  <2> DEFINE q == SetStage(req, r, "judge")
  <2>2. Becomes(req, r, q, "judge", req[r].cred) /\ read \in Tokens
    BY <2>1, FieldSet DEF RequestStages, Readings, Tokens
  <2> HIDE DEF q
  <2>3. Becomes(q, r, SetCred(q, r, read), "judge", read)
    BY <2>2, FieldSet DEF Becomes
  <2>4. req' = SetCred(q, r, read)
    BY <2>1 DEF q
  <2>5. RequestMoves(r, "judge", read)
    BY <2>2, <2>3, <2>4, ThenBecomes DEF RequestMoves
  <2>6. req[r].stage = "peek" /\ SameTokens /\ SameFile /\ UNCHANGED <<keeper, lost>>
    BY <1>3 DEF PeekDisk, AtRequest
  <2> QED BY <2>1, <2>5, <2>6 DEF PeekDisk, Idles, Holding, RequestStages, Readings
<1>4. CASE Send(r)
  <2>1. req' = SetStage(req, r, "sent") /\ req[r].stage = "send"
    BY <1>4 DEF Send, SetStage, Move, AtRequest
  <2>2. RequestMoves(r, "sent", req[r].cred)
    BY <2>1, FieldSet DEF RequestMoves, RequestStages
  <2> QED BY <1>4, <2>1, <2>2 DEF Send, Idles, Holding, RequestStages
<1>5. CASE Resend(r)
  <2>1. req' = SetStage(req, r, "send") /\ req[r].stage = "sent"
    BY <1>5 DEF Resend, SetStage, Move, AtRequest
  <2>2. RequestMoves(r, "send", req[r].cred)
    BY <2>1, FieldSet DEF RequestMoves, RequestStages
  <2> QED BY <1>5, <2>1, <2>2 DEF Resend, Idles, Holding, RequestStages
<1>6. CASE Unauthorized(r)
  <2> DEFINE q == SetStage(req, r, "lock")
             p == SetRejected(q, r, req[r].cred)
  <2>1. req' = SetEpoch(p, r, session.epoch) /\ req[r].stage = "sent"
    BY <1>6 DEF Unauthorized, SetStage, SetRejected, SetEpoch, AtRequest
  <2>2. Becomes(req, r, q, "lock", req[r].cred)
    BY FieldSet DEF RequestStages
  <2> HIDE DEF q
  <2>3. Becomes(q, r, p, "lock", req[r].cred)
    BY <2>2, FieldSet DEF Becomes
  <2> HIDE DEF p
  <2>4. Becomes(p, r, SetEpoch(p, r, session.epoch), "lock", req[r].cred)
    BY <2>3, FieldSet DEF Becomes
  <2>5. RequestMoves(r, "lock", req[r].cred)
    BY <2>1, <2>2, <2>3, <2>4, ThenBecomes DEF RequestMoves
  <2> QED BY <1>6, <2>1, <2>5 DEF Unauthorized, Idles, Holding, RequestStages
<1>7. CASE RequestEnds(r)
  <2>1. RequestMoves(r, "idle", Absent) \/ RequestMoves(r, "peek", Absent)
    BY <1>7, RequestReset DEF RequestEnds, EndRequest, ToStatus, RequestMoves
  <2> QED BY <1>7, <2>1 DEF RequestEnds, Idles, Holding, RequestStages
<1> QED BY <1>1, <1>2, <1>3, <1>4, <1>5, <1>6, <1>7

(* The readings of the file. *)
LEMMA ReadingTypes == ASSUME GrokTypeOK, NEW read \in Readings PROVE read \in Tokens
BY DEF GrokTypeOK, Readings, Tokens

(* PeekVolatile *)
LEMMA JudgesDoes ==
  ASSUME GrokTypeOK, NEW r \in Requests, PeekVolatile(r)
  PROVE  Judges(r)
<1> DEFINE found == CurrentCredential(req[r].cred)
           s == IF found.pending \/ found.cred <= aged THEN "lock" ELSE "send"
           q == SetCred(req, r, found.cred)
<1>1. /\ req[r].stage = "judge"
      /\ volatile' = IF found.keep THEN volatile ELSE Absent
      /\ lost' = lost \cup Dropped(req[r].cred, found.keep)
      /\ SameTokens /\ UNCHANGED <<disk, keeper>>
  BY DEF PeekVolatile, AtRequest, SameTokens, provider
<1>2. \/ req' = [req EXCEPT ![r] = IdleRequest]
      \/ req' = SetStage(q, r, s)
  BY DEF PeekVolatile, EndRequest, SetStage, SetCred
<1>3. /\ found.cred \in Tokens /\ found.keep \in BOOLEAN
      /\ \/ volatile = Absent /\ found.keep /\ found.cred = req[r].cred
         \/ volatile \in Pending /\ found.keep /\ found.cred = volatile.cred
         \/ volatile \in Pending /\ ~ found.keep /\ found.cred = req[r].cred
  BY RequestTypes, CredentialFound
<1>4. volatile \in Pending => volatile # Absent
  BY AbsentAssumption
<1> HIDE DEF found
<1>5. UNCHANGED <<volatile, lost>> \/ LetsGo(req[r].cred)
  BY <1>1, <1>3, <1>4 DEF Dropped, LetsGo
<1>6. RequestMoves(r, "idle", Absent) \/ RequestMoves(r, s, found.cred)
  <2>1. Becomes(req, r, q, req[r].stage, found.cred)
    BY <1>3, RequestTypes, FieldSet
  <2> HIDE DEF q
  <2>2. Becomes(q, r, SetStage(q, r, s), s, found.cred)
    BY <2>1, FieldSet DEF Becomes, RequestStages
  <2>3. req' = SetStage(q, r, s) => RequestMoves(r, s, found.cred)
    BY <2>1, <2>2, ThenBecomes DEF RequestMoves
  <2>4. req' = [req EXCEPT ![r] = IdleRequest] => RequestMoves(r, "idle", Absent)
    BY RequestTypes, RequestReset DEF RequestMoves
  <2> QED BY <1>2, <2>3, <2>4
<1>7. found.cred \in {Absent, req[r].cred} \/ PendingIs(found.cred)
  BY <1>3, <1>4 DEF PendingIs
<1> HIDE DEF q
<1> QED BY <1>1, <1>3, <1>5, <1>6, <1>7 DEF Judges, Tokens

(* TakeLock and Present *)
LEMMA TakesDoes ==
  ASSUME GrokTypeOK, NEW r \in Requests, TakeLock(r) \/ Present(r)
  PROVE  Takes(r) \/ Presents(r)
<1>1. \A s \in RequestStages : Move(r, s) => RequestMoves(r, s, req[r].cred)
  <2>1. \A s : Move(r, s) => req' = SetStage(req, r, s)
    BY DEF Move, SetStage
  <2>2. \A s \in RequestStages : Becomes(req, r, SetStage(req, r, s), s, req[r].cred)
    BY RequestTypes, FieldSet
  <2> QED BY <2>1, <2>2 DEF RequestMoves
<1>2. CASE TakeLock(r)
  BY <1>1, <1>2
  DEF TakeLock, Takes, AtRequest, SameTokens, SameFile, RequestStages, provider, stored, history
<1>3. CASE Present(r)
  BY <1>1, <1>3
  DEF Present, Presents, AtRequest, SameTokens, SameFile, RequestStages, provider, stored, history
<1> QED BY <1>2, <1>3

(* ReadUnderLock *)
LEMMA FindsDoes ==
  ASSUME GrokTypeOK, NEW r \in Requests, ReadUnderLock(r)
  PROVE  Finds(r)
<1>1. PICK read \in Readings :
        LET found == CurrentCredential(read)
        IN  /\ volatile' = IF found.keep THEN volatile ELSE Absent
            /\ lost' = lost \cup Dropped(read, found.keep)
            /\ IF found.cred = Absent
               THEN /\ IF req[r].call = "status" THEN ToStatus(r) ELSE EndRequest(r)
                    /\ keeper' = Absent
               ELSE /\ req' = [req EXCEPT ![r].cred = found.cred, ![r].stale = found.stale,
                                 ![r].tries = 0,
                                 ![r].stage = IF found.pending THEN "mend" ELSE "decide"]
                    /\ keeper' = keeper
  BY DEF ReadUnderLock
<1>2. req[r].stage = "held" /\ SameTokens /\ UNCHANGED disk
  BY DEF ReadUnderLock, AtRequest, SameTokens, provider
<1> DEFINE found == CurrentCredential(read)
           s == IF found.pending THEN "mend" ELSE "decide"
           q1 == SetCred(req, r, found.cred)
           q2 == SetStale(q1, r, found.stale)
           q3 == SetTries(q2, r, 0)
<1>3. /\ found.cred \in Tokens /\ found.stale \in Tokens /\ found.keep \in BOOLEAN /\ found.pending \in BOOLEAN
      /\ \/ volatile = Absent /\ found.keep /\ ~ found.pending /\ found.cred = read
         \/ volatile \in Pending /\ found.keep /\ found.pending /\ found.cred = volatile.cred
         \/ /\ volatile \in Pending /\ ~ found.keep /\ ~ found.pending
            /\ read \in Serials /\ found.cred = read
  BY ReadingTypes, RequestTypes, CredentialFound
<1>4. volatile \in Pending => volatile # Absent /\ volatile.cred \in Serials /\ volatile.cred # Absent
  BY AbsentAssumption DEF Pending, Serials
<1>5. read = disk \/ read = Absent
  BY DEF Readings
<1>6. read \in Serials => read # Absent
  BY AbsentAssumption DEF Serials
<1>7. /\ volatile' = IF found.keep THEN volatile ELSE Absent
      /\ lost' = lost \cup Dropped(read, found.keep)
  BY <1>1
<1>8. CASE found.cred = Absent
  <2>1. (\E t \in {"idle", "peek"} : RequestMoves(r, t, Absent)) /\ keeper' = Absent
    BY <1>1, <1>8, RequestReset, RequestTypes DEF ToStatus, EndRequest, RequestMoves
  <2> HIDE DEF found
  <2>2. found.keep /\ UNCHANGED <<volatile, lost>>
    BY <1>3, <1>4, <1>6, <1>7, <1>8 DEF Dropped
  <2> QED BY <1>2, <2>1, <2>2 DEF Finds
<1>9. CASE found.cred # Absent
  <2>1. req' = SetStage(q3, r, s) /\ keeper' = keeper
    BY <1>1, <1>9 DEF SetStage, SetCred, SetStale, SetTries
  <2> HIDE DEF found
  <2>2. Becomes(req, r, q1, "held", found.cred)
    BY <1>2, <1>3, RequestTypes, FieldSet
  <2> HIDE DEF q1
  <2>3. Becomes(q1, r, q2, "held", found.cred)
    BY <1>3, <2>2, FieldSet DEF Becomes
  <2> HIDE DEF q2
  <2>4. Becomes(q2, r, q3, "held", found.cred)
    BY <2>3, FieldSet DEF Becomes
  <2> HIDE DEF q3
  <2>5. Becomes(q3, r, SetStage(q3, r, s), s, found.cred)
    BY <2>4, FieldSet DEF Becomes, RequestStages
  <2>6. RequestMoves(r, s, found.cred)
    BY <2>1, <2>2, <2>3, <2>4, <2>5, ThenBecomes DEF RequestMoves
  <2>7. CASE volatile = Absent
    BY <1>2, <1>3, <1>4, <1>5, <1>7, <1>9, <2>1, <2>6, <2>7 DEF Finds, Dropped
  <2>8. CASE volatile \in Pending /\ found.keep
    BY <1>2, <1>3, <1>4, <1>7, <2>1, <2>6, <2>8 DEF Finds, Dropped
  <2>9. CASE volatile \in Pending /\ ~ found.keep
    BY <1>2, <1>3, <1>4, <1>5, <1>6, <1>7, <2>1, <2>6, <2>9 DEF Finds, Dropped, LetsGo
  <2> QED BY <1>3, <2>7, <2>8, <2>9
<1> QED BY <1>8, <1>9

(* A move of its stage alone. *)
LEMMA MoveDoes ==
  ASSUME GrokTypeOK, NEW r \in Requests, NEW s \in RequestStages, Move(r, s)
  PROVE  RequestMoves(r, s, req[r].cred)
<1>1. req' = SetStage(req, r, s)
  BY DEF Move, SetStage
<1>2. Becomes(req, r, SetStage(req, r, s), s, req[r].cred)
  BY RequestTypes, FieldSet
<1> QED BY <1>1, <1>2 DEF RequestMoves

(* It has its answer, and goes to send. *)
LEMMA ToSendDoes ==
  ASSUME GrokTypeOK, NEW r \in Requests, ToSend(r)
  PROVE  RequestMoves(r, "send", req[r].cred)
<1> DEFINE q1 == SetStage(req, r, "send")
           q2 == SetStale(q1, r, Absent)
<1>1. req' = SetTries(q2, r, 0)
  BY DEF ToSend, SetStage, SetStale, SetTries
<1>2. Becomes(req, r, q1, "send", req[r].cred)
  BY RequestTypes, FieldSet DEF RequestStages
<1> HIDE DEF q1
<1>3. Becomes(q1, r, q2, "send", req[r].cred)
  BY <1>2, FieldSet DEF Becomes, Tokens
<1> HIDE DEF q2
<1>4. Becomes(q2, r, SetTries(q2, r, 0), "send", req[r].cred)
  BY <1>3, FieldSet DEF Becomes
<1> QED BY <1>1, <1>2, <1>3, <1>4, ThenBecomes DEF RequestMoves

(* EndRequest and ToStatus *)
LEMMA EndDoes ==
  ASSUME GrokTypeOK, NEW r \in Requests
  PROVE  (EndRequest(r) => RequestMoves(r, "idle", Absent)) /\ (ToStatus(r) => RequestMoves(r, "peek", Absent))
BY RequestTypes, RequestReset DEF EndRequest, ToStatus, RequestMoves

(* What a request remembers is a pending credential. *)
LEMMA RemembersDoes ==
  ASSUME GrokTypeOK, NEW r \in Requests, req[r].cred # Absent, Remember(req[r].cred, req[r].stale)
  PROVE  volatile' \in Pending /\ volatile'.cred = req[r].cred
<1>1. req[r].cred \in Serials /\ req[r].stale \in Serials \cup {Absent}
  BY RequestTypes DEF Tokens
<1> QED BY <1>1 DEF Remember, Pending

(* MendSaves and MendFails *)
LEMMA MendsDoes ==
  ASSUME GrokTypeOK, NEW r \in Requests, req[r].stage = "mend" => req[r].cred # Absent, MendSaves(r) \/ MendFails(r)
  PROVE  Mends(r)
<1>1. CASE MendSaves(r)
  <2> DEFINE q == SetStage(req, r, "decide")
  <2>1. req' = SetStale(q, r, req[r].cred)
    BY <1>1 DEF MendSaves, SetStage, SetStale
  <2>2. Becomes(req, r, q, "decide", req[r].cred)
    BY RequestTypes, FieldSet DEF RequestStages
  <2> HIDE DEF q
  <2>3. Becomes(q, r, SetStale(q, r, req[r].cred), "decide", req[r].cred)
    BY <2>2, RequestTypes, FieldSet DEF Becomes
  <2>4. RequestMoves(r, "decide", req[r].cred)
    BY <2>1, <2>2, <2>3, ThenBecomes DEF RequestMoves
  <2> QED BY <1>1, <2>4 DEF MendSaves, Mends, AtRequest, SameTokens, provider, history
<1>2. CASE MendFails(r)
  <2>1. RequestMoves(r, "decide", req[r].cred)
    BY <1>2, MoveDoes DEF MendFails, RequestStages
  <2>2. volatile' \in Pending /\ volatile'.cred = req[r].cred
    BY <1>2, RemembersDoes DEF MendFails, AtRequest
  <2> QED BY <1>2, <2>1, <2>2 DEF MendFails, Mends, AtRequest, SameTokens, provider, history
<1> QED BY <1>1, <1>2

(* Reuse, ExchangeFails and DropWhileSaving *)
LEMMA LeavesDoes ==
  ASSUME GrokTypeOK, NEW r \in Requests, Reuse(r) \/ ExchangeFails(r) \/ DropWhileSaving(r)
  PROVE  Leaves(r)
<1>1. CASE Reuse(r)
  <2>1. RequestMoves(r, "peek", Absent) \/ RequestMoves(r, "send", req[r].cred)
    BY <1>1, ToSendDoes, EndDoes DEF Reuse
  <2> QED BY <1>1, <2>1 DEF Reuse, Leaves, AtRequest, SameTokens, SameFile, provider, stored, history
<1>2. CASE ExchangeFails(r)
  <2>1. RequestMoves(r, "idle", Absent)
    BY <1>2, EndDoes DEF ExchangeFails
  <2> QED BY <1>2, <2>1
  DEF ExchangeFails, Leaves, AtRequest, SameTokens, SameFile, provider, stored, history
<1>3. CASE DropWhileSaving(r)
  <2>1. RequestMoves(r, "idle", Absent)
    BY <1>3, EndDoes DEF DropWhileSaving
  <2> QED BY <1>3, <2>1
  DEF DropWhileSaving, Leaves, AtRequest, SameTokens, SameFile, provider, stored, history
<1> QED BY <1>1, <1>2, <1>3

(* Answered, AnswerLost and InvalidGrant *)
LEMMA ExchangesDoes ==
  ASSUME GrokTypeOK, NEW r \in Requests, Answered(r) \/ AnswerLost(r) \/ InvalidGrant(r)
  PROVE  Exchanges(r) \/ Refused(r)
<1>1. Exchanged(r) => issued' = issued + 1 /\ issued' \in Serials
  BY SerialAssumption DEF Exchanged, GrokTypeOK, Serials
<1>2. CASE Answered(r)
  <2> DEFINE q1 == SetCred(req, r, issued')
             q2 == SetStage(q1, r, "store")
  <2>1. req' = SetTries(q2, r, 1)
    BY <1>1, <1>2 DEF Answered, SetStage, SetCred, SetTries
  <2>2. Becomes(req, r, q1, req[r].stage, issued')
    BY <1>1, <1>2, RequestTypes, FieldSet DEF Answered, Tokens
  <2> HIDE DEF q1
  <2>3. Becomes(q1, r, q2, "store", issued')
    BY <2>2, FieldSet DEF Becomes, RequestStages
  <2> HIDE DEF q2
  <2>4. Becomes(q2, r, SetTries(q2, r, 1), "store", issued')
    BY <2>3, FieldSet DEF Becomes
  <2>5. RequestMoves(r, "store", issued')
    BY <2>1, <2>2, <2>3, <2>4, ThenBecomes DEF RequestMoves
  <2> QED BY <1>1, <1>2, <2>5 DEF Answered, Exchanged, Exchanges, AtRequest, SameFile, stored
<1>3. CASE AnswerLost(r)
  <2>1. RequestMoves(r, "idle", Absent)
    BY <1>3, EndDoes DEF AnswerLost
  <2> QED BY <1>1, <1>3, <2>1 DEF AnswerLost, Exchanged, Exchanges, AtRequest, SameFile, stored
<1>4. CASE InvalidGrant(r)
  <2>1. RequestMoves(r, "idle", Absent)
    BY <1>4, EndDoes DEF InvalidGrant
  <2> QED BY <1>4, <2>1 DEF InvalidGrant, Refused, AtRequest, provider
<1> QED BY <1>2, <1>3, <1>4

(* SaveRefreshed, SaveRefreshedFails and RetrySave *)
LEMMA SavesDoes ==
  ASSUME GrokTypeOK, NEW r \in Requests, req[r].stage \in Saving => req[r].cred # Absent,
         SaveRefreshed(r) \/ SaveRefreshedFails(r) \/ RetrySave(r)
  PROVE  RequestSaves(r)
<1>1. CASE SaveRefreshed(r)
  <2>1. RequestMoves(r, "send", req[r].cred)
    BY <1>1, ToSendDoes DEF SaveRefreshed
  <2> QED BY <1>1, <2>1 DEF SaveRefreshed, RequestSaves, Saving, AtRequest, SameTokens, provider, history
<1>2. CASE SaveRefreshedFails(r) /\ req[r].tries < Attempts
  <2>1. RequestMoves(r, "again", req[r].cred)
    BY <1>2, MoveDoes DEF SaveRefreshedFails, RequestStages
  <2> QED BY <1>2, <2>1
  DEF SaveRefreshedFails, RequestSaves, Saving, AtRequest, SameTokens, SameFile, provider, history
<1>3. CASE SaveRefreshedFails(r) /\ ~ (req[r].tries < Attempts)
  <2>1. RequestMoves(r, "send", req[r].cred)
    BY <1>3, ToSendDoes DEF SaveRefreshedFails
  <2>2. volatile' \in Pending /\ volatile'.cred = req[r].cred
    BY <1>3, RemembersDoes DEF SaveRefreshedFails, AtRequest, Saving
  <2> QED BY <1>3, <2>1, <2>2
  DEF SaveRefreshedFails, RequestSaves, Saving, AtRequest, SameTokens, provider, history
<1>4. CASE RetrySave(r)
  <2> DEFINE q == SetStage(req, r, "store")
  <2>1. req' = SetTries(q, r, req[r].tries + 1)
    BY <1>4, RequestTypes DEF RetrySave, SetStage, SetTries, GrokTypeOK
  <2>2. Becomes(req, r, q, "store", req[r].cred)
    BY RequestTypes, FieldSet DEF RequestStages
  <2> HIDE DEF q
  <2>3. Becomes(q, r, SetTries(q, r, req[r].tries + 1), "store", req[r].cred)
    BY <2>2, RequestTypes, FieldSet DEF Becomes
  <2>4. RequestMoves(r, "store", req[r].cred)
    BY <2>1, <2>2, <2>3, ThenBecomes DEF RequestMoves
  <2> QED BY <1>4, <2>4
  DEF RetrySave, RequestSaves, Saving, AtRequest, SameTokens, SameFile, provider, stored, history
<1> QED BY <1>1, <1>2, <1>3, <1>4

(* Together. *)
LEMMA RequestsDo ==
  ASSUME GrokInv, NEW r \in Requests, RequestStep(r)
  PROVE  RequestDoes(r) /\ Aside
<1>1. GrokTypeOK /\ (req[r].stage = "mend" => req[r].cred # Absent) /\ (req[r].stage \in Saving => req[r].cred # Absent)
  BY DEF GrokInv, Private, AnswerPrivate
<1>2. Aside
  <2>1. CASE BeginRequest(r) \/ BeginStatus(r) \/ PeekDisk(r) \/ PeekVolatile(r)
    BY <2>1 DEF BeginRequest, BeginStatus, PeekDisk, PeekVolatile, Aside, provider, history
  <2>2. CASE Send(r) \/ Resend(r) \/ Unauthorized(r) \/ RequestEnds(r) \/ TakeLock(r)
    BY <2>2 DEF Send, Resend, Unauthorized, RequestEnds, TakeLock, Aside, provider, history
  <2>3. CASE ReadUnderLock(r) \/ MendSaves(r) \/ MendFails(r) \/ Reuse(r) \/ Present(r)
    BY <2>3 DEF ReadUnderLock, MendSaves, MendFails, Reuse, Present, Aside, provider, history
  <2>4. CASE Answered(r) \/ AnswerLost(r) \/ InvalidGrant(r) \/ ExchangeFails(r) \/ SaveRefreshed(r)
    BY <2>4
    DEF Answered, AnswerLost, InvalidGrant, ExchangeFails, SaveRefreshed, Aside, provider, history
  <2>5. CASE SaveRefreshedFails(r) \/ RetrySave(r) \/ DropWhileSaving(r)
    BY <2>5 DEF SaveRefreshedFails, RetrySave, DropWhileSaving, Aside, provider, history
  <2> QED BY <2>1, <2>2, <2>3, <2>4, <2>5 DEF RequestStep
<1>3. RequestDoes(r)
  BY <1>1, IdlesDoes, JudgesDoes, TakesDoes, FindsDoes, MendsDoes, LeavesDoes, ExchangesDoes, SavesDoes
  DEF RequestStep, RequestDoes
<1> QED BY <1>2, <1>3

(* Every variable keeps its type. *)
LEMMA RequestKeepsTypes ==
  ASSUME GrokInv, NEW r \in Requests, RequestDoes(r), Aside
  PROVE  GrokTypeOK'
<1> USE SerialAssumption, AbsentAssumption, RequestTypes
    DEF RequestMoves, Becomes, Aside, SameFile, SameTokens, GrokInv, GrokTypeOK, Handed, Private,
    AnswerPrivate, Tokens, Pending, Saving, LetsGo, Keepers
<1>1. CASE Idles(r)
  BY <1>1 DEF Idles
<1>2. CASE Judges(r)
  BY <1>2 DEF Judges
<1>3. CASE Takes(r)
  BY <1>3 DEF Takes
<1>4. CASE Finds(r)
  BY <1>4 DEF Finds
<1>5. CASE Mends(r)
  BY <1>5 DEF Mends
<1>6. CASE Presents(r)
  BY <1>6 DEF Presents
<1>7. CASE Leaves(r)
  BY <1>7 DEF Leaves
<1>8. CASE Exchanges(r)
  <2>1. GrokTypeOK /\ req[r].cred # Absent
    BY <1>8 DEF Exchanges
  <2>2. req[r].cred \in Serials
    BY <2>1
  <2>3. exchanged' \subseteq Serials /\ newest' \in Serials /\ lost' \subseteq Serials /\ issued' \in Serials
    BY <1>8, <2>1, <2>2 DEF Exchanges
  <2>4. req' \in [Requests -> RequestRecords] /\ keeper' \in Keepers \cup {Absent}
    BY <1>8, <2>1 DEF Exchanges
  <2> QED BY <1>8, <2>1, <2>3, <2>4 DEF GrokTypeOK, Exchanges, Aside, SameFile
<1>9. CASE Refused(r)
  BY <1>9 DEF Refused
<1>10. CASE RequestSaves(r)
  BY <1>10 DEF RequestSaves
<1> QED BY <1>1, <1>2, <1>3, <1>4, <1>5, <1>6, <1>7, <1>8, <1>9, <1>10 DEF RequestDoes

(* The lock has the holder that the stages say. *)
LEMMA RequestKeepsKeeper ==
  ASSUME GrokInv, NEW r \in Requests, RequestDoes(r), Aside
  PROVE  OneKeeper'
<1> USE AbsentAssumption, KeepersAssumption, RequestTypes
    DEF RequestMoves, Becomes, Aside, SameFile, SameTokens, GrokInv, OneKeeper, Holding, Saving, Keepers
<1>1. CASE Idles(r)
  BY <1>1 DEF Idles
<1>2. CASE Judges(r)
  BY <1>2 DEF Judges
<1>3. CASE Takes(r)
  BY <1>3 DEF Takes
<1>4. CASE Finds(r)
  BY <1>4 DEF Finds
<1>5. CASE Mends(r)
  BY <1>5 DEF Mends
<1>6. CASE Presents(r)
  BY <1>6 DEF Presents
<1>7. CASE Leaves(r)
  BY <1>7 DEF Leaves
<1>8. CASE Exchanges(r)
  BY <1>8 DEF Exchanges
<1>9. CASE Refused(r)
  BY <1>9 DEF Refused
<1>10. CASE RequestSaves(r)
  BY <1>10 DEF RequestSaves
<1> QED BY <1>1, <1>2, <1>3, <1>4, <1>5, <1>6, <1>7, <1>8, <1>9, <1>10 DEF RequestDoes

(* Who finds nothing has nothing to save. *)
LEMMA RequestKeepsSignedOut ==
  ASSUME GrokInv, NEW r \in Requests, RequestDoes(r), Aside
  PROVE  (NothingUnderWay /\ LogoutSticks)'
<1> USE AbsentAssumption, RequestTypes
    DEF RequestMoves, Becomes, Aside, SameFile, SameTokens, GrokInv, OneKeeper, NothingUnderWay, LogoutSticks,
    Unaborted, Holding, Saving, LetsGo
<1>1. CASE Idles(r)
  BY <1>1 DEF Idles
<1>2. CASE Judges(r)
  BY <1>2 DEF Judges
<1>3. CASE Takes(r)
  BY <1>3 DEF Takes
<1>4. CASE Finds(r)
  BY <1>4 DEF Finds
<1>5. CASE Mends(r)
  BY <1>5 DEF Mends
<1>6. CASE Presents(r)
  BY <1>6 DEF Presents
<1>7. CASE Leaves(r)
  BY <1>7 DEF Leaves
<1>8. CASE Exchanges(r)
  BY <1>8 DEF Exchanges
<1>9. CASE Refused(r)
  BY <1>9 DEF Refused
<1>10. CASE RequestSaves(r)
  BY <1>10 DEF RequestSaves
<1> QED BY <1>1, <1>2, <1>3, <1>4, <1>5, <1>6, <1>7, <1>8, <1>9, <1>10 DEF RequestDoes

(* Credentials come from the provider. *)
LEMMA RequestKeepsIssued ==
  ASSUME GrokInv, NEW r \in Requests, RequestDoes(r), Aside
  PROVE  Issued'
<1> USE DEF GrokInv, Issued
<1>1. CASE Idles(r)
  BY <1>1, SerialAssumption, AbsentAssumption, RequestTypes
  DEF Idles, RequestMoves, Becomes, Aside, SameFile, SameTokens, GrokTypeOK, Known, Handed, Private,
      AnswerPrivate, LetsGo, PendingIs, Tokens, Pending, Serials, Saving, LetsGo, Keepers
<1>2. CASE Judges(r)
  BY <1>2, SerialAssumption, AbsentAssumption, RequestTypes
  DEF Judges, RequestMoves, Becomes, Aside, SameFile, SameTokens, GrokTypeOK, Known, Handed, Private,
      AnswerPrivate, LetsGo, PendingIs, Tokens, Pending, Serials, Saving, LetsGo, Keepers
<1>3. CASE Takes(r)
  BY <1>3, SerialAssumption, AbsentAssumption, RequestTypes
  DEF Takes, RequestMoves, Becomes, Aside, SameFile, SameTokens, GrokTypeOK, Known, Handed, Private,
      AnswerPrivate, LetsGo, PendingIs, Tokens, Pending, Serials, Saving, LetsGo, Keepers
<1>4. CASE Finds(r)
  BY <1>4, SerialAssumption, AbsentAssumption, RequestTypes
  DEF Finds, RequestMoves, Becomes, Aside, SameFile, SameTokens, GrokTypeOK, Known, Handed, Private,
      AnswerPrivate, LetsGo, PendingIs, Tokens, Pending, Serials, Saving, LetsGo, Keepers
<1>5. CASE Mends(r)
  BY <1>5, SerialAssumption, AbsentAssumption, RequestTypes
  DEF Mends, RequestMoves, Becomes, Aside, SameFile, SameTokens, GrokTypeOK, Known, Handed, Private,
      AnswerPrivate, LetsGo, PendingIs, Tokens, Pending, Serials, Saving, LetsGo, Keepers
<1>6. CASE Presents(r)
  BY <1>6, SerialAssumption, AbsentAssumption, RequestTypes
  DEF Presents, RequestMoves, Becomes, Aside, SameFile, SameTokens, GrokTypeOK, Known, Handed, Private,
      AnswerPrivate, LetsGo, PendingIs, Tokens, Pending, Serials, Saving, LetsGo, Keepers
<1>7. CASE Leaves(r)
  BY <1>7, SerialAssumption, AbsentAssumption, RequestTypes
  DEF Leaves, RequestMoves, Becomes, Aside, SameFile, SameTokens, GrokTypeOK, Known, Handed, Private,
      AnswerPrivate, LetsGo, PendingIs, Tokens, Pending, Serials, Saving, LetsGo, Keepers
<1>8. CASE Exchanges(r)
  <2>1. GrokTypeOK /\ req[r].cred # Absent
    BY <1>8 DEF Handed, Exchanges
  <2>2. req[r].cred \in Serials
    BY <2>1, RequestTypes DEF Tokens
  <2>3. req[r].cred <= issued /\ issued \in Nat /\ \A c \in Tokens : Known(c) => Known(c)'
    BY <1>8, <2>1, <2>2, RequestTypes, AbsentAssumption DEF Known, Exchanges, Tokens, Serials
  <2>4. ASSUME NEW c \in exchanged'
        PROVE  c <= issued'
    <3>1. c \in Serials /\ c <= issued
      BY <1>8, <2>1, <2>2, <2>3 DEF Exchanges, GrokTypeOK
    <3>2. issued' = issued + 1
      BY <1>8 DEF Exchanges
    <3> QED BY <2>3, <3>1, <3>2 DEF Serials
  <2>5. Known(disk)' /\ Known(newest)' /\ (volatile' # Absent => volatile'.cred <= issued')
    BY <1>8, <2>1, <2>3 DEF GrokTypeOK, Known, Exchanges, SameFile, Pending, Tokens, Serials
  <2>6. (\A q \in Requests : Known(req[q].cred))'
    BY <1>8, <2>1, <2>3, RequestTypes DEF Known, Exchanges, RequestMoves, Becomes, Serials
  <2>7. (\A f \in Flows : Known(poller[f].cred))'
    BY <1>8, <2>1, <2>3 DEF GrokTypeOK, PollerRecords, Aside, Tokens
  <2> QED BY <2>4, <2>5, <2>6, <2>7 DEF Issued, Known
<1>9. CASE Refused(r)
  BY <1>9, SerialAssumption, AbsentAssumption, RequestTypes
  DEF Refused, RequestMoves, Becomes, Aside, SameFile, SameTokens, GrokTypeOK, Known, Handed, Private,
      AnswerPrivate, LetsGo, PendingIs, Tokens, Pending, Serials, Saving, LetsGo, Keepers
<1>10. CASE RequestSaves(r)
  BY <1>10, SerialAssumption, AbsentAssumption, RequestTypes
  DEF RequestSaves, RequestMoves, Becomes, Aside, SameFile, SameTokens, GrokTypeOK, Known, Handed, Private,
      AnswerPrivate, LetsGo, PendingIs, Tokens, Pending, Serials, Saving, LetsGo, Keepers
<1> QED BY <1>1, <1>2, <1>3, <1>4, <1>5, <1>6, <1>7, <1>8, <1>9, <1>10 DEF RequestDoes

(* What is not saved yet stays in one place, where no reader has seen it. *)
LEMMA RequestKeepsPrivate ==
  ASSUME GrokInv, NEW r \in Requests, RequestDoes(r), Aside
  PROVE  Private'
<1> USE AbsentAssumption, KeepersAssumption, RequestTypes
    DEF RequestMoves, Becomes, Aside, SameFile, SameTokens, GrokInv, OneKeeper, Issued, Known, Private,
    LoginPrivate, AnswerPrivate, Unread, Carrying, PendingIs, Holding, Saving, LetsGo
<1>1. CASE Idles(r)
  <2>0. volatile # Absent => volatile.cred # Absent
    BY DEF GrokTypeOK, Pending, Serials
  <2>1. (\A f \in Flows : Carrying(f) => LoginPrivate(f))'
    BY <1>1, <2>0 DEF Idles
  <2>2. (\A q \in Requests : req[q].stage \in Saving => AnswerPrivate(q))'
    BY <1>1, <2>0 DEF Idles
  <2>3. (volatile # Absent => Unread(volatile.cred))'
    BY <1>1, <2>0 DEF Idles
  <2>4. (\A q \in Requests : req[q].stage = "mend" => req[q].cred # Absent /\ Unread(req[q].cred))'
    BY <1>1, <2>0 DEF Idles
  <2> QED BY <2>1, <2>2, <2>3, <2>4 DEF Private
<1>2. CASE Judges(r)
  BY <1>2 DEF Judges
<1>3. CASE Takes(r)
  BY <1>3 DEF Takes
<1>4. CASE Finds(r)
  <2>0. volatile # Absent => volatile.cred # Absent
    BY DEF GrokTypeOK, Pending, Serials
  <2>1. (\A f \in Flows : Carrying(f) => LoginPrivate(f))'
    BY <1>4, <2>0 DEF Finds
  <2>2. (\A q \in Requests : req[q].stage \in Saving => AnswerPrivate(q))'
    BY <1>4, <2>0 DEF Finds
  <2>3. (volatile # Absent => Unread(volatile.cred))'
    BY <1>4, <2>0 DEF Finds
  <2>4. (\A q \in Requests : req[q].stage = "mend" => req[q].cred # Absent /\ Unread(req[q].cred))'
    BY <1>4, <2>0 DEF Finds
  <2> QED BY <2>1, <2>2, <2>3, <2>4 DEF Private
<1>5. CASE Mends(r)
  BY <1>5 DEF Mends
<1>6. CASE Presents(r)
  BY <1>6 DEF Presents
<1>7. CASE Leaves(r)
  BY <1>7 DEF Leaves
<1>8. CASE Exchanges(r)
  BY <1>8 DEF Exchanges
<1>9. CASE Refused(r)
  BY <1>9 DEF Refused
<1>10. CASE RequestSaves(r)
  BY <1>10 DEF RequestSaves
<1> QED BY <1>1, <1>2, <1>3, <1>4, <1>5, <1>6, <1>7, <1>8, <1>9, <1>10 DEF RequestDoes

(* The holder of the lock has the newest credential in hand. *)
LEMMA RequestKeepsHanded ==
  ASSUME GrokInv, NEW r \in Requests, RequestDoes(r), Aside
  PROVE  Handed'
<1> USE AbsentAssumption, KeepersAssumption, RequestTypes
    DEF RequestMoves, Becomes, Aside, SameFile, SameTokens, GrokInv, OneKeeper, Issued, Known, Private,
    Handed, AnswerPrivate, Unread, PendingIs, BeingSaved, Kept, Holding, Saving, LetsGo
<1>1. CASE Idles(r)
  BY <1>1 DEF Idles
<1>2. CASE Judges(r)
  BY <1>2 DEF Judges
<1>3. CASE Takes(r)
  BY <1>3 DEF Takes
<1>4. CASE Finds(r)
  BY <1>4 DEF Finds
<1>5. CASE Mends(r)
  BY <1>5 DEF Mends
<1>6. CASE Presents(r)
  BY <1>6 DEF Presents
<1>7. CASE Leaves(r)
  BY <1>7 DEF Leaves
<1>8. CASE Exchanges(r)
  BY <1>8 DEF Exchanges
<1>9. CASE Refused(r)
  BY <1>9 DEF Refused
<1>10. CASE RequestSaves(r)
  BY <1>10 DEF RequestSaves
<1> QED BY <1>1, <1>2, <1>3, <1>4, <1>5, <1>6, <1>7, <1>8, <1>9, <1>10 DEF RequestDoes

(* The newest credential is not mislaid. *)
LEMMA RequestKeepsKept ==
  ASSUME GrokInv, NEW r \in Requests, RequestDoes(r), Aside
  PROVE  Kept'
<1> USE AbsentAssumption, KeepersAssumption, RequestTypes
    DEF RequestMoves, Becomes, Aside, SameFile, SameTokens, GrokInv, OneKeeper, Handed, Private, Unread,
    PendingIs, BeingSaved, Kept, Holding, Saving, LetsGo
<1>1. CASE Idles(r)
  BY <1>1 DEF Idles
<1>2. CASE Judges(r)
  BY <1>2 DEF Judges
<1>3. CASE Takes(r)
  BY <1>3 DEF Takes
<1>4. CASE Finds(r)
  BY <1>4 DEF Finds
<1>5. CASE Mends(r)
  BY <1>5 DEF Mends
<1>6. CASE Presents(r)
  BY <1>6 DEF Presents
<1>7. CASE Leaves(r)
  BY <1>7 DEF Leaves
<1>8. CASE Exchanges(r)
  BY <1>8 DEF Exchanges
<1>9. CASE Refused(r)
  BY <1>9 DEF Refused
<1>10. CASE RequestSaves(r)
  BY <1>10 DEF RequestSaves
<1> QED BY <1>1, <1>2, <1>3, <1>4, <1>5, <1>6, <1>7, <1>8, <1>9, <1>10 DEF RequestDoes

(* No handler of a login or a logout is concerned. *)
LEMMA RequestKeepsFiled ==
  ASSUME GrokInv, Aside
  PROVE  OneStarter' /\ Filed'
BY DEF GrokInv, Aside, OneStarter, Filed, Unaborted

(* So a step of a request keeps the invariant. *)
LEMMA RequestKeeps ==
  ASSUME GrokInv, NEW r \in Requests, RequestStep(r)
  PROVE  GrokInv'
<1>1. RequestDoes(r) /\ Aside
  BY RequestsDo
<1> QED
  BY <1>1, RequestKeepsTypes, RequestKeepsKeeper, RequestKeepsSignedOut, RequestKeepsIssued,
     RequestKeepsPrivate, RequestKeepsHanded, RequestKeepsKept, RequestKeepsFiled
  DEF GrokInv

-----------------------------------------------------------------------------
(* What a step of a device login does.                                     *)

(* Of the tasks q only that of f differs in n: it is at s, with c.         *)
PollBecomes(q, f, n, s, c, aborted) ==
  /\ n \in [Flows -> PollerRecords]
  /\ n[f].stage = s /\ n[f].cred = c /\ n[f].aborted = aborted
  /\ \A o \in Flows : o # f => n[o] = q[o]

SetTask(q, f, s) == [q EXCEPT ![f].stage = s]
SetToken(q, f, c) == [q EXCEPT ![f].cred = c]
SetFound(q, f, c) == [q EXCEPT ![f].stale = c]
SetTurns(q, f, n) == [q EXCEPT ![f].tries = n]
SetAborted(q, f) == [q EXCEPT ![f].aborted = TRUE]

Tasks == {"none", "polling", "claim", "queue", "store", "again", "rotate", "finish", "done"}

(* A field is set. *)
LEMMA TaskFieldSet ==
  ASSUME NEW q \in [Flows -> PollerRecords], NEW f \in Flows
  PROVE  /\ \A s \in Tasks : PollBecomes(q, f, SetTask(q, f, s), s, q[f].cred, q[f].aborted)
         /\ \A c \in Tokens : PollBecomes(q, f, SetToken(q, f, c), q[f].stage, c, q[f].aborted)
         /\ \A c \in Tokens : PollBecomes(q, f, SetFound(q, f, c), q[f].stage, q[f].cred, q[f].aborted)
         /\ \A n \in Nat : PollBecomes(q, f, SetTurns(q, f, n), q[f].stage, q[f].cred, q[f].aborted)
         /\ PollBecomes(q, f, SetAborted(q, f), q[f].stage, q[f].cred, TRUE)
BY DEF PollerRecords, Tasks, Tokens, PollBecomes, SetTask, SetToken, SetFound, SetTurns, SetAborted

(* One change and then another. *)
LEMMA ThenPolls ==
  ASSUME NEW q, NEW f, NEW n, NEW m, NEW s, NEW c, NEW a, NEW t, NEW d, NEW b,
         PollBecomes(q, f, n, s, c, a), PollBecomes(n, f, m, t, d, b)
  PROVE  PollBecomes(q, f, m, t, d, b)
BY DEF PollBecomes

(* A field is set of a task that has changed already. *)
LEMMA AlsoSet ==
  ASSUME NEW q, NEW n, NEW f \in Flows, NEW s, NEW c, NEW a, PollBecomes(q, f, n, s, c, a)
  PROVE  /\ \A t \in Tasks : PollBecomes(q, f, SetTask(n, f, t), t, c, a)
         /\ \A d \in Tokens : PollBecomes(q, f, SetToken(n, f, d), s, d, a)
         /\ \A d \in Tokens : PollBecomes(q, f, SetFound(n, f, d), s, c, a)
         /\ \A k \in Nat : PollBecomes(q, f, SetTurns(n, f, k), s, c, a)
<1>1. n \in [Flows -> PollerRecords] /\ n[f].stage = s /\ n[f].cred = c /\ n[f].aborted = a
  BY DEF PollBecomes
<1>2. /\ \A t \in Tasks : PollBecomes(n, f, SetTask(n, f, t), t, c, a)
      /\ \A d \in Tokens : PollBecomes(n, f, SetToken(n, f, d), s, d, a)
      /\ \A d \in Tokens : PollBecomes(n, f, SetFound(n, f, d), s, c, a)
      /\ \A k \in Nat : PollBecomes(n, f, SetTurns(n, f, k), s, c, a)
  BY <1>1, TaskFieldSet
<1> QED BY <1>2, ThenPolls

(* A task that has saved its credential has it no more. *)
LEMMA TaskReset ==
  ASSUME NEW q \in [Flows -> PollerRecords], NEW f \in Flows
  PROVE  PollBecomes(q, f, [q EXCEPT ![f] = [NoPoller EXCEPT !.stage = "rotate"]], "rotate", Absent, FALSE)
<1>1. LET x == [NoPoller EXCEPT !.stage = "rotate"]
      IN  x \in PollerRecords /\ x.stage = "rotate" /\ x.cred = Absent /\ x.aborted = FALSE
  BY DEF NoPoller, PollerRecords
<1>2. ASSUME NEW x \in PollerRecords
      PROVE  PollBecomes(q, f, [q EXCEPT ![f] = x], x.stage, x.cred, x.aborted)
  BY DEF PollBecomes
<1> QED BY <1>1, <1>2

Polls(f, s, c, aborted) == PollBecomes(poller, f, poller', s, c, aborted)
StaysAt(f, s) == Polls(f, s, poller[f].cred, poller[f].aborted)

(* No request, no logout; no handler; nothing of the lock. *)
Apart == UNCHANGED <<aged, req, leaving>>
SameHandlers == UNCHANGED <<starter, handler>>
SameSession == UNCHANGED <<session, signedOut>>

(* abort() reaches the task that was filed: it ends where it awaits.       *)
Aborts ==
  \/ authFlow.phase # "polling" /\ UNCHANGED <<poller, keeper, lost>>
  \/ \E g \in Flows :
       /\ authFlow.phase = "polling" /\ authFlow.abort = g
       /\ IF poller[g].stage \in Awaiting
          THEN /\ Polls(g, "done", poller[g].cred, TRUE)
               /\ keeper' = IF keeper = g THEN Absent ELSE keeper
               /\ lost' = IF poller[g].stage = "polling" THEN lost ELSE lost \cup {poller[g].cred}
          ELSE /\ Polls(g, poller[g].stage, poller[g].cred, TRUE)
               /\ UNCHANGED <<keeper, lost>>

(* AuthFlowState after the step. *)
FlowIs(g, phase, abort) == authFlow' = [generation |-> g, phase |-> phase, abort |-> abort]

Begins(f) ==
  /\ handler[f] = "new" /\ handler' = [handler EXCEPT ![f] = "ask"]
  /\ starter = Absent /\ starter' = f
  /\ Aborts
  /\ FlowIs(f, "starting", Absent)
  /\ SameTokens /\ SameFile /\ SameSession

(* The challenge is there, and the task that polls.                        *)
Shows(f) ==
  /\ handler[f] = "ask" /\ handler' = [handler EXCEPT ![f] = "register"]
  /\ poller[f].stage = "none" /\ Polls(f, "polling", Absent, FALSE)
  /\ SameTokens /\ SameFile /\ SameSession /\ UNCHANGED <<starter, authFlow, keeper, lost>>

(* The handler ends: without a challenge, with the task filed, or dropped. *)
Handles(f) ==
  /\ \/ /\ handler[f] = "ask" /\ handler' = [handler EXCEPT ![f] = "done"]
        /\ UNCHANGED authFlow \/ FlowIs(authFlow.generation, "failed", authFlow.abort)
     \/ /\ handler[f] = "register" /\ handler' = [handler EXCEPT ![f] = "done"]
        /\ IF authFlow.generation = f /\ authFlow.phase = "starting"
           THEN FlowIs(f, "polling", f) ELSE UNCHANGED authFlow
     \/ /\ handler[f] = "register" /\ handler' = [handler EXCEPT ![f] = "left"]
        /\ UNCHANGED authFlow
  /\ starter' = Absent
  /\ SameTokens /\ SameFile /\ SameSession /\ UNCHANGED <<poller, keeper, lost>>

Approved(f) ==
  /\ poller[f].stage = "polling" /\ Polls(f, "claim", issued', poller[f].aborted)
  /\ issued' = issued + 1 /\ issued' \in Serials
  /\ signedOut' = FALSE
  /\ SameHandlers /\ SameFile /\ UNCHANGED <<exchanged, newest, authFlow, session, keeper, lost>>

(* The task ends without a credential. *)
Closes(f, phase) ==
  IF authFlow.generation = f THEN FlowIs(f, phase, Absent) ELSE UNCHANGED authFlow

Stops(f) ==
  /\ poller[f].stage \in {"polling", "claim", "queue"} /\ StaysAt(f, "done")
  /\ Closes(f, "failed")
  /\ SameHandlers /\ SameTokens /\ SameFile /\ SameSession /\ UNCHANGED <<keeper, lost>>

Claims(f) ==
  /\ poller[f].stage \in {"claim", "queue"} /\ StaysAt(f, "store")
  /\ keeper = Absent /\ keeper' = f
  /\ newest' = poller[f].cred
  /\ signedOut' = (signedOut /\ ~ poller[f].aborted /\ handler[f] # "left")
  /\ SameHandlers /\ SameFile /\ UNCHANGED <<issued, exchanged, authFlow, session, lost>>

(* It waits: for the lock, or between two attempts to save.                *)
FlowWaits(f) ==
  /\ \/ poller[f].stage = "claim" /\ (StaysAt(f, "queue") \/ StaysAt(f, "done"))
     \/ poller[f].stage \in Saving /\ \E s \in Saving : StaysAt(f, s)
  /\ SameHandlers /\ SameTokens /\ SameFile /\ SameSession /\ UNCHANGED <<authFlow, keeper, lost>>

(* The credential is saved, kept pending, or dropped with its task.        *)
Stores(f) ==
  /\ poller[f].stage = "store"
  /\ \/ /\ Polls(f, "rotate", Absent, FALSE)
        /\ \/ disk' = poller[f].cred /\ volatile' = Absent
           \/ disk' = disk /\ volatile' \in Pending /\ volatile'.cred = poller[f].cred
        /\ UNCHANGED <<keeper, lost>>
     \/ /\ StaysAt(f, "done") /\ keeper' = Absent /\ lost' = lost \cup {poller[f].cred}
        /\ SameFile
  /\ SameHandlers /\ SameTokens /\ SameSession /\ UNCHANGED authFlow

Ends(f) ==
  /\ \/ /\ poller[f].stage = "rotate" /\ StaysAt(f, "finish") /\ keeper' = Absent
        /\ session' \in [epoch : Nat, enabled : BOOLEAN] /\ UNCHANGED authFlow
     \/ /\ poller[f].stage = "finish" /\ StaysAt(f, "done") /\ Closes(f, "idle")
        /\ UNCHANGED <<keeper, session>>
  /\ SameHandlers /\ SameTokens /\ SameFile /\ UNCHANGED <<lost, signedOut>>

LoginDoes(f) ==
  \/ Begins(f) \/ Shows(f) \/ Handles(f) \/ Approved(f) \/ Stops(f)
  \/ Claims(f) \/ FlowWaits(f) \/ Stores(f) \/ Ends(f)

(* Fields of tasks are of their types. *)
LEMMA TaskTypes ==
  ASSUME GrokTypeOK, NEW f \in Flows
  PROVE  /\ poller \in [Flows -> PollerRecords]
         /\ poller[f].cred \in Tokens /\ poller[f].stale \in Tokens /\ poller[f].tries \in Nat
         /\ poller[f].stage \in Tasks /\ poller[f].aborted \in BOOLEAN
         /\ issued \in Nat /\ session.epoch \in Nat
BY DEF GrokTypeOK, PollerRecords, Tokens, Tasks, Serials

(* A move of its stage alone. *)
LEMMA TaskMoves ==
  ASSUME GrokTypeOK, NEW f \in Flows, NEW s \in Tasks, poller' = [poller EXCEPT ![f].stage = s]
  PROVE  StaysAt(f, s)
<1>1. poller' = SetTask(poller, f, s)
  BY DEF SetTask
<1>2. PollBecomes(poller, f, SetTask(poller, f, s), s, poller[f].cred, poller[f].aborted)
  BY TaskTypes, TaskFieldSet
<1> QED BY <1>1, <1>2 DEF StaysAt, Polls

(* Fields of AuthFlowState are set. *)
LEMMA FlowSet ==
  ASSUME GrokTypeOK, NEW p, NEW a
  PROVE  /\ [authFlow EXCEPT !.phase = p] =
              [generation |-> authFlow.generation, phase |-> p, abort |-> authFlow.abort]
         /\ [authFlow EXCEPT !.phase = p, !.abort = a] =
              [generation |-> authFlow.generation, phase |-> p, abort |-> a]
<1> DEFINE before == [authFlow EXCEPT !.phase = p]
           after == [generation |-> authFlow.generation, phase |-> p, abort |-> authFlow.abort]
           both == [authFlow EXCEPT !.phase = p, !.abort = a]
           filed == [generation |-> authFlow.generation, phase |-> p, abort |-> a]
<1>1. authFlow = [x \in {"generation", "phase", "abort"} |-> authFlow[x]]
  BY DEF GrokTypeOK
<1>2. before = after
  BY <1>1
<1>3. both = [after EXCEPT !.abort = a]
  BY <1>2
<1>4. both = filed
  BY <1>3
<1> QED BY <1>2, <1>4

(* AbortPrevious does this. *)
LEMMA AbortsDoes ==
  ASSUME GrokInv, AbortPrevious
  PROVE  Aborts
<1>1. CASE authFlow.phase # "polling"
  BY <1>1 DEF AbortPrevious, Aborts
<1>2. CASE authFlow.phase = "polling"
  <2> DEFINE g == authFlow.abort
             s == IF poller[g].stage \in Awaiting THEN "done" ELSE poller[g].stage
             q == SetAborted(poller, g)
  <2>1. g \in Flows /\ GrokTypeOK
    BY <1>2 DEF GrokInv, Filed
  <2>2. PollBecomes(poller, g, q, poller[g].stage, poller[g].cred, TRUE) /\ poller[g].stage \in Tasks
    BY <2>1, TaskTypes, TaskFieldSet
  <2>3. poller' = SetTask(q, g, s)
    BY <1>2, <2>1, TaskTypes DEF AbortPrevious, SetAborted, SetTask, PollerRecords
  <2> HIDE DEF q
  <2>4. s \in Tasks
    BY <2>2 DEF Tasks
  <2> HIDE DEF s
  <2>5. PollBecomes(poller, g, SetTask(q, g, s), s, poller[g].cred, TRUE)
    BY <2>1, <2>2, <2>4, AlsoSet
  <2>6. Polls(g, s, poller[g].cred, TRUE)
    BY <2>3, <2>5 DEF Polls
  <2>7. /\ keeper' = IF keeper = g /\ poller[g].stage \in Awaiting THEN Absent ELSE keeper
        /\ lost' = IF poller[g].stage \in Awaiting \ {"polling"} THEN lost \cup {poller[g].cred} ELSE lost
    BY <1>2 DEF AbortPrevious
  <2>8. \/ poller[g].stage \in Awaiting /\ s = "done"
        \/ poller[g].stage \notin Awaiting /\ s = poller[g].stage
    BY DEF s
  <2> HIDE DEF g
  <2>9. authFlow.abort = g
    BY DEF g
  <2> QED BY <1>2, <2>1, <2>6, <2>7, <2>8, <2>9 DEF Aborts, Awaiting
<1> QED BY <1>1, <1>2

(* What a login remembers is a pending credential. *)
LEMMA LoginRemembers ==
  ASSUME GrokTypeOK, NEW f \in Flows, poller[f].cred # Absent, Remember(poller[f].cred, poller[f].stale)
  PROVE  volatile' \in Pending /\ volatile'.cred = poller[f].cred
<1>1. poller[f].cred \in Serials /\ poller[f].stale \in Serials \cup {Absent}
  BY TaskTypes DEF Tokens
<1> QED BY <1>1 DEF Remember, Pending

(* Each action of a login does one of these. *)
LEMMA HandlesDoes ==
  ASSUME GrokInv, NEW f \in Flows,
         BeginLogin(f) \/ LoginFails(f) \/ Challenge(f) \/ Register(f) \/ LeaveUnfiled(f)
  PROVE  Begins(f) \/ Shows(f) \/ Handles(f)
<1>1. CASE BeginLogin(f)
  BY <1>1, AbortsDoes
  DEF BeginLogin, Begins, FlowIs, SameTokens, SameFile, SameSession, provider, stored
<1>2. CASE LoginFails(f)
  BY <1>2, FlowSet
  DEF LoginFails, Handles, FlowIs, GrokInv, SameTokens, SameFile, SameSession, provider, stored, history
<1>3. CASE Challenge(f)
  <2>1. StaysAt(f, "polling")
    BY <1>3, TaskMoves DEF Challenge, Tasks, GrokInv
  <2>2. poller[f] = NoPoller
    BY <1>3 DEF Challenge, GrokInv, Filed
  <2>3. poller[f].stage = "none" /\ poller[f].cred = Absent /\ poller[f].aborted = FALSE
    BY <2>2 DEF NoPoller
  <2>4. Polls(f, "polling", Absent, FALSE)
    BY <2>1, <2>3 DEF StaysAt
  <2> QED BY <1>3, <2>3, <2>4
  DEF Challenge, Shows, SameTokens, SameFile, SameSession, provider, stored, history
<1>4. CASE Register(f)
  BY <1>4, FlowSet
  DEF Register, Handles, FlowIs, GrokInv, SameTokens, SameFile, SameSession, provider, stored, history
<1>5. CASE LeaveUnfiled(f)
  BY <1>5 DEF LeaveUnfiled, Handles, SameTokens, SameFile, SameSession, provider, stored, history
<1> QED BY <1>1, <1>2, <1>3, <1>4, <1>5

(* PollApproved, PollFails, QueueForLock, OpenSession, FinishLogin *)
LEMMA TasksDo ==
  ASSUME GrokInv, NEW f \in Flows,
         PollApproved(f) \/ PollFails(f) \/ QueueForLock(f) \/ OpenSession(f) \/ FinishLogin(f)
  PROVE  Approved(f) \/ Stops(f) \/ FlowWaits(f) \/ Ends(f)
<1> USE DEF GrokInv
<1>1. CASE PollApproved(f)
  <2> DEFINE q == SetTask(poller, f, "claim")
  <2>1. issued' = issued + 1 /\ issued' \in Serials
    BY <1>1, SerialAssumption DEF PollApproved, GrokTypeOK, Serials
  <2>2. poller' = SetToken(q, f, issued')
    BY <1>1, <2>1 DEF PollApproved, SetTask, SetToken
  <2>3. PollBecomes(poller, f, q, "claim", poller[f].cred, poller[f].aborted)
    BY TaskTypes, TaskFieldSet DEF Tasks
  <2> HIDE DEF q
  <2>4. PollBecomes(poller, f, SetToken(q, f, issued'), "claim", issued', poller[f].aborted)
    BY <2>1, <2>3, AlsoSet DEF Tokens
  <2>5. Polls(f, "claim", issued', poller[f].aborted)
    BY <2>2, <2>4 DEF Polls
  <2> QED BY <1>1, <2>1, <2>5 DEF PollApproved, Approved, SameHandlers, SameFile, stored
<1>2. CASE PollFails(f)
  <2>1. StaysAt(f, "done")
    BY <1>2, TaskMoves DEF PollFails, Tasks
  <2> QED BY <1>2, <2>1, FlowSet
  DEF PollFails, Stops, Closes, FlowIs, SameHandlers, SameTokens, SameFile, SameSession, provider,
       stored, history
<1>3. CASE QueueForLock(f)
  <2>1. StaysAt(f, "queue") \/ StaysAt(f, "done")
    BY <1>3, TaskMoves DEF QueueForLock, Tasks
  <2> QED BY <1>3, <2>1
  DEF QueueForLock, FlowWaits, SameHandlers, SameTokens, SameFile, SameSession, provider, stored, history
<1>4. CASE OpenSession(f)
  <2>1. StaysAt(f, "finish")
    BY <1>4, TaskMoves DEF OpenSession, Tasks
  <2>2. session' \in [epoch : Nat, enabled : BOOLEAN]
    BY <1>4, TaskTypes DEF OpenSession, Rotated
  <2> QED BY <1>4, <2>1, <2>2
  DEF OpenSession, Ends, SameHandlers, SameTokens, SameFile, provider, stored, history
<1>5. CASE FinishLogin(f)
  <2>1. StaysAt(f, "done")
    BY <1>5, TaskMoves DEF FinishLogin, Tasks
  <2> QED BY <1>5, <2>1, FlowSet
  DEF FinishLogin, Ends, Closes, FlowIs, SameHandlers, SameTokens, SameFile, provider, stored, history
<1> QED BY <1>1, <1>2, <1>3, <1>4, <1>5

(* ClaimLock, SaveLogin, SaveLoginFails, RetryLogin *)
LEMMA LoginSaves ==
  ASSUME GrokInv, NEW f \in Flows,
         ClaimLock(f) \/ SaveLogin(f) \/ SaveLoginFails(f) \/ RetryLogin(f)
  PROVE  Claims(f) \/ Stores(f) \/ FlowWaits(f)
<1>0. GrokTypeOK /\ (poller[f].stage \in Saving => poller[f].cred # Absent)
  BY DEF GrokInv, Private, Carrying, LoginPrivate
<1>1. CASE ClaimLock(f)
  <2>1. PICK read \in Readings :
          poller' = [poller EXCEPT ![f].stage = "store", ![f].stale = read, ![f].tries = 1]
    BY <1>1 DEF ClaimLock
  <2> DEFINE q1 == SetTask(poller, f, "store")
             q2 == SetFound(q1, f, read)
  <2>2. poller' = SetTurns(q2, f, 1)
    BY <2>1 DEF SetTask, SetFound, SetTurns
  <2>3. PollBecomes(poller, f, q1, "store", poller[f].cred, poller[f].aborted)
    BY <1>0, TaskTypes, TaskFieldSet DEF Tasks
  <2> HIDE DEF q1
  <2>4. PollBecomes(poller, f, q2, "store", poller[f].cred, poller[f].aborted)
    BY <1>0, <2>3, AlsoSet DEF Readings, GrokTypeOK, Tokens
  <2> HIDE DEF q2
  <2>5. PollBecomes(poller, f, SetTurns(q2, f, 1), "store", poller[f].cred, poller[f].aborted)
    BY <2>4, AlsoSet
  <2>6. StaysAt(f, "store")
    BY <2>2, <2>5 DEF StaysAt, Polls
  <2>7. /\ poller[f].stage \in {"claim", "queue"} /\ keeper = Absent /\ keeper' = f /\ newest' = poller[f].cred
        /\ signedOut' = (signedOut /\ ~ poller[f].aborted /\ handler[f] # "left")
        /\ SameHandlers /\ SameFile /\ UNCHANGED <<issued, exchanged, authFlow, session, lost>>
    BY <1>1 DEF ClaimLock, SameHandlers, SameFile, provider, stored
  <2> QED BY <2>6, <2>7 DEF Claims
<1>2. CASE SaveLogin(f)
  <2>1. Polls(f, "rotate", Absent, FALSE)
    BY <1>0, <1>2, TaskTypes, TaskReset DEF SaveLogin, Polls
  <2> QED BY <1>2, <2>1 DEF SaveLogin, Stores, SameHandlers, SameTokens, SameSession, provider, history
<1>3. CASE SaveLoginFails(f) /\ poller[f].tries = Attempts
  <2>1. Polls(f, "rotate", Absent, FALSE)
    BY <1>0, <1>3, TaskTypes, TaskReset DEF SaveLoginFails, Polls
  <2>2. volatile' \in Pending /\ volatile'.cred = poller[f].cred
    BY <1>0, <1>3, LoginRemembers DEF SaveLoginFails, Saving
  <2> QED BY <1>3, <2>1, <2>2
  DEF SaveLoginFails, Stores, SameHandlers, SameTokens, SameSession, provider
<1>4. CASE SaveLoginFails(f) /\ poller[f].tries # Attempts /\ poller[f].aborted
  <2>1. StaysAt(f, "done")
    BY <1>0, <1>4, TaskMoves DEF SaveLoginFails, Tasks
  <2> QED BY <1>4, <2>1
  DEF SaveLoginFails, Stores, SameHandlers, SameTokens, SameFile, SameSession, provider
<1>5. CASE SaveLoginFails(f) /\ poller[f].tries # Attempts /\ ~ poller[f].aborted
  <2>1. StaysAt(f, "again")
    BY <1>0, <1>5, TaskMoves DEF SaveLoginFails, Tasks
  <2> QED BY <1>5, <2>1
  DEF SaveLoginFails, FlowWaits, Saving, SameHandlers, SameTokens, SameFile, SameSession, provider
<1>6. CASE RetryLogin(f)
  <2> DEFINE q == SetTask(poller, f, "store")
  <2>1. poller' = SetTurns(q, f, poller[f].tries + 1)
    BY <1>0, <1>6, TaskTypes DEF RetryLogin, SetTask, SetTurns
  <2>2. PollBecomes(poller, f, q, "store", poller[f].cred, poller[f].aborted)
    BY <1>0, TaskTypes, TaskFieldSet DEF Tasks
  <2> HIDE DEF q
  <2> DEFINE turns == poller[f].tries + 1
  <2>5. turns \in Nat
    BY <1>0, TaskTypes
  <2> HIDE DEF turns
  <2>3. PollBecomes(poller, f, SetTurns(q, f, turns), "store", poller[f].cred, poller[f].aborted)
    BY <2>2, <2>5, AlsoSet
  <2>4. StaysAt(f, "store")
    BY <2>1, <2>3 DEF StaysAt, Polls, turns
  <2> QED BY <1>6, <2>4
  DEF RetryLogin, FlowWaits, Saving, SameHandlers, SameTokens, SameFile, SameSession, provider, stored,
       history
<1> QED BY <1>1, <1>2, <1>3, <1>4, <1>5, <1>6

(* Together. *)
LEMMA LoginsDo ==
  ASSUME GrokInv, NEW f \in Flows, LoginStep(f)
  PROVE  LoginDoes(f) /\ Apart
<1>1. Apart
  <2>1. CASE BeginLogin(f) \/ LoginFails(f) \/ Challenge(f) \/ Register(f) \/ LeaveUnfiled(f)
    BY <2>1 DEF BeginLogin, LoginFails, Challenge, Register, LeaveUnfiled, Apart, provider
  <2>2. CASE PollApproved(f) \/ PollFails(f) \/ ClaimLock(f) \/ QueueForLock(f) \/ SaveLogin(f)
    BY <2>2 DEF PollApproved, PollFails, ClaimLock, QueueForLock, SaveLogin, Apart, provider
  <2>3. CASE SaveLoginFails(f) \/ RetryLogin(f) \/ OpenSession(f) \/ FinishLogin(f)
    BY <2>3 DEF SaveLoginFails, RetryLogin, OpenSession, FinishLogin, Apart, provider
  <2> QED BY <2>1, <2>2, <2>3 DEF LoginStep
<1>2. LoginDoes(f)
  BY HandlesDoes, TasksDo, LoginSaves DEF LoginStep, LoginDoes
<1> QED BY <1>1, <1>2

(* GrokTypeOK in six parts. *)
StoreTypes ==
  /\ issued \in Serials /\ exchanged \subseteq Serials /\ aged \in Nat
  /\ disk \in Serials \cup {Absent} /\ volatile \in Pending \cup {Absent}
LockTypes ==
  /\ session \in [epoch : Nat, enabled : BOOLEAN]
  /\ keeper \in Keepers \cup {Absent} /\ starter \in Flows \cup Logouts \cup {Absent}
FlowTypes ==
  authFlow \in [generation : Keepers \cup {Absent}, abort : Flows \cup {Absent},
               phase : {"idle", "starting", "polling", "failed"}]
CallTypes ==
  /\ req \in [Requests -> RequestRecords]
  /\ handler \in [Flows -> {"new", "ask", "register", "left", "done"}]
PollerTypes == poller \in [Flows -> PollerRecords]
LeaveTypes ==
  /\ leaving \in [Logouts -> {"new", "lock", "remove", "done"}]
  /\ newest \in Serials \cup {Absent} /\ lost \subseteq Serials /\ signedOut \in BOOLEAN

(* The types hold: what a task has to save is a credential. *)
LEMMA LoginKeepsTypes ==
  ASSUME GrokInv, NEW f \in Flows, LoginDoes(f), Apart
  PROVE  GrokTypeOK'
<1> USE SerialAssumption, AbsentAssumption, TaskTypes
    DEF Polls, StaysAt, PollBecomes, Apart, SameHandlers, SameSession, SameFile, SameTokens, GrokInv,
    GrokTypeOK, Filed, Handed, Private, Carrying, LoginPrivate, Tokens, Pending, Saving, Keepers,
    StoreTypes, LockTypes, FlowTypes, CallTypes, PollerTypes, LeaveTypes
<1>1. CASE Begins(f)
  <2>1. StoreTypes'
    BY <1>1 DEF Begins, Aborts, Awaiting, FlowIs
  <2>2. LockTypes'
    BY <1>1 DEF Begins, Aborts, Awaiting, FlowIs
  <2>3. FlowTypes'
    BY <1>1 DEF Begins, Aborts, Awaiting, FlowIs
  <2>4. CallTypes'
    BY <1>1 DEF Begins, Aborts, Awaiting, FlowIs
  <2>5. PollerTypes'
    BY <1>1 DEF Begins, Aborts, Awaiting, FlowIs
  <2>6. LeaveTypes'
    BY <1>1 DEF Begins, Aborts, Awaiting, FlowIs
  <2> QED BY <2>1, <2>2, <2>3, <2>4, <2>5, <2>6 DEF GrokTypeOK
<1>2. CASE Shows(f)
  <2>1. StoreTypes'
    BY <1>2 DEF Shows
  <2>2. LockTypes'
    BY <1>2 DEF Shows
  <2>3. FlowTypes'
    BY <1>2 DEF Shows
  <2>4. CallTypes'
    BY <1>2 DEF Shows
  <2>5. PollerTypes'
    BY <1>2 DEF Shows
  <2>6. LeaveTypes'
    BY <1>2 DEF Shows
  <2> QED BY <2>1, <2>2, <2>3, <2>4, <2>5, <2>6 DEF GrokTypeOK
<1>3. CASE Handles(f)
  <2>1. StoreTypes'
    BY <1>3 DEF Handles, FlowIs
  <2>2. LockTypes'
    BY <1>3 DEF Handles, FlowIs
  <2>3. FlowTypes'
    BY <1>3 DEF Handles, FlowIs
  <2>4. CallTypes'
    BY <1>3 DEF Handles, FlowIs
  <2>5. PollerTypes'
    BY <1>3 DEF Handles, FlowIs
  <2>6. LeaveTypes'
    BY <1>3 DEF Handles, FlowIs
  <2> QED BY <2>1, <2>2, <2>3, <2>4, <2>5, <2>6 DEF GrokTypeOK
<1>4. CASE Approved(f)
  <2>1. StoreTypes'
    BY <1>4 DEF Approved
  <2>2. LockTypes'
    BY <1>4 DEF Approved
  <2>3. FlowTypes'
    BY <1>4 DEF Approved
  <2>4. CallTypes'
    BY <1>4 DEF Approved
  <2>5. PollerTypes'
    BY <1>4 DEF Approved
  <2>6. LeaveTypes'
    BY <1>4 DEF Approved
  <2> QED BY <2>1, <2>2, <2>3, <2>4, <2>5, <2>6 DEF GrokTypeOK
<1>5. CASE Stops(f)
  <2>1. StoreTypes'
    BY <1>5 DEF Stops, Closes, FlowIs
  <2>2. LockTypes'
    BY <1>5 DEF Stops, Closes, FlowIs
  <2>3. FlowTypes'
    BY <1>5 DEF Stops, Closes, FlowIs
  <2>4. CallTypes'
    BY <1>5 DEF Stops, Closes, FlowIs
  <2>5. PollerTypes'
    BY <1>5 DEF Stops, Closes, FlowIs
  <2>6. LeaveTypes'
    BY <1>5 DEF Stops, Closes, FlowIs
  <2> QED BY <2>1, <2>2, <2>3, <2>4, <2>5, <2>6 DEF GrokTypeOK
<1>6. CASE Claims(f)
  <2>1. StoreTypes'
    BY <1>6 DEF Claims
  <2>2. LockTypes'
    BY <1>6 DEF Claims
  <2>3. FlowTypes'
    BY <1>6 DEF Claims
  <2>4. CallTypes'
    BY <1>6 DEF Claims
  <2>5. PollerTypes'
    BY <1>6 DEF Claims
  <2>6. LeaveTypes'
    BY <1>6 DEF Claims
  <2> QED BY <2>1, <2>2, <2>3, <2>4, <2>5, <2>6 DEF GrokTypeOK
<1>7. CASE FlowWaits(f)
  <2>1. StoreTypes'
    BY <1>7 DEF FlowWaits
  <2>2. LockTypes'
    BY <1>7 DEF FlowWaits
  <2>3. FlowTypes'
    BY <1>7 DEF FlowWaits
  <2>4. CallTypes'
    BY <1>7 DEF FlowWaits
  <2>5. PollerTypes'
    BY <1>7 DEF FlowWaits
  <2>6. LeaveTypes'
    BY <1>7 DEF FlowWaits
  <2> QED BY <2>1, <2>2, <2>3, <2>4, <2>5, <2>6 DEF GrokTypeOK
<1>8. CASE Stores(f)
  <2>1. StoreTypes'
    BY <1>8 DEF Stores
  <2>2. LockTypes'
    BY <1>8 DEF Stores
  <2>3. FlowTypes'
    BY <1>8 DEF Stores
  <2>4. CallTypes'
    BY <1>8 DEF Stores
  <2>5. PollerTypes'
    BY <1>8 DEF Stores
  <2>6. LeaveTypes'
    BY <1>8 DEF Stores
  <2> QED BY <2>1, <2>2, <2>3, <2>4, <2>5, <2>6 DEF GrokTypeOK
<1>9. CASE Ends(f)
  <2>1. StoreTypes'
    BY <1>9 DEF Ends, Closes, FlowIs
  <2>2. LockTypes'
    BY <1>9 DEF Ends, Closes, FlowIs
  <2>3. FlowTypes'
    BY <1>9 DEF Ends, Closes, FlowIs
  <2>4. CallTypes'
    BY <1>9 DEF Ends, Closes, FlowIs
  <2>5. PollerTypes'
    BY <1>9 DEF Ends, Closes, FlowIs
  <2>6. LeaveTypes'
    BY <1>9 DEF Ends, Closes, FlowIs
  <2> QED BY <2>1, <2>2, <2>3, <2>4, <2>5, <2>6 DEF GrokTypeOK
<1> QED BY <1>1, <1>2, <1>3, <1>4, <1>5, <1>6, <1>7, <1>8, <1>9 DEF LoginDoes

(* A task takes the lock when nobody holds it. *)
LEMMA LoginKeepsKeeper ==
  ASSUME GrokInv, NEW f \in Flows, LoginDoes(f), Apart
  PROVE  OneKeeper'
<1> USE AbsentAssumption, KeepersAssumption, TaskTypes
    DEF Polls, StaysAt, PollBecomes, Apart, SameHandlers, SameSession, SameFile, SameTokens, GrokInv,
    GrokTypeOK, Filed, OneKeeper, Holding, Saving, Keepers
<1>1. CASE Begins(f)
  BY <1>1 DEF Begins, Aborts, Awaiting, FlowIs
<1>2. CASE Shows(f)
  BY <1>2 DEF Shows
<1>3. CASE Handles(f)
  BY <1>3 DEF Handles, FlowIs
<1>4. CASE Approved(f)
  BY <1>4 DEF Approved
<1>5. CASE Stops(f)
  BY <1>5 DEF Stops, Closes, FlowIs
<1>6. CASE Claims(f)
  BY <1>6 DEF Claims
<1>7. CASE FlowWaits(f)
  BY <1>7 DEF FlowWaits
<1>8. CASE Stores(f)
  BY <1>8 DEF Stores
<1>9. CASE Ends(f)
  BY <1>9 DEF Ends, Closes, FlowIs
<1> QED BY <1>1, <1>2, <1>3, <1>4, <1>5, <1>6, <1>7, <1>8, <1>9 DEF LoginDoes

(* A handler begins when no other has begun. *)
LEMMA LoginKeepsStarter ==
  ASSUME GrokInv, NEW f \in Flows, LoginDoes(f), Apart
  PROVE  OneStarter'
<1> USE AbsentAssumption, KeepersAssumption, TaskTypes
    DEF Polls, StaysAt, PollBecomes, Apart, SameHandlers, SameSession, SameFile, SameTokens, GrokInv,
    GrokTypeOK, OneStarter, Keepers
<1>1. CASE Begins(f)
  BY <1>1 DEF Begins, Aborts, Awaiting, FlowIs
<1>2. CASE Shows(f)
  BY <1>2 DEF Shows
<1>3. CASE Handles(f)
  BY <1>3 DEF Handles, FlowIs
<1>4. CASE Approved(f)
  BY <1>4 DEF Approved
<1>5. CASE Stops(f)
  BY <1>5 DEF Stops, Closes, FlowIs
<1>6. CASE Claims(f)
  BY <1>6 DEF Claims
<1>7. CASE FlowWaits(f)
  BY <1>7 DEF FlowWaits
<1>8. CASE Stores(f)
  BY <1>8 DEF Stores
<1>9. CASE Ends(f)
  BY <1>9 DEF Ends, Closes, FlowIs
<1> QED BY <1>1, <1>2, <1>3, <1>4, <1>5, <1>6, <1>7, <1>8, <1>9 DEF LoginDoes

(* What is filed is the flow of the last handler to begin, which is not reached while its handler asks. *)
LEMMA LoginKeepsFiled ==
  ASSUME GrokInv, NEW f \in Flows, LoginDoes(f), Apart
  PROVE  Filed'
<1> USE TaskTypes
    DEF Polls, StaysAt, PollBecomes, SameHandlers, Saving, GrokInv, GrokTypeOK, Filed, NoPoller
<1>1. CASE Begins(f)
  <2>0. \A g \in Flows : handler'[g] \in {"new", "ask"} => handler[g] \in {"new", "ask"} /\ poller'[g] = poller[g]
    BY <1>1 DEF Begins, Aborts
  <2>1. (\A g \in Flows : handler[g] \in {"new", "ask"} => poller[g] = NoPoller)'
    BY <2>0
  <2>2. (\A g \in Flows : handler[g] = "ask" => authFlow.generation = g /\ authFlow.phase = "starting")'
    BY <2>0, <1>1, AbsentAssumption, KeepersAssumption
    DEF Begins, Aborts, Awaiting, FlowIs, Apart, SameSession, SameFile, SameTokens, OneStarter,
        Unaborted, Keepers
  <2>3. (\A g \in Flows : Unaborted(g) =>
         /\ authFlow.generation = g
         /\ \/ handler[g] = "register" /\ authFlow.phase = "starting"
            \/ handler[g] = "done" /\ authFlow.phase = "polling" /\ authFlow.abort = g)'
    BY <2>0, <1>1, AbsentAssumption, KeepersAssumption
    DEF Begins, Aborts, Awaiting, FlowIs, Apart, SameSession, SameFile, SameTokens, OneStarter,
        Unaborted, Keepers
  <2>4. (authFlow.phase = "polling" => authFlow.abort \in Flows /\ handler[authFlow.abort] = "done")'
    BY <2>0, <1>1, AbsentAssumption, KeepersAssumption
    DEF Begins, Aborts, Awaiting, FlowIs, Apart, SameSession, SameFile, SameTokens, OneStarter,
        Unaborted, Keepers
  <2>5. (\A l \in Logouts, g \in Flows : leaving[l] \in {"lock", "remove"} => ~ Unaborted(g))'
    BY <2>0, <1>1, AbsentAssumption, KeepersAssumption
    DEF Begins, Aborts, Awaiting, FlowIs, Apart, SameSession, SameFile, SameTokens, OneStarter,
        Unaborted, Keepers
  <2> QED BY <2>1, <2>2, <2>3, <2>4, <2>5 DEF Filed
<1>2. CASE Shows(f)
  <2>0. \A g \in Flows : handler'[g] \in {"new", "ask"} => handler[g] \in {"new", "ask"} /\ poller'[g] = poller[g]
    BY <1>2 DEF Shows
  <2>1. (\A g \in Flows : handler[g] \in {"new", "ask"} => poller[g] = NoPoller)'
    BY <2>0
  <2>2. (\A g \in Flows : handler[g] = "ask" => authFlow.generation = g /\ authFlow.phase = "starting")'
    BY <2>0, <1>2, AbsentAssumption, KeepersAssumption
    DEF Shows, Apart, SameSession, SameFile, SameTokens, OneStarter, Unaborted, Keepers
  <2>3. (\A g \in Flows : Unaborted(g) =>
         /\ authFlow.generation = g
         /\ \/ handler[g] = "register" /\ authFlow.phase = "starting"
            \/ handler[g] = "done" /\ authFlow.phase = "polling" /\ authFlow.abort = g)'
    BY <2>0, <1>2, AbsentAssumption, KeepersAssumption
    DEF Shows, Apart, SameSession, SameFile, SameTokens, OneStarter, Unaborted, Keepers
  <2>4. (authFlow.phase = "polling" => authFlow.abort \in Flows /\ handler[authFlow.abort] = "done")'
    BY <2>0, <1>2, AbsentAssumption, KeepersAssumption
    DEF Shows, Apart, SameSession, SameFile, SameTokens, OneStarter, Unaborted, Keepers
  <2>5. (\A l \in Logouts, g \in Flows : leaving[l] \in {"lock", "remove"} => ~ Unaborted(g))'
    BY <2>0, <1>2, AbsentAssumption, KeepersAssumption
    DEF Shows, Apart, SameSession, SameFile, SameTokens, OneStarter, Unaborted, Keepers
  <2> QED BY <2>1, <2>2, <2>3, <2>4, <2>5 DEF Filed
<1>3. CASE Handles(f)
  <2>0. \A g \in Flows : handler'[g] \in {"new", "ask"} => handler[g] \in {"new", "ask"} /\ poller'[g] = poller[g]
    BY <1>3 DEF Handles
  <2>1. (\A g \in Flows : handler[g] \in {"new", "ask"} => poller[g] = NoPoller)'
    BY <2>0
  <2>2. (\A g \in Flows : handler[g] = "ask" => authFlow.generation = g /\ authFlow.phase = "starting")'
    BY <2>0, <1>3, AbsentAssumption, KeepersAssumption
    DEF Handles, FlowIs, Apart, SameSession, SameFile, SameTokens, OneStarter, Unaborted, Keepers
  <2>3. (\A g \in Flows : Unaborted(g) =>
         /\ authFlow.generation = g
         /\ \/ handler[g] = "register" /\ authFlow.phase = "starting"
            \/ handler[g] = "done" /\ authFlow.phase = "polling" /\ authFlow.abort = g)'
    BY <2>0, <1>3, AbsentAssumption, KeepersAssumption
    DEF Handles, FlowIs, Apart, SameSession, SameFile, SameTokens, OneStarter, Unaborted, Keepers
  <2>4. (authFlow.phase = "polling" => authFlow.abort \in Flows /\ handler[authFlow.abort] = "done")'
    BY <2>0, <1>3, AbsentAssumption, KeepersAssumption
    DEF Handles, FlowIs, Apart, SameSession, SameFile, SameTokens, OneStarter, Unaborted, Keepers
  <2>5. (\A l \in Logouts, g \in Flows : leaving[l] \in {"lock", "remove"} => ~ Unaborted(g))'
    BY <2>0, <1>3, AbsentAssumption, KeepersAssumption
    DEF Handles, FlowIs, Apart, SameSession, SameFile, SameTokens, OneStarter, Unaborted, Keepers
  <2> QED BY <2>1, <2>2, <2>3, <2>4, <2>5 DEF Filed
<1>4. CASE Approved(f)
  <2>0. \A g \in Flows : handler'[g] \in {"new", "ask"} => handler[g] \in {"new", "ask"} /\ poller'[g] = poller[g]
    BY <1>4 DEF Approved
  <2>1. (\A g \in Flows : handler[g] \in {"new", "ask"} => poller[g] = NoPoller)'
    BY <2>0
  <2>2. (\A g \in Flows : handler[g] = "ask" => authFlow.generation = g /\ authFlow.phase = "starting")'
    BY <2>0, <1>4, AbsentAssumption, KeepersAssumption
    DEF Approved, Apart, SameSession, SameFile, SameTokens, OneStarter, Unaborted, Keepers
  <2>3. (\A g \in Flows : Unaborted(g) =>
         /\ authFlow.generation = g
         /\ \/ handler[g] = "register" /\ authFlow.phase = "starting"
            \/ handler[g] = "done" /\ authFlow.phase = "polling" /\ authFlow.abort = g)'
    BY <2>0, <1>4, AbsentAssumption, KeepersAssumption
    DEF Approved, Apart, SameSession, SameFile, SameTokens, OneStarter, Unaborted, Keepers
  <2>4. (authFlow.phase = "polling" => authFlow.abort \in Flows /\ handler[authFlow.abort] = "done")'
    BY <2>0, <1>4, AbsentAssumption, KeepersAssumption
    DEF Approved, Apart, SameSession, SameFile, SameTokens, OneStarter, Unaborted, Keepers
  <2>5. (\A l \in Logouts, g \in Flows : leaving[l] \in {"lock", "remove"} => ~ Unaborted(g))'
    BY <2>0, <1>4, AbsentAssumption, KeepersAssumption
    DEF Approved, Apart, SameSession, SameFile, SameTokens, OneStarter, Unaborted, Keepers
  <2> QED BY <2>1, <2>2, <2>3, <2>4, <2>5 DEF Filed
<1>5. CASE Stops(f)
  <2>0. \A g \in Flows : handler'[g] \in {"new", "ask"} => handler[g] \in {"new", "ask"} /\ poller'[g] = poller[g]
    BY <1>5 DEF Stops
  <2>1. (\A g \in Flows : handler[g] \in {"new", "ask"} => poller[g] = NoPoller)'
    BY <2>0
  <2>2. (\A g \in Flows : handler[g] = "ask" => authFlow.generation = g /\ authFlow.phase = "starting")'
    BY <2>0, <1>5, AbsentAssumption, KeepersAssumption
    DEF Stops, Closes, FlowIs, Apart, SameSession, SameFile, SameTokens, OneStarter, Unaborted,
        Keepers
  <2>3. (\A g \in Flows : Unaborted(g) =>
         /\ authFlow.generation = g
         /\ \/ handler[g] = "register" /\ authFlow.phase = "starting"
            \/ handler[g] = "done" /\ authFlow.phase = "polling" /\ authFlow.abort = g)'
    BY <2>0, <1>5, AbsentAssumption, KeepersAssumption
    DEF Stops, Closes, FlowIs, Apart, SameSession, SameFile, SameTokens, OneStarter, Unaborted,
        Keepers
  <2>4. (authFlow.phase = "polling" => authFlow.abort \in Flows /\ handler[authFlow.abort] = "done")'
    BY <2>0, <1>5, AbsentAssumption, KeepersAssumption
    DEF Stops, Closes, FlowIs, Apart, SameSession, SameFile, SameTokens, OneStarter, Unaborted,
        Keepers
  <2>5. (\A l \in Logouts, g \in Flows : leaving[l] \in {"lock", "remove"} => ~ Unaborted(g))'
    BY <2>0, <1>5, AbsentAssumption, KeepersAssumption
    DEF Stops, Closes, FlowIs, Apart, SameSession, SameFile, SameTokens, OneStarter, Unaborted,
        Keepers
  <2> QED BY <2>1, <2>2, <2>3, <2>4, <2>5 DEF Filed
<1>6. CASE Claims(f)
  <2>0. \A g \in Flows : handler'[g] \in {"new", "ask"} => handler[g] \in {"new", "ask"} /\ poller'[g] = poller[g]
    BY <1>6 DEF Claims
  <2>1. (\A g \in Flows : handler[g] \in {"new", "ask"} => poller[g] = NoPoller)'
    BY <2>0
  <2>2. (\A g \in Flows : handler[g] = "ask" => authFlow.generation = g /\ authFlow.phase = "starting")'
    BY <2>0, <1>6, AbsentAssumption, KeepersAssumption
    DEF Claims, Apart, SameSession, SameFile, SameTokens, OneStarter, Unaborted, Keepers
  <2>3. (\A g \in Flows : Unaborted(g) =>
         /\ authFlow.generation = g
         /\ \/ handler[g] = "register" /\ authFlow.phase = "starting"
            \/ handler[g] = "done" /\ authFlow.phase = "polling" /\ authFlow.abort = g)'
    BY <2>0, <1>6, AbsentAssumption, KeepersAssumption
    DEF Claims, Apart, SameSession, SameFile, SameTokens, OneStarter, Unaborted, Keepers
  <2>4. (authFlow.phase = "polling" => authFlow.abort \in Flows /\ handler[authFlow.abort] = "done")'
    BY <2>0, <1>6, AbsentAssumption, KeepersAssumption
    DEF Claims, Apart, SameSession, SameFile, SameTokens, OneStarter, Unaborted, Keepers
  <2>5. (\A l \in Logouts, g \in Flows : leaving[l] \in {"lock", "remove"} => ~ Unaborted(g))'
    BY <2>0, <1>6, AbsentAssumption, KeepersAssumption
    DEF Claims, Apart, SameSession, SameFile, SameTokens, OneStarter, Unaborted, Keepers
  <2> QED BY <2>1, <2>2, <2>3, <2>4, <2>5 DEF Filed
<1>7. CASE FlowWaits(f)
  <2>0. \A g \in Flows : handler'[g] \in {"new", "ask"} => handler[g] \in {"new", "ask"} /\ poller'[g] = poller[g]
    BY <1>7 DEF FlowWaits
  <2>1. (\A g \in Flows : handler[g] \in {"new", "ask"} => poller[g] = NoPoller)'
    BY <2>0
  <2>2. (\A g \in Flows : handler[g] = "ask" => authFlow.generation = g /\ authFlow.phase = "starting")'
    BY <2>0, <1>7, AbsentAssumption, KeepersAssumption
    DEF FlowWaits, Apart, SameSession, SameFile, SameTokens, OneStarter, Unaborted, Keepers
  <2>3. (\A g \in Flows : Unaborted(g) =>
         /\ authFlow.generation = g
         /\ \/ handler[g] = "register" /\ authFlow.phase = "starting"
            \/ handler[g] = "done" /\ authFlow.phase = "polling" /\ authFlow.abort = g)'
    BY <2>0, <1>7, AbsentAssumption, KeepersAssumption
    DEF FlowWaits, Apart, SameSession, SameFile, SameTokens, OneStarter, Unaborted, Keepers
  <2>4. (authFlow.phase = "polling" => authFlow.abort \in Flows /\ handler[authFlow.abort] = "done")'
    BY <2>0, <1>7, AbsentAssumption, KeepersAssumption
    DEF FlowWaits, Apart, SameSession, SameFile, SameTokens, OneStarter, Unaborted, Keepers
  <2>5. (\A l \in Logouts, g \in Flows : leaving[l] \in {"lock", "remove"} => ~ Unaborted(g))'
    BY <2>0, <1>7, AbsentAssumption, KeepersAssumption
    DEF FlowWaits, Apart, SameSession, SameFile, SameTokens, OneStarter, Unaborted, Keepers
  <2> QED BY <2>1, <2>2, <2>3, <2>4, <2>5 DEF Filed
<1>8. CASE Stores(f)
  <2>0. \A g \in Flows : handler'[g] \in {"new", "ask"} => handler[g] \in {"new", "ask"} /\ poller'[g] = poller[g]
    BY <1>8 DEF Stores
  <2>1. (\A g \in Flows : handler[g] \in {"new", "ask"} => poller[g] = NoPoller)'
    BY <2>0
  <2>2. (\A g \in Flows : handler[g] = "ask" => authFlow.generation = g /\ authFlow.phase = "starting")'
    BY <2>0, <1>8, AbsentAssumption, KeepersAssumption
    DEF Stores, Apart, SameSession, SameFile, SameTokens, OneStarter, Unaborted, Keepers
  <2>3. (\A g \in Flows : Unaborted(g) =>
         /\ authFlow.generation = g
         /\ \/ handler[g] = "register" /\ authFlow.phase = "starting"
            \/ handler[g] = "done" /\ authFlow.phase = "polling" /\ authFlow.abort = g)'
    BY <2>0, <1>8, AbsentAssumption, KeepersAssumption
    DEF Stores, Apart, SameSession, SameFile, SameTokens, OneStarter, Unaborted, Keepers
  <2>4. (authFlow.phase = "polling" => authFlow.abort \in Flows /\ handler[authFlow.abort] = "done")'
    BY <2>0, <1>8, AbsentAssumption, KeepersAssumption
    DEF Stores, Apart, SameSession, SameFile, SameTokens, OneStarter, Unaborted, Keepers
  <2>5. (\A l \in Logouts, g \in Flows : leaving[l] \in {"lock", "remove"} => ~ Unaborted(g))'
    BY <2>0, <1>8, AbsentAssumption, KeepersAssumption
    DEF Stores, Apart, SameSession, SameFile, SameTokens, OneStarter, Unaborted, Keepers
  <2> QED BY <2>1, <2>2, <2>3, <2>4, <2>5 DEF Filed
<1>9. CASE Ends(f)
  <2>0. \A g \in Flows : handler'[g] \in {"new", "ask"} => handler[g] \in {"new", "ask"} /\ poller'[g] = poller[g]
    BY <1>9 DEF Ends
  <2>1. (\A g \in Flows : handler[g] \in {"new", "ask"} => poller[g] = NoPoller)'
    BY <2>0
  <2>2. (\A g \in Flows : handler[g] = "ask" => authFlow.generation = g /\ authFlow.phase = "starting")'
    BY <2>0, <1>9, AbsentAssumption, KeepersAssumption
    DEF Ends, Closes, FlowIs, Apart, SameSession, SameFile, SameTokens, OneStarter, Unaborted,
        Keepers
  <2>3. (\A g \in Flows : Unaborted(g) =>
         /\ authFlow.generation = g
         /\ \/ handler[g] = "register" /\ authFlow.phase = "starting"
            \/ handler[g] = "done" /\ authFlow.phase = "polling" /\ authFlow.abort = g)'
    BY <2>0, <1>9, AbsentAssumption, KeepersAssumption
    DEF Ends, Closes, FlowIs, Apart, SameSession, SameFile, SameTokens, OneStarter, Unaborted,
        Keepers
  <2>4. (authFlow.phase = "polling" => authFlow.abort \in Flows /\ handler[authFlow.abort] = "done")'
    BY <2>0, <1>9, AbsentAssumption, KeepersAssumption
    DEF Ends, Closes, FlowIs, Apart, SameSession, SameFile, SameTokens, OneStarter, Unaborted,
        Keepers
  <2>5. (\A l \in Logouts, g \in Flows : leaving[l] \in {"lock", "remove"} => ~ Unaborted(g))'
    BY <2>0, <1>9, AbsentAssumption, KeepersAssumption
    DEF Ends, Closes, FlowIs, Apart, SameSession, SameFile, SameTokens, OneStarter, Unaborted,
        Keepers
  <2> QED BY <2>1, <2>2, <2>3, <2>4, <2>5 DEF Filed
<1> QED BY <1>1, <1>2, <1>3, <1>4, <1>5, <1>6, <1>7, <1>8, <1>9 DEF LoginDoes

(* A login that the logout has aborted, or did not find, gives up before it saves. *)
LEMMA LoginKeepsSignedOut ==
  ASSUME GrokInv, NEW f \in Flows, LoginDoes(f), Apart
  PROVE  (NothingUnderWay /\ LogoutSticks)'
<1> USE AbsentAssumption, TaskTypes
    DEF Polls, StaysAt, PollBecomes, Apart, SameHandlers, SameSession, SameFile, SameTokens, GrokInv,
    GrokTypeOK, Filed, OneKeeper, NothingUnderWay, LogoutSticks, Unaborted, Holding, Saving
<1>1. CASE Begins(f)
  BY <1>1 DEF Begins, Aborts, Awaiting, FlowIs
<1>2. CASE Shows(f)
  BY <1>2 DEF Shows
<1>3. CASE Handles(f)
  BY <1>3 DEF Handles, FlowIs
<1>4. CASE Approved(f)
  BY <1>4 DEF Approved
<1>5. CASE Stops(f)
  BY <1>5 DEF Stops, Closes, FlowIs
<1>6. CASE Claims(f)
  BY <1>6 DEF Claims
<1>7. CASE FlowWaits(f)
  BY <1>7 DEF FlowWaits
<1>8. CASE Stores(f)
  BY <1>8 DEF Stores
<1>9. CASE Ends(f)
  BY <1>9 DEF Ends, Closes, FlowIs
<1> QED BY <1>1, <1>2, <1>3, <1>4, <1>5, <1>6, <1>7, <1>8, <1>9 DEF LoginDoes

(* What the provider answers has the next serial number. *)
LEMMA LoginKeepsIssued ==
  ASSUME GrokInv, NEW f \in Flows, LoginDoes(f), Apart
  PROVE  Issued'
<1> USE TaskTypes DEF GrokInv, Known, Tokens, Serials
<1>1. CASE Begins(f)
  BY <1>1, SerialAssumption, AbsentAssumption
  DEF Begins, Aborts, Awaiting, FlowIs, Polls, StaysAt, PollBecomes, Apart, SameHandlers,
      SameSession, SameFile, SameTokens, GrokTypeOK, Issued, Handed, Private, LoginPrivate,
      PendingIs, Pending, Saving, Keepers
<1>2. CASE Shows(f)
  BY <1>2, SerialAssumption, AbsentAssumption
  DEF Shows, Polls, StaysAt, PollBecomes, Apart, SameHandlers, SameSession, SameFile, SameTokens,
      GrokTypeOK, Issued, Handed, Private, LoginPrivate, PendingIs, Pending, Saving, Keepers
<1>3. CASE Handles(f)
  BY <1>3, SerialAssumption, AbsentAssumption
  DEF Handles, FlowIs, Polls, StaysAt, PollBecomes, Apart, SameHandlers, SameSession, SameFile,
      SameTokens, GrokTypeOK, Issued, Handed, Private, LoginPrivate, PendingIs, Pending, Saving,
      Keepers
<1>4. CASE Approved(f)
  <2>0. issued \in Nat /\ \A c \in Tokens : Known(c) => Known(c)'
    BY <1>4 DEF Approved
  <2>1. (\A c \in exchanged : c <= issued)'
    BY <2>0, <1>4, SerialAssumption, AbsentAssumption
    DEF Approved, Polls, StaysAt, PollBecomes, Apart, SameHandlers, SameSession, SameFile,
        SameTokens, GrokTypeOK, Issued, Handed, Private, LoginPrivate, PendingIs, Pending, Saving,
        Keepers
  <2>2. (Known(disk) /\ Known(newest) /\ (volatile # Absent => volatile.cred <= issued))'
    BY <2>0, <1>4, SerialAssumption, AbsentAssumption
    DEF Approved, Polls, StaysAt, PollBecomes, Apart, SameHandlers, SameSession, SameFile,
        SameTokens, GrokTypeOK, Issued, Handed, Private, LoginPrivate, PendingIs, Pending, Saving,
        Keepers
  <2>3. (\A r \in Requests : Known(req[r].cred))'
    BY <2>0, RequestTypes DEF Issued, Apart
  <2>4. (\A g \in Flows : Known(poller[g].cred))'
    BY <2>0, <1>4, SerialAssumption, AbsentAssumption
    DEF Approved, Polls, StaysAt, PollBecomes, Apart, SameHandlers, SameSession, SameFile,
        SameTokens, GrokTypeOK, Issued, Handed, Private, LoginPrivate, PendingIs, Pending, Saving,
        Keepers
  <2> QED BY <2>1, <2>2, <2>3, <2>4 DEF Issued
<1>5. CASE Stops(f)
  BY <1>5, SerialAssumption, AbsentAssumption
  DEF Stops, Closes, FlowIs, Polls, StaysAt, PollBecomes, Apart, SameHandlers, SameSession,
      SameFile, SameTokens, GrokTypeOK, Issued, Handed, Private, LoginPrivate, PendingIs, Pending,
      Saving, Keepers
<1>6. CASE Claims(f)
  BY <1>6, SerialAssumption, AbsentAssumption
  DEF Claims, Polls, StaysAt, PollBecomes, Apart, SameHandlers, SameSession, SameFile, SameTokens,
      GrokTypeOK, Issued, Handed, Private, LoginPrivate, PendingIs, Pending, Saving, Keepers
<1>7. CASE FlowWaits(f)
  BY <1>7, SerialAssumption, AbsentAssumption
  DEF FlowWaits, Polls, StaysAt, PollBecomes, Apart, SameHandlers, SameSession, SameFile, SameTokens,
      GrokTypeOK, Issued, Handed, Private, LoginPrivate, PendingIs, Pending, Saving, Keepers
<1>8. CASE Stores(f)
  BY <1>8, SerialAssumption, AbsentAssumption
  DEF Stores, Polls, StaysAt, PollBecomes, Apart, SameHandlers, SameSession, SameFile, SameTokens,
      GrokTypeOK, Issued, Handed, Private, LoginPrivate, PendingIs, Pending, Saving, Keepers
<1>9. CASE Ends(f)
  BY <1>9, SerialAssumption, AbsentAssumption
  DEF Ends, Closes, FlowIs, Polls, StaysAt, PollBecomes, Apart, SameHandlers, SameSession,
      SameFile, SameTokens, GrokTypeOK, Issued, Handed, Private, LoginPrivate, PendingIs, Pending,
      Saving, Keepers
<1> QED BY <1>1, <1>2, <1>3, <1>4, <1>5, <1>6, <1>7, <1>8, <1>9 DEF LoginDoes

(* What it answers is met nowhere else before it is saved. *)
LEMMA LoginKeepsPrivate ==
  ASSUME GrokInv, NEW f \in Flows, LoginDoes(f), Apart
  PROVE  Private'
<1> USE AbsentAssumption, KeepersAssumption, TaskTypes
    DEF Polls, StaysAt, PollBecomes, Apart, SameHandlers, SameSession, SameFile, SameTokens, GrokInv,
    OneKeeper, Issued, Known, Private, LoginPrivate, AnswerPrivate, Unread, Carrying, PendingIs,
    Holding, Saving
<1>1. CASE Begins(f)
  BY <1>1 DEF Begins, Aborts, Awaiting, FlowIs
<1>2. CASE Shows(f)
  BY <1>2 DEF Shows
<1>3. CASE Handles(f)
  BY <1>3 DEF Handles, FlowIs
<1>4. CASE Approved(f)
  BY <1>4 DEF Approved
<1>5. CASE Stops(f)
  BY <1>5 DEF Stops, Closes, FlowIs
<1>6. CASE Claims(f)
  BY <1>6 DEF Claims
<1>7. CASE FlowWaits(f)
  BY <1>7 DEF FlowWaits
<1>8. CASE Stores(f)
  BY <1>8 DEF Stores
<1>9. CASE Ends(f)
  BY <1>9 DEF Ends, Closes, FlowIs
<1> QED BY <1>1, <1>2, <1>3, <1>4, <1>5, <1>6, <1>7, <1>8, <1>9 DEF LoginDoes

(* A login that claims the lock has the newest credential in hand. *)
LEMMA LoginKeepsHanded ==
  ASSUME GrokInv, NEW f \in Flows, LoginDoes(f), Apart
  PROVE  Handed'
<1> USE AbsentAssumption DEF GrokInv, OneKeeper, Private, Carrying
<1>1. CASE Begins(f)
  BY <1>1, KeepersAssumption, TaskTypes
  DEF Begins, Aborts, Awaiting, FlowIs, Polls, StaysAt, PollBecomes, Apart, SameHandlers,
      SameSession, SameFile, SameTokens, Issued, Known, LoginPrivate, Handed, AnswerPrivate,
      Unread, PendingIs, BeingSaved, Kept, Holding, Saving
<1>2. CASE Shows(f)
  BY <1>2, KeepersAssumption, TaskTypes
  DEF Shows, Polls, StaysAt, PollBecomes, Apart, SameHandlers, SameSession, SameFile, SameTokens,
      Issued, Known, LoginPrivate, Handed, AnswerPrivate, Unread, PendingIs, BeingSaved, Kept,
      Holding, Saving
<1>3. CASE Handles(f)
  BY <1>3, KeepersAssumption, TaskTypes
  DEF Handles, FlowIs, Polls, StaysAt, PollBecomes, Apart, SameHandlers, SameSession, SameFile,
      SameTokens, Issued, Known, LoginPrivate, Handed, AnswerPrivate, Unread, PendingIs,
      BeingSaved, Kept, Holding, Saving
<1>4. CASE Approved(f)
  BY <1>4, KeepersAssumption, TaskTypes
  DEF Approved, Polls, StaysAt, PollBecomes, Apart, SameHandlers, SameSession, SameFile,
      SameTokens, Issued, Known, LoginPrivate, Handed, AnswerPrivate, Unread, PendingIs,
      BeingSaved, Kept, Holding, Saving
<1>5. CASE Stops(f)
  BY <1>5, KeepersAssumption, TaskTypes
  DEF Stops, Closes, FlowIs, Polls, StaysAt, PollBecomes, Apart, SameHandlers, SameSession,
      SameFile, SameTokens, Issued, Known, LoginPrivate, Handed, AnswerPrivate, Unread, PendingIs,
      BeingSaved, Kept, Holding, Saving
<1>6. CASE Claims(f)
  <2>0. LoginPrivate(f) /\ (\A r \in Requests : req[r].stage \notin Holding) /\ (\A g \in Flows : poller[g].stage \notin Saving)
    BY <1>6 DEF Claims, Keepers
  <2>1. (\A r \in Requests : req[r].stage \in Saving => newest = req[r].cred)'
    BY <2>0, <1>6, KeepersAssumption, TaskTypes
    DEF Claims, Polls, StaysAt, PollBecomes, Apart, SameHandlers, SameSession, SameFile,
        SameTokens, Issued, Known, LoginPrivate, Handed, AnswerPrivate, Unread, PendingIs,
        BeingSaved, Kept, Holding, Saving
  <2>2. (\A g \in Flows : poller[g].stage \in Saving => newest = poller[g].cred)'
    BY <2>0, <1>6, KeepersAssumption, TaskTypes
    DEF Claims, Polls, StaysAt, PollBecomes, Apart, SameHandlers, SameSession, SameFile,
        SameTokens, Issued, Known, LoginPrivate, Handed, AnswerPrivate, Unread, PendingIs,
        BeingSaved, Kept, Holding, Saving
  <2>3. (\A r \in Requests : req[r].stage = "mend" => newest = req[r].cred \/ newest \in lost)'
    BY <2>0, <1>6, KeepersAssumption, TaskTypes
    DEF Claims, Polls, StaysAt, PollBecomes, Apart, SameHandlers, SameSession, SameFile,
        SameTokens, Issued, Known, LoginPrivate, Handed, AnswerPrivate, Unread, PendingIs,
        BeingSaved, Kept, Holding, Saving
  <2>4. (\A r \in Requests : req[r].stage \in {"decide", "exchange"} => req[r].cred # Absent /\ (newest \in {req[r].cred, Absent} \/ newest \in lost))'
    BY <2>0, <1>6, KeepersAssumption, TaskTypes
    DEF Claims, Polls, StaysAt, PollBecomes, Apart, SameHandlers, SameSession, SameFile,
        SameTokens, Issued, Known, LoginPrivate, Handed, AnswerPrivate, Unread, PendingIs,
        BeingSaved, Kept, Holding, Saving
  <2>5. (volatile # Absent => newest = volatile.cred \/ newest \in lost \/ BeingSaved(newest))'
    BY <2>0, <1>6, KeepersAssumption, TaskTypes
    DEF Claims, Polls, StaysAt, PollBecomes, Apart, SameHandlers, SameSession, SameFile,
        SameTokens, Issued, Known, LoginPrivate, Handed, AnswerPrivate, Unread, PendingIs,
        BeingSaved, Kept, Holding, Saving
  <2>6. (newest # Absent => newest \notin exchanged)'
    BY <2>0, <1>6, KeepersAssumption, TaskTypes
    DEF Claims, Polls, StaysAt, PollBecomes, Apart, SameHandlers, SameSession, SameFile,
        SameTokens, Issued, Known, LoginPrivate, Handed, AnswerPrivate, Unread, PendingIs,
        BeingSaved, Kept, Holding, Saving
  <2> QED BY <2>1, <2>2, <2>3, <2>4, <2>5, <2>6 DEF Handed
<1>7. CASE FlowWaits(f)
  BY <1>7, KeepersAssumption, TaskTypes
  DEF FlowWaits, Polls, StaysAt, PollBecomes, Apart, SameHandlers, SameSession, SameFile, SameTokens,
      Issued, Known, LoginPrivate, Handed, AnswerPrivate, Unread, PendingIs, BeingSaved, Kept,
      Holding, Saving
<1>8. CASE Stores(f)
  BY <1>8, KeepersAssumption, TaskTypes
  DEF Stores, Polls, StaysAt, PollBecomes, Apart, SameHandlers, SameSession, SameFile, SameTokens,
      Issued, Known, LoginPrivate, Handed, AnswerPrivate, Unread, PendingIs, BeingSaved, Kept,
      Holding, Saving
<1>9. CASE Ends(f)
  BY <1>9, KeepersAssumption, TaskTypes
  DEF Ends, Closes, FlowIs, Polls, StaysAt, PollBecomes, Apart, SameHandlers, SameSession,
      SameFile, SameTokens, Issued, Known, LoginPrivate, Handed, AnswerPrivate, Unread, PendingIs,
      BeingSaved, Kept, Holding, Saving
<1> QED BY <1>1, <1>2, <1>3, <1>4, <1>5, <1>6, <1>7, <1>8, <1>9 DEF LoginDoes

(* The newest credential is on its way to the disk, or noted as lost. *)
LEMMA LoginKeepsKept ==
  ASSUME GrokInv, NEW f \in Flows, LoginDoes(f), Apart
  PROVE  Kept'
<1> USE AbsentAssumption, KeepersAssumption, TaskTypes
    DEF Polls, StaysAt, PollBecomes, Apart, SameHandlers, SameSession, SameFile, SameTokens, GrokInv,
    OneKeeper, Handed, Private, Carrying, LoginPrivate, Unread, PendingIs, BeingSaved, Kept,
    Holding, Saving
<1>1. CASE Begins(f)
  BY <1>1 DEF Begins, Aborts, Awaiting, FlowIs
<1>2. CASE Shows(f)
  BY <1>2 DEF Shows
<1>3. CASE Handles(f)
  BY <1>3 DEF Handles, FlowIs
<1>4. CASE Approved(f)
  BY <1>4 DEF Approved
<1>5. CASE Stops(f)
  BY <1>5 DEF Stops, Closes, FlowIs
<1>6. CASE Claims(f)
  BY <1>6 DEF Claims
<1>7. CASE FlowWaits(f)
  BY <1>7 DEF FlowWaits
<1>8. CASE Stores(f)
  BY <1>8 DEF Stores
<1>9. CASE Ends(f)
  BY <1>9 DEF Ends, Closes, FlowIs
<1> QED BY <1>1, <1>2, <1>3, <1>4, <1>5, <1>6, <1>7, <1>8, <1>9 DEF LoginDoes

(* So a step of a login keeps the invariant. *)
LEMMA LoginKeeps ==
  ASSUME GrokInv, NEW f \in Flows, LoginStep(f)
  PROVE  GrokInv'
<1>1. LoginDoes(f) /\ Apart
  BY LoginsDo
<1> QED
  BY <1>1, LoginKeepsTypes, LoginKeepsKeeper, LoginKeepsStarter, LoginKeepsFiled, LoginKeepsSignedOut,
     LoginKeepsIssued, LoginKeepsPrivate, LoginKeepsHanded, LoginKeepsKept
  DEF GrokInv

-----------------------------------------------------------------------------
(* What a step of a logout does.                                           *)

(* It begins: what was filed is aborted, and the session is closed.        *)
Departs(l) ==
  /\ leaving[l] = "new" /\ leaving' = [leaving EXCEPT ![l] = "lock"]
  /\ starter = Absent /\ starter' = l
  /\ Aborts
  /\ FlowIs(l, "idle", Absent)
  /\ session' \in [epoch : Nat, enabled : BOOLEAN]
  /\ SameTokens /\ SameFile /\ UNCHANGED <<aged, req, handler, signedOut>>

(* It has the lock.                                                        *)
Locks(l) ==
  /\ leaving[l] = "lock" /\ leaving' = [leaving EXCEPT ![l] = "remove"]
  /\ keeper = Absent /\ keeper' = l
  /\ SameTokens /\ SameFile
  /\ UNCHANGED <<aged, session, starter, authFlow, req, handler, poller, lost, signedOut>>

(* The file is gone.                                                       *)
Removes(l) ==
  /\ leaving[l] = "remove" /\ leaving' = [leaving EXCEPT ![l] = "done"]
  /\ disk' = Absent /\ volatile' = Absent /\ newest' = Absent /\ signedOut' = TRUE
  /\ keeper' = Absent /\ starter' = Absent
  /\ UNCHANGED <<issued, exchanged, aged, session, authFlow, req, handler, poller, lost>>

(* It ends without that.                                                   *)
LogoutBacks(l) ==
  /\ leaving[l] \in {"lock", "remove"} /\ leaving' = [leaving EXCEPT ![l] = "done"]
  /\ starter' = Absent
  /\ keeper' = IF leaving[l] = "remove" THEN Absent ELSE keeper
  /\ session' \in [epoch : Nat, enabled : BOOLEAN]
  /\ SameTokens /\ SameFile
  /\ UNCHANGED <<aged, authFlow, req, handler, poller, lost, signedOut>>

(* Each action does one of these. *)
LEMMA LogoutsDo ==
  ASSUME GrokInv, NEW l \in Logouts, LogoutStep(l)
  PROVE  Departs(l) \/ Locks(l) \/ Removes(l) \/ LogoutBacks(l)
<1>0. session.epoch + 1 \in Nat /\ session \in [epoch : Nat, enabled : BOOLEAN]
  BY DEF GrokInv, GrokTypeOK
<1>1. CASE BeginLogout(l)
  BY <1>0, <1>1, AbortsDoes
  DEF BeginLogout, Departs, FlowIs, Rotated, SameTokens, SameFile, provider, stored
<1>2. CASE LogoutLocks(l)
  BY <1>2 DEF LogoutLocks, Locks, SameTokens, SameFile, provider, stored, history
<1>3. CASE LogoutRemoves(l)
  BY <1>3 DEF LogoutRemoves, Removes, provider
<1>4. CASE LogoutFails(l)
  <2>1. keeper = l <=> leaving[l] = "remove"
    BY DEF GrokInv, OneKeeper
  <2> QED BY <1>0, <1>4, <2>1
  DEF LogoutFails, LogoutBacks, Rotated, SameTokens, SameFile, provider, stored, history
<1>5. CASE LogoutDropped(l)
  BY <1>0, <1>5 DEF LogoutDropped, LogoutBacks, SameTokens, SameFile, provider, stored, history
<1> QED BY <1>1, <1>2, <1>3, <1>4, <1>5 DEF LogoutStep

(* The flow that was filed is aborted: no login is left that may still save its credential. *)
LEMMA DepartsKeeps ==
  ASSUME GrokInv, NEW l \in Logouts, Departs(l)
  PROVE  GrokInv'
<1> USE DEF Departs, Aborts, Polls, PollBecomes, GrokInv
<1>1. GrokTypeOK'
  <2>1. poller' \in [Flows -> PollerRecords] /\ keeper' \in Keepers \cup {Absent}
    BY DEF GrokTypeOK
  <2>2. lost' \subseteq Serials
    <3>1. ASSUME NEW g \in Flows, poller[g].stage \in Awaiting \ {"polling"}
          PROVE  poller[g].cred \in Serials
      <4>1. Carrying(g)
        BY <3>1 DEF Awaiting, Carrying, Saving
      <4> QED BY <4>1, TaskTypes DEF GrokInv, Private, LoginPrivate, Tokens
    <3>2. lost \subseteq Serials
      BY DEF GrokTypeOK
    <3> QED BY <3>1, <3>2 DEF Departs, Aborts
  <2>3. authFlow' \in [generation : Keepers \cup {Absent}, abort : Flows \cup {Absent},
                     phase : {"idle", "starting", "polling", "failed"}]
    BY DEF FlowIs, Keepers
  <2>4. leaving' \in [Logouts -> {"new", "lock", "remove", "done"}]
    BY DEF GrokTypeOK
  <2> QED BY <2>1, <2>2, <2>3, <2>4 DEF Departs, SameFile, SameTokens, GrokInv, GrokTypeOK
<1>2. OneKeeper'
  BY AbsentAssumption, KeepersAssumption
  DEF Awaiting, FlowIs, SameFile, SameTokens, GrokTypeOK, Filed, OneKeeper, Holding, Saving,
      Keepers
<1>3. OneStarter'
  BY AbsentAssumption, KeepersAssumption
  DEF Awaiting, FlowIs, SameFile, SameTokens, GrokTypeOK, OneStarter, Keepers
<1>4. Filed'
  <2>1. (\A g \in Flows : handler[g] \in {"new", "ask"} => poller[g] = NoPoller)'
    <3>1. authFlow.phase = "polling" => handler[authFlow.abort] = "done"
      BY DEF Filed
    <3>2. \A g \in Flows : handler[g] \in {"new", "ask"} => poller'[g] = poller[g]
      BY <3>1
    <3> QED BY <3>2 DEF Departs, GrokInv, Filed
  <2>2. (\A g \in Flows : handler[g] = "ask" => authFlow.generation = g /\ authFlow.phase = "starting")'
    BY AbsentAssumption, KeepersAssumption
    DEF Awaiting, FlowIs, SameFile, SameTokens, GrokTypeOK, OneStarter, Filed, Unaborted, NoPoller,
        Saving, Keepers
  <2>3. (\A g \in Flows : Unaborted(g) =>
         /\ authFlow.generation = g
         /\ \/ handler[g] = "register" /\ authFlow.phase = "starting"
            \/ handler[g] = "done" /\ authFlow.phase = "polling" /\ authFlow.abort = g)'
    BY AbsentAssumption, KeepersAssumption
    DEF Awaiting, FlowIs, SameFile, SameTokens, GrokTypeOK, OneStarter, Filed, Unaborted, NoPoller,
        Saving, Keepers
  <2>4. (authFlow.phase = "polling" => authFlow.abort \in Flows /\ handler[authFlow.abort] = "done")'
    BY AbsentAssumption, KeepersAssumption
    DEF Awaiting, FlowIs, SameFile, SameTokens, GrokTypeOK, OneStarter, Filed, Unaborted, NoPoller,
        Saving, Keepers
  <2>5. (\A m \in Logouts, g \in Flows : leaving[m] \in {"lock", "remove"} => ~ Unaborted(g))'
    BY AbsentAssumption, KeepersAssumption
    DEF Awaiting, FlowIs, SameFile, SameTokens, GrokTypeOK, OneStarter, Filed, Unaborted, NoPoller,
        Saving, Keepers
  <2> QED BY <2>1, <2>2, <2>3, <2>4, <2>5 DEF Filed
<1>5. (NothingUnderWay /\ LogoutSticks)'
  BY AbsentAssumption, KeepersAssumption
  DEF Awaiting, FlowIs, SameFile, SameTokens, GrokTypeOK, Filed, OneKeeper, NothingUnderWay,
      LogoutSticks, Unaborted, Holding, Saving, Keepers
<1>6. Issued'
  BY SerialAssumption, AbsentAssumption
  DEF Awaiting, FlowIs, SameFile, SameTokens, GrokTypeOK, Issued, Known
<1>7. Private'
  BY AbsentAssumption, KeepersAssumption
  DEF Awaiting, FlowIs, SameFile, SameTokens, OneKeeper, Private, LoginPrivate, AnswerPrivate,
      Unread, Carrying, PendingIs, Holding, Saving
<1>8. Handed'
  BY AbsentAssumption, KeepersAssumption
  DEF Awaiting, FlowIs, SameFile, SameTokens, OneKeeper, Private, Carrying, LoginPrivate, Handed,
      PendingIs, BeingSaved, Kept, Holding, Saving
<1>9. Kept'
  BY AbsentAssumption, KeepersAssumption
  DEF Awaiting, FlowIs, SameFile, SameTokens, OneKeeper, Handed, PendingIs, BeingSaved, Kept,
      Holding, Saving
<1> QED BY <1>1, <1>2, <1>3, <1>4, <1>5, <1>6, <1>7, <1>8, <1>9 DEF GrokInv

(* The logout alone holds the lock. *)
LEMMA LocksKeeps ==
  ASSUME GrokInv, NEW l \in Logouts, Locks(l)
  PROVE  GrokInv'
<1> USE AbsentAssumption DEF Locks, SameFile, SameTokens, GrokInv
<1>1. GrokTypeOK'
  BY SerialAssumption DEF GrokTypeOK, Pending, Keepers
<1>2. OneKeeper'
  BY KeepersAssumption DEF GrokTypeOK, Filed, OneKeeper, Holding, Saving, Keepers
<1>3. OneStarter'
  BY KeepersAssumption DEF GrokTypeOK, OneStarter, Keepers
<1>4. Filed'
  BY KeepersAssumption DEF GrokTypeOK, OneStarter, Filed, Unaborted, NoPoller, Saving, Keepers
<1>5. (NothingUnderWay /\ LogoutSticks)'
  BY KeepersAssumption
  DEF GrokTypeOK, Filed, OneKeeper, NothingUnderWay, LogoutSticks, Unaborted, Holding, Saving,
      Keepers
<1>6. Issued'
  BY SerialAssumption DEF GrokTypeOK, Issued, Known
<1>7. Private'
  BY KeepersAssumption
  DEF OneKeeper, Private, LoginPrivate, AnswerPrivate, Unread, Carrying, PendingIs, Holding,
      Saving
<1>8. Handed'
  BY KeepersAssumption
  DEF OneKeeper, Private, Carrying, LoginPrivate, Handed, PendingIs, BeingSaved, Kept, Holding,
      Saving
<1>9. Kept'
  BY KeepersAssumption DEF OneKeeper, Handed, PendingIs, BeingSaved, Kept, Holding, Saving
<1> QED BY <1>1, <1>2, <1>3, <1>4, <1>5, <1>6, <1>7, <1>8, <1>9 DEF GrokInv

(* No credential is left, and nobody has one to save. *)
LEMMA RemovesKeeps ==
  ASSUME GrokInv, NEW l \in Logouts, Removes(l)
  PROVE  GrokInv'
<1> USE AbsentAssumption DEF Removes, GrokInv
<1>1. GrokTypeOK'
  BY SerialAssumption DEF GrokTypeOK, Pending, Keepers
<1>2. OneKeeper'
  BY KeepersAssumption DEF GrokTypeOK, Filed, OneKeeper, Holding, Saving, Keepers
<1>3. OneStarter'
  BY KeepersAssumption DEF GrokTypeOK, OneStarter, Keepers
<1>4. Filed'
  BY KeepersAssumption DEF GrokTypeOK, OneStarter, Filed, Unaborted, NoPoller, Saving, Keepers
<1>5. (NothingUnderWay /\ LogoutSticks)'
  BY KeepersAssumption
  DEF GrokTypeOK, Filed, OneKeeper, NothingUnderWay, LogoutSticks, Unaborted, Holding, Saving,
      Keepers
<1>6. Issued'
  BY SerialAssumption DEF GrokTypeOK, Issued, Known
<1>7. Private'
  BY KeepersAssumption
  DEF OneKeeper, Private, LoginPrivate, AnswerPrivate, Unread, Carrying, PendingIs, Holding,
      Saving
<1>8. Handed'
  BY KeepersAssumption
  DEF OneKeeper, Private, Carrying, LoginPrivate, Handed, PendingIs, BeingSaved, Kept, Holding,
      Saving
<1>9. Kept'
  BY KeepersAssumption DEF OneKeeper, Handed, PendingIs, BeingSaved, Kept, Holding, Saving
<1> QED BY <1>1, <1>2, <1>3, <1>4, <1>5, <1>6, <1>7, <1>8, <1>9 DEF GrokInv

(* Nothing is removed. *)
LEMMA BacksKeeps ==
  ASSUME GrokInv, NEW l \in Logouts, LogoutBacks(l)
  PROVE  GrokInv'
<1> USE AbsentAssumption DEF LogoutBacks, SameFile, SameTokens, GrokInv
<1>1. GrokTypeOK'
  BY SerialAssumption DEF GrokTypeOK, Pending, Keepers
<1>2. OneKeeper'
  BY KeepersAssumption DEF GrokTypeOK, Filed, OneKeeper, Holding, Saving, Keepers
<1>3. OneStarter'
  BY KeepersAssumption DEF GrokTypeOK, OneStarter, Keepers
<1>4. Filed'
  BY KeepersAssumption DEF GrokTypeOK, OneStarter, Filed, Unaborted, NoPoller, Saving, Keepers
<1>5. (NothingUnderWay /\ LogoutSticks)'
  BY KeepersAssumption
  DEF GrokTypeOK, Filed, OneKeeper, NothingUnderWay, LogoutSticks, Unaborted, Holding, Saving,
      Keepers
<1>6. Issued'
  BY SerialAssumption DEF GrokTypeOK, Issued, Known
<1>7. Private'
  BY KeepersAssumption
  DEF OneKeeper, Private, LoginPrivate, AnswerPrivate, Unread, Carrying, PendingIs, Holding,
      Saving
<1>8. Handed'
  BY KeepersAssumption
  DEF OneKeeper, Private, Carrying, LoginPrivate, Handed, PendingIs, BeingSaved, Kept, Holding,
      Saving
<1>9. Kept'
  BY KeepersAssumption DEF OneKeeper, Handed, PendingIs, BeingSaved, Kept, Holding, Saving
<1> QED BY <1>1, <1>2, <1>3, <1>4, <1>5, <1>6, <1>7, <1>8, <1>9 DEF GrokInv

-----------------------------------------------------------------------------
(* The application starts again: no task is left.                          *)
Restarts ==
  /\ disk' = disk /\ volatile' = Absent
  /\ lost \subseteq lost' /\ lost' \subseteq Serials
  /\ \A c \in Tokens : PendingIs(c) \/ BeingSaved(c) => c \in lost'
  /\ session' \in [epoch : Nat, enabled : BOOLEAN]
  /\ keeper' = Absent /\ starter' = Absent
  /\ FlowIs(Absent, "idle", Absent)
  /\ req' \in [Requests -> RequestRecords]
  /\ \A r \in Requests : req'[r].stage = "idle" /\ req'[r].cred = Absent
  /\ handler' \in [Flows -> {"new", "done"}]
  /\ poller' \in [Flows -> PollerRecords]
  /\ \A f \in Flows : poller'[f].stage \in {"none", "done"} /\ poller'[f].cred = Absent
  /\ \A f \in Flows : handler'[f] = "new" => poller'[f] = NoPoller
  /\ leaving' \in [Logouts -> {"new", "done"}]
  /\ SameTokens /\ UNCHANGED <<aged, signedOut>>

(* AppRestarts does this. *)
LEMMA RestartDoes ==
  ASSUME GrokInv, AppRestarts
  PROVE  Restarts
<1> DEFINE asked == {req[r].cred : r \in {r \in Requests : req[r].stage \in {"store", "again"}}}
           answered == {poller[f].cred : f \in {f \in Flows : poller[f].stage \in {"claim", "queue", "store", "again"}}}
           pending == IF volatile = Absent THEN {} ELSE {volatile.cred}
<1>1. lost' = lost \cup pending \cup asked \cup answered
  BY DEF AppRestarts
<1>2. asked \subseteq Serials
  BY RequestTypes DEF GrokInv, Private, AnswerPrivate, Saving, Tokens
<1>3. answered \subseteq Serials
  BY TaskTypes DEF GrokInv, Private, LoginPrivate, Carrying, Saving, Tokens
<1>4. pending \subseteq Serials /\ lost \subseteq Serials
  BY DEF GrokInv, GrokTypeOK, Pending
<1>5. \A c : PendingIs(c) => c \in pending
  BY DEF PendingIs
<1>6. \A c : BeingSaved(c) => c \in asked \cup answered
  BY DEF BeingSaved, Saving
<1> HIDE DEF asked, answered, pending
<1>7. lost \subseteq lost' /\ lost' \subseteq Serials /\ \A c \in Tokens : PendingIs(c) \/ BeingSaved(c) => c \in lost'
  BY <1>1, <1>2, <1>3, <1>4, <1>5, <1>6
<1>8. IdleRequest \in RequestRecords /\ IdleRequest.stage = "idle" /\ IdleRequest.cred = Absent
  BY DEF IdleRequest, RequestRecords, RequestStages
<1>9. /\ NoPoller \in PollerRecords /\ NoPoller.stage = "none" /\ NoPoller.cred = Absent
      /\ LET d == [NoPoller EXCEPT !.stage = "done"]
         IN  d \in PollerRecords /\ d.stage = "done" /\ d.cred = Absent
  BY DEF NoPoller, PollerRecords
<1>10. req' \in [Requests -> RequestRecords] /\ \A r \in Requests : req'[r].stage = "idle" /\ req'[r].cred = Absent
  BY <1>8 DEF AppRestarts
<1>11. handler' \in [Flows -> {"new", "done"}] /\ leaving' \in [Logouts -> {"new", "done"}]
  BY DEF AppRestarts
<1>12. \A f \in Flows : handler[f] = "new" => poller[f].stage = "none"
  BY <1>9 DEF GrokInv, Filed
<1>13. /\ poller' \in [Flows -> PollerRecords]
       /\ \A f \in Flows : poller'[f].stage \in {"none", "done"} /\ poller'[f].cred = Absent
       /\ \A f \in Flows : handler'[f] = "new" => poller'[f] = NoPoller
  BY <1>9, <1>12 DEF AppRestarts
<1>14. session' \in [epoch : Nat, enabled : BOOLEAN] /\ FlowIs(Absent, "idle", Absent)
  BY DEF AppRestarts, FlowIs
<1> QED BY <1>7, <1>10, <1>11, <1>13, <1>14 DEF AppRestarts, Restarts, SameTokens, provider

(* What was not on disk is lost.                                           *)
LEMMA RestartKeeps ==
  ASSUME GrokInv, Restarts
  PROVE  GrokInv'
<1> USE AbsentAssumption DEF Restarts, FlowIs, SameTokens, GrokInv
<1>1. GrokTypeOK'
  BY SerialAssumption DEF GrokTypeOK, Pending, Keepers
<1>2. OneKeeper'
  BY KeepersAssumption DEF GrokTypeOK, Filed, OneKeeper, Holding, Saving, Keepers
<1>3. OneStarter'
  BY KeepersAssumption DEF GrokTypeOK, OneStarter, Keepers
<1>4. Filed'
  BY KeepersAssumption DEF GrokTypeOK, OneStarter, Filed, Unaborted, NoPoller, Saving, Keepers
<1>5. (NothingUnderWay /\ LogoutSticks)'
  BY KeepersAssumption
  DEF GrokTypeOK, Filed, OneKeeper, NothingUnderWay, LogoutSticks, Unaborted, Holding, Saving,
      Keepers
<1>6. Issued'
  BY SerialAssumption DEF GrokTypeOK, Issued, Known
<1>7. Private'
  BY KeepersAssumption
  DEF OneKeeper, Private, LoginPrivate, AnswerPrivate, Unread, Carrying, PendingIs, Holding,
      Saving
<1>8. Handed'
  BY KeepersAssumption
  DEF OneKeeper, Private, Carrying, LoginPrivate, Handed, PendingIs, BeingSaved, Kept, Holding,
      Saving
<1>9. Kept'
  BY KeepersAssumption
  DEF OneKeeper, Handed, PendingIs, BeingSaved, Kept, Holding, Saving, GrokTypeOK, Tokens
<1> QED BY <1>1, <1>2, <1>3, <1>4, <1>5, <1>6, <1>7, <1>8, <1>9 DEF GrokInv

(* A credential comes within the refresh margin, or nothing happens.       *)
LEMMA ExpireKeeps ==
  ASSUME GrokInv, Expire \/ UNCHANGED grokVars
  PROVE  GrokInv'
<1>1. /\ aged' \in Nat
      /\ SameTokens /\ SameFile
      /\ UNCHANGED <<session, keeper, starter, authFlow, req, handler, poller, leaving, lost, signedOut>>
  BY DEF GrokInv, GrokTypeOK, Expire, grokVars, provider, stored, tasks, history, SameTokens, SameFile
<1>2. GrokTypeOK'
  BY <1>1 DEF GrokInv, GrokTypeOK, SameTokens, SameFile
<1>3. OneKeeper' /\ OneStarter' /\ Filed' /\ NothingUnderWay' /\ LogoutSticks'
  BY <1>1 DEF GrokInv, OneKeeper, OneStarter, Filed, NothingUnderWay, LogoutSticks, Unaborted, SameFile
<1>4. Issued' /\ Private' /\ Handed' /\ Kept'
  BY <1>1
  DEF GrokInv, Issued, Known, Private, LoginPrivate, AnswerPrivate, Unread, Carrying, Handed, Kept,
              PendingIs, BeingSaved, SameTokens, SameFile
<1> QED BY <1>2, <1>3, <1>4 DEF GrokInv

-----------------------------------------------------------------------------
(* The theorems.                                                           *)

(* The first state satisfies the invariant. *)
LEMMA GrokStarts == GrokInit => GrokInv
<1> SUFFICES ASSUME GrokInit PROVE GrokInv
  OBVIOUS
<1>1. /\ IdleRequest \in RequestRecords /\ IdleRequest.stage = "idle" /\ IdleRequest.cred = Absent
      /\ NoPoller \in PollerRecords /\ NoPoller.stage = "none" /\ NoPoller.cred = Absent
  BY DEF IdleRequest, RequestRecords, RequestStages, NoPoller, PollerRecords
<1>2. 1 \in Serials
  BY SerialAssumption DEF Serials
<1> USE <1>1, <1>2, AbsentAssumption DEF GrokInit
<1>3. GrokTypeOK
  BY DEF GrokTypeOK
<1>4. OneKeeper /\ OneStarter /\ NothingUnderWay /\ LogoutSticks
  BY DEF OneKeeper, OneStarter, NothingUnderWay, LogoutSticks, Holding, Saving, Keepers
<1>5. Filed
  BY DEF Filed, Unaborted, Saving
<1>6. Issued /\ Private /\ Handed /\ Kept
  BY DEF Issued, Known, Private, Carrying, Handed, Kept, Saving
<1> QED BY <1>3, <1>4, <1>5, <1>6 DEF GrokInv

(* Every reachable state satisfies the inductive invariant.                *)
THEOREM GrokHolds == GrokSpec => []GrokInv
<1>1. GrokInv /\ [GrokNext]_grokVars => GrokInv'
  <2> SUFFICES ASSUME GrokInv, [GrokNext]_grokVars PROVE GrokInv'
    OBVIOUS
  <2>1. ASSUME NEW r \in Requests, RequestStep(r) PROVE GrokInv'
    BY <2>1, RequestKeeps
  <2>2. ASSUME NEW f \in Flows, LoginStep(f) PROVE GrokInv'
    BY <2>2, LoginKeeps
  <2>3. ASSUME NEW l \in Logouts, LogoutStep(l) PROVE GrokInv'
    BY <2>3, LogoutsDo, DepartsKeeps, LocksKeeps, RemovesKeeps, BacksKeeps
  <2>4. CASE Expire \/ UNCHANGED grokVars
    BY <2>4, ExpireKeeps
  <2>5. CASE AppRestarts
    BY <2>5, RestartDoes, RestartKeeps
  <2> QED BY <2>1, <2>2, <2>3, <2>4, <2>5 DEF GrokNext
<1> QED BY <1>1, GrokStarts, PTL DEF GrokSpec

(* The connector's state keeps its types: a credential is only ever one    *)
(* the provider issued, also what abort() and the retries leave behind.    *)
THEOREM GrokStaysTyped == GrokSpec => []GrokTypeOK
<1>1. GrokInv => GrokTypeOK
  BY DEF GrokInv
<1> QED BY <1>1, GrokHolds, PTL

(* acquire_credential_lock and clear_credential: after a logout no refresh,*)
(* mend, retry or aborted device flow brings a credential back.            *)
THEOREM LogoutStands == GrokSpec => []LogoutSticks
<1>1. GrokInv => LogoutSticks
  BY DEF GrokInv
<1> QED BY <1>1, GrokHolds, PTL

(* refresh_locked and persist_or_remember: the newest credential is on     *)
(* disk, pending or being saved unless it was noted as lost, and while     *)
(* none was, no refresh token is presented a second time.                  *)
THEOREM RefreshTokenStaysSafe == GrokSpec => []RefreshTokenSafe
<1>1. ASSUME GrokInv PROVE PresentedOnce
  <2> SUFFICES ASSUME lost = {}, newest # Absent, NEW r \in Requests, req[r].stage = "exchange"
               PROVE  req[r].cred \notin exchanged
    BY DEF PresentedOnce, AtRequest
  <2> QED BY <1>1 DEF GrokInv, Handed
<1>2. GrokInv => NewestKept
  BY KeptMeans DEF GrokInv
<1> QED BY <1>1, <1>2, GrokHolds, PTL DEF RefreshTokenSafe

=============================================================================
