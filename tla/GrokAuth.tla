------------------------------ MODULE GrokAuth ------------------------------
(***************************************************************************)
(* The credential of the SuperGrok connector.  The provider rotates the    *)
(* refresh token at every exchange, so one credential is good at a time:   *)
(* it is on disk, in memory when the disk refused it, or in the hands of   *)
(* the task that holds the credential lock.  Requests, status polls, a     *)
(* device login and a logout run at once, on several threads, and may be   *)
(* dropped where they await something.                                     *)
(*                                                                         *)
(* A credential is its serial number: an exchange answers with a new       *)
(* access token and a new refresh token.                                   *)
(***************************************************************************)
EXTENDS Naturals

CONSTANTS
  Requests,   \* model, image and speech requests, and status polls
  Flows,      \* device authorizations
  Logouts,    \* logouts
  MaxSerial,  \* bound on the credentials the provider issues
  Attempts,   \* CREDENTIAL_SAVE_ATTEMPTS
  Absent

Serials == 1..MaxSerial
Keepers == Requests \cup Flows \cup Logouts

\* A credential that the disk refused, and the one it replaces there.
Pending == [cred : Serials, stale : Serials \cup {Absent}]

ASSUME SerialAssumption == MaxSerial \in Nat \ {0}
ASSUME AttemptsAssumption == Attempts \in Nat \ {0}
ASSUME AbsentAssumption == Absent \notin Nat \cup Keepers \cup Pending
ASSUME KeepersAssumption == Requests \cap Flows = {} /\ Requests \cap Logouts = {} /\ Flows \cap Logouts = {}

VARIABLES
  issued,     \* credentials the provider has issued
  exchanged,  \* those whose refresh token it has exchanged
  aged,       \* credentials up to this one are within the refresh margin
  disk,       \* the credential file
  volatile,   \* volatile_credential
  session,    \* auth_session
  keeper,     \* holder of the credential lock
  starter,    \* holder of start_lock
  authFlow,   \* AuthFlowState: generation, phase, and the flow abort() reaches
  req,        \* what each request is doing
  handler,    \* what the handler of each device login is doing
  poller,     \* what the spawned task of each device login is doing
  leaving,    \* what each logout is doing
  newest,     \* history: the credential last handed to the holder of the lock
  lost,       \* history: credentials that are nowhere any more
  signedOut   \* history: after a logout: no login since, nor one that outran it

provider == <<issued, exchanged, aged>>
stored == <<disk, volatile>>
tasks == <<req, handler, poller, leaving>>
history == <<newest, lost, signedOut>>
grokVars == <<provider, stored, session, keeper, starter, authFlow, tasks, history>>

RequestStages == {"idle", "peek", "judge", "lock", "held", "mend", "decide",
                  "exchange", "store", "again", "send", "sent"}
RequestRecords ==
  [call : {"request", "status"}, stage : RequestStages, epoch : Nat,
   cred : Serials \cup {Absent}, stale : Serials \cup {Absent},
   rejected : Serials \cup {Absent}, tries : Nat]
PollerRecords ==
  [stage : {"none", "polling", "claim", "queue", "store", "again", "rotate", "finish", "done"},
   aborted : BOOLEAN, cred : Serials \cup {Absent}, stale : Serials \cup {Absent}, tries : Nat]

IdleRequest == [call |-> "request", stage |-> "idle", epoch |-> 0, cred |-> Absent,
                stale |-> Absent, rejected |-> Absent, tries |-> 0]
NoPoller == [stage |-> "none", aborted |-> FALSE, cred |-> Absent, stale |-> Absent, tries |-> 0]

(* The application starts with a login of an earlier run on disk.          *)
GrokInit ==
  /\ issued = 1 /\ exchanged = {} /\ aged = 0
  /\ disk = 1 /\ volatile = Absent
  /\ session = [epoch |-> 0, enabled |-> TRUE]
  /\ keeper = Absent /\ starter = Absent
  /\ authFlow = [generation |-> Absent, phase |-> "idle", abort |-> Absent]
  /\ req = [r \in Requests |-> IdleRequest]
  /\ handler = [f \in Flows |-> "new"]
  /\ poller = [f \in Flows |-> NoPoller]
  /\ leaving = [l \in Logouts |-> "new"]
  /\ newest = 1 /\ lost = {} /\ signedOut = FALSE

-----------------------------------------------------------------------------
(* Helpers.                                                                *)

AtRequest(r, s) == req[r].stage = s
Move(r, s) == req' = [req EXCEPT ![r].stage = s]
ToSend(r) == req' = [req EXCEPT ![r].stage = "send", ![r].stale = Absent, ![r].tries = 0]
EndRequest(r) == req' = [req EXCEPT ![r] = IdleRequest]

(* rotate_auth_session: a new generation, open or closed.                  *)
Rotated(open) == [epoch |-> session.epoch + 1, enabled |-> open]

(* current_credential, with a pending credential in memory: the file may   *)
(* hold it by now, hold the one it replaced, hold that of a login made     *)
(* elsewhere, or be unreadable.                                            *)
Candidate(read) ==
  IF read \in Serials /\ read # volatile.stale
  THEN [cred |-> read, stale |-> read, pending |-> FALSE, keep |-> FALSE]
  ELSE [cred |-> volatile.cred, stale |-> volatile.stale, pending |-> TRUE, keep |-> TRUE]

CurrentCredential(read) ==
  IF volatile # Absent THEN Candidate(read)
  ELSE [cred |-> read, stale |-> read, pending |-> FALSE, keep |-> TRUE]

(* What dropping the pending credential for this reading of the file loses.*)
Dropped(read, keep) == IF keep \/ volatile.cred = read THEN {} ELSE {volatile.cred}

(* The file as a reader finds it: read errors happen.                      *)
Readings == {disk, Absent}

\* Mutant of Remember: a save that failed three times is given up.
Forget(cred, stale) == volatile' = volatile

(* persist_or_remember when its last attempt failed.                       *)
Remember(cred, stale) == volatile' = [cred |-> cred, stale |-> stale]

-----------------------------------------------------------------------------
(* A request: begin_request, ensure_fresh, the send and its retries.       *)

BeginRequest(r) ==
  /\ AtRequest(r, "idle")
  /\ session.enabled
  /\ req' = [req EXCEPT ![r].stage = "peek", ![r].epoch = session.epoch]
  /\ UNCHANGED <<provider, stored, session, keeper, starter, authFlow,
                 handler, poller, leaving, history>>

(* auth_status: ensure_persisted, unless nothing is pending, then status.  *)
BeginStatus(r) ==
  /\ AtRequest(r, "idle")
  /\ authFlow.phase \notin {"starting", "polling"}
  /\ req' = [req EXCEPT ![r].call = "status",
                        ![r].stage = IF volatile = Absent THEN "peek" ELSE "lock"]
  /\ UNCHANGED <<provider, stored, session, keeper, starter, authFlow,
                 handler, poller, leaving, history>>

(* current_credential without the lock reads the file first ...            *)
PeekDisk(r) ==
  /\ AtRequest(r, "peek")
  /\ session.enabled
  /\ \E read \in Readings : req' = [req EXCEPT ![r].stage = "judge", ![r].cred = read]
  /\ UNCHANGED <<provider, stored, session, keeper, starter, authFlow,
                 handler, poller, leaving, history>>

(* ... and looks at the pending credential afterwards.                     *)
PeekVolatile(r) ==
  /\ AtRequest(r, "judge")
  /\ LET read == req[r].cred
         found == CurrentCredential(read)
     IN  /\ volatile' = IF found.keep THEN volatile ELSE Absent
         /\ lost' = lost \cup Dropped(read, found.keep)
         /\ IF req[r].call = "status" \/ found.cred = Absent THEN EndRequest(r)
            ELSE req' = [req EXCEPT ![r].cred = found.cred,
                   ![r].stage = IF found.pending \/ found.cred <= aged THEN "lock" ELSE "send"]
  /\ UNCHANGED <<provider, disk, session, keeper, starter, authFlow,
                 handler, poller, leaving, newest, signedOut>>

(* ensure_request_epoch before every attempt. *)
Send(r) ==
  /\ AtRequest(r, "send")
  /\ session.enabled /\ session.epoch = req[r].epoch
  /\ Move(r, "sent")
  /\ UNCHANGED <<provider, stored, session, keeper, starter, authFlow,
                 handler, poller, leaving, history>>

(* A transient failure of the first attempts. *)
Resend(r) ==
  /\ AtRequest(r, "sent")
  /\ session.enabled /\ session.epoch = req[r].epoch
  /\ Move(r, "send")
  /\ UNCHANGED <<provider, stored, session, keeper, starter, authFlow,
                 handler, poller, leaving, history>>

(* The first 401 makes the request begin again, in the session of now, and *)
(* refresh.                                                                *)
Unauthorized(r) ==
  /\ AtRequest(r, "sent")
  /\ session.enabled
  /\ req[r].rejected = Absent
  /\ req' = [req EXCEPT ![r].stage = "lock", ![r].rejected = req[r].cred,
                        ![r].epoch = session.epoch]
  /\ UNCHANGED <<provider, stored, session, keeper, starter, authFlow,
                 handler, poller, leaving, history>>

(* A status that could not have the lock reads all the same.               *)
ToStatus(r) == req' = [req EXCEPT ![r] = [IdleRequest EXCEPT !.call = "status", !.stage = "peek"]]

(* The answer, or an error: no credential, a session that was rotated, a   *)
(* second 401, a lock that cannot be had.                                  *)
RequestEnds(r) ==
  /\ req[r].stage \in {"peek", "lock", "send", "sent"}
  /\ \/ EndRequest(r)
     \/ AtRequest(r, "lock") /\ req[r].call = "status" /\ ToStatus(r)
  /\ UNCHANGED <<provider, stored, session, keeper, starter, authFlow,
                 handler, poller, leaving, history>>

-----------------------------------------------------------------------------
(* refresh_locked and ensure_persisted, under the credential lock.         *)

TakeLock(r) ==
  /\ AtRequest(r, "lock")
  /\ keeper = Absent
  /\ keeper' = r
  /\ Move(r, "held")
  /\ UNCHANGED <<provider, stored, session, starter, authFlow,
                 handler, poller, leaving, history>>

ReadUnderLock(r) ==
  /\ AtRequest(r, "held")
  /\ \E read \in Readings :
       LET found == CurrentCredential(read)
       IN  /\ volatile' = IF found.keep THEN volatile ELSE Absent
           /\ lost' = lost \cup Dropped(read, found.keep)
           /\ IF found.cred = Absent
              THEN /\ IF req[r].call = "status" THEN ToStatus(r) ELSE EndRequest(r)
                   /\ keeper' = Absent
              ELSE /\ req' = [req EXCEPT ![r].cred = found.cred, ![r].stale = found.stale,
                                ![r].tries = 0,
                                ![r].stage = IF found.pending THEN "mend" ELSE "decide"]
                   /\ keeper' = keeper
  /\ UNCHANGED <<provider, disk, session, starter, authFlow,
                 handler, poller, leaving, newest, signedOut>>

(* The pending credential is saved first; when that fails it stays pending.*)
MendSaves(r) ==
  /\ AtRequest(r, "mend")
  /\ disk' = req[r].cred /\ volatile' = Absent
  /\ req' = [req EXCEPT ![r].stage = "decide", ![r].stale = req[r].cred]
  /\ UNCHANGED <<provider, session, keeper, starter, authFlow,
                 handler, poller, leaving, history>>

MendFails(r) ==
  /\ AtRequest(r, "mend")
  /\ Remember(req[r].cred, req[r].stale)
  /\ Move(r, "decide")
  /\ UNCHANGED <<provider, disk, session, keeper, starter, authFlow,
                 handler, poller, leaving, history>>

(* can_reuse_after_unauthorized, or a credential that needs no refresh.    *)
Reusable(r) ==
  /\ req[r].cred > aged
  /\ req[r].rejected # req[r].cred

Reuse(r) ==
  /\ AtRequest(r, "decide")
  /\ req[r].call = "status" \/ Reusable(r)
  /\ keeper' = Absent
  /\ IF req[r].call = "status"
     THEN ToStatus(r)
     ELSE ToSend(r)
  /\ UNCHANGED <<provider, stored, session, starter, authFlow,
                 handler, poller, leaving, history>>

Present(r) ==
  /\ AtRequest(r, "decide")
  /\ req[r].call = "request" /\ ~Reusable(r)
  /\ Move(r, "exchange")
  /\ UNCHANGED <<provider, stored, session, keeper, starter, authFlow,
                 handler, poller, leaving, history>>

(* The provider takes the token and answers with the next one. *)
Exchanged(r) ==
  /\ AtRequest(r, "exchange")
  /\ req[r].cred \notin exchanged
  /\ issued < MaxSerial
  /\ issued' = issued + 1
  /\ exchanged' = exchanged \cup {req[r].cred}

Answered(r) ==
  /\ Exchanged(r)
  /\ req' = [req EXCEPT ![r].cred = issued + 1, ![r].stage = "store", ![r].tries = 1]
  /\ newest' = issued + 1
  /\ UNCHANGED <<aged, stored, session, keeper, starter, authFlow,
                 handler, poller, leaving, lost, signedOut>>

(* The answer is lost, times out, or the request is dropped meanwhile. *)
AnswerLost(r) ==
  /\ Exchanged(r)
  /\ newest' = issued + 1
  /\ lost' = lost \cup {issued + 1}
  /\ EndRequest(r)
  /\ keeper' = Absent
  /\ UNCHANGED <<aged, stored, session, starter, authFlow,
                 handler, poller, leaving, signedOut>>

(* invalid_grant: the file is removed, if it can be, and nothing is pending.*)
InvalidGrant(r) ==
  /\ AtRequest(r, "exchange")
  /\ disk' \in {disk, Absent} /\ volatile' = Absent
  /\ newest' = Absent
  /\ EndRequest(r)
  /\ keeper' = Absent
  /\ UNCHANGED <<provider, session, starter, authFlow,
                 handler, poller, leaving, lost, signedOut>>

(* An error, or the request is dropped before the provider has the token. *)
ExchangeFails(r) ==
  /\ req[r].stage \in {"mend", "exchange"}
  /\ EndRequest(r)
  /\ keeper' = Absent
  /\ UNCHANGED <<provider, stored, session, starter, authFlow,
                 handler, poller, leaving, history>>

SaveRefreshed(r) ==
  /\ AtRequest(r, "store")
  /\ disk' = req[r].cred /\ volatile' = Absent
  /\ keeper' = Absent
  /\ ToSend(r)
  /\ UNCHANGED <<provider, session, starter, authFlow,
                 handler, poller, leaving, history>>

SaveRefreshedFails(r) ==
  /\ AtRequest(r, "store")
  /\ IF req[r].tries < Attempts
     THEN /\ Move(r, "again")
          /\ UNCHANGED <<volatile, keeper>>
     ELSE /\ Remember(req[r].cred, req[r].stale)
          /\ ToSend(r)
          /\ keeper' = Absent
  /\ UNCHANGED <<provider, disk, session, starter, authFlow,
                 handler, poller, leaving, history>>

RetrySave(r) ==
  /\ AtRequest(r, "again")
  /\ req' = [req EXCEPT ![r].stage = "store", ![r].tries = @ + 1]
  /\ UNCHANGED <<provider, stored, session, keeper, starter, authFlow,
                 handler, poller, leaving, history>>

(* The turn is cancelled while its request sleeps between two attempts.    *)
DropWhileSaving(r) ==
  /\ AtRequest(r, "again")
  /\ lost' = lost \cup {req[r].cred}
  /\ EndRequest(r)
  /\ keeper' = Absent
  /\ UNCHANGED <<provider, stored, session, starter, authFlow,
                 handler, poller, leaving, newest, signedOut>>

-----------------------------------------------------------------------------
(* The device login: its handler, and the task that polls the provider.    *)

(* abort() ends a task where it awaits something; one that runs goes on to *)
(* its next await.                                                         *)
Awaiting == {"polling", "queue", "again"}

AbortPrevious ==
  LET f == authFlow.abort
  IN  IF authFlow.phase # "polling" THEN UNCHANGED <<poller, keeper, lost>>
      ELSE /\ poller' = [poller EXCEPT ![f].aborted = TRUE,
                           ![f].stage = IF @ \in Awaiting THEN "done" ELSE @]
           /\ keeper' = IF keeper = f /\ poller[f].stage \in Awaiting THEN Absent ELSE keeper
           /\ lost' = IF poller[f].stage \in Awaiting \ {"polling"}
                      THEN lost \cup {poller[f].cred} ELSE lost

BeginLogin(f) ==
  /\ handler[f] = "new"
  /\ starter = Absent
  /\ starter' = f
  /\ AbortPrevious
  /\ authFlow' = [generation |-> f, phase |-> "starting", abort |-> Absent]
  /\ handler' = [handler EXCEPT ![f] = "ask"]
  /\ UNCHANGED <<provider, stored, session, req, leaving, newest, signedOut>>

(* start fails, or its client leaves and the phase stays behind. *)
LoginFails(f) ==
  /\ handler[f] = "ask"
  /\ authFlow' \in {authFlow, [authFlow EXCEPT !.phase = "failed"]}
  /\ starter' = Absent
  /\ handler' = [handler EXCEPT ![f] = "done"]
  /\ UNCHANGED <<provider, stored, session, keeper, req, poller, leaving, history>>

Challenge(f) ==
  /\ handler[f] = "ask"
  /\ handler' = [handler EXCEPT ![f] = "register"]
  /\ poller' = [poller EXCEPT ![f].stage = "polling"]
  /\ UNCHANGED <<provider, stored, session, keeper, starter, authFlow, req, leaving, history>>

(* The abort handle is filed, unless the task has finished already. *)
Register(f) ==
  /\ handler[f] = "register"
  /\ authFlow' = IF authFlow.generation = f /\ authFlow.phase = "starting"
                 THEN [authFlow EXCEPT !.phase = "polling", !.abort = f] ELSE authFlow
  /\ starter' = Absent
  /\ handler' = [handler EXCEPT ![f] = "done"]
  /\ UNCHANGED <<provider, stored, session, keeper, req, poller, leaving, history>>

(* The client leaves before that: no logout will reach this task.          *)
LeaveUnfiled(f) ==
  /\ handler[f] = "register"
  /\ starter' = Absent
  /\ handler' = [handler EXCEPT ![f] = "left"]
  /\ UNCHANGED authFlow
  /\ UNCHANGED <<provider, stored, session, keeper, req, poller, leaving, history>>

PollApproved(f) ==
  /\ poller[f].stage = "polling"
  /\ issued < MaxSerial
  /\ issued' = issued + 1
  /\ poller' = [poller EXCEPT ![f].stage = "claim", ![f].cred = issued + 1]
  /\ signedOut' = FALSE
  /\ UNCHANGED <<exchanged, aged, stored, session, keeper, starter, authFlow,
                 req, handler, leaving, newest, lost>>

(* Denied, expired, the provider cannot be reached, or the lock not be had.*)
PollFails(f) ==
  /\ poller[f].stage \in {"polling", "claim", "queue"}
  /\ poller' = [poller EXCEPT ![f].stage = "done"]
  /\ authFlow' = IF authFlow.generation = f
                 THEN [authFlow EXCEPT !.phase = "failed", !.abort = Absent] ELSE authFlow
  /\ UNCHANGED <<provider, stored, session, keeper, starter, req, handler, leaving, history>>

(* The lock is free and the task does not wait for it, aborted or not. *)
ClaimLock(f) ==
  /\ poller[f].stage \in {"claim", "queue"}
  /\ keeper = Absent
  /\ keeper' = f
  /\ \E read \in Readings :
       poller' = [poller EXCEPT ![f].stage = "store", ![f].stale = read, ![f].tries = 1]
  /\ newest' = poller[f].cred
  /\ signedOut' = (signedOut /\ ~ poller[f].aborted /\ handler[f] # "left")
  /\ UNCHANGED <<provider, stored, session, starter, authFlow,
                 req, handler, leaving, lost>>

QueueForLock(f) ==
  /\ poller[f].stage = "claim"
  /\ keeper # Absent
  /\ poller' = [poller EXCEPT ![f].stage = IF poller[f].aborted THEN "done" ELSE "queue"]
  /\ UNCHANGED <<provider, stored, session, keeper, starter, authFlow,
                 req, handler, leaving, history>>

SaveLogin(f) ==
  /\ poller[f].stage = "store"
  /\ disk' = poller[f].cred /\ volatile' = Absent
  /\ poller' = [poller EXCEPT ![f] = [NoPoller EXCEPT !.stage = "rotate"]]
  /\ UNCHANGED <<provider, session, keeper, starter, authFlow,
                 req, handler, leaving, history>>

SaveLoginFails(f) ==
  /\ poller[f].stage = "store"
  /\ IF poller[f].tries = Attempts
     THEN /\ Remember(poller[f].cred, poller[f].stale)
          /\ poller' = [poller EXCEPT ![f] = [NoPoller EXCEPT !.stage = "rotate"]]
          /\ UNCHANGED <<keeper, lost>>
     ELSE /\ poller' = [poller EXCEPT ![f].stage = IF poller[f].aborted THEN "done" ELSE "again"]
          /\ IF poller[f].aborted
             THEN keeper' = Absent /\ lost' = lost \cup {poller[f].cred}
             ELSE UNCHANGED <<keeper, lost>>
          /\ UNCHANGED volatile
  /\ UNCHANGED <<provider, disk, session, starter, authFlow,
                 req, handler, leaving, newest, signedOut>>

RetryLogin(f) ==
  /\ poller[f].stage = "again"
  /\ poller' = [poller EXCEPT ![f].stage = "store", ![f].tries = @ + 1]
  /\ UNCHANGED <<provider, stored, session, keeper, starter, authFlow,
                 req, handler, leaving, history>>

OpenSession(f) ==
  /\ poller[f].stage = "rotate"
  /\ session' = Rotated(TRUE)
  /\ keeper' = Absent
  /\ poller' = [poller EXCEPT ![f].stage = "finish"]
  /\ UNCHANGED <<provider, stored, starter, authFlow, req, handler, leaving, history>>

FinishLogin(f) ==
  /\ poller[f].stage = "finish"
  /\ poller' = [poller EXCEPT ![f].stage = "done"]
  /\ authFlow' = IF authFlow.generation = f
                 THEN [authFlow EXCEPT !.phase = "idle", !.abort = Absent] ELSE authFlow
  /\ UNCHANGED <<provider, stored, session, keeper, starter, req, handler, leaving, history>>

-----------------------------------------------------------------------------
(* Logout.                                                                 *)

BeginLogout(l) ==
  /\ leaving[l] = "new"
  /\ starter = Absent
  /\ starter' = l
  /\ AbortPrevious
  /\ authFlow' = [generation |-> l, phase |-> "idle", abort |-> Absent]
  /\ session' = Rotated(FALSE)
  /\ leaving' = [leaving EXCEPT ![l] = "lock"]
  /\ UNCHANGED <<provider, stored, req, handler, newest, signedOut>>

\* Mutant of LogoutLocks: a logout does not wait for the credential lock.
LogoutBarges(l) ==
  /\ leaving[l] = "lock"
  /\ leaving' = [leaving EXCEPT ![l] = "remove"]
  /\ UNCHANGED <<provider, stored, session, keeper, starter, authFlow, req, handler, poller, history>>

LogoutLocks(l) ==
  /\ leaving[l] = "lock"
  /\ keeper = Absent
  /\ keeper' = l
  /\ leaving' = [leaving EXCEPT ![l] = "remove"]
  /\ UNCHANGED <<provider, stored, session, starter, authFlow, req, handler, poller, history>>

LogoutRemoves(l) ==
  /\ leaving[l] = "remove"
  /\ disk' = Absent /\ volatile' = Absent
  /\ newest' = Absent
  /\ signedOut' = TRUE
  /\ keeper' = Absent /\ starter' = Absent
  /\ leaving' = [leaving EXCEPT ![l] = "done"]
  /\ UNCHANGED <<provider, session, authFlow, req, handler, poller, lost>>

(* The lock or the file cannot be had: the session is opened again.        *)
LogoutFails(l) ==
  /\ leaving[l] \in {"lock", "remove"}
  /\ session' = Rotated(TRUE)
  /\ keeper' = IF keeper = l THEN Absent ELSE keeper
  /\ starter' = Absent
  /\ leaving' = [leaving EXCEPT ![l] = "done"]
  /\ UNCHANGED <<provider, stored, authFlow, req, handler, poller, history>>

(* The client leaves while its logout waits for the lock.                  *)
LogoutDropped(l) ==
  /\ leaving[l] = "lock"
  /\ starter' = Absent
  /\ leaving' = [leaving EXCEPT ![l] = "done"]
  /\ UNCHANGED <<provider, stored, session, keeper, authFlow, req, handler, poller, history>>

-----------------------------------------------------------------------------
Expire ==
  /\ aged < issued
  /\ aged' = aged + 1
  /\ UNCHANGED <<issued, exchanged, stored, session, keeper, starter, authFlow, tasks, history>>

(* The application exits and starts again. *)
AppRestarts ==
  /\ volatile' = Absent
  /\ lost' = lost \cup (IF volatile = Absent THEN {} ELSE {volatile.cred})
                  \cup {req[r].cred : r \in {r \in Requests : req[r].stage \in {"store", "again"}}}
                  \cup {poller[f].cred : f \in {f \in Flows : poller[f].stage \in
                                                  {"claim", "queue", "store", "again"}}}
  /\ session' = [epoch |-> 0, enabled |-> TRUE]
  /\ keeper' = Absent /\ starter' = Absent
  /\ authFlow' = [generation |-> Absent, phase |-> "idle", abort |-> Absent]
  /\ req' = [r \in Requests |-> IdleRequest]
  /\ handler' = [f \in Flows |-> IF handler[f] = "new" THEN "new" ELSE "done"]
  /\ poller' = [f \in Flows |-> IF poller[f].stage = "none" THEN NoPoller
                                ELSE [NoPoller EXCEPT !.stage = "done"]]
  /\ leaving' = [l \in Logouts |-> IF leaving[l] = "new" THEN "new" ELSE "done"]
  /\ UNCHANGED <<provider, disk, newest, signedOut>>

RequestStep(r) ==
  \/ BeginRequest(r) \/ BeginStatus(r) \/ PeekDisk(r) \/ PeekVolatile(r)
  \/ Send(r) \/ Resend(r) \/ Unauthorized(r) \/ RequestEnds(r)
  \/ TakeLock(r) \/ ReadUnderLock(r) \/ MendSaves(r) \/ MendFails(r)
  \/ Reuse(r) \/ Present(r) \/ Answered(r) \/ AnswerLost(r) \/ InvalidGrant(r)
  \/ ExchangeFails(r) \/ SaveRefreshed(r) \/ SaveRefreshedFails(r)
  \/ RetrySave(r) \/ DropWhileSaving(r)

LoginStep(f) ==
  \/ BeginLogin(f) \/ LoginFails(f) \/ Challenge(f) \/ Register(f) \/ LeaveUnfiled(f)
  \/ PollApproved(f) \/ PollFails(f) \/ ClaimLock(f) \/ QueueForLock(f)
  \/ SaveLogin(f) \/ SaveLoginFails(f) \/ RetryLogin(f)
  \/ OpenSession(f) \/ FinishLogin(f)

LogoutStep(l) ==
  BeginLogout(l) \/ LogoutLocks(l) \/ LogoutRemoves(l) \/ LogoutFails(l) \/ LogoutDropped(l)

GrokNext ==
  \/ \E r \in Requests : RequestStep(r)
  \/ \E f \in Flows : LoginStep(f)
  \/ \E l \in Logouts : LogoutStep(l)
  \/ Expire
  \/ AppRestarts

GrokSpec == GrokInit /\ [][GrokNext]_grokVars

-----------------------------------------------------------------------------
GrokTypeOK ==
  /\ issued \in Serials /\ exchanged \subseteq Serials /\ aged \in Nat
  /\ disk \in Serials \cup {Absent}
  /\ volatile \in Pending \cup {Absent}
  /\ session \in [epoch : Nat, enabled : BOOLEAN]
  /\ keeper \in Keepers \cup {Absent}
  /\ starter \in Flows \cup Logouts \cup {Absent}
  /\ authFlow \in [generation : Keepers \cup {Absent}, abort : Flows \cup {Absent},
                   phase : {"idle", "starting", "polling", "failed"}]
  /\ req \in [Requests -> RequestRecords]
  /\ handler \in [Flows -> {"new", "ask", "register", "left", "done"}]
  /\ poller \in [Flows -> PollerRecords]
  /\ leaving \in [Logouts -> {"new", "lock", "remove", "done"}]
  /\ newest \in Serials \cup {Absent} /\ lost \subseteq Serials /\ signedOut \in BOOLEAN

(* The credentials somebody can still present: on disk, pending, or in the *)
(* hands of the task that saves them.                                      *)
InHand ==
  {disk} \cup (IF volatile = Absent THEN {} ELSE {volatile.cred})
  \cup {req[r].cred : r \in {r \in Requests : req[r].stage \in {"store", "again"}}}
  \cup {poller[f].cred : f \in {f \in Flows : poller[f].stage \in {"store", "again"}}}

(* The one credential that is good is never mislaid: it is on disk, pending*)
(* or being saved, unless its answer was lost, its request was dropped     *)
(* between two attempts to save it, the application exited while it was    *)
(* pending, or a reader without the lock took the file it had read before  *)
(* for a login made elsewhere.                                             *)
NewestKept == newest = Absent \/ newest \in InHand \cup lost

(* No refresh token is presented twice, however many requests are refused  *)
(* or find the credential aged at once, unless its successor was lost, or  *)
(* refused and the file could not be removed.                              *)
PresentedOnce ==
  lost = {} /\ newest # Absent =>
    \A r \in Requests : AtRequest(r, "exchange") => req[r].cred \notin exchanged

(* The one-time refresh token is neither lost nor used twice.              *)
RefreshTokenSafe == NewestKept /\ PresentedOnce

(* After a logout there is no credential until the user approves the next  *)
(* login, whatever refresh, mend or device flow was under way: a cancelled *)
(* device flow cannot recreate one (begin_auth_flow), unless the provider  *)
(* had answered it and it took the lock before it met its abort(), or the  *)
(* client of its start left before the handle of that abort was filed.     *)
LogoutSticks == signedOut => disk = Absent /\ volatile = Absent

=============================================================================
