------------------------------- MODULE Client -------------------------------
(***************************************************************************)
(* The web client and the turns of one chat: it posts what the player says *)
(* under a request id, reads the stream, attaches again when the stream    *)
(* breaks, offers a retry when it gives up, stops a turn, edits an earlier *)
(* one, and after a page load joins the turn the server still runs.  The   *)
(* rows of a turn are shown at once and taken back when it turns out not   *)
(* to have been played.  The load of the page waits for nobody and nobody  *)
(* waits for it: the player may act before it is over.                     *)
(*                                                                         *)
(* The server is the one TurnControl and TurnFeed show: an execution plays *)
(* a request once, its feed may outlive it, and without a feed the request *)
(* is looked up in the chat.                                               *)
(*                                                                         *)
(* Left out: all rows but the player's and errors; the panels beside the   *)
(* timeline; branches and other chats; commands; the resume of turns that  *)
(* old servers saved unfinished.                                           *)
(***************************************************************************)
EXTENDS Naturals, Sequences

CONSTANTS
  MaxActions,   \* bound: what the player says or edits
  Reconnects,   \* TURN_RECONNECT_ATTEMPTS
  MaxTroubles   \* bound: failures of the network and of the server, and page loads

ASSUME ClientBounds == MaxActions \in Nat /\ Reconnects \in Nat /\ MaxTroubles \in Nat

Ids == 1 .. MaxActions

VARIABLES
  chat,      \* the server: the request ids of the turns of the chat
  turn,      \* the server: the last execution of each request
  latest,    \* the server: pairs of requests, the second registered after the first
  screen,    \* timelineStore: the rows, and the rows before the open attempt
  attempt,   \* sendTurn: what it sends and what it waits for
  failed,    \* failedTurn: the attempt that can be retried, if any
  stop,      \* stopTurn: its request, or the answer on its way
  aside,     \* beside the attempt: the load of the page, the end of a failed edit
  past,      \* history: ids said, played, undone, overtaken, and those set adrift
  budget     \* bounds

serverVars == <<chat, turn, latest>>
clientVars == <<screen, attempt, failed, stop, aside>>
pageVars == <<serverVars, clientVars, past, budget>>

\* A row of the saved transcript carries the number of its turn.
Player(id, n) == [row |-> "player", id |-> id, turn |-> n]
Problem == [row |-> "error", id |-> 0, turn |-> 0]
Transcript == [n \in DOMAIN chat |-> Player(chat[n], n)]

InChat(id) == \E n \in DOMAIN chat : chat[n] = id
Unfinished == {id \in Ids : turn[id].state \in {"running", "saved"}}

NoTurn == [state |-> "none", events |-> 0, edit |-> 0]
AtRest == [stage |-> "rest", id |-> 0, edit |-> 0, staged |-> FALSE, attach |-> FALSE,
           tries |-> 0, seen |-> FALSE, cursor |-> 0, result |-> "none"]
NoStop == [stage |-> "none", rows |-> << >>, status |-> "none"]
Opening == [load |-> "transcript", found |-> {}, restore |-> {}]

\* The page has loaded, and its chat is empty.
ClientInit ==
  /\ chat = << >> /\ latest = {}
  /\ turn = [id \in Ids |-> NoTurn]
  /\ screen = [rows |-> << >>, base |-> {}]
  /\ attempt = AtRest /\ failed = {} /\ stop = NoStop
  /\ aside = [Opening EXCEPT !.load = "done"]
  /\ past = [said |-> 0, played |-> {}, undone |-> {}, overtaken |-> {}, adrift |-> {}]
  /\ budget = [troubles |-> MaxTroubles, transit |-> {}]

Trouble(transit) ==
  /\ budget.troubles > 0
  /\ budget' = [budget EXCEPT !.troubles = @ - 1, !.transit = transit]

-----------------------------------------------------------------------------
(* The server.                                                             *)

Registered == {id \in Ids : turn[id].state # "none"}
Without(id) == {pair \in latest : id \notin {pair[1], pair[2]}}

(* A request that runs is joined, one in the chat is not played again.     *)
PostReceived(id, edit) ==
  /\ UNCHANGED chat
  /\ IF id \in Unfinished \/ InChat(id)
       THEN UNCHANGED <<turn, latest>>
       ELSE /\ turn' = [turn EXCEPT ![id] = [state |-> "running", events |-> 0, edit |-> edit]]
            /\ latest' = Without(id) \cup (Registered \ {id}) \X {id}

ServerSteps(id, from, to) ==
  /\ turn[id].state = from
  /\ turn' = [turn EXCEPT ![id].state = to]
  /\ UNCHANGED <<latest, clientVars>>

TellPlayer(id) ==
  /\ turn[id].state = "running" /\ turn[id].events = 0
  /\ turn' = [turn EXCEPT ![id].events = 1]
  /\ UNCHANGED <<chat, latest, clientVars, past, budget>>

(* An edit puts its turn in the place of an earlier one and all after it.  *)
PlayTurn(id) ==
  /\ turn[id].events = 1
  /\ turn[id].edit <= Len(chat)
  /\ ServerSteps(id, "running", "saved")
  /\ chat' = Append(IF turn[id].edit = 0 THEN chat ELSE SubSeq(chat, 1, turn[id].edit - 1), id)
  /\ past' = [past EXCEPT !.played = @ \cup {id}]
  /\ UNCHANGED budget

TurnEnds(id) ==
  /\ \/ ServerSteps(id, "saved", "completed")
     \/ ServerSteps(id, "running", "failed")
  /\ UNCHANGED <<chat, past, budget>>

\* Another page of the same chat stops the turn.
StoppedElsewhere(id) == ServerSteps(id, "running", "cancelled") /\ Trouble(budget.transit) /\ UNCHANGED <<chat, past>>

Reading(id) == attempt.stage = "read" /\ attempt.id = id

FeedDies(id) ==
  /\ turn[id].state \in {"completed", "cancelled", "failed"}
  /\ ~ Reading(id)
  /\ turn' = [turn EXCEPT ![id] = NoTurn]
  /\ latest' = Without(id)
  /\ UNCHANGED <<chat, clientVars, past, budget>>

ServerRestarts ==
  /\ Unfinished # {}
  /\ Trouble(budget.transit)
  /\ turn' = [id \in Ids |-> NoTurn]
  /\ latest' = {}
  /\ UNCHANGED <<chat, clientVars, past>>

(* A post the client has given up arrives; not while its last feed is read.*)
LateArrives(p) ==
  /\ ~ Reading(p.id)
  /\ PostReceived(p.id, p.edit)
  /\ past' = [past EXCEPT !.overtaken = @ \cup {p.id}]
  /\ budget' = [budget EXCEPT !.transit = @ \ {p}]
  /\ UNCHANGED clientVars

-----------------------------------------------------------------------------
(* The timeline.                                                           *)

RolledBack(s) == IF s.base = {} THEN s ELSE [rows |-> CHOOSE r \in s.base : TRUE, base |-> {}]
Begun(s) == [s EXCEPT !.base = {s.rows}]

IdsIn(s) == {s.rows[i].id : i \in DOMAIN s.rows}

RowsOfTurn(s, n) == {i \in DOMAIN s.rows : s.rows[i].turn = n}

\* The rows before turn n, which must be shown.
CutBefore(s, n) == [s EXCEPT !.rows = SubSeq(@, 1, (CHOOSE i \in RowsOfTurn(s, n) : TRUE) - 1)]

-----------------------------------------------------------------------------
(* An attempt ends: its answer is settled once a stop has been answered.   *)

Settle(result) ==
  attempt' = [AtRest EXCEPT !.stage = "settle", !.id = attempt.id, !.edit = attempt.edit,
                            !.staged = attempt.staged, !.result = result]

\* The player's row, if the stream has not shown it, and the error.
ErrorRows ==
  screen.rows \o (IF attempt.seen THEN << >> ELSE <<Player(attempt.id, 0)>>) \o <<Problem>>

CanRetry(id, edit, attach) == failed' = {[id |-> id, edit |-> edit, attach |-> attach]}

OfferRetry(attach) ==
  /\ screen' = [screen EXCEPT !.rows = ErrorRows]
  /\ CanRetry(attempt.id, attempt.edit, attach)
  /\ Settle("failed")

TakeBack(result, rows) ==
  /\ screen' = [RolledBack(screen) EXCEPT !.rows = @ \o rows]
  /\ failed' = {}
  /\ Settle(result)

\* Mutant of Breaks: the rows of the broken stream stay.
BreaksKeeping ==
  IF attempt.tries < Reconnects
  THEN /\ attempt' = [attempt EXCEPT !.stage = "pause", !.tries = @ + 1, !.seen = FALSE, !.cursor = 0]
       /\ UNCHANGED <<screen, failed>>
  ELSE OfferRetry(attempt.attach)

(* The rows are rebuilt from the feed by the next attempt, which attaches. *)
Breaks ==
  IF attempt.tries < Reconnects
  THEN /\ screen' = Begun(RolledBack(screen))
       /\ attempt' = [attempt EXCEPT !.stage = "pause", !.tries = @ + 1, !.seen = FALSE, !.cursor = 0]
       /\ UNCHANGED failed
  ELSE OfferRetry(attempt.attach)

-----------------------------------------------------------------------------
(* An attempt.                                                             *)

Posting == attempt.stage = "connect" /\ attempt.tries = 0 /\ ~ attempt.attach
Attaching == attempt.stage = "connect" /\ ~ Posting

StartReading == attempt' = [attempt EXCEPT !.stage = "read"] /\ UNCHANGED <<screen, failed>>

\* The answer is one frame: the turn is in the chat.
Replayed == attempt' = [attempt EXCEPT !.stage = "reload", !.result = "replayed"] /\ UNCHANGED <<screen, failed>>

PostAnswered ==
  /\ Posting
  /\ PostReceived(attempt.id, attempt.edit)
  /\ IF InChat(attempt.id) /\ attempt.id \notin Unfinished THEN Replayed ELSE StartReading
  /\ UNCHANGED <<stop, aside, past, budget>>

\* The server refuses: the chat is being deleted, the payload is another.
PostRefused ==
  /\ Posting /\ turn[attempt.id].state = "none" /\ ~ InChat(attempt.id)
  /\ Trouble(budget.transit)
  /\ TakeBack("refused", <<Problem>>)
  /\ UNCHANGED <<serverVars, stop, aside, past>>

AttachAnswered ==
  /\ Attaching
  /\ IF turn[attempt.id].state # "none" THEN StartReading
     ELSE IF InChat(attempt.id) THEN Replayed
     ELSE OfferRetry(FALSE)
  /\ UNCHANGED <<serverVars, stop, aside, past, budget>>

InTransit == IF Posting THEN budget.transit \cup {[id |-> attempt.id, edit |-> attempt.edit]} ELSE budget.transit

(* The post was lost, or its answer, or it is late.                        *)
ConnectBreaks ==
  /\ attempt.stage = "connect"
  /\ \/ Trouble(budget.transit) /\ UNCHANGED serverVars
     \/ Posting /\ Trouble(budget.transit) /\ PostReceived(attempt.id, attempt.edit)
     \/ Posting /\ Trouble(InTransit) /\ UNCHANGED serverVars
  /\ Breaks
  /\ UNCHANGED <<stop, aside, past>>

ShowPlayer ==
  /\ attempt.stage = "read" /\ attempt.cursor < turn[attempt.id].events
  /\ screen' = [screen EXCEPT !.rows = Append(@, Player(attempt.id, 0))]
  /\ attempt' = [attempt EXCEPT !.cursor = @ + 1, !.seen = TRUE]
  /\ UNCHANGED <<serverVars, failed, stop, aside, past, budget>>

StreamBreaks ==
  /\ attempt.stage = "read"
  /\ IF turn[attempt.id].state = "none" THEN UNCHANGED budget ELSE Trouble(budget.transit)
  /\ Breaks
  /\ UNCHANGED <<serverVars, stop, aside, past>>

(* The terminal frame.                                                     *)
TurnDone ==
  /\ attempt.stage = "read" /\ attempt.cursor = turn[attempt.id].events
  /\ \/ /\ turn[attempt.id].state = "completed"
        /\ screen' = [screen EXCEPT !.base = {}]
        /\ attempt' = [attempt EXCEPT !.stage = "reload", !.result = "ok"]
        /\ UNCHANGED <<failed, past>>
     \/ /\ turn[attempt.id].state = "cancelled"
        /\ TakeBack("cancelled", << >>)
        /\ past' = [past EXCEPT !.undone = @ \cup {attempt.id}]
     \/ /\ turn[attempt.id].state = "failed"
        /\ OfferRetry(FALSE) \/ TakeBack("refused", <<Problem>>)
        /\ UNCHANGED past
  /\ UNCHANGED <<serverVars, stop, aside, budget>>

Reconnect ==
  /\ attempt.stage = "pause"
  /\ attempt' = [attempt EXCEPT !.stage = "connect"]
  /\ UNCHANGED <<serverVars, screen, failed, stop, aside, past, budget>>

ShowTranscript == screen' = [rows |-> Transcript, base |-> {}]

Generating == attempt.stage \in {"connect", "read", "pause"}

\* The transcript is shown: the rows that an attempt under way has still to
\* show have no checkpoint to go back to.
Adrift == past' = [past EXCEPT !.adrift = IF Generating THEN {attempt.id} ELSE {}]

Reload ==
  /\ attempt.stage = "reload"
  /\ ShowTranscript
  /\ failed' = {}
  /\ Settle("ok")
  /\ Adrift
  /\ UNCHANGED <<serverVars, stop, aside, budget>>

\* The turn was played; only a replayed one has no rows to stand for it.
ReloadFails ==
  /\ attempt.stage = "reload"
  /\ Trouble(budget.transit)
  /\ IF attempt.result = "replayed"
       THEN screen' = [screen EXCEPT !.rows = ErrorRows] /\ CanRetry(attempt.id, 0, attempt.attach)
       ELSE failed' = {} /\ UNCHANGED screen
  /\ Settle("ok")
  /\ past' = [past EXCEPT !.adrift = @ \cup IF attempt.result = "replayed" /\ screen.base = {} THEN {attempt.id} ELSE {}]
  /\ UNCHANGED <<serverVars, stop, aside>>

(* The end of sendTurn; an edit that failed goes on to restore the chat.   *)
AttemptEnds ==
  /\ attempt.stage = "settle" /\ stop = NoStop
  /\ attempt' = AtRest
  /\ IF attempt.staged /\ attempt.result \in {"failed", "refused"}
       THEN aside' = [aside EXCEPT !.restore = {[id |-> attempt.id, edit |-> attempt.edit, result |-> attempt.result]}]
       ELSE UNCHANGED aside
  /\ UNCHANGED <<serverVars, screen, failed, stop, past, budget>>

Restored == aside' = [aside EXCEPT !.restore = {}]

(* A turn that the load has found may have been joined in the meantime.    *)
RestoreChat ==
  /\ \E e \in aside.restore :
       IF InChat(e.id) THEN ShowTranscript /\ failed' = {}
       ELSE /\ screen' = [rows |-> Append(Transcript, Problem), base |-> {Transcript}]
            /\ IF e.result = "failed" THEN CanRetry(e.id, e.edit, FALSE) ELSE failed' = {}
  /\ Restored
  /\ Adrift
  /\ UNCHANGED <<serverVars, attempt, stop, budget>>

RestoreFails ==
  /\ aside.restore # {}
  /\ Trouble(budget.transit)
  /\ Restored
  /\ UNCHANGED <<serverVars, screen, attempt, failed, stop, past>>

-----------------------------------------------------------------------------
(* The stop button.                                                        *)

\* Mutant of StopTurn: the client closes its stream and does not ask.
StopUnasked ==
  /\ Generating
  /\ TakeBack("cancelled", << >>)
  /\ past' = [past EXCEPT !.undone = @ \cup {attempt.id}]
  /\ UNCHANGED <<serverVars, stop, aside, budget>>

StopTurn ==
  /\ Generating /\ stop = NoStop
  /\ stop' = [stop EXCEPT !.stage = "asked"]
  /\ UNCHANGED <<serverVars, screen, attempt, failed, aside, past, budget>>

Interrupted(id) ==
  turn' = [turn EXCEPT ![id].state = IF @ = "running" THEN "cancelled" ELSE @]

(* post_cancel_turn: a turn that is not in the chat once its fence is      *)
(* crossed is cancelled; one the server does not know is an error.         *)
CancelArrives ==
  /\ stop.stage = "asked"
  /\ Interrupted(attempt.id)
  /\ stop' = IF turn[attempt.id].state = "none" /\ ~ InChat(attempt.id) THEN NoStop
             ELSE [stage |-> "answered", rows |-> Transcript,
                   status |-> IF InChat(attempt.id) THEN "committed" ELSE "cancelled"]
  /\ past' = [past EXCEPT !.overtaken = @ \cup IF Posting THEN {attempt.id} ELSE {}]
  /\ UNCHANGED <<chat, latest, screen, attempt, failed, aside, budget>>

CancelBreaks ==
  /\ stop.stage = "asked"
  /\ Trouble(budget.transit)
  /\ Interrupted(attempt.id) \/ UNCHANGED turn
  /\ stop' = NoStop
  /\ UNCHANGED <<chat, latest, screen, attempt, failed, aside, past>>

(* The chat in the answer is shown and the stream closed.                  *)
CancelAnswered ==
  /\ stop.stage = "answered"
  /\ screen' = [rows |-> stop.rows, base |-> {}]
  /\ failed' = {}
  /\ IF Generating THEN Settle("cancelled") ELSE UNCHANGED attempt
  /\ \E transit \in {budget.transit, InTransit} : budget' = [budget EXCEPT !.transit = transit]
  /\ past' = [past EXCEPT !.undone = @ \cup IF stop.status = "cancelled" THEN {attempt.id} ELSE {},
                          !.adrift = {}]
  /\ stop' = NoStop
  /\ UNCHANGED <<serverVars, aside>>

-----------------------------------------------------------------------------
(* The player.                                                             *)

Send(id, edit, staged, attach, s) ==
  /\ attempt = AtRest
  /\ screen' = Begun(s)
  /\ failed' = {}
  /\ attempt' = [AtRest EXCEPT !.stage = "connect", !.id = id, !.edit = edit, !.staged = staged, !.attach = attach]

\* What stands on the screen when it is sent again is shown a second time.
Again(id, s) == past.adrift \cup ({id} \cap IdsIn(s))

\* sendTurn and regenerateFromTurn, as the player starts them.
Act(id, edit, staged, attach, s) ==
  /\ aside.restore = {}
  /\ Send(id, edit, staged, attach, s)
  /\ UNCHANGED <<serverVars, stop, aside, budget>>

NewId == past.said < MaxActions /\ past' = [past EXCEPT !.said = @ + 1]

Say == NewId /\ Act(past.said + 1, 0, FALSE, FALSE, RolledBack(screen))

(* regenerateFromTurn                                                      *)
EditTurn(n) ==
  /\ RowsOfTurn(RolledBack(screen), n) # {}
  /\ NewId
  /\ Act(past.said + 1, n, TRUE, FALSE, CutBefore(RolledBack(screen), n))

RetryFailed ==
  \E f \in failed :
    LET under == RolledBack(screen)
        s == IF f.edit = 0 THEN under ELSE CutBefore(under, f.edit)
    IN  /\ f.edit # 0 => RowsOfTurn(under, f.edit) # {}
        /\ Act(f.id, f.edit, f.edit # 0, f.edit = 0 /\ f.attach, s)
        /\ past' = [past EXCEPT !.undone = @ \ {f.id}, !.adrift = Again(f.id, s)]

-----------------------------------------------------------------------------
(* The load of the page.                                                   *)

OpenPage ==
  /\ \E transit \in {budget.transit, InTransit} : Trouble(transit)
  /\ screen' = [rows |-> << >>, base |-> {}]
  /\ attempt' = AtRest /\ failed' = {} /\ stop' = NoStop
  /\ aside' = Opening
  /\ past' = [past EXCEPT !.adrift = {}]
  /\ UNCHANGED serverVars

\* The initial load shows the transcript under whatever the player has begun,
\* and looks for a turn to join unless one is in flight or being restored.
LoadTranscript ==
  /\ aside.load = "transcript"
  /\ \/ ShowTranscript /\ Adrift /\ UNCHANGED budget
     \/ Trouble(budget.transit) /\ UNCHANGED <<screen, past>>
  /\ aside' = [aside EXCEPT !.load = IF attempt = AtRest /\ aside.restore = {} THEN "active" ELSE "done"]
  /\ UNCHANGED <<serverVars, attempt, failed, stop>>

\* active_for_chat: the last one registered.
ActiveTurn == {id \in Unfinished : (Unfinished \ {id}) \X {id} \subseteq latest}

ActiveAnswered ==
  /\ aside.load = "active"
  /\ \/ \E id \in ActiveTurn :
          /\ aside' = [aside EXCEPT !.load = "found", !.found = {[id |-> id, edit |-> turn[id].edit]}]
          /\ UNCHANGED budget
     \/ /\ (ActiveTurn = {} /\ UNCHANGED budget) \/ Trouble(budget.transit)
        /\ aside' = [aside EXCEPT !.load = "done"]
  /\ UNCHANGED <<serverVars, screen, attempt, failed, stop, past>>

(* resumeActiveTurn, unless the player has sent a turn since it asked.     *)
Discover ==
  /\ aside.load = "found"
  /\ \/ attempt # AtRest /\ UNCHANGED <<screen, attempt, failed, past>>
     \/ \E f \in aside.found :
          /\ Send(f.id, f.edit, FALSE, TRUE, RolledBack(screen))
          /\ past' = [past EXCEPT !.adrift = Again(f.id, RolledBack(screen))]
  /\ aside' = [aside EXCEPT !.load = "done", !.found = {}]
  /\ UNCHANGED <<serverVars, stop, budget>>

ClientNext ==
  \/ \E id \in Ids : TellPlayer(id) \/ PlayTurn(id) \/ TurnEnds(id) \/ StoppedElsewhere(id) \/ FeedDies(id)
  \/ ServerRestarts
  \/ \E p \in budget.transit : LateArrives(p)
  \/ PostAnswered \/ PostRefused \/ AttachAnswered \/ ConnectBreaks
  \/ ShowPlayer \/ StreamBreaks \/ TurnDone \/ Reconnect
  \/ Reload \/ ReloadFails \/ AttemptEnds \/ RestoreChat \/ RestoreFails
  \/ StopTurn \/ CancelArrives \/ CancelBreaks \/ CancelAnswered
  \/ Say \/ RetryFailed \/ \E n \in Ids : EditTurn(n)
  \/ OpenPage \/ LoadTranscript \/ ActiveAnswered \/ Discover

ClientSpec == ClientInit /\ [][ClientNext]_pageVars

-----------------------------------------------------------------------------
(* Properties.                                                             *)

Rows == Seq([row : {"player", "error"}, id : 0 .. MaxActions, turn : Nat])

ClientTypeOK ==
  /\ chat \in Seq(Ids) /\ latest \subseteq Ids \X Ids
  /\ \A id \in Ids :
       /\ turn[id].state \in {"none", "running", "saved", "completed", "cancelled", "failed"}
       /\ turn[id].events \in {0, 1} /\ turn[id].edit \in 0 .. MaxActions
  /\ screen.rows \in Rows /\ \A r \in screen.base : r \in Rows
  /\ attempt.stage \in {"rest", "connect", "read", "pause", "reload", "settle"}
  /\ attempt.tries \in 0 .. Reconnects /\ attempt.cursor \in {0, 1}
  /\ stop.stage \in {"none", "asked", "answered"} /\ stop.rows \in Rows
  /\ aside.load \in {"transcript", "active", "found", "done"}

(* What the player is left with: at all times every row that is not of an  *)
(* attempt still open or failed is of a turn that was played, and stands   *)
(* there once, however often the stream broke, the attempt was repeated or *)
(* given up, and whatever stop, edit or page load came between.            *)
(* Not so, until the transcript is shown next, of a turn set adrift:       *)
(*  - a turn is shown twice when it is joined, or sent again, while it     *)
(*    stands in the transcript already, and when a stop or a page load has *)
(*    shown the chat before the reload of a replayed turn fails;           *)
(*  - a turn in flight loses its checkpoint when the load of the page, or  *)
(*    the restore of a failed edit, shows the transcript under it: its     *)
(*    rows stay, played or not, and a retry shows them again.              *)
ScreenTrue ==
  LET shown == RolledBack(screen).rows
      said == {i \in DOMAIN shown : shown[i].row = "player"}
  IN  /\ \A i \in said : shown[i].id \in past.played \cup past.adrift
      /\ \A i, j \in said : i # j /\ shown[i].id = shown[j].id => shown[i].id \in past.adrift

(* A turn that a stop has taken off the screen as cancelled does not come  *)
(* into the chat, unless a post of it was overtaken by the stop.           *)
StopHolds == \A id \in past.undone : InChat(id) => id \in past.overtaken
=============================================================================
