------------------------------ MODULE Architect ------------------------------
(***************************************************************************)
(* The architect chat of one package (a world, a story or a character):    *)
(* turns that talk to a model and write the package and its conversation,  *)
(* edits by hand, and deletes, all behind the lock of the package.  A turn *)
(* runs in a task of its own and outlives its client; the handler of an    *)
(* edit or a delete does not, but what it left to a blocking thread does.  *)
(*                                                                         *)
(* A client edits a form and posts all of it, with an edit or with a       *)
(* message to the model, whatever was written since it opened the form;    *)
(* the model writes back all that it was given.                            *)
(*                                                                         *)
(* Content is the set of edits made by hand that it holds.  An edit is     *)
(* held as long as what stands in its field was written by one who had     *)
(* seen it.                                                                *)
(***************************************************************************)
EXTENDS Naturals, Sequences, SequencesExt

CONSTANTS
  Turns,     \* POST /{kind}-architect/chat
  Editors,   \* POST /worlds/{id} and the like
  Removers,  \* POST /worlds/{id}/delete and the like
  Messages,  \* what the user says
  Nobody

ASSUME NobodyAssumption == Nobody \notin Turns \cup Editors \cup Removers

\* The lock knows whose it is: a request is a turn, an edit or a delete.
ASSUME HandlersAssumption ==
  Turns \cap Editors = {} /\ Turns \cap Removers = {} /\ Editors \cap Removers = {}

VARIABLES
  package,   \* "unborn", "present" or "deleted"
  hand,      \* its content
  talk,      \* the row of architect_chats: messages and model_history
  guard,     \* holder of the package's architect lock
  turn,      \* what each turn is doing
  editor,    \* what each edit is doing
  remover,   \* what each delete is doing
  form,      \* the content the form of each client was filled with
  slipped    \* history: edits that were written while no lock kept them apart

architectVars == <<package, hand, talk, guard, turn, editor, remover, form, slipped>>

NoTalk == [exists |-> FALSE, messages |-> << >>, history |-> << >>]
User(text) == [role |-> "user", text |-> text]
Reply(text) == [role |-> "assistant", text |-> text]
TalkItems == {User(text) : text \in Messages} \cup {Reply(text) : text \in Messages}

TurnStages == {"new", "open", "queue", "content", "made", "load", "ask", "model", "save", "tell", "over"}
TurnRecords == [stage : TurnStages, text : Messages \cup {Nobody}, read : SUBSET (Turns \cup Editors),
                messages : Seq(TalkItems), history : Seq(Messages)]
HandlerStages == {"new", "open", "queue", "writes", "row", "alone", "aloneRow", "over"}

NewTurn == [stage |-> "new", text |-> Nobody, read |-> {}, messages |-> << >>, history |-> << >>]

ArchitectInit ==
  /\ package \in {"unborn", "present"}
  /\ hand = {}
  /\ talk = NoTalk
  /\ guard = Nobody
  /\ turn = [t \in Turns |-> NewTurn]
  /\ editor = [e \in Editors |-> "new"]
  /\ remover = [d \in Removers |-> "new"]
  /\ form = [w \in Turns \cup Editors |-> {}]
  /\ slipped = {}

-----------------------------------------------------------------------------
(* Helpers.                                                                *)

Enter(t, s) == turn' = [turn EXCEPT ![t].stage = s]

(* The task returns: an error frame or architect_done has been sent.       *)
Over(t) ==
  /\ turn' = [turn EXCEPT ![t] = [NewTurn EXCEPT !.stage = "over"]]
  /\ guard' = IF guard = t THEN Nobody ELSE guard

(* visible_with_user_message: whichever earlier message of the user reads  *)
(* the same, the new one is not shown.                                     *)
WithUser(messages, text) ==
  IF \E i \in DOMAIN messages : messages[i] = User(text) THEN messages
  ELSE Append(messages, User(text))

\* Mutant of Waits: turns of one package are not kept apart.
WaitsForNobody(who) == guard' = guard

(* lock_owned.                                                             *)
Waits(who) == guard = Nobody /\ guard' = who

(* A creator has told nobody the id it made; it is listed all the same.    *)
Unlocked == \E t \in Turns : turn[t].stage = "made"

(* What may stand after a form is written: what the form knew, and of what *)
(* stood there whatever is in a field that the form leaves empty.          *)
Merged(known) == {known \cup kept : kept \in SUBSET hand}

Slips(apart) == slipped' = IF apart THEN slipped ELSE slipped \cup (hand' \ hand)

-----------------------------------------------------------------------------
(* A turn.  One that names no package makes one: another creator would     *)
(* make another.                                                           *)

OpenForm(t) ==
  /\ turn[t].stage = "new" /\ package = "present"
  /\ form' = [form EXCEPT ![t] = hand]
  /\ Enter(t, "open")
  /\ UNCHANGED <<package, hand, talk, guard, editor, remover, slipped>>

PostTurn(t) ==
  /\ \/ turn[t].stage = "open" /\ package = "present"
     \/ turn[t].stage = "new" /\ package = "unborn" /\ \A u \in Turns : turn[u].stage # "content"
  /\ \E text \in Messages :
       turn' = [turn EXCEPT ![t].text = text,
                            ![t].stage = IF package = "unborn" THEN "content" ELSE "queue"]
  /\ UNCHANGED <<package, hand, talk, guard, editor, remover, form, slipped>>

LockTurn(t) ==
  /\ turn[t].stage = "queue"
  /\ Waits(t)
  /\ Enter(t, "content")
  /\ UNCHANGED <<package, hand, talk, editor, remover, form, slipped>>

(* The first turn makes the package, with the panel's draft in it; it has  *)
(* no lock to take before.                                                 *)
Create(t) ==
  /\ turn[t].stage = "content"
  /\ guard # t /\ package = "unborn"
  /\ package' = "present"
  /\ hand' \in {{}, {t}}
  /\ turn' = [turn EXCEPT ![t].stage = "made", ![t].read = hand']
  /\ UNCHANGED <<talk, guard, editor, remover, form, slipped>>

LockCreated(t) ==
  /\ turn[t].stage = "made"
  /\ Waits(t)
  /\ Enter(t, "load")
  /\ UNCHANGED <<package, hand, talk, editor, remover, form, slipped>>

(* Later turns write the panel's draft, if there is one, and read.  The    *)
(* draft is the form, with an edit of its own or without one.              *)
TakeContent(t) ==
  /\ turn[t].stage = "content"
  /\ guard = t /\ package = "present"
  /\ hand' \in {hand} \cup Merged(form[t]) \cup Merged(form[t] \cup {t})
  /\ turn' = [turn EXCEPT ![t].stage = "load", ![t].read = hand']
  /\ Slips(~ Unlocked)
  /\ form' = [form EXCEPT ![t] = {}]
  /\ UNCHANGED <<package, talk, guard, editor, remover>>

(* The conversation, and the binding that goes with it.                    *)
LoadTalk(t) ==
  /\ turn[t].stage = "load"
  /\ talk.exists \/ package = "present"
  /\ turn' = [turn EXCEPT ![t].stage = "ask", ![t].history = talk.history,
                          ![t].messages = WithUser(talk.messages, turn[t].text)]
  /\ UNCHANGED <<package, hand, talk, guard, editor, remover, form, slipped>>

(* The user's message is saved before the model is called.                 *)
SaveQuestion(t) ==
  /\ turn[t].stage = "ask"
  /\ talk' = [exists |-> TRUE, messages |-> turn[t].messages, history |-> turn[t].history]
  /\ Enter(t, "model")
  /\ UNCHANGED <<package, hand, guard, editor, remover, form, slipped>>

(* The model answers, with a new draft or without one.                     *)
ModelAnswers(t) ==
  /\ turn[t].stage = "model"
  /\ Enter(t, "save") \/ Enter(t, "tell")
  /\ UNCHANGED <<package, hand, talk, guard, editor, remover, form, slipped>>

SaveContent(t) ==
  /\ turn[t].stage = "save"
  /\ package = "present"
  /\ hand' \in Merged(turn[t].read)
  /\ Slips(~ Unlocked)
  /\ Enter(t, "tell")
  /\ UNCHANGED <<package, talk, guard, editor, remover, form>>

SaveAnswer(t) ==
  /\ turn[t].stage = "tell"
  /\ talk' = [exists |-> TRUE,
              messages |-> Append(turn[t].messages, Reply(turn[t].text)),
              history |-> Append(turn[t].history, turn[t].text)]
  /\ Over(t)
  /\ UNCHANGED <<package, hand, editor, remover, form, slipped>>

(* Every step can fail, and ends the turn.  A creator whose first write    *)
(* fails leaves no package behind (rollback_created).                      *)
TurnFails(t) ==
  /\ turn[t].stage \in {"content", "load", "ask", "model", "save", "tell"}
  /\ Over(t)
  /\ UNCHANGED <<package, hand, talk, editor, remover, form, slipped>>

TurnStep(t) ==
  \/ OpenForm(t) \/ PostTurn(t) \/ LockTurn(t) \/ Create(t) \/ LockCreated(t) \/ TakeContent(t)
  \/ LoadTalk(t) \/ SaveQuestion(t) \/ ModelAnswers(t) \/ SaveContent(t)
  \/ SaveAnswer(t) \/ TurnFails(t)

-----------------------------------------------------------------------------
(* An edit by hand: the form, with the edit in it.                         *)

FillForm(e) ==
  /\ editor[e] = "new" /\ package = "present"
  /\ form' = [form EXCEPT ![e] = hand]
  /\ editor' = [editor EXCEPT ![e] = "open"]
  /\ UNCHANGED <<package, hand, talk, guard, turn, remover, slipped>>

PostEdit(e) ==
  /\ editor[e] = "open"
  /\ package = "present"
  /\ editor' = [editor EXCEPT ![e] = "queue"]
  /\ UNCHANGED <<package, hand, talk, guard, turn, remover, form, slipped>>

LockEdit(e) ==
  /\ editor[e] = "queue"
  /\ Waits(e)
  /\ editor' = [editor EXCEPT ![e] = "writes"]
  /\ UNCHANGED <<package, hand, talk, turn, remover, form, slipped>>

Write(e) ==
  /\ editor[e] \in {"writes", "alone"}
  /\ IF package = "present" THEN hand' \in Merged(form[e] \cup {e}) ELSE UNCHANGED hand
  /\ guard' = IF editor[e] = "writes" THEN Nobody ELSE guard
  /\ editor' = [editor EXCEPT ![e] = "over"]
  /\ Slips(editor[e] = "writes" /\ ~ Unlocked)
  /\ form' = [form EXCEPT ![e] = {}]
  /\ UNCHANGED <<package, talk, turn, remover>>

(* The client leaves: the lock falls, the blocking write goes on.          *)
LeaveEdit(e) ==
  /\ editor[e] = "writes"
  /\ guard' = Nobody
  /\ editor' = [editor EXCEPT ![e] = "alone"]
  /\ UNCHANGED <<package, hand, talk, turn, remover, form, slipped>>

-----------------------------------------------------------------------------
(* A delete.                                                               *)

PostDelete(d) ==
  /\ remover[d] = "new"
  /\ package = "present"
  /\ remover' = [remover EXCEPT ![d] = "queue"]
  /\ UNCHANGED <<package, hand, talk, guard, turn, editor, form, slipped>>

LockDelete(d) ==
  /\ remover[d] = "queue"
  /\ Waits(d)
  /\ remover' = [remover EXCEPT ![d] = "writes"]
  /\ UNCHANGED <<package, hand, talk, turn, editor, form, slipped>>

RemovePackage(d) ==
  /\ remover[d] \in {"writes", "alone"}
  /\ package' = "deleted" /\ hand' = {}
  /\ remover' = [remover EXCEPT ![d] =
       IF package # "present" THEN "over" ELSE IF @ = "writes" THEN "row" ELSE "aloneRow"]
  /\ guard' = IF package # "present" /\ remover[d] = "writes" THEN Nobody ELSE guard
  /\ UNCHANGED <<talk, turn, editor, form, slipped>>

(* Its conversation goes with it, if it can. *)
RemoveTalk(d) ==
  /\ remover[d] \in {"row", "aloneRow"}
  /\ talk' \in {talk, NoTalk}
  /\ guard' = IF remover[d] = "row" THEN Nobody ELSE guard
  /\ remover' = [remover EXCEPT ![d] = "over"]
  /\ UNCHANGED <<package, hand, turn, editor, form, slipped>>

LeaveDelete(d) ==
  /\ remover[d] \in {"writes", "row"}
  /\ guard' = Nobody
  /\ remover' = [remover EXCEPT ![d] = IF @ = "writes" THEN "alone" ELSE "aloneRow"]
  /\ UNCHANGED <<package, hand, talk, turn, editor, form, slipped>>

(* The server stops: locks and tasks are gone, files and rows are not, nor *)
(* the forms that clients have open.                                       *)
ServerStops ==
  /\ guard' = Nobody
  /\ turn' = [t \in Turns |-> IF turn[t].stage \in {"new", "open"} THEN turn[t]
                              ELSE [NewTurn EXCEPT !.stage = "over"]]
  /\ editor' = [e \in Editors |-> IF editor[e] \in {"new", "open"} THEN editor[e] ELSE "over"]
  /\ remover' = [d \in Removers |-> IF remover[d] = "new" THEN "new" ELSE "over"]
  /\ UNCHANGED <<package, hand, talk, form, slipped>>

ArchitectNext ==
  \/ \E t \in Turns : TurnStep(t)
  \/ \E e \in Editors : FillForm(e) \/ PostEdit(e) \/ LockEdit(e) \/ Write(e) \/ LeaveEdit(e)
  \/ \E d \in Removers :
       PostDelete(d) \/ LockDelete(d) \/ RemovePackage(d) \/ RemoveTalk(d) \/ LeaveDelete(d)
  \/ ServerStops

ArchitectSpec == ArchitectInit /\ [][ArchitectNext]_architectVars

-----------------------------------------------------------------------------
ArchitectTypeOK ==
  /\ package \in {"unborn", "present", "deleted"}
  /\ hand \subseteq Turns \cup Editors
  /\ talk \in [exists : BOOLEAN, messages : Seq(TalkItems), history : Seq(Messages)]
  /\ guard \in Turns \cup Editors \cup Removers \cup {Nobody}
  /\ turn \in [Turns -> TurnRecords]
  /\ editor \in [Editors -> HandlerStages]
  /\ remover \in [Removers -> HandlerStages]
  /\ form \in [Turns \cup Editors -> SUBSET (Turns \cup Editors)]
  /\ slipped \subseteq Turns \cup Editors

(* The edits that stand and that the client whose form is written in this  *)
(* step had not seen when it opened the form.                              *)
WritesForm(w) ==
  \/ w \in Turns /\ turn[w].stage = "content" /\ turn'[w].stage = "load"
  \/ w \in Editors /\ editor[w] \in {"writes", "alone"} /\ editor'[w] = "over"

Unseen == {x \in hand : \E w \in Turns \cup Editors : WritesForm(w) /\ x \notin form[w]}

(* As long as the package lives, an edit made by hand ("so manual field    *)
(* edits are never lost") is lost neither to what a model writes back nor  *)
(* to any other step, but for a form whose client had opened it before the *)
(* edit was made; and no turn writes over the exchange of another or takes *)
(* back a message that was shown.  What a client that left has still to    *)
(* write, and what is written before a creator has the lock of its         *)
(* package, is not kept apart.                                             *)
ArchitectKeeps ==
  [][package = "present" /\ package' = "present" =>
       /\ hand \ (slipped \cup Unseen) \subseteq hand'
       /\ IsPrefix(talk.history, talk'.history)
       /\ IsPrefix(talk.messages, talk'.messages)]_architectVars

=============================================================================
