------------------------------ MODULE History ------------------------------
(***************************************************************************)
(* The conversation a chat has with the model of the game master: the      *)
(* history gm_messages that every request of the tool loop sends, the      *)
(* world snapshot and the statements about player options in it, its       *)
(* compaction, and the cache of what world lookups have delivered into it. *)
(* A turn works on a staged session; only a completed turn is saved.       *)
(*                                                                         *)
(* Texts are left out: of a message the model keeps its role in the        *)
(* history, of a lookup which pieces of knowledge it returns.  A history   *)
(* is over its token limit or not: either may be the case.                 *)
(***************************************************************************)
EXTENDS Naturals, Sequences, FiniteSets

CONSTANTS
  Knowledge,  \* what lookups may find
  KeepTurns,  \* gm_keep_turns
  MaxHops,    \* max_tool_hops, when it is a limit (0 or less is none)
  MaxCalls,   \* bound: calls of one answer of the model
  MaxTurns    \* bound: turns of the chat

\* maybe_compact indexes the turns from the end: it cannot keep none.
ASSUME KeepAssumption == KeepTurns \in Nat \ {0}

\* A turn has a hop; chats saved by earlier versions have had a turn.
ASSUME HistoryBounds == MaxHops \in Nat \ {0} /\ MaxTurns \in Nat \ {0}

VARIABLES
  keptGm,   \* the session as the database has it
  liveGm,   \* the session of the running turn
  gmRun     \* how far the turn is

historyVars == <<keptGm, liveGm, gmRun>>

Options == {"on", "off"}
Snapshot(o) == [kind |-> "snapshot", options |-> o]
Notice(o) == [kind |-> "notice", options |-> o]
Action(n) == [kind |-> "action", turn |-> n]
Decision(calls) == [kind |-> "calls", calls |-> calls]
ToolReply(call, facts) == [kind |-> "reply", call |-> call, facts |-> facts]
Narration == [kind |-> "answer"]

\* Tools as far as the history tells them apart.
Tools == {"ask_player", "lookup"}

\* gm_messages, turn, snapshot_options_state, world_query_seen
GmSession(messages, n, o) == [messages |-> messages, turn |-> n, options |-> o, seen |-> {}]

NoRun == [stage |-> "idle", entry |-> "fresh", include |-> "off", hops |-> 0, todo |-> << >>, shown |-> FALSE]

(* A new chat, and chats saved by earlier versions: before snapshots, with *)
(* a snapshot that did not say what it said of the options, and with a     *)
(* turn whose model call failed.                                           *)
HistoryInit ==
  /\ keptGm \in {GmSession(<< >>, 0, "unset"),
                 GmSession(<<Action(1), Narration>>, 1, "unset"),
                 GmSession(<<Snapshot("off"), Action(1), Narration>>, 1, "unset"),
                 GmSession(<<Action(1)>>, 1, "unset"),
                 GmSession(<<Snapshot("on"), Action(1)>>, 1, "on")}
  /\ liveGm = keptGm
  /\ gmRun = NoRun

-----------------------------------------------------------------------------
(* Compaction.                                                             *)

HasRoleUser(m) == m.kind \in {"snapshot", "notice", "action"}
IsSnapshot(m) == m.kind = "snapshot"

\* Mutant of CutAt: the last messages are kept, whatever they belong to.
CutAnywhere(messages) == {i \in DOMAIN messages : i = Len(messages) - KeepTurns}

(* Where the part that is kept begins; nowhere when it would be all.       *)
CutAt(messages) ==
  LET starts == {i \in DOMAIN messages : HasRoleUser(messages[i])}
  IN  {i \in starts : Cardinality({j \in starts : j >= i}) = KeepTurns /\ Cardinality(starts) > KeepTurns}

\* What is kept, in its order; snapshots in it are stripped.
Retained(messages, cut) ==
  LET kept == {i \in cut .. Len(messages) : ~ IsSnapshot(messages[i])}
      Rank(i) == Cardinality({j \in kept : j <= i})
  IN  [k \in 1 .. Cardinality(kept) |-> messages[CHOOSE i \in kept : Rank(i) = k]]

\* Mutant of Compacted: what was delivered before is taken for known.
CompactedOnly(s, cut) ==
  [s EXCEPT !.messages = <<Snapshot(IF s.options = "on" THEN "on" ELSE "off")>> \o Retained(s.messages, cut)]

(* maybe_compact: the rest becomes the summary; a fresh snapshot leads.    *)
Compacted(s, cut) ==
  [s EXCEPT !.messages = <<Snapshot(IF s.options = "on" THEN "on" ELSE "off")>> \o Retained(s.messages, cut),
            !.seen = {}]

MaybeCompacted(s) == {s} \cup {Compacted(s, cut) : cut \in CutAt(s.messages)}

-----------------------------------------------------------------------------
(* A turn.                                                                 *)

(* The snapshot once, at the end of a history that has none; after it a    *)
(* notice whenever the setting differs from what was said last.            *)
Prepared(s, o) ==
  LET told == IF \E i \in DOMAIN s.messages : IsSnapshot(s.messages[i])
              THEN IF s.options = o THEN << >> ELSE <<Notice(o)>>
              ELSE <<Snapshot(o)>>
  IN  [s EXCEPT !.turn = @ + 1, !.options = o, !.messages = @ \o told \o <<Action(s.turn + 1)>>]

BeginTurn(o) ==
  /\ gmRun.stage = "idle"
  /\ keptGm.turn < MaxTurns
  /\ liveGm' \in MaybeCompacted(Prepared(keptGm, o))
  /\ gmRun' = [NoRun EXCEPT !.stage = "hop", !.include = o, !.hops = 1]
  /\ UNCHANGED keptGm

(* resume_turn_into: the player's action is in the history already.        *)
ResumeTurn(o) ==
  /\ gmRun.stage = "idle"
  /\ keptGm.messages # << >> /\ keptGm.messages[Len(keptGm.messages)] = Action(keptGm.turn)
  /\ liveGm' = keptGm
  /\ gmRun' = [NoRun EXCEPT !.stage = "hop", !.entry = "resume", !.hops = 1,
                           !.include = IF keptGm.options = "unset" THEN o ELSE keptGm.options]
  /\ UNCHANGED keptGm

(* The model calls tools: each call gets the number of its place.          *)
ModelCalls ==
  /\ gmRun.stage = "hop"
  /\ \E n \in 1 .. MaxCalls : \E tools \in [1 .. n -> Tools] :
       LET calls == [i \in 1 .. n |-> [tool |-> tools[i], id |-> <<liveGm.turn, gmRun.hops, i>>]]
       IN  /\ liveGm' = [liveGm EXCEPT !.messages = Append(@, Decision(calls))]
           /\ gmRun' = [gmRun EXCEPT !.stage = "calls", !.todo = calls]
  /\ UNCHANGED keptGm

(* After the last call of an answer: another hop, if one is left.          *)
Advance(run) ==
  IF run.todo # << >> THEN run
  ELSE IF run.hops < MaxHops THEN [run EXCEPT !.stage = "hop", !.hops = @ + 1]
  ELSE [run EXCEPT !.stage = "over"]

(* Only what the cache does not have is delivered, and then the cache has  *)
(* it.                                                                     *)
NewFacts(s, found) == found \ s.seen

(* get_world_fact and get_memory.                                          *)
RunLookup ==
  /\ gmRun.stage = "calls" /\ Head(gmRun.todo).tool = "lookup"
  /\ \E found \in (SUBSET Knowledge) \ {{}} :
       liveGm' = [liveGm EXCEPT
         !.messages = Append(@, ToolReply(Head(gmRun.todo).id, NewFacts(liveGm, found))),
         !.seen = @ \cup found]
  /\ gmRun' = Advance([gmRun EXCEPT !.todo = Tail(@)])
  /\ UNCHANGED keptGm

(* ask_player: shown to the player, unless the options are too few.        *)
RunAskPlayer ==
  /\ gmRun.stage = "calls" /\ Head(gmRun.todo).tool = "ask_player"
  /\ liveGm' = [liveGm EXCEPT !.messages = Append(@, ToolReply(Head(gmRun.todo).id, {}))]
  /\ \E valid \in BOOLEAN : gmRun' = Advance([gmRun EXCEPT !.todo = Tail(@), !.shown = @ \/ valid])
  /\ UNCHANGED keptGm

(* The model answers without a call and the turn is complete.              *)
CompleteTurn ==
  /\ gmRun.stage = "hop"
  /\ gmRun.include = "on" => gmRun.shown
  /\ keptGm' = [liveGm EXCEPT !.messages = Append(@, Narration)]
  /\ liveGm' = keptGm'
  /\ gmRun' = NoRun

(* A model call fails, the hops are used up, the options were not shown,   *)
(* the turn is cancelled or the server stops: the staged session is lost.  *)
DropTurn ==
  /\ gmRun.stage # "idle"
  /\ liveGm' = keptGm
  /\ gmRun' = NoRun
  /\ UNCHANGED keptGm

HistoryNext ==
  \/ \E o \in Options : BeginTurn(o) \/ ResumeTurn(o)
  \/ ModelCalls \/ RunLookup \/ RunAskPlayer \/ CompleteTurn \/ DropTurn

HistorySpec == HistoryInit /\ [][HistoryNext]_historyVars

-----------------------------------------------------------------------------
(* Properties.                                                             *)

Kinds(messages, kinds) == {i \in DOMAIN messages : messages[i].kind \in kinds}

HistoryTypeOK ==
  /\ \A s \in {keptGm, liveGm} :
       /\ s.turn \in 0 .. MaxTurns /\ s.seen \subseteq Knowledge /\ s.options \in Options \cup {"unset"}
       /\ Kinds(s.messages, {"snapshot", "notice", "action", "calls", "reply", "answer"}) = DOMAIN s.messages
  /\ gmRun.stage \in {"idle", "hop", "calls", "over"} /\ gmRun.hops \in 0 .. MaxHops

(* Every call of a decision is answered right after it and in its order,   *)
(* and nothing is answered that was not asked: providers refuse any other  *)
(* history, and a chat that has one is stuck.                              *)
CallsAnswered(messages) ==
  LET Asked(i) == {k \in Kinds(messages, {"calls"}) : k < i /\ i <= k + Len(messages[k].calls)}
  IN  /\ \A k \in Kinds(messages, {"calls"}) : \A n \in DOMAIN messages[k].calls :
           /\ k + n <= Len(messages)
           /\ messages[k + n].kind = "reply" /\ messages[k + n].call = messages[k].calls[n].id
      /\ \A i \in Kinds(messages, {"reply"}) : Asked(i) # {}

(* One picture of the world, and what was said last of the player options  *)
(* is what the tools of this request are (a resumed turn goes on with the  *)
(* history it finds, which may be older than snapshots).                   *)
OneSnapshot(messages, include) ==
  LET said == Kinds(messages, {"snapshot", "notice"})
  IN  /\ Cardinality(Kinds(messages, {"snapshot"})) = 1
      /\ \E i \in said : messages[i].options = include /\ \A j \in said : j <= i

(* drive and maybe_compact: what is sent to the model can be answered.     *)
RequestWellFormed ==
  gmRun.stage = "hop" =>
    /\ CallsAnswered(liveGm.messages)
    /\ \E i \in DOMAIN liveGm.messages : liveGm.messages[i] = Action(liveGm.turn)
    /\ gmRun.entry = "fresh" => OneSnapshot(liveGm.messages, gmRun.include)

(* filter_new_fact_payload and select_new_query_rows leave out what was    *)
(* "already delivered in the active conversation context": the reply that  *)
(* delivered it is still in the history, whatever was compacted, failed or *)
(* dropped since.                                                          *)
DeliveredIsHeld ==
  \A s \in {keptGm, liveGm} : \A fact \in s.seen :
    \E i \in Kinds(s.messages, {"reply"}) : fact \in s.messages[i].facts
=============================================================================
