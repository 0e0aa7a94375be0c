------------------------------ MODULE Exchange ------------------------------
(***************************************************************************)
(* What the characters of a chat know of each other's words: the game      *)
(* master asks a character, the player's action and the answers become     *)
(* beats with witnesses, the beats become room notes, and the next request *)
(* to a character tells what it has witnessed since its last one.  A       *)
(* character's own history opens with its card and is compacted.           *)
(*                                                                         *)
(* Left out: the wording; the actor's private and the player's memory      *)
(* units (a witness has one of every beat it heard) and the consolidation  *)
(* of room notes into crystals, which are in Memory; presence that is seen *)
(* but does not hear; EVENTS_CAP, which lies far above the bounds.  The    *)
(* player hears every beat and is not listed among the witnesses.          *)
(***************************************************************************)
EXTENDS Naturals, Sequences, FiniteSets

CONSTANTS
  Npcs,           \* the characters
  Venues,         \* the places
  KeepExchanges,  \* npc_keep_exchanges
  MaxTalks,       \* bound: turns
  MaxAsks,        \* bound: requests to characters
  MaxChanges      \* bound: changes of cards, places and memories

\* maybe_compact_npc indexes the exchanges from the end: it cannot keep none.
ASSUME KeepExchangesAssumption == KeepExchanges \in Nat \ {0}

ASSUME ExchangeBounds == MaxTalks \in Nat /\ MaxAsks \in Nat /\ MaxChanges \in Nat

VARIABLES
  keptTalk,   \* the session as the database has it
  liveTalk,   \* the session of the running turn
  asking,     \* the request a character is answering, Quiet, or Rest between turns
  left        \* bound: how many requests and changes are left

exchangeVars == <<keptTalk, liveTalk, asking, left>>

Rest == [stage |-> "rest"]
Quiet == [stage |-> "quiet"]
NoDraft == [seq |-> 0]
Nowhere == "nowhere"

Card(rev) == [kind |-> "card", revision |-> rev]
CardUpdate(rev) == [kind |-> "update", revision |-> rev]
Told(beats) == [kind |-> "told", beats |-> beats]
Spoken == [kind |-> "spoken"]

Each(value) == [n \in Npcs |-> value]

(* shown and npc_injected_card_revision are maps: a missing key is {}.     *)
(* A new chat, or one saved before histories had cards.                    *)
ExchangeInit ==
  /\ \E there \in Venues : \E old \in {<< >>, <<Told({}), Spoken>>} :
       keptTalk = [seq |-> 0, turn |-> 0, beats |-> {}, player |-> CHOOSE p \in Venues : TRUE,
                   at |-> Each(there), revision |-> Each(0), injected |-> Each({}),
                   history |-> Each(old), delivered |-> Each(0), shown |-> Each({}),
                   drafts |-> Each(NoDraft)]
  /\ liveTalk = keptTalk
  /\ asking = Rest
  /\ left = [asks |-> MaxAsks, changes |-> MaxChanges]

-----------------------------------------------------------------------------
(* Who hears and who is told.                                              *)

\* Present, visible and able to hear: npc_can_react.
Hearers(t) == {n \in Npcs : t.at[n] = t.player}

(* record_event_memory: a room note is left where everybody heard it, in   *)
(* the place where the player is now.                                      *)
NoteOf(t, heard) == IF Hearers(t) \subseteq heard THEN t.player ELSE Nowhere

Beat(t, seq, actor, heard) ==
  [seq |-> seq, actor |-> actor, turn |-> t.turn, heard |-> heard, note |-> NoteOf(t, heard)]

\* turn_player_event: the player's action of this turn, once somebody heard it.
PlayerBeat(t) == {b \in t.beats : b.actor = "player" /\ b.turn = t.turn}

(* record_player_for and record_player_for_direct: the first request of a  *)
(* turn makes the beat; later ones add to its witnesses.                   *)
PlayerRecorded(t, heard) ==
  IF PlayerBeat(t) = {}
  THEN [t EXCEPT !.seq = @ + 1, !.beats = @ \cup {Beat(t, t.seq + 1, "player", heard)}]
  ELSE [t EXCEPT !.beats = {IF b \in PlayerBeat(t) THEN [b EXCEPT !.heard = @ \cup heard] ELSE b : b \in @}]

\* What the request of n tells: room notes of its place, and drafts it heard.
Observations(t, n) ==
  {b.seq : b \in {c \in t.beats : /\ c.note = t.at[n] /\ c.seq > t.delivered[n]
                                  /\ c.actor # n /\ n \in c.heard
                                  /\ ~ (c.actor = "player" /\ c.turn = t.turn)}}
  \cup {t.drafts[k].seq : k \in {k \in Npcs \ {n} : /\ t.drafts[k] # NoDraft
                                                    /\ t.drafts[k].seq > t.delivered[n]
                                                    /\ n \in t.drafts[k].heard}}

-----------------------------------------------------------------------------
(* A character's history.                                                  *)

NpcRoleUser(m) == m.kind \in {"card", "update", "told"}
IsNpcCardMessage(m) == m.kind \in {"card", "update"}

NpcCut(h) ==
  LET starts == {i \in DOMAIN h : NpcRoleUser(h[i])}
  IN  {i \in starts : Cardinality({j \in starts : j >= i}) = KeepExchanges /\ Cardinality(starts) > KeepExchanges}

\* maybe_compact_npc: over its limit or not, either may be the case.
NpcCompacted(h) == {h} \cup {SubSeq(h, cut, Len(h)) : cut \in NpcCut(h)}

(* ensure_npc_card_injected: the card leads a history that has none; a     *)
(* later revision is appended.                                             *)
CardInjected(t, n) ==
  IF \E i \in DOMAIN t.history[n] : IsNpcCardMessage(t.history[n][i])
  THEN IF t.injected[n] = {t.revision[n]} THEN t
       ELSE [t EXCEPT !.history[n] = Append(@, CardUpdate(t.revision[n])), !.injected[n] = {t.revision[n]}]
  ELSE [t EXCEPT !.history[n] = <<Card(t.revision[n])>> \o @, !.injected[n] = {t.revision[n]}]

\* Mutant of Briefed: the card is stated before the history is compacted.
BriefedFirst(t, n) ==
  LET u == CardInjected(t, n) IN {[u EXCEPT !.history[n] = h] : h \in NpcCompacted(u.history[n])}

Briefed(t, n) == {CardInjected([t EXCEPT !.history[n] = h], n) : h \in NpcCompacted(t.history[n])}

-----------------------------------------------------------------------------
(* A turn.                                                                 *)

OpenTalk ==
  /\ asking = Rest /\ keptTalk.turn < MaxTalks
  /\ liveTalk' = [keptTalk EXCEPT !.turn = @ + 1]
  /\ asking' = Quiet
  /\ UNCHANGED <<keptTalk, left>>

(* ask_npc up to the request; a correction needs a draft to correct.       *)
AskNpc(n, loud, correcting) ==
  /\ asking = Quiet
  /\ n \in Hearers(liveTalk)
  /\ left.asks > 0 /\ left' = [left EXCEPT !.asks = @ - 1]
  /\ correcting => liveTalk.drafts[n] # NoDraft
  /\ LET heard == {n} \cup IF loud THEN Hearers(liveTalk) ELSE {}
         t == PlayerRecorded(liveTalk, heard)
     IN  /\ liveTalk' \in Briefed([t EXCEPT !.shown[n] = {t.seq}], n)
         /\ asking' = [stage |-> "asked", npc |-> n, loud |-> loud, correcting |-> correcting,
                       heard |-> UNION {b.heard : b \in PlayerBeat(t)}, told |-> Observations(t, n)]
  /\ UNCHANGED keptTalk

(* draft_with_response: an answer replaces the one before and keeps its    *)
(* place among the beats.                                                  *)
NpcAnswers ==
  /\ asking.stage = "asked"
  /\ LET n == asking.npc
         first == liveTalk.drafts[n] = NoDraft
         seq == IF first THEN liveTalk.seq + 1 ELSE liveTalk.drafts[n].seq
     IN  liveTalk' = [liveTalk EXCEPT
           !.seq = IF first THEN seq ELSE @,
           !.drafts[n] = [seq |-> seq, loud |-> asking.loud, heard |-> asking.heard, told |-> asking.told]]
  /\ asking' = Quiet
  /\ UNCHANGED <<keptTalk, left>>

(* An empty answer takes the draft back; so does the failure of a request  *)
(* that was to correct it.                                                 *)
NpcFails(empty) ==
  /\ asking.stage = "asked"
  /\ liveTalk' = [liveTalk EXCEPT !.drafts[asking.npc] = IF empty \/ asking.correcting THEN NoDraft ELSE @]
  /\ asking' = Quiet
  /\ UNCHANGED <<keptTalk, left>>

Drafted(t) == {n \in Npcs : t.drafts[n] # NoDraft}

\* Mutant of Committed: the cursor stays where it was.
CommittedCursorLeft(t) ==
  [t EXCEPT
     !.beats = @ \cup {Beat(t, t.drafts[n].seq, n, t.drafts[n].heard) : n \in Drafted(t)},
     !.history = [n \in Npcs |-> IF n \in Drafted(t) THEN @[n] \o <<Told(t.drafts[n].told), Spoken>> ELSE @[n]],
     !.drafts = Each(NoDraft), !.shown = Each({})]

(* commit_turn_without_memory_consolidation.                               *)
Committed(t) ==
  [t EXCEPT
     !.beats = @ \cup {Beat(t, t.drafts[n].seq, n, t.drafts[n].heard) : n \in Drafted(t)},
     !.history = [n \in Npcs |-> IF n \in Drafted(t) THEN @[n] \o <<Told(t.drafts[n].told), Spoken>> ELSE @[n]],
     !.delivered = [n \in Npcs |-> IF n \in Drafted(t) /\ t.shown[n] # {} THEN CHOOSE s \in t.shown[n] : TRUE ELSE @[n]],
     !.drafts = Each(NoDraft), !.shown = Each({})]

\* An action that no character was asked about is heard by all who are there.
Recorded(t) == IF PlayerBeat(t) = {} THEN PlayerRecorded(t, Hearers(t)) ELSE t

CloseTalk ==
  /\ asking = Quiet
  /\ keptTalk' = Committed(Recorded(liveTalk))
  /\ liveTalk' = keptTalk'
  /\ asking' = Rest
  /\ UNCHANGED left

\* The turn fails, is cancelled or is lost: the staged session is dropped.
DropTalk ==
  /\ asking # Rest
  /\ liveTalk' = keptTalk
  /\ asking' = Rest
  /\ UNCHANGED <<keptTalk, left>>

-----------------------------------------------------------------------------
(* What the tools of the game master and the debug panel change meanwhile. *)

(* Between turns a command changes the saved session, in a turn a tool the *)
(* staged one; liveTalk stands for both, for it is keptTalk at rest.       *)
Changed(t) ==
  /\ asking \in {Rest, Quiet}
  /\ left.changes > 0 /\ left' = [left EXCEPT !.changes = @ - 1]
  /\ liveTalk' = t
  /\ keptTalk' = IF asking = Rest THEN t ELSE keptTalk
  /\ UNCHANGED asking

\* update_npc and update_npc_character
UpdateCard(n) == Changed([liveTalk EXCEPT !.revision[n] = @ + 1])

\* set_npc_presence, set_npc_whereabouts
NpcGoes(n, p) == liveTalk.at[n] # p /\ Changed([liveTalk EXCEPT !.at[n] = p])

\* The player walks: only in a turn.
PlayerGoes(p) ==
  /\ asking = Quiet /\ liveTalk.player # p
  /\ left.changes > 0 /\ left' = [left EXCEPT !.changes = @ - 1]
  /\ liveTalk' = [liveTalk EXCEPT !.player = p]
  /\ UNCHANGED <<keptTalk, asking>>

(* reset_npc_memory, by the debug panel, between turns.                    *)
ResetNpcMemory(n) ==
  /\ asking = Rest
  /\ left.changes > 0 /\ left' = [left EXCEPT !.changes = @ - 1]
  /\ keptTalk' = [keptTalk EXCEPT !.history[n] = << >>, !.injected[n] = {}, !.drafts[n] = NoDraft,
                                  !.delivered[n] = keptTalk.seq, !.shown[n] = {keptTalk.seq}]
  /\ liveTalk' = keptTalk'
  /\ UNCHANGED asking

ExchangeNext ==
  \/ OpenTalk \/ NpcAnswers \/ CloseTalk \/ DropTalk
  \/ \E empty \in BOOLEAN : NpcFails(empty)
  \/ \E p \in Venues : PlayerGoes(p)
  \/ \E n \in Npcs :
       \/ \E loud, correcting \in BOOLEAN : AskNpc(n, loud, correcting)
       \/ \E p \in Venues : NpcGoes(n, p)
       \/ UpdateCard(n) \/ ResetNpcMemory(n)

ExchangeSpec == ExchangeInit /\ [][ExchangeNext]_exchangeVars

-----------------------------------------------------------------------------
(* Properties.                                                             *)

ExchangeTypeOK ==
  /\ \A t \in {keptTalk, liveTalk} :
       /\ t.seq \in 0 .. (2 * MaxAsks + MaxTalks) /\ t.turn \in 0 .. MaxTalks
       /\ \A b \in t.beats : b.seq \in 1 .. t.seq /\ b.heard \subseteq Npcs /\ b.note \in Venues \cup {Nowhere}
       /\ \A n \in Npcs : t.delivered[n] \in 0 .. t.seq /\ t.revision[n] \in 0 .. MaxChanges
  /\ asking \in {Rest, Quiet} \/ (asking.stage = "asked" /\ asking.npc \in Npcs)

Stated(h) == {i \in DOMAIN h : IsNpcCardMessage(h[i])}

(* ensure_npc_card_injected: what the request says last of who the         *)
(* character is, is the card as it is now, whatever was compacted, edited, *)
(* reset or dropped since it was first stated.                             *)
CardCurrent ==
  asking.stage = "asked" =>
    LET h == liveTalk.history[asking.npc]
    IN  \E i \in Stated(h) : /\ \A j \in Stated(h) : j <= i
                             /\ h[i].revision = liveTalk.revision[asking.npc]

(* snapshot_shown and commit_turn: over its turns a character is told a    *)
(* beat once and never one of its own, with drafts that were corrected,    *)
(* answers that failed and turns that were dropped in between.             *)
BeatsToldOnce ==
  \A n \in Npcs :
    LET h == keptTalk.history[n]
        tellings == {i \in DOMAIN h : h[i].kind = "told"}
    IN  /\ \A i, j \in tellings : i # j => h[i].beats \cap h[j].beats = {}
        /\ \A i \in tellings : \A b \in keptTalk.beats : b.actor = n => b.seq \notin h[i].beats

(* "Direct ask_npc exchanges are private by default" (record_player_for_   *)
(* direct): what is answered to a request that is not loud is heard by the *)
(* one who was asked.                                                      *)
PrivateStays ==
  \A n \in Drafted(liveTalk) : ~ liveTalk.drafts[n].loud => liveTalk.drafts[n].heard = {n}
=============================================================================
